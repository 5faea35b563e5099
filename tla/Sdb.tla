-------------------------------- MODULE Sdb --------------------------------
(***************************************************************************)
(* The ptrace debugger of super_debugger (honorsProjekt/tryingPtrace.cpp): *)
(* main_debugger, its command handler prog_active, and the breakpoint      *)
(* bookkeeping they share.  The line tables come from ParseObjDump.        *)
(*                                                                         *)
(* While the tracee is stopped nothing runs but the debugger, so what      *)
(* prog_active does between two points where the tracee runs, or where it  *)
(* reads the user's next line, is one action.                              *)
(***************************************************************************)
EXTENDS Tracee

CONSTANTS
  line_to_addr,  \* line -> address of its first instruction block
  addr_to_line,  \* address of the first instruction of a block -> line
  LineInput,     \* the line numbers the user types
  MaxBrkpts      \* bound on brkpt_num

ASSUME TablesAssumption ==
  /\ DOMAIN line_to_addr \subseteq Nat
  /\ DOMAIN addr_to_line \subseteq Instr
  /\ \A n \in DOMAIN line_to_addr : line_to_addr[n] \in DOMAIN addr_to_line
  /\ \A a \in DOMAIN addr_to_line : addr_to_line[a] \in Nat
  /\ LineInput \subseteq Nat
  /\ MaxBrkpts \in Nat

VARIABLES
  dbg,          \* where the debugger is: "spawn" (first waitpid), "prompt"
                \* (getline in prog_active), "confirm" (confirm_exit), "wait"
                \* (waitpid in main_debugger), "peek" (after the PTRACE_CONT
                \* inside prog_active), "done" (returned from main_debugger)
  is_init_stop, \* argument of the prog_active that prompts
  eof,          \* standard input is at its end
  all_brkpts,   \* address of an inserted breakpoint -> former_data
  helper_brkpt, \* address -> breakpoint number
  brkpt_idx,    \* breakpoint number -> address
  brkpt_batch,  \* addresses waiting to be inserted
  brkpt_num,    \* the last number given
  reset_brkpt,  \* a breakpoint is lifted and must be set again
  former_brkpt, \* its orig_addr
  cont_flag,    \* the last resuming command was "continue"
  former_line   \* line where the last "next" was given

brkptVars == <<all_brkpts, helper_brkpt, brkpt_idx, brkpt_batch, brkpt_num>>
flagVars == <<reset_brkpt, former_brkpt, cont_flag, former_line>>
vars == <<traceeVars, dbg, is_init_stop, eof, brkptVars, flagVars>>

Lines == DOMAIN line_to_addr
Brkpts == DOMAIN all_brkpts
LineAddr == {line_to_addr[n] : n \in Lines}

(* f[k] = e and f.erase(k) of a map. *)
Put(f, k, e) == [x \in DOMAIN f \cup {k} |-> IF x = k THEN e ELSE f[x]]
Erase(f, k) == [x \in DOMAIN f \ {k} |-> f[x]]

-----------------------------------------------------------------------------
(* set_brkpt reads the word at a, replaces its low byte by 0xCC and writes *)
(* the word back: of all the text only the byte at a changes.              *)
Arm(t, a) == [t EXCEPT ![a] = "int3"]

(* insert_brkpt_batch: the set is walked in ascending address order, so    *)
(* the word saved for a breakpoint has none of the INT 3 that the batch    *)
(* puts further on.  A breakpoint already set is skipped.                  *)
InsertBatch ==
  LET new == brkpt_batch \ Brkpts
  IN /\ all_brkpts' = [a \in Brkpts \cup new |->
                        IF a \in new THEN PeekWord(text, a) ELSE all_brkpts[a]]
     /\ text' = IF Stopped
                THEN [x \in Addr |-> IF x \in new THEN "int3" ELSE text[x]]
                ELSE text
     /\ brkpt_batch' = {}

(* What prog_active does when its command loop ends: insert the batch,     *)
(* then resume, one instruction only if a lifted breakpoint must be passed *)
(* or the user is stepping.                                                *)
Leave(cont) ==
  /\ InsertBatch
  /\ Resume(IF is_init_stop \/ (cont /\ ~reset_brkpt) THEN "cont" ELSE "step")
  /\ dbg' = "wait"
  /\ UNCHANGED <<rip, is_init_stop, helper_brkpt, brkpt_idx, brkpt_num,
                 reset_brkpt, former_brkpt>>

(* Slip: handle_brkpt goes back one byte although its caller already did.  *)
BrkptHandlerTwice(t, a) ==
  /\ text' = PokeWord(t, a, all_brkpts[a])
  /\ rip' = a - 1
  /\ reset_brkpt' = TRUE
  /\ former_brkpt' = a
  /\ dbg' = "prompt"
  /\ is_init_stop' = FALSE
  /\ UNCHANGED <<run, eof, brkptVars, cont_flag, former_line>>

(* brkpt_handler: put the saved word back, set rip to the breakpoint, and  *)
(* remember to set it again.  Its look-ups with operator[] in addr_to_line *)
(* and helper_brkpt would insert a missing key; Bookkeeping says that none *)
(* is missing.                                                             *)
BrkptHandler(t, a) ==
  /\ text' = PokeWord(t, a, all_brkpts[a])
  /\ rip' = a
  /\ reset_brkpt' = TRUE
  /\ former_brkpt' = a
  /\ dbg' = "prompt"
  /\ is_init_stop' = FALSE
  /\ UNCHANGED <<run, eof, brkptVars, cont_flag, former_line>>

(* Slips: the INT 3 has not moved rip; single-stepping onto an INT 3 is    *)
(* not told from stepping onto any other line.                             *)
NotPastInt3 == PeekRip \in Brkpts
NeverStepped == FALSE

is_brkpt == PeekRip - 1 \in Brkpts
is_brkpt_step == PeekRip \in Brkpts

-----------------------------------------------------------------------------
(* main_debugger: the first waitpid. *)

FirstStop ==
  /\ dbg = "spawn" /\ child = "trapped"
  /\ child' = "held"
  /\ dbg' = "prompt"
  /\ is_init_stop' = TRUE
  /\ UNCHANGED <<text, rip, run, eof, brkptVars, flagVars>>

(* exec failed: the loop's waitpid fails, status still says "exited". *)
FirstExit ==
  /\ dbg = "spawn" /\ child = "exited"
  /\ dbg' = "done"
  /\ UNCHANGED <<traceeVars, is_init_stop, eof, brkptVars, flagVars>>

-----------------------------------------------------------------------------
(* prog_active: the commands.  "info", "help", "reg" and unknown commands  *)
(* change nothing.                                                         *)

Prompt == dbg = "prompt" /\ ~eof

Run ==
  /\ Prompt /\ is_init_stop
  /\ Leave(cont_flag)
  /\ UNCHANGED <<eof, cont_flag, former_line>>

Continue ==
  /\ Prompt /\ ~is_init_stop
  /\ cont_flag' = TRUE
  /\ Leave(TRUE)
  /\ UNCHANGED <<eof, former_line>>

(* get_linenum uses operator[], which would insert rip -> 0 if rip were    *)
(* not in the table; PromptAtLine says that it always is.                  *)
NextLine ==
  /\ Prompt /\ ~is_init_stop
  /\ former_line' = addr_to_line[rip]
  /\ cont_flag' = FALSE
  /\ Leave(FALSE)
  /\ UNCHANGED eof

(* getline fails: the loop ends as if a resuming command had been given,   *)
(* with the flags of the last one.                                         *)
EndOfInput ==
  /\ dbg = "prompt"
  /\ eof' = TRUE
  /\ Leave(cont_flag)
  /\ UNCHANGED <<cont_flag, former_line>>

(* Slips: only inserted breakpoints count as set; the number is not        *)
(* incremented; the lifted breakpoint is removed but stays to be set again.*)
IsInserted(a) == a \in Brkpts
SameNumber == brkpt_num
StillReset(a) == reset_brkpt

IsSet(a) == a \in DOMAIN helper_brkpt
NewNumber == brkpt_num + 1

(* find_print_brk_loc takes the line, or the first one after it. *)
FirstFrom(n) == {m \in Lines : m >= n /\ \A k \in Lines : k >= n => m <= k}

Break(n) ==
  \E line \in FirstFrom(n) :
    LET a == line_to_addr[line]
    IN /\ Prompt /\ brkpt_num < MaxBrkpts
       /\ ~IsSet(a)
       /\ brkpt_num' = NewNumber
       /\ helper_brkpt' = Put(helper_brkpt, a, NewNumber)
       /\ brkpt_idx' = Put(brkpt_idx, NewNumber, a)
       /\ brkpt_batch' = brkpt_batch \cup {a}
       /\ UNCHANGED <<traceeVars, dbg, is_init_stop, eof, all_brkpts, flagVars>>

(* Removing the breakpoint the user stands on: nothing is left to set again.*)
ResetAfterRm(a) == reset_brkpt /\ ~(a \in Brkpts /\ PeekRip = a)

(* find_print_rm_loc takes the exact line only. *)
Remove(n) ==
  LET a == line_to_addr[n]
  IN /\ Prompt
     /\ n \in Lines
     /\ IsSet(a)
     /\ brkpt_idx' = Erase(brkpt_idx, helper_brkpt[a])
     /\ helper_brkpt' = Erase(helper_brkpt, a)
     /\ brkpt_batch' = brkpt_batch \ {a}
     /\ text' = IF a \in Brkpts THEN PokeWord(text, a, all_brkpts[a]) ELSE text
     /\ all_brkpts' = Erase(all_brkpts, a)
     /\ reset_brkpt' = ResetAfterRm(a)
     /\ UNCHANGED <<rip, child, run, dbg, is_init_stop, eof, brkpt_num,
                    former_brkpt, cont_flag, former_line>>

ExitCmd ==
  /\ Prompt
  /\ dbg' = "confirm"
  /\ UNCHANGED <<traceeVars, is_init_stop, eof, brkptVars, flagVars>>

(* confirm_exit: "no". *)
ConfirmNo ==
  /\ dbg = "confirm" /\ ~eof
  /\ dbg' = "prompt"
  /\ UNCHANGED <<traceeVars, is_init_stop, eof, brkptVars, flagVars>>

(* "yes": SIGKILL, then the command loop ends as for any other command,    *)
(* but the tracee is gone and every request to it fails.                   *)
ConfirmYes ==
  /\ dbg = "confirm" /\ ~eof
  /\ child' = "killed"
  /\ all_brkpts' = [a \in Brkpts \cup brkpt_batch |->
                      IF a \in Brkpts THEN all_brkpts[a]
                      ELSE [x \in Word(a) |-> "ff"]]
  /\ brkpt_batch' = {}
  /\ dbg' = "wait"
  /\ UNCHANGED <<text, rip, run, is_init_stop, eof, helper_brkpt, brkpt_idx,
                 brkpt_num, flagVars>>

(* Any other answer, or none when the input has ended: ask again. *)
ConfirmAgain ==
  /\ dbg = "confirm"
  /\ eof' \in {eof, TRUE}
  /\ UNCHANGED <<traceeVars, dbg, is_init_stop, brkptVars, flagVars>>

-----------------------------------------------------------------------------
(* main_debugger: the waitpid loop, and prog_active up to its prompt. *)

SigtrapStop == dbg = "wait" /\ child = "trapped"

(* They continued through a breakpoint: it has been stepped over, so set   *)
(* it again and let the tracee go.                                         *)
ContinueOver ==
  /\ SigtrapStop /\ cont_flag /\ reset_brkpt
  /\ text' = Arm(text, former_brkpt)
  /\ reset_brkpt' = FALSE
  /\ child' = "running" /\ run' = "cont"
  /\ dbg' = "peek"
  /\ UNCHANGED <<rip, is_init_stop, eof, brkptVars, former_brkpt, cont_flag,
                 former_line>>

(* The is_brkpt that follows that PTRACE_CONT races with the tracee: rip   *)
(* can be read only if the tracee has stopped again by then.               *)
PeekHit ==
  /\ dbg = "peek" /\ is_brkpt
  /\ BrkptHandler(text, rip - 1)
  /\ UNCHANGED child

PeekMiss ==
  /\ dbg = "peek" /\ ~is_brkpt
  /\ dbg' = "wait"
  /\ UNCHANGED <<traceeVars, is_init_stop, eof, brkptVars, flagVars>>

(* Any other stop: a breakpoint stepped off is set again first. *)
StopHere == SigtrapStop /\ ~(cont_flag /\ reset_brkpt)

(* Slip: the breakpoint that was stepped off is forgotten. *)
NotRearmed == text

Rearmed == IF reset_brkpt THEN Arm(text, former_brkpt) ELSE text

StopAtBrkpt ==
  /\ StopHere /\ is_brkpt
  /\ BrkptHandler(Rearmed, rip - 1)
  /\ child' = "held"

StopBeforeBrkpt ==
  /\ StopHere /\ ~is_brkpt /\ is_brkpt_step
  /\ BrkptHandler(Rearmed, rip)
  /\ child' = "held"

(* step_handler: prompt at the start of a block of another line, else      *)
(* step on.                                                                *)
(* Slips: the look-up in addr_to_line is not tested; only a later line is  *)
(* another line.                                                           *)
AtNoLine == rip \notin DOMAIN addr_to_line \/ addr_to_line[rip] # former_line
AtLaterLine == rip \in DOMAIN addr_to_line /\ addr_to_line[rip] > former_line

AtOtherLine ==
  rip \in DOMAIN addr_to_line /\ addr_to_line[rip] # former_line

StepDone ==
  /\ StopHere /\ ~is_brkpt /\ ~is_brkpt_step /\ AtOtherLine
  /\ text' = Rearmed
  /\ reset_brkpt' = FALSE
  /\ child' = "held"
  /\ dbg' = "prompt"
  /\ is_init_stop' = FALSE
  /\ UNCHANGED <<rip, run, eof, brkptVars, former_brkpt, cont_flag, former_line>>

(* Slip: step_handler answers "step on" without PTRACE_SINGLESTEP. *)
StepOff ==
  /\ StopHere /\ ~is_brkpt /\ ~is_brkpt_step /\ ~AtOtherLine
  /\ text' = Rearmed
  /\ reset_brkpt' = FALSE
  /\ child' = "held"
  /\ UNCHANGED <<rip, run, dbg, is_init_stop, eof, brkptVars, former_brkpt,
                 cont_flag, former_line>>

StepOn ==
  /\ StopHere /\ ~is_brkpt /\ ~is_brkpt_step /\ ~AtOtherLine
  /\ text' = Rearmed
  /\ reset_brkpt' = FALSE
  /\ child' = "running" /\ run' = "step"
  /\ UNCHANGED <<rip, dbg, is_init_stop, eof, brkptVars, former_brkpt,
                 cont_flag, former_line>>

(* A stop by any other signal: nothing is done, and waitpid is called      *)
(* again.                                                                  *)
OtherSignal ==
  /\ dbg = "wait" /\ child = "signalled"
  /\ child' = "held"
  /\ UNCHANGED <<text, rip, run, dbg, is_init_stop, eof, brkptVars, flagVars>>

Reap ==
  /\ dbg = "wait" /\ child \in {"exited", "killed"}
  /\ dbg' = "done"
  /\ UNCHANGED <<traceeVars, is_init_stop, eof, brkptVars, flagVars>>

-----------------------------------------------------------------------------
Init ==
  /\ TraceeInit
  /\ dbg = "spawn"
  /\ is_init_stop = TRUE
  /\ eof = FALSE
  /\ all_brkpts = << >>
  /\ helper_brkpt = << >>
  /\ brkpt_idx = << >>
  /\ brkpt_batch = {}
  /\ brkpt_num = 0
  /\ reset_brkpt = FALSE
  /\ former_brkpt = 0
  /\ cont_flag = FALSE
  /\ former_line = 0

Child ==
  TraceeStep /\ UNCHANGED <<dbg, is_init_stop, eof, brkptVars, flagVars>>

User ==
  \/ Run \/ Continue \/ NextLine \/ ExitCmd
  \/ \E n \in LineInput : Break(n) \/ Remove(n)
  \/ ConfirmNo \/ ConfirmYes \/ ConfirmAgain

Wait ==
  \/ FirstStop \/ FirstExit \/ ContinueOver \/ StopAtBrkpt \/ StopBeforeBrkpt
  \/ StepDone \/ StepOn \/ OtherSignal \/ Reap

Peek == PeekHit \/ PeekMiss

(* main_debugger has returned. *)
Terminated == dbg = "done" /\ UNCHANGED vars

Next == Child \/ User \/ EndOfInput \/ Wait \/ Peek \/ Terminated

Spec == Init /\ [][Next]_vars

-----------------------------------------------------------------------------
(* Fairness.  The kernel schedules a runnable tracee, waitpid returns when *)
(* there is something to report, and prog_active goes on by itself once    *)
(* its input has ended.  Nothing obliges the user to type.                 *)
Fairness ==
  /\ WF_vars(Child)
  /\ WF_vars(Wait)
  /\ WF_vars(Peek)
  /\ WF_vars(eof /\ EndOfInput)

FairSpec == Spec /\ Fairness

-----------------------------------------------------------------------------
(* What a layout of the program must satisfy for breakpoints to be          *)
(* independent: the words saved for two of them do not overlap, and no      *)
(* instruction starts one byte after a line, so that rip - 1 being a        *)
(* breakpoint always means that its INT 3 was executed.  Instructions do    *)
(* not overlap (Disjoint) in what compilers emit.                           *)
Spaced == \A a, b \in LineAddr : a < b => a + WordSize <= b
Disjoint == \A i, j \in Instr : i < j => i + Size[i] <= j
LongLines == \A a \in LineAddr : a + 1 \notin Instr

-----------------------------------------------------------------------------
TypeOK ==
  /\ TraceeTypeOK
  /\ dbg \in {"spawn", "prompt", "confirm", "wait", "peek", "done"}
  /\ is_init_stop \in BOOLEAN
  /\ eof \in BOOLEAN
  /\ Brkpts \subseteq LineAddr
  /\ \A a \in Brkpts : all_brkpts[a] \in [Word(a) -> Byte]
  /\ DOMAIN helper_brkpt \subseteq LineAddr
  /\ \A a \in DOMAIN helper_brkpt : helper_brkpt[a] \in 1..brkpt_num
  /\ DOMAIN brkpt_idx \subseteq 1..brkpt_num
  /\ \A n \in DOMAIN brkpt_idx : brkpt_idx[n] \in LineAddr
  /\ brkpt_batch \subseteq LineAddr
  /\ brkpt_num \in Nat
  /\ reset_brkpt \in BOOLEAN
  /\ former_brkpt \in Nat
  /\ cont_flag \in BOOLEAN
  /\ former_line \in Nat

(* The four tables agree: what "info" lists is exactly what is inserted or *)
(* waiting to be inserted, under numbers that are never given twice; and   *)
(* nothing waits once the tracee has been resumed.                         *)
Bookkeeping ==
  /\ DOMAIN helper_brkpt = Brkpts \cup brkpt_batch
  /\ Brkpts \cap brkpt_batch = {}
  /\ \A a \in DOMAIN helper_brkpt :
       helper_brkpt[a] \in DOMAIN brkpt_idx /\ brkpt_idx[helper_brkpt[a]] = a
  /\ \A n \in DOMAIN brkpt_idx :
       brkpt_idx[n] \in DOMAIN helper_brkpt /\ helper_brkpt[brkpt_idx[n]] = n
  /\ dbg \notin {"prompt", "confirm"} => brkpt_batch = {}

(* The text of the tracee is the program, with INT 3 exactly at the        *)
(* breakpoints inserted and not lifted.                                    *)
Lifted == IF reset_brkpt THEN {former_brkpt} ELSE {}
TextIntegrity ==
  child # "killed" =>
    \A x \in Addr : text[x] = IF x \in Brkpts \ Lifted THEN "int3" ELSE "orig"

(* A lifted breakpoint is one of those inserted, and the user who is       *)
(* prompted while it is lifted stands on it: it cannot be forgotten or set *)
(* again in the wrong place.                                               *)
LiftedHere ==
  reset_brkpt =>
    /\ former_brkpt \in Brkpts
    /\ dbg \in {"prompt", "confirm"} => rip = former_brkpt

(* The user is prompted at the start of a line's block, on an instruction  *)
(* that is the program's own: operator[] on the line tables never inserts. *)
PromptAtLine ==
  dbg \in {"prompt", "confirm"} /\ ~is_init_stop =>
    rip \in DOMAIN addr_to_line /\ Intact

(* A running tracee executes the program's instructions or an INT 3 that   *)
(* stands for one, whatever was set, removed, stepped or continued before. *)
OwnCode == child = "running" => rip \in Instr /\ (Intact \/ AtInt3)

(* The debugger moves rip only back over an INT 3 that the tracee has      *)
(* executed: it never makes the program repeat an instruction.             *)
NoRewind ==
  [][rip' # rip /\ dbg \in {"wait", "peek"} /\ dbg' = "prompt"
       => rip' = rip - 1 /\ text[rip'] = "int3"]_vars

(* Every stop is answered: the user gets a prompt or the tracee goes on.   *)
(* In particular a stop that races with the rip read after PTRACE_CONT     *)
(* (PeekHit) is neither lost nor waited for twice.  False when a signal    *)
(* other than SIGTRAP stops the tracee.                                    *)
StopAnswered == Stopped ~> (dbg \in {"prompt", "confirm"} \/ ~Stopped)

(* "next" comes back, if every line of the program does.                   *)
Stepping == dbg = "wait" /\ run = "step" /\ ~cont_flag
StepReturns == Stepping ~> (dbg \in {"prompt", "done"})

(* When the input ends the debugger answers the stops that still come by   *)
(* itself, with the last resuming command, until the program has ended,    *)
(* if it does.                                                             *)
InputEnds ==
  (eof /\ dbg # "confirm" ~> dbg = "done") \/ []<><<Execute>>_vars

-----------------------------------------------------------------------------
(* What comments and messages of the code say, and layouts or inputs exist *)
(* for which the code does not do it.                                      *)

(* "Look up your active breakpoints with 'i' or 'info'" (printIntro) and   *)
(* "resets the data back to normal" (find_print_rm_loc): while the tracee  *)
(* runs, INT 3 stands at the breakpoints "info" lists, but for the one it  *)
(* is stepping off, and nowhere else.                                      *)
ListIsArmed ==
  child = "running" =>
    \A x \in Addr : text[x] = "int3" <=> x \in DOMAIN helper_brkpt \ Lifted
=============================================================================
