------------------------------ MODULE SdbProofs ------------------------------
(***************************************************************************)
(* Proofs about Sdb, for every program, line table and bound: its          *)
(* invariants, and last that it implements LineDebugger when lines are a   *)
(* word apart and longer than one byte.                                    *)
(***************************************************************************)
EXTENDS SdbContract, TLAPS

(* The user stands at a line when prompted, on a tracee that is stopped;   *)
(* no breakpoint is lifted before the first stop, nor after a continue.    *)
Standing ==
  /\ dbg \in {"prompt", "confirm"} =>
       Stopped /\ (~is_init_stop => rip \in DOMAIN addr_to_line)
  /\ dbg \in {"spawn", "peek"} => ~reset_brkpt

(* The inductive invariant that needs nothing of the layout. *)
IInv == TypeOK /\ Bookkeeping /\ LiftedHere /\ Standing

LEMMA LineFacts ==
  /\ LineAddr \subseteq DOMAIN addr_to_line
  /\ LineAddr \subseteq Instr
  /\ Instr \subseteq Nat
  /\ \A a \in LineAddr : a \in Nat /\ a \in Addr
BY ProgramAssumption, TablesAssumption DEF LineAddr, Lines

LEMMA InitIInv == Init => IInv
<1> SUFFICES ASSUME Init PROVE IInv
  OBVIOUS
<1>1. TypeOK
  <2>1. TraceeTypeOK
    BY ProgramAssumption, LineFacts
    DEF Init, TraceeInit, TraceeTypeOK, Byte, ChildState
  <2>2. Brkpts = {} /\ DOMAIN helper_brkpt = {} /\ DOMAIN brkpt_idx = {}
    BY DEF Init, Brkpts
  <2> QED BY <2>1, <2>2 DEF Init, TypeOK
<1>2. Bookkeeping /\ LiftedHere /\ Standing
  BY DEF Init, Bookkeeping, LiftedHere, Standing, Brkpts
<1> QED BY <1>1, <1>2 DEF IInv

-----------------------------------------------------------------------------
(* What the operators on maps and words return. *)

LEMMA ErasedMap ==
  ASSUME NEW f, NEW k
  PROVE  /\ DOMAIN Erase(f, k) = DOMAIN f \ {k}
         /\ \A x \in DOMAIN f \ {k} : Erase(f, k)[x] = f[x]
BY DEF Erase

LEMMA PeekType ==
  ASSUME NEW t \in [Addr -> Byte], NEW a
  PROVE  PeekWord(t, a) \in [Word(a) -> Byte]
BY DEF PeekWord, Byte, Word

LEMMA PokeType ==
  ASSUME NEW t \in [Addr -> Byte], NEW a, NEW w \in [Word(a) -> Byte]
  PROVE  PokeWord(t, a, w) \in [Addr -> Byte]
BY DEF PokeWord, Word

LEMMA ArmType ==
  ASSUME NEW t \in [Addr -> Byte], NEW a
  PROVE  Arm(t, a) \in [Addr -> Byte]
BY DEF Arm, Byte

(* rip - 1 or rip can be a breakpoint only if it could be read. *)
LEMMA HitStopped ==
  ASSUME TypeOK
  PROVE  /\ is_brkpt => Stopped /\ rip - 1 \in Brkpts
         /\ is_brkpt_step => Stopped /\ rip \in Brkpts
BY LineFacts DEF TypeOK, is_brkpt, is_brkpt_step, PeekRip

-----------------------------------------------------------------------------
(* The steps. *)

LEMMA ChildIInv == IInv /\ Child => IInv'
<1> SUFFICES ASSUME IInv, Child PROVE IInv'
  OBVIOUS
<1> USE DEF IInv
<1>1. /\ child = "running"
      /\ text' = text
      /\ rip' \in Nat
      /\ child' \in ChildState
      /\ run' = run
  <2>1. child = "running" /\ UNCHANGED <<text, run>> /\ rip \in Nat
    BY DEF Child, TraceeStep, Execute, Exit, Trap, Fault, RunWild, TypeOK,
           TraceeTypeOK
  <2>2. Retired \in ChildState
    BY DEF Retired, ChildState
  <2>3. CASE Execute
    BY <2>1, <2>2, <2>3, LineFacts, ProgramAssumption DEF Execute, Intact
  <2>4. CASE Exit \/ Trap \/ Fault
    BY <2>1, <2>4 DEF Exit, Trap, Fault, ChildState
  <2>5. CASE RunWild
    BY <2>1, <2>2, <2>5, ProgramAssumption DEF RunWild, ChildState
  <2> QED BY <2>3, <2>4, <2>5 DEF Child, TraceeStep
<1>2. dbg \notin {"prompt", "confirm"}
  BY <1>1 DEF Standing, Stopped
<1>3. UNCHANGED <<dbg, is_init_stop, eof, brkptVars, flagVars>>
  BY DEF Child
<1>4. TypeOK'
  BY <1>1, <1>3 DEF TypeOK, TraceeTypeOK, brkptVars, flagVars, Brkpts
<1>5. Bookkeeping' /\ LiftedHere' /\ Standing'
  BY <1>1, <1>2, <1>3
  DEF Bookkeeping, LiftedHere, Standing, brkptVars, flagVars, Brkpts
<1> QED BY <1>4, <1>5

(* What inserting the batch does, when the tracee is stopped. *)
LEMMA BatchInserted ==
  ASSUME IInv, InsertBatch, Stopped, UNCHANGED <<helper_brkpt, brkpt_idx, brkpt_num>>
  PROVE  /\ Brkpts' = Brkpts \cup brkpt_batch
         /\ brkpt_batch' = {}
         /\ text' \in [Addr -> Byte]
         /\ \A a \in Brkpts' : all_brkpts'[a] \in [Word(a) -> Byte]
<1> USE DEF IInv, InsertBatch
<1>1. /\ Brkpts' = Brkpts \cup brkpt_batch
      /\ \A a \in Brkpts : all_brkpts'[a] = all_brkpts[a]
      /\ \A a \in brkpt_batch \ Brkpts : all_brkpts'[a] = PeekWord(text, a)
  BY DEF Brkpts
<1>2. text' \in [Addr -> Byte]
  BY DEF TypeOK, TraceeTypeOK, Byte
<1>3. \A a \in Brkpts' : all_brkpts'[a] \in [Word(a) -> Byte]
  BY <1>1, PeekType DEF TypeOK, TraceeTypeOK
<1> QED BY <1>1, <1>2, <1>3

LEMMA LeaveIInv ==
  ASSUME IInv, dbg = "prompt", NEW cont, Leave(cont),
         eof' \in BOOLEAN, cont_flag' \in BOOLEAN, former_line' \in Nat
  PROVE  IInv'
<1> USE DEF IInv
<1>1. Stopped
  BY DEF Standing
<1>2. /\ InsertBatch
      /\ child' = "running" /\ run' \in {"cont", "step"}
      /\ dbg' = "wait"
      /\ UNCHANGED <<rip, is_init_stop, helper_brkpt, brkpt_idx, brkpt_num,
                     reset_brkpt, former_brkpt>>
  BY <1>1 DEF Leave, Resume
<1>3. /\ Brkpts' = Brkpts \cup brkpt_batch
      /\ brkpt_batch' = {}
      /\ text' \in [Addr -> Byte]
      /\ \A a \in Brkpts' : all_brkpts'[a] \in [Word(a) -> Byte]
  BY <1>1, <1>2, BatchInserted
<1>4. TypeOK'
  BY <1>2, <1>3 DEF TypeOK, TraceeTypeOK, ChildState
<1>5. Bookkeeping'
  BY <1>2, <1>3 DEF Bookkeeping
<1>6. LiftedHere' /\ Standing'
  BY <1>2, <1>3 DEF LiftedHere, Standing
<1> QED BY <1>4, <1>5, <1>6

LEMMA ResumeCommandsIInv ==
  IInv /\ (Run \/ Continue \/ NextLine \/ EndOfInput) => IInv'
<1> SUFFICES ASSUME IInv, Run \/ Continue \/ NextLine \/ EndOfInput PROVE IInv'
  OBVIOUS
<1>0. TypeOK
  BY DEF IInv
<1>1. CASE Run
  BY <1>0, <1>1, LeaveIInv DEF Run, Prompt, TypeOK
<1>2. CASE Continue
  BY <1>0, <1>2, LeaveIInv DEF Continue, Prompt, TypeOK
<1>3. CASE NextLine
  <2>1. former_line' \in Nat
    BY <1>3, TablesAssumption DEF NextLine, Prompt, IInv, Standing
  <2> QED BY <1>0, <1>3, <2>1, LeaveIInv DEF NextLine, Prompt, TypeOK
<1>4. CASE EndOfInput
  BY <1>0, <1>4, LeaveIInv DEF EndOfInput, TypeOK
<1> QED BY <1>1, <1>2, <1>3, <1>4

LEMMA BreakIInv ==
  ASSUME IInv, NEW n \in LineInput, Break(n) PROVE IInv'
<1> USE DEF IInv
<1>1. PICK line \in FirstFrom(n) :
        LET a == line_to_addr[line]
        IN /\ Prompt /\ ~IsSet(a)
           /\ brkpt_num' = NewNumber
           /\ helper_brkpt' = Put(helper_brkpt, a, NewNumber)
           /\ brkpt_idx' = Put(brkpt_idx, NewNumber, a)
           /\ brkpt_batch' = brkpt_batch \cup {a}
           /\ UNCHANGED <<traceeVars, dbg, is_init_stop, eof, all_brkpts, flagVars>>
  BY DEF Break
<1> DEFINE a == line_to_addr[line]
<1>2. a \in LineAddr
  BY DEF LineAddr, FirstFrom
<1>3. a \notin DOMAIN helper_brkpt
  BY <1>1 DEF IsSet
<1>4. /\ brkpt_num \in Nat
      /\ brkpt_num' = brkpt_num + 1
      /\ brkpt_num + 1 \notin DOMAIN brkpt_idx
  BY <1>1 DEF TypeOK, NewNumber
<1>5. /\ DOMAIN helper_brkpt' = DOMAIN helper_brkpt \cup {a}
      /\ helper_brkpt'[a] = brkpt_num + 1
      /\ \A x \in DOMAIN helper_brkpt \ {a} : helper_brkpt'[x] = helper_brkpt[x]
  <2>1. helper_brkpt' = Put(helper_brkpt, a, brkpt_num + 1)
    BY <1>1 DEF NewNumber
  <2> HIDE DEF a
  <2> QED BY <2>1 DEF Put
<1>6. /\ DOMAIN brkpt_idx' = DOMAIN brkpt_idx \cup {brkpt_num + 1}
      /\ brkpt_idx'[brkpt_num + 1] = a
      /\ \A x \in DOMAIN brkpt_idx \ {brkpt_num + 1} : brkpt_idx'[x] = brkpt_idx[x]
  <2>1. brkpt_idx' = Put(brkpt_idx, brkpt_num + 1, a)
    BY <1>1 DEF NewNumber
  <2> HIDE DEF a
  <2> QED BY <2>1 DEF Put
<1>7. brkpt_batch' = brkpt_batch \cup {a}
  BY <1>1
<1>8. dbg = "prompt" /\ UNCHANGED <<traceeVars, dbg, is_init_stop, eof, all_brkpts, flagVars>>
  BY <1>1 DEF Prompt
<1> HIDE DEF a
<1>9. TypeOK'
  <2>1. TraceeTypeOK' /\ \A x \in Brkpts' : all_brkpts'[x] \in [Word(x)' -> Byte]
    BY <1>8 DEF TypeOK, TraceeTypeOK, traceeVars, Brkpts, Word
  <2>2. /\ DOMAIN helper_brkpt' \subseteq LineAddr
        /\ \A x \in DOMAIN helper_brkpt' : helper_brkpt'[x] \in 1..brkpt_num'
    BY <1>2, <1>3, <1>4, <1>5 DEF TypeOK
  <2>3. /\ DOMAIN brkpt_idx' \subseteq 1..brkpt_num'
        /\ \A x \in DOMAIN brkpt_idx' : brkpt_idx'[x] \in LineAddr
    BY <1>2, <1>4, <1>6 DEF TypeOK
  <2> QED BY <1>2, <1>4, <1>7, <1>8, <2>1, <2>2, <2>3
          DEF TypeOK, flagVars, Brkpts
<1>10. Bookkeeping'
  BY <1>3, <1>4, <1>5, <1>6, <1>7, <1>8 DEF Bookkeeping, Brkpts
<1>11. LiftedHere' /\ Standing'
  BY <1>8 DEF LiftedHere, Standing, Brkpts, Stopped, traceeVars, flagVars
<1> QED BY <1>9, <1>10, <1>11

LEMMA RemoveIInv ==
  ASSUME IInv, NEW n \in LineInput, Remove(n) PROVE IInv'
<1> USE DEF IInv
<1> DEFINE a == line_to_addr[n]
<1>1. /\ dbg = "prompt" /\ Stopped
      /\ a \in LineAddr /\ a \in DOMAIN helper_brkpt
      /\ UNCHANGED <<rip, child, run, dbg, is_init_stop, eof, brkpt_num,
                     former_brkpt, cont_flag, former_line>>
      /\ brkpt_batch' = brkpt_batch \ {a}
      /\ reset_brkpt' = ResetAfterRm(a)
  BY DEF Remove, Prompt, IsSet, LineAddr, Standing
<1>2. /\ DOMAIN brkpt_idx' = DOMAIN brkpt_idx \ {helper_brkpt[a]}
      /\ \A x \in DOMAIN brkpt_idx' : brkpt_idx'[x] = brkpt_idx[x]
  BY ErasedMap DEF Remove
<1>3. /\ DOMAIN helper_brkpt' = DOMAIN helper_brkpt \ {a}
      /\ \A x \in DOMAIN helper_brkpt' : helper_brkpt'[x] = helper_brkpt[x]
  BY ErasedMap DEF Remove
<1>4. /\ Brkpts' = Brkpts \ {a}
      /\ \A x \in Brkpts' : all_brkpts'[x] = all_brkpts[x]
  BY ErasedMap DEF Remove, Brkpts
<1>5. text' \in [Addr -> Byte]
  <2>1. text' = IF a \in Brkpts THEN PokeWord(text, a, all_brkpts[a]) ELSE text
    BY DEF Remove
  <2> QED BY <2>1, PokeType DEF TypeOK, TraceeTypeOK
<1>6. reset_brkpt' \in BOOLEAN
  BY <1>1 DEF TypeOK, ResetAfterRm
<1> HIDE DEF a
<1>7. TypeOK'
  BY <1>1, <1>2, <1>3, <1>4, <1>5, <1>6 DEF TypeOK, TraceeTypeOK, Word
<1>8. Bookkeeping'
  BY <1>1, <1>2, <1>3, <1>4 DEF Bookkeeping
<1>9. LiftedHere'
  BY <1>1, <1>4 DEF LiftedHere, ResetAfterRm, PeekRip
<1>10. Standing'
  BY <1>1 DEF Standing, Stopped
<1> QED BY <1>7, <1>8, <1>9, <1>10

LEMMA ConfirmIInv ==
  IInv /\ (ExitCmd \/ ConfirmNo \/ ConfirmYes \/ ConfirmAgain) => IInv'
<1> SUFFICES ASSUME IInv, ExitCmd \/ ConfirmNo \/ ConfirmYes \/ ConfirmAgain
             PROVE  IInv'
  OBVIOUS
<1> USE DEF IInv
<1>1. CASE ExitCmd \/ ConfirmNo \/ ConfirmAgain
  <2>1. /\ UNCHANGED <<traceeVars, is_init_stop, brkptVars, flagVars>>
        /\ dbg \in {"prompt", "confirm"} /\ dbg' \in {"prompt", "confirm"}
        /\ eof' \in BOOLEAN
    BY <1>1 DEF ExitCmd, ConfirmNo, ConfirmAgain, Prompt, TypeOK
  <2>2. TypeOK'
    BY <2>1 DEF TypeOK, TraceeTypeOK, traceeVars, brkptVars, flagVars, Brkpts, Word
  <2>3. Bookkeeping' /\ LiftedHere' /\ Standing'
    BY <2>1 DEF Bookkeeping, LiftedHere, Standing, traceeVars, brkptVars,
                flagVars, Brkpts, Stopped
  <2> QED BY <2>2, <2>3
<1>2. CASE ConfirmYes
  <2>1. /\ child' = "killed" /\ dbg' = "wait" /\ brkpt_batch' = {}
        /\ Brkpts' = Brkpts \cup brkpt_batch
        /\ \A a \in Brkpts : all_brkpts'[a] = all_brkpts[a]
        /\ \A a \in brkpt_batch \ Brkpts : all_brkpts'[a] = [x \in Word(a) |-> "ff"]
        /\ UNCHANGED <<text, rip, run, is_init_stop, eof, helper_brkpt,
                       brkpt_idx, brkpt_num, flagVars>>
    BY <1>2 DEF ConfirmYes, Brkpts
  <2>2. \A a \in Brkpts' : all_brkpts'[a] \in [Word(a) -> Byte]
    <3>1. \A a : [x \in Word(a) |-> "ff"] \in [Word(a) -> Byte]
      BY DEF Byte
    <3> QED BY <2>1, <3>1 DEF TypeOK
  <2>3. TypeOK'
    BY <2>1, <2>2 DEF TypeOK, TraceeTypeOK, ChildState, flagVars, Word
  <2>4. Bookkeeping' /\ LiftedHere' /\ Standing'
    BY <2>1 DEF Bookkeeping, LiftedHere, Standing, flagVars
  <2> QED BY <2>3, <2>4
<1> QED BY <1>1, <1>2

(* Reporting a breakpoint, from the text t. *)
LEMMA HandlerIInv ==
  ASSUME IInv, NEW t \in [Addr -> Byte], NEW a \in Brkpts, BrkptHandler(t, a),
         child' \in {"trapped", "signalled", "held"},
         dbg \in {"wait", "peek"}
  PROVE  IInv'
<1> USE DEF IInv
<1>1. /\ rip' = a /\ reset_brkpt' = TRUE /\ former_brkpt' = a
      /\ dbg' = "prompt" /\ is_init_stop' = FALSE
      /\ UNCHANGED <<run, eof, brkptVars, cont_flag, former_line>>
  BY DEF BrkptHandler
<1>2. a \in LineAddr /\ a \in Nat /\ a \in DOMAIN addr_to_line
  BY LineFacts DEF TypeOK
<1>3. text' \in [Addr -> Byte]
  BY PokeType DEF BrkptHandler, TypeOK
<1>4. TypeOK'
  BY <1>1, <1>2, <1>3 DEF TypeOK, TraceeTypeOK, ChildState, brkptVars, Brkpts, Word
<1>5. Bookkeeping'
  BY <1>1 DEF Bookkeeping, brkptVars, Brkpts
<1>6. LiftedHere' /\ Standing'
  BY <1>1, <1>2 DEF LiftedHere, Standing, Stopped, brkptVars, Brkpts
<1> QED BY <1>4, <1>5, <1>6

(* The steps that only resume, stop stepping or wait again. *)
LEMMA QuietIInv ==
  ASSUME IInv, text' \in [Addr -> Byte], child' \in ChildState,
         run' \in {"cont", "step"}, reset_brkpt' \in {reset_brkpt, FALSE},
         dbg # "prompt", dbg # "confirm",
         \/ dbg' \in {"wait", "done"}
         \/ dbg' = "peek" /\ reset_brkpt' = FALSE
         \/ /\ dbg' = "prompt" /\ child' = "held" /\ reset_brkpt' = FALSE
            /\ rip \in DOMAIN addr_to_line \/ is_init_stop',
         is_init_stop' \in BOOLEAN,
         UNCHANGED <<rip, eof, brkptVars, former_brkpt, cont_flag, former_line>>
  PROVE  IInv'
<1> USE DEF IInv
<1>1. TypeOK'
  BY DEF TypeOK, TraceeTypeOK, brkptVars, Brkpts, Word
<1>2. Bookkeeping'
  BY DEF TypeOK, Bookkeeping, brkptVars, Brkpts
<1>3. LiftedHere'
  <2>1. CASE reset_brkpt' = FALSE
    BY <2>1 DEF LiftedHere
  <2>2. CASE reset_brkpt' = reset_brkpt /\ reset_brkpt' # FALSE
    BY <2>2 DEF LiftedHere, TypeOK, brkptVars, Brkpts
  <2> QED BY <2>1, <2>2
<1>4. Standing'
  BY DEF Standing, Stopped
<1> QED BY <1>1, <1>2, <1>3, <1>4

LEMMA RearmedType == IInv => Rearmed \in [Addr -> Byte] /\ Arm(text, former_brkpt) \in [Addr -> Byte]
BY ArmType DEF IInv, TypeOK, TraceeTypeOK, Rearmed

LEMMA WaitIInv == IInv /\ (Wait \/ Peek) => IInv'
<1> SUFFICES ASSUME IInv, Wait \/ Peek PROVE IInv'
  OBVIOUS
<1>0. TypeOK /\ LiftedHere /\ Standing
  BY DEF IInv
<1>1. CASE FirstStop \/ FirstExit \/ OtherSignal \/ Reap \/ PeekMiss
  BY <1>0, <1>1, QuietIInv
  DEF FirstStop, FirstExit, OtherSignal, Reap, PeekMiss, TypeOK, TraceeTypeOK,
      ChildState, Standing, traceeVars, flagVars
<1>2. CASE ContinueOver \/ StepOn \/ StepDone
  BY <1>0, <1>2, RearmedType, QuietIInv
  DEF ContinueOver, StepOn, StepDone, AtOtherLine, StopHere, SigtrapStop,
      TypeOK, TraceeTypeOK, ChildState
<1>3. CASE StopAtBrkpt \/ StopBeforeBrkpt
  BY <1>0, <1>3, RearmedType, HitStopped, HandlerIInv
  DEF StopAtBrkpt, StopBeforeBrkpt, StopHere, SigtrapStop
<1>4. CASE PeekHit
  BY <1>0, <1>4, HitStopped, HandlerIInv
  DEF PeekHit, Stopped, TypeOK, TraceeTypeOK
<1> QED BY <1>1, <1>2, <1>3, <1>4 DEF Wait, Peek

LEMMA StutterIInv == IInv /\ UNCHANGED vars => IInv'
<1> SUFFICES ASSUME IInv, UNCHANGED vars PROVE IInv'
  OBVIOUS
<1> USE DEF IInv, vars, traceeVars, brkptVars, flagVars
<1>1. TypeOK'
  BY DEF TypeOK, TraceeTypeOK, Brkpts, Word
<1>2. Bookkeeping'
  BY DEF Bookkeeping, Brkpts
<1>3. LiftedHere' /\ Standing'
  BY DEF LiftedHere, Standing, Stopped, Brkpts
<1> QED BY <1>1, <1>2, <1>3

LEMMA NextIInv == IInv /\ [Next]_vars => IInv'
<1> SUFFICES ASSUME IInv, [Next]_vars PROVE IInv'
  OBVIOUS
<1>1. CASE Child
  BY <1>1, ChildIInv
<1>2. CASE User \/ EndOfInput
  BY <1>2, ResumeCommandsIInv, BreakIInv, RemoveIInv, ConfirmIInv DEF User
<1>3. CASE Wait \/ Peek
  BY <1>3, WaitIInv
<1>4. CASE UNCHANGED vars
  BY <1>4, StutterIInv
<1> QED BY <1>1, <1>2, <1>3, <1>4 DEF Next, Terminated

LEMMA SpecIInv == Spec => []IInv
BY InitIInv, NextIInv, PTL DEF Spec

(* Every variable keeps its type: breakpoints are only ever at lines, with *)
(* a saved word each, and every number given is in the range of brkpt_num. *)
THEOREM TypeCorrect == Spec => []TypeOK
BY SpecIInv, PTL DEF IInv

(* The four breakpoint tables of tryingPtrace.cpp agree, whatever is set,  *)
(* removed, hit or killed, on every program and every layout.              *)
THEOREM TablesAgree == Spec => []Bookkeeping
BY SpecIInv, PTL DEF IInv

(* The breakpoint to set again is one of those inserted, and the user      *)
(* stands on it, on every program and every layout.                        *)
THEOREM LiftedIsHere == Spec => []LiftedHere
BY SpecIInv, PTL DEF IInv

-----------------------------------------------------------------------------
(* Breakpoints leave the program what it is, when the words saved for two  *)
(* of them do not overlap (Spaced).                                        *)

(* What is saved for a breakpoint is the program's own code. *)
SavedOrig ==
  child # "killed" => \A a \in Brkpts : \A x \in Word(a) : all_brkpts[a][x] = "orig"

TInv == IInv /\ TextIntegrity /\ SavedOrig

LEMMA InitTInv == Init => TInv
BY InitIInv DEF TInv, Init, TraceeInit, TextIntegrity, SavedOrig, Brkpts, Lifted

(* No other breakpoint is in the word saved for one. *)
LEMMA OwnWord ==
  ASSUME Spaced, NEW a \in LineAddr, NEW b \in LineAddr, b \in Word(a)
  PROVE  b = a
BY LineFacts, ProgramAssumption DEF Spaced, Word

LEMMA SelfWord == ASSUME NEW a \in LineAddr PROVE a \in Word(a)
BY LineFacts, ProgramAssumption DEF Word

(* Poking the saved word of a breakpoint takes exactly its INT 3 away.     *)
LEMMA PokeSaved ==
  ASSUME Spaced, TInv, Stopped, NEW a \in Brkpts,
         NEW t, NEW S \in SUBSET Brkpts,
         \A x \in Addr : t[x] = IF x \in S THEN "int3" ELSE "orig"
  PROVE  \A x \in Addr : PokeWord(t, a, all_brkpts[a])[x]
                          = IF x \in S \ {a} THEN "int3" ELSE "orig"
<1> SUFFICES ASSUME NEW x \in Addr
             PROVE  PokeWord(t, a, all_brkpts[a])[x]
                      = IF x \in S \ {a} THEN "int3" ELSE "orig"
  OBVIOUS
<1>0. Brkpts \subseteq LineAddr /\ a \in LineAddr
  BY DEF TInv, IInv, TypeOK
<1>1. CASE x \in Word(a)
  <2>1. PokeWord(t, a, all_brkpts[a])[x] = "orig"
    BY <1>1 DEF PokeWord, TInv, SavedOrig, Stopped
  <2>2. x \notin S \ {a}
    BY <1>0, <1>1, OwnWord
  <2> QED BY <2>1, <2>2
<1>2. CASE x \notin Word(a)
  BY <1>0, <1>2, SelfWord DEF PokeWord
<1> QED BY <1>1, <1>2

LEMMA ChildTInv == TInv /\ Child => TInv'
<1> SUFFICES ASSUME TInv, Child PROVE TInv'
  OBVIOUS
<1>1. /\ child # "killed"
      /\ UNCHANGED <<text, all_brkpts, reset_brkpt, former_brkpt>>
  BY DEF Child, TraceeStep, Execute, Exit, Trap, Fault, RunWild, brkptVars, flagVars
<1>2. TextIntegrity' /\ SavedOrig'
  BY <1>1 DEF TInv, TextIntegrity, SavedOrig, Brkpts, Lifted, Word
<1> QED BY <1>2, ChildIInv DEF TInv

LEMMA LeaveTInv ==
  ASSUME Spaced, TInv, IInv', dbg = "prompt", NEW cont, Leave(cont)
  PROVE  TInv'
<1> DEFINE new == brkpt_batch \ Brkpts
<1>1. Stopped /\ child # "killed"
  BY DEF TInv, IInv, Standing, Stopped
<1>2. /\ Brkpts' = Brkpts \cup new
      /\ \A a \in Brkpts : all_brkpts'[a] = all_brkpts[a]
      /\ \A a \in new : all_brkpts'[a] = PeekWord(text, a)
      /\ \A x \in Addr : text'[x] = IF x \in new THEN "int3" ELSE text[x]
      /\ UNCHANGED <<reset_brkpt, former_brkpt>>
  BY <1>1 DEF Leave, InsertBatch, Brkpts
<1>3. \A x \in Addr : text[x] = IF x \in Brkpts \ Lifted THEN "int3" ELSE "orig"
  BY <1>1 DEF TInv, TextIntegrity
<1>4. Lifted' = Lifted /\ Lifted \subseteq Brkpts
  BY <1>2 DEF Lifted, TInv, IInv, LiftedHere
<1>5. TextIntegrity'
  BY <1>2, <1>3, <1>4 DEF TextIntegrity
<1>6. ASSUME NEW a \in new, NEW x \in Word(a) PROVE all_brkpts'[a][x] = "orig"
  <2>1. a \in LineAddr /\ Brkpts \subseteq LineAddr /\ x \in Addr
    BY DEF TInv, IInv, TypeOK, Word
  <2>2. x \notin Brkpts
    BY <2>1, OwnWord
  <2>3. PeekWord(text, a)[x] = text[x]
    BY <1>1 DEF PeekWord
  <2> QED BY <1>2, <1>3, <2>1, <2>2, <2>3
<1>7. \A a \in Brkpts : \A x \in Word(a) : all_brkpts'[a][x] = "orig"
  BY <1>1, <1>2 DEF TInv, SavedOrig
<1>8. SavedOrig'
  BY <1>2, <1>6, <1>7 DEF SavedOrig, Word
<1> QED BY <1>5, <1>8 DEF TInv

LEMMA UserTInv == Spaced /\ TInv /\ (User \/ EndOfInput) => TInv'
<1> SUFFICES ASSUME Spaced, TInv, User \/ EndOfInput PROVE TInv'
  OBVIOUS
<1>0. IInv /\ IInv'
  BY ResumeCommandsIInv, BreakIInv, RemoveIInv, ConfirmIInv DEF TInv, User
<1>1. CASE Run \/ Continue \/ NextLine \/ EndOfInput
  BY <1>0, <1>1, LeaveTInv DEF Run, Continue, NextLine, EndOfInput, Prompt
<1>2. CASE \/ ExitCmd \/ ConfirmNo \/ ConfirmAgain
           \/ \E n \in LineInput : Break(n)
  <2>1. UNCHANGED <<text, child, all_brkpts, reset_brkpt, former_brkpt>>
    BY <1>2 DEF ExitCmd, ConfirmNo, ConfirmAgain, Break, traceeVars, brkptVars,
                flagVars
  <2>2. TextIntegrity' /\ SavedOrig'
    BY <2>1 DEF TInv, TextIntegrity, SavedOrig, Brkpts, Lifted, Word
  <2> QED BY <1>0, <2>2 DEF TInv
<1>3. CASE ConfirmYes
  BY <1>0, <1>3 DEF TInv, ConfirmYes, TextIntegrity, SavedOrig
<1>4. ASSUME NEW n \in LineInput, Remove(n) PROVE TInv'
  <2> DEFINE a == line_to_addr[n]
  <2>1. Stopped /\ child # "killed" /\ UNCHANGED <<rip, child, former_brkpt>>
    BY <1>0, <1>4 DEF Remove, Prompt, IInv, Standing, Stopped
  <2>2. /\ text' = IF a \in Brkpts THEN PokeWord(text, a, all_brkpts[a]) ELSE text
        /\ reset_brkpt' = ResetAfterRm(a)
        /\ Brkpts' = Brkpts \ {a}
        /\ \A x \in Brkpts' : all_brkpts'[x] = all_brkpts[x]
    BY <1>4, ErasedMap DEF Remove, Brkpts
  <2>3. \A x \in Addr : text[x] = IF x \in Brkpts \ Lifted THEN "int3" ELSE "orig"
    BY <2>1 DEF TInv, TextIntegrity
  <2>4. \A x \in Addr : text'[x] = IF x \in (Brkpts \ Lifted) \ {a} THEN "int3" ELSE "orig"
    <3> HIDE DEF a
    <3>1. CASE a \in Brkpts
      <4> DEFINE S == Brkpts \ Lifted
      <4>1. S \in SUBSET Brkpts /\ \A x \in Addr : text[x] = IF x \in S THEN "int3" ELSE "orig"
        BY <2>3
      <4> HIDE DEF S
      <4>2. \A x \in Addr : PokeWord(text, a, all_brkpts[a])[x]
                              = IF x \in S \ {a} THEN "int3" ELSE "orig"
        BY <2>1, <3>1, <4>1, PokeSaved
      <4> QED BY <2>2, <3>1, <4>2 DEF S
    <3>2. CASE a \notin Brkpts
      BY <2>2, <2>3, <3>2
    <3> QED BY <3>1, <3>2
  <2>5. Brkpts' \ Lifted' = (Brkpts \ Lifted) \ {a}
    <3>1. reset_brkpt \in BOOLEAN /\ (reset_brkpt => rip = former_brkpt)
      BY <1>0, <1>4 DEF IInv, TypeOK, LiftedHere, Remove, Prompt
    <3> HIDE DEF a
    <3>2. CASE reset_brkpt /\ a = former_brkpt
      <4>1. former_brkpt \in Brkpts /\ PeekRip = former_brkpt
        BY <1>0, <2>1, <3>1, <3>2 DEF IInv, LiftedHere, PeekRip
      <4> QED BY <2>1, <2>2, <3>2, <4>1 DEF Lifted, ResetAfterRm
    <3>3. CASE reset_brkpt /\ a # former_brkpt
      <4>1. reset_brkpt'
        BY <2>1, <2>2, <3>1, <3>3 DEF ResetAfterRm, PeekRip
      <4> QED BY <2>1, <2>2, <3>3, <4>1 DEF Lifted
    <3>4. CASE ~reset_brkpt
      BY <2>1, <2>2, <3>4 DEF Lifted, ResetAfterRm
    <3> QED BY <3>1, <3>2, <3>3, <3>4
  <2>6. TextIntegrity' /\ SavedOrig'
    BY <2>1, <2>2, <2>4, <2>5 DEF TInv, TextIntegrity, SavedOrig, Word
  <2> QED BY <1>0, <2>6 DEF TInv
<1> QED BY <1>1, <1>2, <1>3, <1>4 DEF User

(* Setting the lifted breakpoint again. *)
LEMMA RearmedText ==
  ASSUME TInv, child # "killed"
  PROVE  /\ \A x \in Addr : Rearmed[x] = IF x \in Brkpts THEN "int3" ELSE "orig"
         /\ reset_brkpt => Arm(text, former_brkpt) = Rearmed
BY LineFacts DEF TInv, IInv, TypeOK, TraceeTypeOK, TextIntegrity, LiftedHere, Lifted,
                 Rearmed, Arm

LEMMA HandlerTInv ==
  ASSUME Spaced, TInv, IInv', Stopped, child' # "killed", NEW t, NEW a \in Brkpts,
         BrkptHandler(t, a),
         \A x \in Addr : t[x] = IF x \in Brkpts THEN "int3" ELSE "orig"
  PROVE  TInv'
<1>1. text' = PokeWord(t, a, all_brkpts[a]) /\ UNCHANGED all_brkpts
  BY DEF BrkptHandler, brkptVars
<1>2. Brkpts' = Brkpts /\ Lifted' = {a}
  BY DEF BrkptHandler, Lifted, Brkpts, brkptVars
<1>3. \A x \in Addr : text'[x] = IF x \in Brkpts \ {a} THEN "int3" ELSE "orig"
  BY <1>1, PokeSaved
<1>4. SavedOrig'
  BY <1>1, <1>2 DEF TInv, SavedOrig, Stopped, Word
<1> QED BY <1>2, <1>3, <1>4 DEF TInv, TextIntegrity

LEMMA WaitTInv == Spaced /\ TInv /\ (Wait \/ Peek) => TInv'
<1> SUFFICES ASSUME Spaced, TInv, Wait \/ Peek PROVE TInv'
  OBVIOUS
<1>0. IInv /\ IInv'
  BY WaitIInv DEF TInv
<1>1. CASE FirstStop \/ FirstExit \/ OtherSignal \/ Reap \/ PeekMiss
  <2>1. /\ UNCHANGED <<text, all_brkpts, reset_brkpt, former_brkpt>>
        /\ child = "killed" <=> child' = "killed"
    BY <1>1 DEF FirstStop, FirstExit, OtherSignal, Reap, PeekMiss, traceeVars,
                brkptVars, flagVars
  <2>2. TextIntegrity' /\ SavedOrig'
    BY <2>1 DEF TInv, TextIntegrity, SavedOrig, Brkpts, Lifted, Word
  <2> QED BY <1>0, <2>2 DEF TInv
<1>2. CASE ContinueOver \/ StepOn \/ StepDone
  <2>1. /\ text' = Rearmed /\ reset_brkpt' = FALSE /\ UNCHANGED all_brkpts
        /\ child # "killed"
    BY <1>2, RearmedText DEF ContinueOver, StepOn, StepDone, StopHere,
                             SigtrapStop, brkptVars
  <2>2. TextIntegrity' /\ SavedOrig'
    BY <2>1, RearmedText DEF TInv, TextIntegrity, SavedOrig, Brkpts, Lifted, Word
  <2> QED BY <1>0, <2>2 DEF TInv
<1>3. CASE StopAtBrkpt \/ StopBeforeBrkpt
  <2>1. Stopped /\ child # "killed" /\ child' = "held"
    BY <1>3 DEF StopAtBrkpt, StopBeforeBrkpt, StopHere, SigtrapStop, Stopped
  <2>2. PICK a \in Brkpts : BrkptHandler(Rearmed, a)
    BY <1>0, <1>3, HitStopped DEF StopAtBrkpt, StopBeforeBrkpt, IInv
  <2> QED BY <1>0, <2>1, <2>2, RearmedText, HandlerTInv
<1>4. CASE PeekHit
  <2>1. Stopped /\ rip - 1 \in Brkpts /\ child # "killed" /\ child' = child
    BY <1>0, <1>4, HitStopped DEF PeekHit, Stopped, IInv
  <2>2. Rearmed = text
    BY <1>0, <1>4 DEF Rearmed, PeekHit, IInv, Standing
  <2> QED BY <1>0, <1>4, <2>1, <2>2, RearmedText, HandlerTInv DEF PeekHit
<1> QED BY <1>1, <1>2, <1>3, <1>4 DEF Wait, Peek

LEMMA NextTInv == Spaced /\ TInv /\ [Next]_vars => TInv'
<1> SUFFICES ASSUME Spaced, TInv, [Next]_vars PROVE TInv'
  OBVIOUS
<1>1. CASE UNCHANGED vars
  <2>1. UNCHANGED <<text, child, all_brkpts, reset_brkpt, former_brkpt>>
    BY <1>1 DEF vars, traceeVars, brkptVars, flagVars
  <2>2. TextIntegrity' /\ SavedOrig'
    BY <2>1 DEF TInv, TextIntegrity, SavedOrig, Brkpts, Lifted, Word
  <2> QED BY <1>1, <2>2, StutterIInv DEF TInv
<1>2. CASE Child \/ User \/ EndOfInput \/ Wait \/ Peek
  BY <1>2, ChildTInv, UserTInv, WaitTInv
<1> QED BY <1>1, <1>2 DEF Next, Terminated

LEMMA SpecTInv == ASSUME Spaced PROVE Spec => []TInv
<1>1. TInv /\ [Next]_vars => TInv'
  BY NextTInv
<1> QED BY <1>1, InitTInv, PTL DEF Spec

(* With lines a word apart the tracee's text is the program with INT 3     *)
(* exactly at the breakpoints inserted and not lifted, after any sequence  *)
(* of set, remove, hit, step and continue (set_brkpt, handle_brkpt,        *)
(* find_print_rm_loc and the two places that set a breakpoint again).      *)
THEOREM TextIsProgram == ASSUME Spaced PROVE Spec => []TextIntegrity
BY SpecTInv, PTL DEF TInv

-----------------------------------------------------------------------------
(* Where rip is.  A tracee that was stepped off a lifted breakpoint ran    *)
(* the instruction under it; otherwise a stop is at an instruction, or one *)
(* past an INT 3 that was executed.                                        *)
RipInv ==
  /\ child = "running" =>
       /\ rip \in Instr
       /\ reset_brkpt => rip = former_brkpt /\ run = "step"
  /\ child = "trapped" =>
       rip \in Instr \/ (~reset_brkpt /\ rip - 1 \in Brkpts)
  /\ dbg \in {"spawn", "prompt", "confirm"} => child # "running" /\ rip \in Instr
  /\ dbg \in {"prompt", "confirm"} =>
       IF is_init_stop THEN ~reset_brkpt ELSE rip \notin Brkpts \ Lifted

RInv == TInv /\ RipInv

(* An instruction has no INT 3 past its first byte.                        *)
LEMMA CodeOrig ==
  ASSUME Disjoint, TInv, child # "killed", rip \in Instr
  PROVE  IF rip \in Brkpts \ Lifted THEN AtInt3 ELSE Intact
<1>1. \A x \in Addr : text[x] = IF x \in Brkpts \ Lifted THEN "int3" ELSE "orig"
  BY DEF TInv, TextIntegrity
<1>2. Brkpts \subseteq Instr
  BY LineFacts DEF TInv, IInv, TypeOK
<1>3. \A x \in Code(rip) : x \in Brkpts => x = rip
  BY <1>2, ProgramAssumption DEF Code, Disjoint
<1> QED BY <1>1, <1>2, <1>3, ProgramAssumption DEF Intact, AtInt3, Code

LEMMA InitRInv == Init => RInv
BY InitTInv, ProgramAssumption DEF RInv, RipInv, Init, TraceeInit

(* A running tracee is at one of its instructions; a lifted breakpoint it  *)
(* is at is its own code.                                                  *)
LEMMA RunningAt ==
  ASSUME Disjoint, RInv, child = "running"
  PROVE  /\ rip \in Instr
         /\ Intact \/ AtInt3
         /\ AtInt3 => ~Intact /\ ~reset_brkpt /\ rip \in Brkpts
<1>1. rip \in Instr /\ child # "killed"
  BY DEF RInv, RipInv
<1>2. IF rip \in Brkpts \ Lifted THEN AtInt3 ELSE Intact
  BY <1>1, CodeOrig DEF RInv
<1>3. Intact => ~AtInt3
  BY <1>1, ProgramAssumption DEF Intact, AtInt3, Code
<1>4. rip \in Brkpts \ Lifted => ~reset_brkpt
  BY DEF RInv, RipInv, Lifted
<1> QED BY <1>1, <1>2, <1>3, <1>4

LEMMA ChildRInv == ASSUME Disjoint, RInv, Child PROVE RInv'
<1>1. TInv'
  BY ChildTInv DEF RInv
<1>2. /\ child = "running" /\ rip \in Nat /\ run' = run
      /\ UNCHANGED <<dbg, is_init_stop, all_brkpts, reset_brkpt, former_brkpt>>
  BY DEF RInv, TInv, IInv, TypeOK, TraceeTypeOK, Child, TraceeStep, Execute, Exit,
         Trap, Fault, RunWild, brkptVars, flagVars
<1>3. dbg \notin {"spawn", "prompt", "confirm"}
  BY <1>2 DEF RInv, RipInv
<1>4. Brkpts' = Brkpts
  BY <1>2 DEF Brkpts
<1>5. CASE Execute
  <2>1. rip' \in Instr /\ child' = Retired
    BY <1>5, ProgramAssumption DEF Execute, Intact
  <2>2. child' = "running" => ~reset_brkpt
    BY <1>2, <2>1 DEF Retired, RInv, RipInv
  <2> QED BY <1>1, <1>2, <1>3, <2>1, <2>2 DEF RInv, RipInv
<1>6. CASE Exit \/ Fault
  BY <1>1, <1>2, <1>3, <1>6 DEF Exit, Fault, RInv, RipInv
<1>7. CASE Trap
  <2>1. rip' = rip + 1 /\ child' = "trapped" /\ ~reset_brkpt /\ rip \in Brkpts
    BY <1>2, <1>7, RunningAt DEF Trap
  <2>2. rip' - 1 \in Brkpts'
    BY <1>2, <1>4, <2>1
  <2> QED BY <1>1, <1>2, <1>3, <2>1, <2>2 DEF RInv, RipInv
<1>8. CASE RunWild
  BY <1>8, RunningAt DEF RunWild
<1> QED BY <1>5, <1>6, <1>7, <1>8 DEF Child, TraceeStep

LEMMA LeaveRInv ==
  ASSUME RInv, TInv', dbg = "prompt", NEW cont, Leave(cont)
  PROVE  RInv'
<1>1. Stopped /\ (reset_brkpt => rip = former_brkpt /\ ~is_init_stop)
  BY DEF RInv, RipInv, TInv, IInv, Standing, LiftedHere
<1>2. /\ child' = "running" /\ dbg' = "wait"
      /\ run' = IF is_init_stop \/ (cont /\ ~reset_brkpt) THEN "cont" ELSE "step"
      /\ UNCHANGED <<rip, reset_brkpt, former_brkpt>>
  BY <1>1 DEF Leave, Resume
<1> QED BY <1>1, <1>2 DEF RInv, RipInv

LEMMA UserRInv == ASSUME Spaced, RInv, User \/ EndOfInput PROVE RInv'
<1>0. TInv /\ TInv'
  BY UserTInv DEF RInv
<1>1. CASE Run \/ Continue \/ NextLine \/ EndOfInput
  BY <1>0, <1>1, LeaveRInv DEF Run, Continue, NextLine, EndOfInput, Prompt
<1>2. CASE \/ ExitCmd \/ ConfirmNo \/ ConfirmAgain
           \/ \E n \in LineInput : Break(n)
  <2>1. /\ UNCHANGED <<rip, child, run, is_init_stop, all_brkpts, reset_brkpt,
                       former_brkpt>>
        /\ dbg \in {"prompt", "confirm"} /\ dbg' \in {"prompt", "confirm"}
    BY <1>2 DEF ExitCmd, ConfirmNo, ConfirmAgain, Break, Prompt, traceeVars,
                brkptVars, flagVars
  <2> QED BY <1>0, <2>1 DEF RInv, RipInv, Brkpts, Lifted
<1>3. CASE ConfirmYes
  BY <1>0, <1>3 DEF RInv, RipInv, ConfirmYes
<1>4. ASSUME NEW n \in LineInput, Remove(n) PROVE RInv'
  <2> DEFINE a == line_to_addr[n]
  <2>1. /\ UNCHANGED <<rip, child, dbg, is_init_stop, former_brkpt>>
        /\ dbg = "prompt" /\ Stopped
        /\ reset_brkpt' = ResetAfterRm(a)
        /\ Brkpts' = Brkpts \ {a}
    BY <1>0, <1>4, ErasedMap
    DEF Remove, Prompt, Brkpts, TInv, IInv, Standing
  <2> HIDE DEF a
  <2>2. rip \in Instr /\ child # "running"
    BY <2>1 DEF RInv, RipInv, Stopped
  <2>3. CASE is_init_stop
    BY <1>0, <2>1, <2>2, <2>3 DEF RInv, RipInv, ResetAfterRm
  <2>4. CASE ~is_init_stop
    <3>1. rip \notin Brkpts' \ Lifted'
      BY <2>1, <2>4 DEF RInv, RipInv, Lifted, ResetAfterRm, PeekRip
    <3> QED BY <1>0, <2>1, <2>2, <2>4, <3>1 DEF RInv, RipInv
  <2> QED BY <2>3, <2>4
<1> QED BY <1>1, <1>2, <1>3, <1>4 DEF User

LEMMA HandlerRInv ==
  ASSUME RInv, TInv', NEW t, NEW a \in Brkpts, BrkptHandler(t, a), child' # "running"
  PROVE  RInv'
<1>1. /\ rip' = a /\ dbg' = "prompt" /\ is_init_stop' = FALSE
      /\ Lifted' = {a}
  BY DEF BrkptHandler, Lifted
<1>2. a \in Instr
  BY LineFacts DEF RInv, TInv, IInv, TypeOK
<1> QED BY <1>1, <1>2 DEF RInv, RipInv

LEMMA WaitRInv == ASSUME Spaced, RInv, Wait \/ Peek PROVE RInv'
<1>0. IInv /\ TInv'
  BY WaitTInv DEF RInv, TInv
<1>1. CASE FirstStop
  BY <1>0, <1>1 DEF RInv, RipInv, FirstStop, IInv, Standing, flagVars
<1>2. CASE FirstExit \/ OtherSignal \/ Reap \/ PeekMiss
  <2>1. /\ UNCHANGED <<rip, run, all_brkpts, reset_brkpt, former_brkpt>>
        /\ dbg' \in {"wait", "done"} /\ child' \in {child, "held"}
    BY <1>2 DEF FirstExit, OtherSignal, Reap, PeekMiss, traceeVars, brkptVars,
                flagVars
  <2> QED BY <1>0, <2>1 DEF RInv, RipInv, Brkpts
<1>3. CASE ContinueOver
  BY <1>0, <1>3 DEF RInv, RipInv, ContinueOver, SigtrapStop
<1>4. CASE StepOn \/ StepDone
  <2>1. /\ rip \in Instr /\ rip \notin Brkpts
        /\ UNCHANGED <<rip, all_brkpts>> /\ reset_brkpt' = FALSE
    <3>1. child = "trapped" /\ PeekRip = rip
      BY <1>4 DEF StepOn, StepDone, StopHere, SigtrapStop, PeekRip, Stopped
    <3> QED BY <1>4, <3>1 DEF StepOn, StepDone, is_brkpt, is_brkpt_step, RInv,
                              RipInv, brkptVars
  <2>2. Brkpts' = Brkpts
    BY <2>1 DEF Brkpts
  <2>3. \/ child' = "held" /\ dbg' = "prompt" /\ is_init_stop' = FALSE
        \/ child' = "running" /\ dbg' = "wait"
    BY <1>4 DEF StepOn, StepDone, StopHere, SigtrapStop
  <2> QED BY <1>0, <2>1, <2>2, <2>3 DEF RInv, RipInv
<1>5. CASE StopAtBrkpt \/ StopBeforeBrkpt
  BY <1>0, <1>5, HitStopped, HandlerRInv DEF StopAtBrkpt, StopBeforeBrkpt, IInv
<1>6. CASE PeekHit
  BY <1>0, <1>6, HitStopped, HandlerRInv DEF PeekHit, IInv, Stopped
<1> QED BY <1>1, <1>2, <1>3, <1>4, <1>5, <1>6 DEF Wait, Peek

LEMMA NextRInv == ASSUME Spaced, Disjoint, RInv, [Next]_vars PROVE RInv'
<1>1. CASE UNCHANGED vars
  <2>1. TInv'
    BY <1>1, NextTInv DEF RInv
  <2> QED BY <1>1, <2>1
          DEF RInv, RipInv, vars, traceeVars, brkptVars, flagVars, Brkpts, Lifted
<1>2. CASE Child \/ User \/ EndOfInput \/ Wait \/ Peek
  BY <1>2, ChildRInv, UserRInv, WaitRInv
<1> QED BY <1>1, <1>2 DEF Next, Terminated

LEMMA SpecRInv == ASSUME Spaced, Disjoint PROVE Spec => []RInv
<1>1. RInv /\ [Next]_vars => RInv'
  BY NextRInv
<1> QED BY <1>1, InitRInv, PTL DEF Spec

(* The tracee only executes its own instructions or an INT 3 that stands   *)
(* for one: it is never resumed in the middle of an instruction, nor over  *)
(* bytes a breakpoint left behind.                                         *)
THEOREM RunsOwnCode == ASSUME Spaced, Disjoint PROVE Spec => []OwnCode
<1>1. RInv => OwnCode
  BY RunningAt DEF OwnCode
<1> QED BY <1>1, SpecRInv, PTL

(* The user is prompted at a line of the table, on the program's own       *)
(* instruction: operator[] never grows addr_to_line in get_linenum.        *)
THEOREM PromptsAtLine == ASSUME Spaced, Disjoint PROVE Spec => []PromptAtLine
<1>1. RInv => PromptAtLine
  BY CodeOrig DEF RInv, RipInv, TInv, IInv, Standing, PromptAtLine, Stopped
<1> QED BY <1>1, SpecRInv, PTL

(* When moreover no instruction starts one byte after a line, rip is moved *)
(* only back over an INT 3 that was executed (is_brkpt is exact).          *)
THEOREM NeverRewinds ==
  ASSUME Spaced, Disjoint, LongLines PROVE Spec => NoRewind
<1> DEFINE A == rip' # rip /\ dbg \in {"wait", "peek"} /\ dbg' = "prompt"
                  => rip' = rip - 1 /\ text[rip'] = "int3"
<1>1. ASSUME RInv, Next PROVE A
  <2> SUFFICES ASSUME rip' # rip, dbg \in {"wait", "peek"}, dbg' = "prompt"
               PROVE  rip' = rip - 1 /\ text[rip'] = "int3"
    OBVIOUS
  <2>0. IInv /\ rip \in Nat
    BY <1>1 DEF RInv, TInv, IInv, TypeOK, TraceeTypeOK
  <2>1. StopAtBrkpt \/ PeekHit
    BY <1>1, <2>0, HitStopped
    DEF Next, Child, User, EndOfInput, Wait, Peek, Terminated, Run, Continue,
        NextLine, Leave, ExitCmd, ConfirmNo, ConfirmYes, ConfirmAgain, Break,
        Remove, Prompt, FirstStop, FirstExit, ContinueOver, StopBeforeBrkpt,
        BrkptHandler, PeekRip, StepDone, StepOn, OtherSignal, Reap, PeekMiss,
        vars, traceeVars, IInv
  <2>2. Stopped /\ rip - 1 \in Brkpts /\ rip' = rip - 1 /\ child # "killed"
    BY <2>0, <2>1, HitStopped DEF StopAtBrkpt, PeekHit, BrkptHandler, IInv, Stopped
  <2>3. rip - 1 \in LineAddr /\ rip - 1 \in Addr /\ rip \notin Instr
    <3>1. rip - 1 \in LineAddr /\ (rip - 1) + 1 = rip
      BY <2>0, <2>2 DEF IInv, TypeOK
    <3> QED BY <3>1, LineFacts DEF LongLines
  <2>4. ~reset_brkpt
    BY <1>1, <2>0, <2>1, <2>3
    DEF StopAtBrkpt, StopHere, SigtrapStop, PeekHit, RInv, RipInv, IInv, Standing
  <2>5. text[rip - 1] = "int3"
    BY <1>1, <2>2, <2>3, <2>4 DEF RInv, TInv, TextIntegrity, Lifted
  <2> QED BY <2>2, <2>5
<1>2. RInv /\ [Next]_vars => [A]_vars
  BY <1>1
<1>3. Spec => [][A]_vars
  BY <1>2, SpecRInv, PTL DEF Spec
<1> QED BY <1>3 DEF NoRewind

-----------------------------------------------------------------------------
(* What RInv leaves open.  A step of a "continue" has a breakpoint to set  *)
(* again; a SIGTRAP ends a single step or is an INT 3; a signal finds the  *)
(* tracee at an instruction.                                               *)
StopInv ==
  /\ dbg = "wait" /\ child \in {"running", "trapped"} /\ run = "step" /\ cont_flag
       => reset_brkpt
  /\ dbg = "peek" => run = "cont"
  /\ child = "trapped" /\ dbg \in {"wait", "peek"} =>
       run = "step" \/ rip - 1 \in Brkpts
  /\ child = "signalled" => rip \in Instr

SInv == RInv /\ StopInv

LEMMA InitSInv == Init => SInv
BY InitRInv DEF SInv, StopInv, Init, TraceeInit

-----------------------------------------------------------------------------
(* The tracee is past an INT 3 exactly when is_brkpt says so: an INT 3 is  *)
(* at a breakpoint, and no instruction starts one byte after it.           *)

LEMMA NoLineBefore ==
  ASSUME LongLines, NEW r \in Instr PROVE r - 1 \notin LineAddr
<1> SUFFICES ASSUME r - 1 \in LineAddr PROVE FALSE
  OBVIOUS
<1>1. (r - 1) + 1 = r
  BY LineFacts
<1> QED BY <1>1 DEF LongLines

LEMMA AtInstr ==
  ASSUME LongLines, TInv, rip \in Instr
  PROVE  rip - 1 \notin Brkpts /\ ~PastInt3
<1>1. rip - 1 \notin Brkpts
  BY NoLineBefore DEF TInv, IInv, TypeOK
<1> QED BY <1>1 DEF PastInt3, TInv, TextIntegrity

LEMMA AtInstrNext ==
  ASSUME LongLines, TInv', rip' \in Instr PROVE ~PastInt3'
<1>1. rip' - 1 \notin Brkpts'
  <2>1. Brkpts' \subseteq LineAddr
    BY DEF TInv, IInv, TypeOK
  <2> QED BY <2>1, NoLineBefore
<1> QED BY <1>1 DEF PastInt3, TInv, TextIntegrity

LEMMA PastBrkpt ==
  ASSUME LongLines, SInv, child = "trapped", is_brkpt
  PROVE  PastInt3 /\ rip - 1 \in Brkpts /\ rip \notin Instr /\ ~reset_brkpt
<1>1. rip - 1 \in Brkpts /\ rip - 1 \in Addr
  BY HitStopped, LineFacts DEF SInv, RInv, TInv, IInv, TypeOK
<1>2. rip \notin Instr
  BY <1>1, AtInstr DEF SInv, RInv
<1>3. ~reset_brkpt
  BY <1>2 DEF SInv, RInv, RipInv
<1>4. text[rip - 1] = "int3"
  BY <1>1, <1>3 DEF SInv, RInv, TInv, TextIntegrity, Lifted
<1> QED BY <1>1, <1>2, <1>3, <1>4 DEF PastInt3

(* A stop that is not one of is_brkpt's ends a single step of a "next".    *)
LEMMA SteppedStop ==
  ASSUME LongLines, SInv, StopHere, ~is_brkpt
  PROVE  rip \in Instr /\ ~PastInt3 /\ run = "step" /\ ~cont_flag
<1>1. dbg = "wait" /\ child = "trapped" /\ PeekRip = rip
  BY DEF StopHere, SigtrapStop, PeekRip, Stopped
<1>2. rip - 1 \notin Brkpts
  BY <1>1 DEF is_brkpt
<1>3. rip \in Instr /\ run = "step"
  BY <1>1, <1>2 DEF SInv, RInv, RipInv, StopInv
<1>4. ~cont_flag
  BY <1>1, <1>3 DEF SInv, StopInv, StopHere
<1> QED BY <1>3, <1>4, AtInstr DEF SInv, RInv

-----------------------------------------------------------------------------
(* The invariant is kept. *)

LEMMA ChildStopInv == ASSUME Disjoint, SInv, Child PROVE StopInv'
<1>1. /\ child = "running" /\ run' = run
      /\ UNCHANGED <<dbg, all_brkpts, reset_brkpt, cont_flag>>
  BY DEF Child, TraceeStep, Execute, Exit, Trap, Fault, RunWild, brkptVars, flagVars
<1>2. /\ rip \in Instr /\ rip \in Nat
      /\ AtInt3 => rip \in Brkpts
      /\ Intact \/ AtInt3
  BY <1>1, RunningAt, LineFacts DEF SInv
<1>3. Brkpts' = Brkpts
  BY <1>1 DEF Brkpts
<1>4. CASE Execute
  <2>1. child' = Retired
    BY <1>4 DEF Execute
  <2> QED BY <1>1, <2>1 DEF Retired, SInv, StopInv
<1>5. CASE Exit \/ Fault
  BY <1>1, <1>2, <1>5 DEF Exit, Fault, SInv, StopInv
<1>6. CASE Trap
  <2>1. child' = "trapped" /\ rip' - 1 \in Brkpts'
    BY <1>2, <1>3, <1>6 DEF Trap
  <2> QED BY <1>1, <2>1 DEF SInv, StopInv
<1> QED BY <1>2, <1>4, <1>5, <1>6 DEF Child, TraceeStep, RunWild

LEMMA UserStopInv == ASSUME SInv, User \/ EndOfInput PROVE StopInv'
<1>1. ASSUME dbg = "prompt", NEW cont, Leave(cont), cont_flag' = cont
      PROVE  StopInv'
  <2>1. /\ dbg' = "wait" /\ child' = "running" /\ reset_brkpt' = reset_brkpt
        /\ run' = IF is_init_stop \/ (cont /\ ~reset_brkpt) THEN "cont" ELSE "step"
    BY <1>1 DEF Leave, Resume, SInv, RInv, TInv, IInv, Standing
  <2> QED BY <1>1, <2>1 DEF StopInv
<1>2. CASE Run \/ Continue \/ NextLine \/ EndOfInput
  BY <1>1, <1>2 DEF Run, Continue, NextLine, EndOfInput, Prompt
<1>3. CASE \/ ExitCmd \/ ConfirmNo \/ ConfirmAgain
           \/ \E n \in LineInput : Break(n) \/ Remove(n)
  <2>1. UNCHANGED <<rip, child>> /\ dbg' \in {"prompt", "confirm"}
    BY <1>3 DEF ExitCmd, ConfirmNo, ConfirmAgain, Break, Remove, Prompt, traceeVars
  <2> QED BY <2>1 DEF SInv, StopInv
<1>4. CASE ConfirmYes
  BY <1>4 DEF ConfirmYes, StopInv
<1> QED BY <1>2, <1>3, <1>4 DEF User

LEMMA WaitStopInv == ASSUME LongLines, SInv, Wait \/ Peek PROVE StopInv'
<1>1. CASE FirstStop \/ FirstExit \/ OtherSignal \/ Reap
  BY <1>1 DEF FirstStop, FirstExit, OtherSignal, Reap, traceeVars, StopInv
<1>2. CASE ContinueOver
  BY <1>2 DEF ContinueOver, StopInv
<1>3. CASE StepOn
  BY <1>3, SteppedStop DEF StepOn, StopHere, SigtrapStop, StopInv
<1>4. CASE StopAtBrkpt \/ StopBeforeBrkpt \/ StepDone
  BY <1>4 DEF StopAtBrkpt, StopBeforeBrkpt, StepDone, BrkptHandler, StopInv
<1>5. CASE PeekHit
  <2>1. child' = child /\ dbg' = "prompt" /\ rip' \in Instr
    BY <1>5, HitStopped, LineFacts
    DEF PeekHit, BrkptHandler, SInv, RInv, TInv, IInv, TypeOK
  <2> QED BY <2>1 DEF StopInv
<1>6. CASE PeekMiss
  BY <1>6 DEF PeekMiss, SInv, StopInv, traceeVars, brkptVars, flagVars, Brkpts
<1> QED BY <1>1, <1>2, <1>3, <1>4, <1>5, <1>6 DEF Wait, Peek

LEMMA NextSInv ==
  ASSUME Spaced, Disjoint, LongLines, SInv, [Next]_vars PROVE SInv'
<1>1. RInv'
  BY NextRInv DEF SInv
<1>2. CASE UNCHANGED vars
  BY <1>1, <1>2
  DEF SInv, StopInv, vars, traceeVars, brkptVars, flagVars, Brkpts
<1>3. CASE Child \/ User \/ EndOfInput \/ Wait \/ Peek
  BY <1>1, <1>3, ChildStopInv, UserStopInv, WaitStopInv DEF SInv
<1> QED BY <1>2, <1>3 DEF Next, Terminated

LEMMA SpecSInv ==
  ASSUME Spaced, Disjoint, LongLines PROVE Spec => []SInv
<1>1. SInv /\ [Next]_vars => SInv'
  BY NextSInv
<1> QED BY <1>1, InitSInv, PTL DEF Spec
-----------------------------------------------------------------------------
(* The initial states, and every step. *)

LEMMA InitRefines == Init => C!Init
<1> SUFFICES ASSUME Init PROVE C!Init
  OBVIOUS
<1>1. /\ ~PastInt3 /\ rip = Start /\ AtPrompt
      /\ DOMAIN helper_brkpt = {} /\ former_line = 0 /\ ~reset_brkpt
  BY DEF Init, TraceeInit, PastInt3, AtPrompt
<1> QED BY <1>1 DEF C!Init

(* Where the tracee is, while the user is prompted and while it runs.      *)
LEMMA Prompted ==
  ASSUME LongLines, RInv, AtPrompt
  PROVE  ~PastInt3 /\ child # "running"
BY AtInstr DEF RInv, RipInv, AtPrompt

LEMMA Resumed ==
  ASSUME RInv, child = "running"
  PROVE  ~AtPrompt /\ ~Ended /\ ~PastInt3
BY DEF RInv, RipInv, AtPrompt, Ended, PastInt3

(* Nothing waits to be inserted once the tracee was resumed.               *)
LEMMA ListInserted ==
  ASSUME RInv, ~AtPrompt PROVE DOMAIN helper_brkpt = Brkpts
BY DEF RInv, TInv, IInv, Bookkeeping, AtPrompt

LEMMA ChildRefines ==
  ASSUME LongLines, Disjoint, SInv, SInv', Child
  PROVE  C!Execute \/ C!End \/ UNCHANGED C!cvars
<1>1. /\ child = "running"
      /\ UNCHANGED <<run, dbg, helper_brkpt, reset_brkpt, cont_flag, former_line>>
  BY DEF Child, TraceeStep, Execute, Exit, Trap, Fault, RunWild, brkptVars, flagVars
<1>2. /\ ~AtPrompt /\ ~AtPrompt' /\ ~Ended /\ ~PastInt3
      /\ DOMAIN helper_brkpt = Brkpts
      /\ rip \in Instr /\ rip \in Nat
  BY <1>1, Resumed, ListInserted, RunningAt, LineFacts DEF SInv, AtPrompt
(* A breakpoint that the tracee passes was lifted. *)
<1>3. Intact /\ rip \in DOMAIN helper_brkpt => reset_brkpt
  <2>1. rip \in Brkpts \ Lifted => AtInt3
    BY <1>1, <1>2, CodeOrig DEF SInv, RInv
  <2>2. Intact => ~AtInt3
    BY <1>1, RunningAt DEF SInv
  <2> QED BY <1>2, <2>1, <2>2 DEF Lifted
<1>4. CASE Execute
  <2>1. /\ Intact /\ rip' \in Succ[rip] /\ rip' \in Instr /\ child' = Retired
    BY <1>4, ProgramAssumption DEF Execute, Intact
  <2>2. child' \in {"running", "trapped"} /\ ~Ended'
    BY <2>1 DEF Retired, Ended
  <2>3. ~PastInt3'
    BY <2>1, AtInstrNext DEF SInv, RInv
  <2>4. child' = "running" => ~reset_brkpt'
    BY <1>1, <2>1 DEF Retired, SInv, RInv, RipInv
  <2>5. C!Execute
    BY <1>1, <1>2, <1>3, <2>1, <2>2, <2>3, <2>4 DEF C!Execute
  <2> QED BY <2>5
<1>5. CASE Exit
  <2>1. /\ Intact /\ Succ[rip] = {} /\ rip' = rip /\ child' = "exited"
        /\ Ended' /\ ~PastInt3'
    BY <1>5 DEF Exit, Ended, PastInt3
  <2>2. C!End
    BY <1>1, <1>2, <1>3, <2>1 DEF C!End
  <2> QED BY <2>2
<1>6. CASE Trap
  <2>1. /\ rip' = rip + 1 /\ child' = "trapped" /\ ~reset_brkpt
        /\ PastInt3' /\ ~Ended' /\ rip' - 1 = rip
    BY <1>1, <1>2, <1>6, RunningAt DEF Trap, SInv, AtInt3, PastInt3, Ended
  <2> QED BY <1>1, <1>2, <2>1 DEF C!cvars
<1>7. CASE Fault
  <2>1. rip' = rip /\ child' = "signalled" /\ ~PastInt3' /\ ~Ended'
    BY <1>7 DEF Fault, PastInt3, Ended
  <2> QED BY <1>1, <1>2, <2>1 DEF C!cvars
<1>8. ~RunWild
  BY <1>1, RunningAt DEF RunWild, SInv
<1> QED BY <1>4, <1>5, <1>6, <1>7, <1>8 DEF Child, TraceeStep
(* The commands.  Ended is false at the prompt: the tracee is stopped.     *)
LEMMA Commanding ==
  ASSUME LongLines, SInv, dbg \in {"prompt", "confirm"}
  PROVE  AtPrompt /\ Stopped /\ ~Ended /\ ~PastInt3
BY Prompted DEF SInv, RInv, TInv, IInv, Standing, AtPrompt, Stopped, Ended

LEMMA LeaveRefines ==
  ASSUME LongLines, SInv, SInv', dbg = "prompt", NEW cont, Leave(cont),
         cont_flag' = cont, cont \in BOOLEAN,
         \/ former_line' = former_line
         \/ /\ ~is_init_stop /\ rip \in DOMAIN addr_to_line
            /\ former_line' = addr_to_line[rip] /\ ~cont
  PROVE  C!ResumeCont \/ C!ResumeStep
<1>1. AtPrompt /\ Stopped /\ ~Ended /\ ~PastInt3
  BY Commanding
<1>2. /\ dbg' = "wait" /\ child' = "running"
      /\ run' = IF is_init_stop \/ (cont /\ ~reset_brkpt) THEN "cont" ELSE "step"
      /\ UNCHANGED <<rip, helper_brkpt, reset_brkpt>>
  BY <1>1 DEF Leave, Resume
<1>3. ~AtPrompt' /\ ~Ended' /\ ~PastInt3'
  BY <1>2 DEF AtPrompt, Ended, PastInt3
<1>4. CASE is_init_stop \/ cont
  <2>1. (run = "cont" \/ cont_flag)' /\ former_line' = former_line
    BY <1>2, <1>4
  <2> QED BY <1>1, <1>2, <1>3, <2>1 DEF C!ResumeCont
<1>5. CASE ~is_init_stop /\ ~cont
  <2>1. ~(run = "cont" \/ cont_flag)'
    BY <1>2, <1>5
  <2> QED BY <1>1, <1>2, <1>3, <2>1 DEF C!ResumeStep
<1> QED BY <1>4, <1>5

LEMMA UserRefines ==
  ASSUME LongLines, SInv, SInv', User \/ EndOfInput
  PROVE  C!Next \/ UNCHANGED C!cvars
<1>1. CASE Run \/ Continue \/ NextLine \/ EndOfInput
  <2>1. is_init_stop \/ dbg # "prompt" \/ rip \in DOMAIN addr_to_line
    BY DEF SInv, RInv, TInv, IInv, Standing
  <2>2. cont_flag \in BOOLEAN
    BY DEF SInv, RInv, TInv, IInv, TypeOK
  <2>3. C!ResumeCont \/ C!ResumeStep
    BY <1>1, <2>1, <2>2, LeaveRefines DEF Run, Continue, NextLine, EndOfInput, Prompt
  <2> QED BY <2>3 DEF C!Next
<1>2. CASE ExitCmd \/ ConfirmNo \/ ConfirmAgain
  <2>1. /\ UNCHANGED <<text, rip, child, run, helper_brkpt, reset_brkpt,
                       cont_flag, former_line>>
        /\ dbg \in {"prompt", "confirm"} /\ dbg' \in {"prompt", "confirm"}
    BY <1>2 DEF ExitCmd, ConfirmNo, ConfirmAgain, Prompt, traceeVars, brkptVars,
                flagVars
  <2>2. AtPrompt /\ AtPrompt' /\ (PastInt3' <=> PastInt3) /\ (Ended' <=> Ended)
    BY <2>1 DEF AtPrompt, PastInt3, Ended
  <2> QED BY <2>1, <2>2 DEF C!cvars
<1>3. CASE ConfirmYes
  <2>1. /\ child' = "killed" /\ dbg = "confirm"
        /\ UNCHANGED <<rip, helper_brkpt, former_line>>
    BY <1>3 DEF ConfirmYes, flagVars
  <2>2. AtPrompt /\ ~Ended /\ ~PastInt3 /\ Ended' /\ ~PastInt3'
    BY <2>1, Commanding DEF Ended, PastInt3
  <2>3. C!Kill
    BY <2>1, <2>2 DEF C!Kill
  <2> QED BY <2>3 DEF C!Next
<1>4. ASSUME NEW n \in LineInput, Break(n) PROVE C!SetBrkpt
  <2>1. PICK a \in LineAddr : ~IsSet(a) /\ DOMAIN helper_brkpt' = DOMAIN helper_brkpt \cup {a}
    BY <1>4 DEF Break, FirstFrom, LineAddr, Put
  <2>2. /\ dbg = "prompt"
        /\ UNCHANGED <<text, rip, child, run, dbg, reset_brkpt, cont_flag, former_line>>
    BY <1>4 DEF Break, Prompt, traceeVars, flagVars
  <2>3. AtPrompt /\ AtPrompt' /\ ~Ended /\ ~Ended' /\ ~PastInt3 /\ ~PastInt3'
    BY <2>2, Commanding DEF AtPrompt, PastInt3, Ended
  <2> QED BY <2>1, <2>2, <2>3 DEF C!SetBrkpt, IsSet
<1>5. ASSUME NEW n \in LineInput, Remove(n) PROVE C!RemoveBrkpt
  <2> DEFINE a == line_to_addr[n]
  <2>1. /\ dbg = "prompt" /\ a \in DOMAIN helper_brkpt
        /\ DOMAIN helper_brkpt' = DOMAIN helper_brkpt \ {a}
        /\ reset_brkpt' = ResetAfterRm(a)
        /\ UNCHANGED <<rip, child, run, dbg, cont_flag, former_line>>
    BY <1>5, ErasedMap DEF Remove, Prompt, IsSet
  <2> HIDE DEF a
  <2>2. AtPrompt /\ AtPrompt' /\ ~Ended /\ ~Ended' /\ ~PastInt3 /\ Stopped
    BY <2>1, Commanding DEF AtPrompt, Ended
  <2>3. ~PastInt3'
    <3>1. rip' \in Instr
      BY <2>1 DEF SInv, RInv, RipInv
    <3> QED BY <3>1, AtInstrNext DEF SInv, RInv
(* The breakpoint the user stands on is the only one that can be lifted.   *)
  <2>4. reset_brkpt' <=> reset_brkpt /\ a # rip
    <3>1. reset_brkpt => rip \in Brkpts
      BY <2>1 DEF SInv, RInv, TInv, IInv, LiftedHere
    <3> QED BY <2>1, <2>2, <3>1 DEF ResetAfterRm, PeekRip
  <2>5. reset_brkpt \in BOOLEAN /\ reset_brkpt' \in BOOLEAN
    BY DEF SInv, RInv, TInv, IInv, TypeOK
  <2> QED BY <2>1, <2>2, <2>3, <2>4, <2>5 DEF C!RemoveBrkpt
<1> QED BY <1>1, <1>2, <1>3, <1>4, <1>5 DEF User, C!Next

(* A prompt at a breakpoint: the two stops and the race after PTRACE_CONT. *)
LEMMA ReportRefines ==
  ASSUME LongLines, SInv, SInv', dbg \in {"wait", "peek"}, Stopped,
         NEW t, NEW a \in Brkpts, BrkptHandler(t, a), child' \in {child, "held"},
         IF PastInt3 THEN rip - 1 = a ELSE rip = a,
         dbg = "peek" \/ child = "trapped"
  PROVE  C!ReportBrkpt
<1>1. /\ rip' = a /\ dbg' = "prompt" /\ reset_brkpt' = TRUE
      /\ UNCHANGED <<helper_brkpt, former_line>>
  BY DEF BrkptHandler, brkptVars
<1>2. ~AtPrompt /\ AtPrompt' /\ ~Ended /\ ~Ended' /\ DOMAIN helper_brkpt = Brkpts
  BY <1>1, ListInserted DEF AtPrompt, Ended, Stopped, SInv
<1>3. ~PastInt3'
  <2>1. rip' \in Instr
    BY <1>1 DEF SInv, RInv, RipInv
  <2> QED BY <2>1, AtInstrNext DEF SInv, RInv
<1>4. ~(reset_brkpt /\ child # "trapped")
  BY DEF SInv, RInv, TInv, IInv, Standing
<1> QED BY <1>1, <1>2, <1>3, <1>4 DEF C!ReportBrkpt

LEMMA WaitRefines ==
  ASSUME LongLines, SInv, SInv', Wait \/ Peek
  PROVE  C!Next \/ UNCHANGED C!cvars
<1>1. CASE FirstStop
  <2>1. /\ UNCHANGED <<rip, helper_brkpt, reset_brkpt, former_line>>
        /\ dbg = "spawn" /\ dbg' = "prompt" /\ child = "trapped" /\ child' = "held"
    BY <1>1 DEF FirstStop, brkptVars, flagVars
  <2>2. AtPrompt /\ AtPrompt' /\ ~Ended /\ ~Ended' /\ ~PastInt3
    BY <2>1, Prompted DEF AtPrompt, Ended, SInv
  <2>3. ~PastInt3'
    <3>1. rip' \in Instr
      BY <2>1 DEF SInv, RInv, RipInv
    <3> QED BY <3>1, AtInstrNext DEF SInv, RInv
  <2> QED BY <2>1, <2>2, <2>3 DEF C!cvars
<1>2. CASE FirstExit \/ Reap
  <2>1. /\ UNCHANGED <<rip, child, helper_brkpt, former_line>> /\ Ended
    BY <1>2 DEF FirstExit, Reap, Ended, traceeVars, brkptVars, flagVars
  <2>2. Ended' /\ ~PastInt3 /\ ~PastInt3'
    BY <2>1 DEF Ended, PastInt3
  <2> QED BY <2>1, <2>2 DEF C!cvars
<1>3. CASE OtherSignal
  <2>1. /\ UNCHANGED <<rip, run, dbg, helper_brkpt, reset_brkpt, cont_flag, former_line>>
        /\ dbg = "wait" /\ child = "signalled" /\ child' = "held" /\ rip \in Instr
    BY <1>3 DEF OtherSignal, brkptVars, flagVars, SInv, StopInv
  <2>2. ~AtPrompt /\ ~AtPrompt' /\ ~Ended /\ ~Ended' /\ ~PastInt3 /\ ~PastInt3'
    BY <2>1, AtInstrNext DEF AtPrompt, Ended, PastInt3, SInv, RInv
  <2> QED BY <2>1, <2>2 DEF C!cvars
<1>4. CASE PeekMiss
  <2>1. /\ UNCHANGED <<text, rip, child, run, helper_brkpt, reset_brkpt, cont_flag,
                       former_line>>
        /\ dbg = "peek" /\ dbg' = "wait"
    BY <1>4 DEF PeekMiss, traceeVars, brkptVars, flagVars
  <2>2. ~AtPrompt /\ ~AtPrompt' /\ (Ended' <=> Ended) /\ (PastInt3' <=> PastInt3)
    BY <2>1 DEF AtPrompt, Ended, PastInt3
  <2> QED BY <2>1, <2>2 DEF C!cvars
(* The step off a lifted breakpoint, and a step that goes on, are no stop  *)
(* for the user.                                                           *)
<1>5. CASE ContinueOver \/ StepOn
  <2>1. /\ UNCHANGED <<rip, helper_brkpt, cont_flag, former_line>>
        /\ dbg = "wait" /\ dbg' \in {"wait", "peek"}
        /\ child = "trapped" /\ child' = "running" /\ reset_brkpt' = FALSE
    BY <1>5 DEF ContinueOver, StepOn, StopHere, SigtrapStop, brkptVars
  <2>2. ~AtPrompt /\ ~AtPrompt' /\ ~Ended /\ ~Ended' /\ ~PastInt3'
    BY <2>1 DEF AtPrompt, Ended, PastInt3
  <2>3. ~PastInt3 /\ ((run = "cont" \/ cont_flag)' <=> (run = "cont" \/ cont_flag))
    <3>1. CASE ContinueOver
      <4>1. rip \in Instr /\ cont_flag
        BY <2>1, <3>1 DEF ContinueOver, SInv, RInv, RipInv
      <4> QED BY <2>1, <4>1, AtInstr DEF SInv, RInv
    <3>2. CASE StepOn
      BY <2>1, <3>2, SteppedStop DEF StepOn
    <3> QED BY <1>5, <3>1, <3>2
  <2> QED BY <2>1, <2>2, <2>3 DEF C!cvars
<1>6. CASE StepDone
  <2>1. /\ UNCHANGED <<rip, helper_brkpt, former_line>>
        /\ dbg = "wait" /\ dbg' = "prompt" /\ ~is_brkpt_step /\ AtOtherLine
        /\ child = "trapped" /\ child' = "held" /\ reset_brkpt' = FALSE
    BY <1>6 DEF StepDone, StopHere, SigtrapStop, brkptVars
  <2>2. ~AtPrompt /\ AtPrompt' /\ ~Ended /\ ~Ended'
    BY <2>1 DEF AtPrompt, Ended
  <2>3. rip \in Instr /\ ~PastInt3 /\ run = "step" /\ ~cont_flag
    BY <1>6, SteppedStop DEF StepDone
  <2>4. ~PastInt3'
    BY <2>1, <2>3, AtInstrNext DEF SInv, RInv
  <2>5. rip \notin DOMAIN helper_brkpt
    BY <2>1, <2>2, ListInserted DEF is_brkpt_step, PeekRip, Stopped, SInv
  <2>6. C!ReportLine
    BY <2>1, <2>2, <2>3, <2>4, <2>5 DEF C!ReportLine, AtOtherLine
  <2> QED BY <2>6 DEF C!Next
<1>7. CASE StopAtBrkpt
  <2>1. dbg = "wait" /\ child = "trapped" /\ child' = "held" /\ Stopped
    BY <1>7 DEF StopAtBrkpt, StopHere, SigtrapStop, Stopped
  <2>2. PastInt3 /\ rip - 1 \in Brkpts
    BY <1>7, <2>1, PastBrkpt DEF StopAtBrkpt
  <2>3. C!ReportBrkpt
    BY <1>7, <2>1, <2>2, ReportRefines DEF StopAtBrkpt
  <2> QED BY <2>3 DEF C!Next
<1>8. CASE StopBeforeBrkpt
  <2>1. dbg = "wait" /\ child = "trapped" /\ child' = "held" /\ Stopped
    BY <1>8 DEF StopBeforeBrkpt, StopHere, SigtrapStop, Stopped
  <2>2. ~PastInt3 /\ rip \in Brkpts
    BY <1>8, <2>1, SteppedStop DEF StopBeforeBrkpt, is_brkpt_step, PeekRip
  <2>3. C!ReportBrkpt
    BY <1>8, <2>1, <2>2, ReportRefines DEF StopBeforeBrkpt
  <2> QED BY <2>3 DEF C!Next
<1>9. CASE PeekHit
  <2>1. dbg = "peek" /\ Stopped /\ rip - 1 \in Brkpts /\ child' = child
    BY <1>9, HitStopped DEF PeekHit, SInv, RInv, TInv, IInv
  <2>2. rip \notin Instr
    BY <2>1, AtInstr DEF SInv, RInv
  <2>3. child \in {"trapped", "held"} /\ ~reset_brkpt
    BY <2>1, <2>2 DEF Stopped, SInv, StopInv, RInv, TInv, IInv, Standing
  <2>4. PastInt3
    BY <2>1, <2>3, LineFacts
    DEF PastInt3, SInv, RInv, TInv, IInv, TypeOK, TextIntegrity, Lifted
  <2>5. C!ReportBrkpt
    BY <1>9, <2>1, <2>4, ReportRefines DEF PeekHit
  <2> QED BY <2>5 DEF C!Next
<1> QED BY <1>1, <1>2, <1>3, <1>4, <1>5, <1>6, <1>7, <1>8, <1>9 DEF Wait, Peek

LEMMA NextRefines ==
  ASSUME LongLines, Disjoint, SInv, SInv', [Next]_vars
  PROVE  [C!Next]_C!cvars
<1>1. CASE UNCHANGED vars
  <2>1. UNCHANGED <<text, rip, child, run, dbg, helper_brkpt, reset_brkpt,
                    cont_flag, former_line>>
    BY <1>1 DEF vars, traceeVars, brkptVars, flagVars
  <2>2. /\ PastInt3' <=> PastInt3
        /\ Ended' <=> Ended
        /\ AtPrompt' <=> AtPrompt
    BY <2>1 DEF PastInt3, Ended, AtPrompt
  <2> QED BY <2>1, <2>2 DEF C!cvars
<1>2. CASE Child
  BY <1>2, ChildRefines DEF C!Next
<1>3. CASE User \/ EndOfInput
  BY <1>3, UserRefines
<1>4. CASE Wait \/ Peek
  BY <1>4, WaitRefines
<1> QED BY <1>1, <1>2, <1>3, <1>4 DEF Next, Terminated

(* Whatever the user sets, removes, steps and continues, the program       *)
(* executes its own instructions, passes no breakpoint that was not        *)
(* reported on this arrival, and a command comes back only where it        *)
(* should: main_debugger and prog_active implement a source-line debugger, *)
(* for every program whose lines are a word apart and longer than a byte.  *)
THEOREM KeepsContract ==
  ASSUME Spaced, Disjoint, LongLines PROVE Spec => ImplementsLineDebugger
<1>1. SInv /\ SInv' /\ [Next]_vars => [C!Next]_C!cvars
  BY NextRefines
<1> QED BY <1>1, InitRefines, SpecSInv, PTL DEF Spec, C!Spec, ImplementsLineDebugger
=============================================================================
