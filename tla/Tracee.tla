------------------------------- MODULE Tracee -------------------------------
(***************************************************************************)
(* The environment of the two debuggers: the debuggee, the CPU that runs   *)
(* it, and the kernel's ptrace.                                            *)
(*                                                                         *)
(* The program is a graph of instructions with addresses and sizes.  Its   *)
(* data is left out: a branch goes to any of its successors.  The text     *)
(* says of every byte how it differs from the executable.                  *)
(***************************************************************************)
EXTENDS Integers

CONSTANTS
  Addr,      \* the addresses of the text segment
  WordSize,  \* bytes that PTRACE_PEEKTEXT and PTRACE_POKETEXT move
  Instr,     \* the addresses at which the program's instructions start
  Size,      \* instruction -> its length in bytes
  Succ,      \* instruction -> the instructions that may follow; none: exit
  Start,     \* where the program stands after execve
  Faulting   \* the instructions that may raise a signal

ASSUME ProgramAssumption ==
  /\ Addr \subseteq Nat
  /\ WordSize \in Nat \ {0}
  /\ Instr \subseteq Addr
  /\ Size \in [Instr -> Nat \ {0}]
  /\ \A i \in Instr : i .. (i + Size[i] - 1) \subseteq Addr
  /\ Succ \in [Instr -> SUBSET Instr]
  /\ Start \in Instr
  /\ Faulting \subseteq Instr

VARIABLES
  text,   \* address -> what is there: the program's own byte, or another
  rip,    \* the instruction pointer
  child,  \* the debuggee; "trapped" (SIGTRAP) and "signalled" are stops that
          \* waitpid has not reported yet, "held" one that it has
  run     \* the request that resumed it last: PTRACE_CONT, PTRACE_SINGLESTEP

traceeVars == <<text, rip, child, run>>

Byte == {"orig", "int3", "zero", "ff"}
ChildState == {"running", "trapped", "signalled", "held", "exited", "killed"}

(* The bytes of a word, and of an instruction. *)
Word(a) == {x \in Addr : a <= x /\ x < a + WordSize}
Code(i) == i .. (i + Size[i] - 1)

-----------------------------------------------------------------------------
(* ptrace, on the text t.  Every request fails unless the debuggee is      *)
(* stopped: then a read gives -1, whose bytes are 0xff, and a write writes *)
(* nothing.                                                                *)
Stopped == child \in {"trapped", "signalled", "held"}

PeekWord(t, a) == [x \in Word(a) |-> IF Stopped THEN t[x] ELSE "ff"]

PokeWord(t, a, w) ==
  [x \in Addr |-> IF Stopped /\ x \in Word(a) THEN w[x] ELSE t[x]]

PeekRip == IF Stopped THEN rip ELSE -1

(* A stop that was not waited for is forgotten when it is resumed.         *)
Resume(how) ==
  IF Stopped THEN child' = "running" /\ run' = how ELSE UNCHANGED <<child, run>>

-----------------------------------------------------------------------------
(* What the CPU finds at rip: a whole instruction of the program, an INT 3,*)
(* or anything else.                                                       *)
Intact == rip \in Instr /\ \A x \in Code(rip) : text[x] = "orig"
AtInt3 == rip \in Addr /\ text[rip] = "int3"

(* The state after an instruction: a single step ends in a SIGTRAP. *)
Retired == IF run = "step" THEN "trapped" ELSE "running"

Execute ==
  /\ child = "running" /\ Intact
  /\ rip' \in Succ[rip]
  /\ child' = Retired
  /\ UNCHANGED <<text, run>>

Exit ==
  /\ child = "running" /\ Intact /\ Succ[rip] = {}
  /\ child' = "exited"
  /\ UNCHANGED <<text, rip, run>>

(* INT 3 is executed: rip stands one past it. *)
Trap ==
  /\ child = "running" /\ AtInt3
  /\ rip' = rip + 1
  /\ child' = "trapped"
  /\ UNCHANGED <<text, run>>

Fault ==
  /\ child = "running" /\ Intact /\ rip \in Faulting
  /\ child' = "signalled"
  /\ UNCHANGED <<text, rip, run>>

(* Bytes that are no instruction of the program may do anything: lead      *)
(* anywhere, or raise a signal.                                            *)
RunWild ==
  /\ child = "running" /\ ~Intact /\ ~AtInt3
  /\ rip' \in Addr
  /\ child' \in {Retired, "signalled"}
  /\ UNCHANGED <<text, run>>

TraceeStep == Execute \/ Exit \/ Trap \/ Fault \/ RunWild

(* After PTRACE_TRACEME: a successful execve stops with SIGTRAP before the *)
(* first instruction, a failed one is followed by exit.                    *)
TraceeInit ==
  /\ text = [x \in Addr |-> "orig"]
  /\ rip = Start
  /\ child \in {"trapped", "exited"}
  /\ run = "cont"

TraceeTypeOK ==
  /\ text \in [Addr -> Byte]
  /\ rip \in Nat
  /\ child \in ChildState
  /\ run \in {"cont", "step"}
=============================================================================
