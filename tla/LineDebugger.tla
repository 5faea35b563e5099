---------------------------- MODULE LineDebugger ----------------------------
(***************************************************************************)
(* What a source-line debugger promises its user, in terms of the program  *)
(* alone: no text, no INT 3, no instruction pointer one byte off, no       *)
(* ptrace.  Sdb implements it (module SdbContract).                        *)
(*                                                                         *)
(* The program only ever executes its own instructions.  It never passes a *)
(* breakpoint that was not reported to the user on this very arrival.      *)
(* "continue" comes back only at a breakpoint, "next" only at a breakpoint *)
(* or at another line.                                                     *)
(***************************************************************************)
EXTENDS Integers

CONSTANTS Instr, Succ, Start, BrkptAddr, addr_to_line

VARIABLES
  pos,       \* the next instruction the program will execute
  bps,       \* the breakpoints the user has set
  mode,      \* "prompt", "run" or "end"
  kind,      \* the command that resumed the program: "cont", "step"
  goal,      \* the line "next" is leaving
  reported   \* the breakpoint at pos was reported, and not set since

cvars == <<pos, bps, mode, kind, goal, reported>>

LineDebuggerTypeOK ==
  /\ pos \in Instr
  /\ bps \subseteq BrkptAddr
  /\ mode \in {"prompt", "run", "end"}
  /\ kind \in {"cont", "step", "none"}
  /\ goal \in Nat
  /\ reported \in BOOLEAN

Init ==
  /\ pos = Start
  /\ bps = {}
  /\ mode \in {"prompt", "end"}
  /\ kind = "none"
  /\ goal = 0
  /\ reported = FALSE

SetBrkpt ==
  /\ mode = "prompt"
  /\ \E a \in BrkptAddr \ bps : bps' = bps \cup {a}
  /\ UNCHANGED <<pos, mode, kind, goal, reported>>

RemoveBrkpt ==
  /\ mode = "prompt"
  /\ \E a \in bps : bps' = bps \ {a} /\ reported' = (reported /\ a # pos)
  /\ UNCHANGED <<pos, mode, kind, goal>>

ResumeCont ==
  /\ mode = "prompt"
  /\ mode' = "run" /\ kind' = "cont"
  /\ UNCHANGED <<pos, bps, goal, reported>>

ResumeStep ==
  /\ mode = "prompt"
  /\ mode' = "run" /\ kind' = "step"
  /\ goal' \in {goal} \cup {addr_to_line[a] : a \in {pos} \cap DOMAIN addr_to_line}
  /\ UNCHANGED <<pos, bps, reported>>

Kill ==
  /\ mode = "prompt"
  /\ mode' = "end"
  /\ reported' = FALSE
  /\ UNCHANGED <<pos, bps, kind, goal>>

Execute ==
  /\ mode = "run"
  /\ pos \in bps => reported
  /\ pos' \in Succ[pos]
  /\ reported' = FALSE
  /\ UNCHANGED <<bps, mode, kind, goal>>

End ==
  /\ mode = "run"
  /\ pos \in bps => reported
  /\ Succ[pos] = {}
  /\ mode' = "end" /\ kind' = "none"
  /\ reported' = FALSE
  /\ UNCHANGED <<pos, bps, goal>>

ReportBrkpt ==
  /\ mode = "run"
  /\ pos \in bps /\ ~reported
  /\ mode' = "prompt" /\ kind' = "none"
  /\ reported' = TRUE
  /\ UNCHANGED <<pos, bps, goal>>

ReportLine ==
  /\ mode = "run" /\ kind = "step"
  /\ pos \notin bps
  /\ pos \in DOMAIN addr_to_line /\ addr_to_line[pos] # goal
  /\ mode' = "prompt" /\ kind' = "none"
  /\ UNCHANGED <<pos, bps, goal, reported>>

Next ==
  \/ SetBrkpt \/ RemoveBrkpt \/ ResumeCont \/ ResumeStep \/ Kill
  \/ Execute \/ End \/ ReportBrkpt \/ ReportLine

Spec == Init /\ [][Next]_cvars
=============================================================================
