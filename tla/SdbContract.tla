---------------------------- MODULE SdbContract ----------------------------
(***************************************************************************)
(* Sdb implements LineDebugger when breakpoints are independent (Spaced,   *)
(* Disjoint and LongLines); the proof is in SdbProofs.                     *)
(***************************************************************************)
EXTENDS Sdb

AtPrompt == dbg \in {"spawn", "prompt", "confirm"}
Ended == child \in {"exited", "killed"}

(* The tracee has executed an INT 3 and the debugger has not yet moved rip *)
(* back over it.                                                           *)
PastInt3 ==
  child \in {"trapped", "held"} /\ rip - 1 \in Addr /\ text[rip - 1] = "int3"

C == INSTANCE LineDebugger WITH
  BrkptAddr <- LineAddr,
  pos <- IF PastInt3 THEN rip - 1 ELSE rip,
  bps <- DOMAIN helper_brkpt,
  mode <- IF Ended THEN "end" ELSE IF AtPrompt THEN "prompt" ELSE "run",
  kind <- IF Ended \/ AtPrompt THEN "none"
          ELSE IF run = "cont" \/ cont_flag THEN "cont" ELSE "step",
  goal <- former_line,
  reported <- reset_brkpt /\ ~Ended /\ (AtPrompt \/ child # "trapped")

(* The debugger keeps the promises of LineDebugger: the program executes   *)
(* its own instructions, passes no breakpoint unreported, and a command    *)
(* comes back where it should.                                             *)
ImplementsLineDebugger == C!Spec
=============================================================================
