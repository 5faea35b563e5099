---------------------------- MODULE MCSdbSpaced ----------------------------
(***************************************************************************)
(* Sdb on a program whose lines start at least a word apart and whose line *)
(* starts are long instructions: breakpoints are independent.              *)
(*                                                                         *)
(*    1  startup code, no line           -> 3                              *)
(*    3  line 10, `for' initialisation   -> 6                              *)
(*    6  line 11, loop body              -> 9                              *)
(*    9  still line 11                   -> 10 or 3                        *)
(*   10  line 10 again, `for' increment  -> 6, 13, or itself (rep prefix)  *)
(*   13  line 13, the end                                                  *)
(***************************************************************************)
EXTENDS SdbContract, TLC

MCAddr == 1..15
MCSize == 1 :> 2 @@ 3 :> 3 @@ 6 :> 3 @@ 9 :> 1 @@ 10 :> 3 @@ 13 :> 2
MCInstr == DOMAIN MCSize
MCSucc == 1 :> {3} @@ 3 :> {6} @@ 6 :> {9} @@ 9 :> {3, 10}
            @@ 10 :> {6, 10, 13} @@ 13 :> {}

(* The same program where every line ends by itself. *)
MCSuccNoRep == [MCSucc EXCEPT ![10] = {6, 13}]

(* The loop body may fault. *)
MCFaulting == {6}

MCline_to_addr == 10 :> 3 @@ 11 :> 6 @@ 13 :> 13
MCaddr_to_line == 3 :> 10 @@ 6 :> 11 @@ 10 :> 10 @@ 13 :> 13

(* 12 is placed on line 13, 14 is past the end. *)
MCLineInput == {10, 11, 12, 13, 14}

ASSUME LayoutAssumption == Spaced /\ LongLines /\ Disjoint
=============================================================================
