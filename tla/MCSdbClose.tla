----------------------------- MODULE MCSdbClose -----------------------------
(***************************************************************************)
(* Sdb on a program with two lines less than a word apart (7 and 9): each  *)
(* of their saved words holds the other's first byte.                      *)
(*                                                                         *)
(*    1  startup code, no line                    -> 3                     *)
(*    3  line 10                                  -> 7                     *)
(*    7  line 11, a short statement `i++;'        -> 9                     *)
(*    9  line 12                                  -> 3 or 11               *)
(*   11  line 12, the end                                                  *)
(***************************************************************************)
EXTENDS Sdb, TLC

MCAddr == 1..12
MCSize == 1 :> 2 @@ 3 :> 4 @@ 7 :> 2 @@ 9 :> 2 @@ 11 :> 2
MCInstr == DOMAIN MCSize
MCSucc == 1 :> {3} @@ 3 :> {7} @@ 7 :> {9} @@ 9 :> {3, 11} @@ 11 :> {}
MCline_to_addr == 10 :> 3 @@ 11 :> 7 @@ 12 :> 9
MCaddr_to_line == 3 :> 10 @@ 7 :> 11 @@ 9 :> 12
MCLineInput == {10, 11, 12}
=============================================================================
