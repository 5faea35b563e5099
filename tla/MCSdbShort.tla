----------------------------- MODULE MCSdbShort -----------------------------
(***************************************************************************)
(* Sdb on a program one line of which starts with a one-byte instruction,  *)
(* as the closing brace of a function does (`leave' or `ret').             *)
(*                                                                         *)
(*    1  startup code, no line                    -> 3                     *)
(*    3  line 10                                  -> 6                     *)
(*    6  line 12, one byte                        -> 7                     *)
(*    7  still line 12                            -> 3 or 9                *)
(*    9  line 13, the end                                                  *)
(***************************************************************************)
EXTENDS Sdb, TLC

MCAddr == 1..11
MCSize == 1 :> 2 @@ 3 :> 3 @@ 6 :> 1 @@ 7 :> 2 @@ 9 :> 2
MCInstr == DOMAIN MCSize
MCSucc == 1 :> {3} @@ 3 :> {6} @@ 6 :> {7} @@ 7 :> {3, 9} @@ 9 :> {}
MCline_to_addr == 10 :> 3 @@ 12 :> 6 @@ 13 :> 9
MCaddr_to_line == 3 :> 10 @@ 6 :> 12 @@ 9 :> 13
MCLineInput == {10, 11, 12, 13}
=============================================================================
