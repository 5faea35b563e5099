------------------------------- MODULE MCMdb -------------------------------
(***************************************************************************)
(* Mdb on two functions, main at 2 and f at 6, that both start with a      *)
(* one-byte instruction (`push %rbp').                                     *)
(*                                                                         *)
(*    1  startup code        -> 2                                          *)
(*    2  main: push          -> 3                                          *)
(*    3  main: call f        -> 6, or on to 5                              *)
(*    5  main: back          -> 3, or the end of the program at 10         *)
(*    6  f: push             -> 7                                          *)
(*    7  f: the rest         -> 5                                          *)
(*   10  the end                                                           *)
(***************************************************************************)
EXTENDS Mdb, TLC

MCAddr == 1..11
MCSize == 1 :> 1 @@ 2 :> 1 @@ 3 :> 2 @@ 5 :> 1 @@ 6 :> 1 @@ 7 :> 2 @@ 10 :> 2
MCInstr == DOMAIN MCSize
MCSucc == 1 :> {2} @@ 2 :> {3} @@ 3 :> {5, 6} @@ 5 :> {3, 10} @@ 6 :> {7}
            @@ 7 :> {5} @@ 10 :> {}
MCSymbols == {2, 6}

MCFaulting == {7}

ASSUME LayoutAssumption == Spaced
=============================================================================
