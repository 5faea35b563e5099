------------------------------ MODULE Induction ------------------------------
(***************************************************************************)
(* Induction on the natural numbers in the form the proofs use it: for a   *)
(* set of numbers.  It rests on the library's theorem that < on Nat is     *)
(* well-founded.                                                           *)
(***************************************************************************)
EXTENDS Integers, WellFoundedInduction, TLAPS

Below == OpToRel(<, Nat)

LEMMA BelowIs == \A x, y \in Nat : y < x => <<y, x>> \in Below
BY DEF Below, OpToRel

(* A set of natural numbers has a least element. *)
LEMMA Least ==
  ASSUME NEW T, T \subseteq Nat, T # {}
  PROVE  \E x \in T : \A y \in T : x <= y
<1>1. IsWellFoundedOn(Below, Nat)
  BY NatLessThanWellFounded DEF Below
<1>2. PICK x \in T : \A y \in T : <<y, x>> \notin Below
  BY <1>1, WFMin
<1>3. \A y \in T : ~ (y < x)
  BY <1>2, BelowIs
<1> QED
  BY <1>3

(* What holds of 0 and with n of n + 1 holds of every number up to N.      *)
LEMMA UpTo ==
  ASSUME NEW N \in Nat, NEW T, 0 \in T, \A n \in 0 .. N - 1 : n \in T => n + 1 \in T
  PROVE  \A n \in 0 .. N : n \in T
<1> DEFINE U == (0 .. N) \ T
<1>1. SUFFICES ASSUME U # {} PROVE FALSE
  OBVIOUS
<1>2. PICK x \in U : \A y \in U : x <= y
  <2>1. U \subseteq Nat
    OBVIOUS
  <2> HIDE DEF U
  <2> QED
    BY <1>1, <2>1, Least
<1>3. x \in Nat /\ x # 0 /\ x <= N /\ x \notin T
  OBVIOUS
<1>4. x - 1 \in 0 .. N - 1 /\ x - 1 + 1 = x /\ ~ (x <= x - 1)
  BY <1>3
<1>5. x - 1 \in T
  BY <1>2, <1>4
<1> QED
  BY <1>3, <1>4, <1>5

(* A function on 0 .. N that is given by its first value and its steps.    *)
Runs(g, N, S, f0, step) ==
  /\ g \in [0 .. N -> S] /\ g[0] = f0
  /\ \A n \in 0 .. N - 1 : g[n + 1] = step[<<n, g[n]>>]

(* There is one such function. *)
LEMMA RunExists ==
  ASSUME NEW N \in Nat, NEW S, NEW f0 \in S, NEW step \in [Nat \X S -> S]
  PROVE  \E g : Runs(g, N, S, f0, step)
<1> DEFINE T == {n \in 0 .. N : \E g : Runs(g, n, S, f0, step)}
<1>1. 0 \in T
  <2>1. Runs([k \in 0 .. 0 |-> f0], 0, S, f0, step)
    BY DEF Runs
  <2> QED
    BY <2>1
<1>2. ASSUME NEW n \in 0 .. N - 1, n \in T
      PROVE  n + 1 \in T
  <2>1. PICK g : Runs(g, n, S, f0, step)
    BY <1>2
  <2> DEFINE h == [k \in 0 .. n + 1 |-> IF k = n + 1 THEN step[<<n, g[n]>>] ELSE g[k]]
  <2>2. n \in Nat /\ n + 1 \in 0 .. N /\ \A k \in 0 .. n : g[k] \in S
    BY <2>1 DEF Runs
  <2>3. step[<<n, g[n]>>] \in S
    BY <2>2
  <2>4. \A k \in 0 .. n + 1 : k \in 0 .. n \/ k = n + 1
    BY <2>2
  <2>5. h \in [0 .. n + 1 -> S]
    BY <2>2, <2>3, <2>4
  <2>6. \A k \in 0 .. n : h[k] = g[k]
    BY <2>2
  <2>7. h[n + 1] = step[<<n, h[n]>>]
    <3>1. n + 1 \in 0 .. n + 1 /\ n \in 0 .. n
      BY <2>2
    <3>2. h[n + 1] = step[<<n, g[n]>>]
      BY <3>1
    <3> QED
      BY <2>6, <3>1, <3>2
  <2>8. ASSUME NEW k \in 0 .. n + 1 - 1
        PROVE  h[k + 1] = step[<<k, h[k]>>]
    <3>1. k = n \/ (k \in 0 .. n - 1 /\ k + 1 \in 0 .. n /\ k \in 0 .. n)
      BY <2>2
    <3> HIDE DEF h
    <3> QED
      BY <2>1, <2>6, <2>7, <3>1 DEF Runs
  <2>9. h[0] = f0
    BY <2>1, <2>2, <2>6 DEF Runs
  <2> HIDE DEF h
  <2>10. Runs(h, n + 1, S, f0, step)
    BY <2>5, <2>8, <2>9 DEF Runs
  <2> QED
    BY <2>2, <2>10
<1> HIDE DEF T
<1>3. N \in T
  <2>1. \A n \in 0 .. N : n \in T
    BY <1>1, <1>2, UpTo
  <2> QED
    BY <2>1
<1> QED
  BY <1>3 DEF T
=============================================================================
