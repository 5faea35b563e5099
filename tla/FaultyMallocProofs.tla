------------------------- MODULE FaultyMallocProofs -------------------------
(***************************************************************************)
(* Proofs about FaultyMalloc, for every header, sizes and number of        *)
(* allocations.                                                            *)
(***************************************************************************)
EXTENDS FaultyMalloc, Induction, FiniteSetTheorems

-----------------------------------------------------------------------------
(* A walk along links that lead upwards in some order (rank), through the  *)
(* set S of blocks, each of which is the first or has one leading to it.   *)

Upwards(S, b, next, rank) ==
  /\ S \subseteq DOMAIN next /\ b \in S \cup {Nil} /\ (S # {} => b # Nil)
  /\ \A c \in S :
       /\ rank[c] \in Nat /\ next[c] \in S \cup {Nil}
       /\ next[c] # Nil => rank[c] < rank[next[c]]
       /\ c = b \/ \E e \in S : next[e] = c

(* The k-th place of a walk, Nil behind its end. *)
Places(at, b, next) ==
  /\ at \in [1 .. Cardinality(DOMAIN next) + 1 -> DOMAIN next \cup {Nil}]
  /\ at[1] = b
  /\ \A k \in 1 .. Cardinality(DOMAIN next) :
       at[k + 1] = IF at[k] = Nil THEN Nil ELSE next[at[k]]

(* What Walk returns: S, each once, in the order of the links. *)
GoesThrough(w, S, b, next) ==
  \E m \in Nat :
    /\ w \in [1 .. m -> S] /\ m = Cardinality(S)
    /\ \A c \in S : \E k \in 1 .. m : w[k] = c
    /\ \A j, k \in 1 .. m : w[j] = w[k] => j = k
    /\ m = 0 <=> S = {}
    /\ m # 0 => w[1] = b /\ next[w[m]] = Nil
    /\ \A k \in 1 .. m - 1 : next[w[k]] = w[k + 1]

LEMMA PlacesExist ==
  ASSUME NEW next, IsFiniteSet(DOMAIN next), Nil \notin DOMAIN next,
         \A c \in DOMAIN next : next[c] \in DOMAIN next \cup {Nil},
         NEW b \in DOMAIN next \cup {Nil}
  PROVE  \E at : Places(at, b, next)
<1> DEFINE N == Cardinality(DOMAIN next)
           S == DOMAIN next \cup {Nil}
           step == [p \in Nat \X S |-> IF p[2] = Nil THEN Nil ELSE next[p[2]]]
<1>1. N \in Nat
  BY FS_CardinalityType
<1>2. step \in [Nat \X S -> S]
  OBVIOUS
<1>3. \A n \in Nat, x \in S : step[<<n, x>>] = IF x = Nil THEN Nil ELSE next[x]
  OBVIOUS
<1> HIDE DEF N, S, step
<1>4. b \in S
  BY DEF S
<1>5. PICK g : Runs(g, N, S, b, step)
  BY <1>1, <1>2, <1>4, RunExists
<1>6. /\ g \in [0 .. N -> S] /\ g[0] = b
      /\ \A n \in 0 .. N - 1 : g[n + 1] = step[<<n, g[n]>>]
  BY <1>5 DEF Runs
<1> DEFINE at == [k \in 1 .. N + 1 |-> g[k - 1]]
<1>7. at \in [1 .. N + 1 -> S]
  <2>1. \A k \in 1 .. N + 1 : k - 1 \in 0 .. N
    BY <1>1
  <2> QED
    BY <1>6, <2>1
<1>8. at[1] = b
  BY <1>1, <1>6
<1>9. ASSUME NEW k \in 1 .. N
      PROVE  at[k + 1] = IF at[k] = Nil THEN Nil ELSE next[at[k]]
  <2>1. PICK n \in 0 .. N - 1 : n = k - 1
    BY <1>1
  <2>2. at[k + 1] = g[n + 1] /\ at[k] = g[n] /\ n \in Nat /\ n \in 0 .. N
    BY <1>1, <2>1
  <2>3. g[n + 1] = step[<<n, g[n]>>] /\ g[n] \in S
    BY <1>6, <2>2
  <2> HIDE DEF at
  <2> QED
    BY <1>3, <2>2, <2>3
<1> HIDE DEF at
<1>10. Places(at, b, next)
  BY <1>7, <1>8, <1>9 DEF Places, N, S
<1> QED
  BY <1>10

LEMMA WalkIs ==
  ASSUME NEW next, IsFiniteSet(DOMAIN next), Nil \notin DOMAIN next,
         \A c \in DOMAIN next : next[c] \in DOMAIN next \cup {Nil},
         NEW b \in DOMAIN next \cup {Nil}
  PROVE  \E at : /\ Places(at, b, next)
                 /\ Walk(b, next) = [k \in 1 .. Cardinality({i \in DOMAIN at : at[i] # Nil}) |-> at[k]]
<1> DEFINE N == Cardinality(DOMAIN next)
           Of(at) == [k \in 1 .. N + 1 |->
                        IF k = 1 THEN b ELSE IF at[k - 1] = Nil THEN Nil ELSE next[at[k - 1]]]
           chosen == CHOOSE at : at = Of(at)
<1>1. N \in Nat
  BY FS_CardinalityType
<1>2. PICK at0 : Places(at0, b, next)
  BY PlacesExist
<1>3. at0 = Of(at0)
  <2>1. /\ at0 = [k \in 1 .. N + 1 |-> at0[k]] /\ at0[1] = b
        /\ \A k \in 1 .. N : at0[k + 1] = IF at0[k] = Nil THEN Nil ELSE next[at0[k]]
    BY <1>2 DEF Places
  <2>2. \A k \in 1 .. N + 1 : k # 1 => k - 1 \in 1 .. N /\ (k - 1) + 1 = k
    BY <1>1
  <2> HIDE DEF N
  <2>3. \A k \in 1 .. N + 1 :
          at0[k] = IF k = 1 THEN b ELSE IF at0[k - 1] = Nil THEN Nil ELSE next[at0[k - 1]]
    BY <2>1, <2>2
  <2> QED
    BY <2>1, <2>3
<1>4. chosen = Of(chosen)
  BY <1>3
<1>5. Walk(b, next) = [k \in 1 .. Cardinality({i \in DOMAIN chosen : chosen[i] # Nil}) |-> chosen[k]]
  BY DEF Walk
<1> HIDE DEF chosen
<1>6. /\ DOMAIN chosen = 1 .. N + 1 /\ chosen[1] = b
      /\ \A k \in 1 .. N : chosen[k + 1] = IF chosen[k] = Nil THEN Nil ELSE next[chosen[k]]
  <2>1. \A k \in 1 .. N + 1 :
          chosen[k] = IF k = 1 THEN b ELSE IF chosen[k - 1] = Nil THEN Nil ELSE next[chosen[k - 1]]
    BY <1>4
  <2>2. 1 \in 1 .. N + 1 /\ \A k \in 1 .. N : k + 1 \in 1 .. N + 1 /\ k + 1 # 1 /\ k + 1 - 1 = k
    BY <1>1
  <2>3. DOMAIN chosen = 1 .. N + 1
    BY <1>4
  <2> HIDE DEF N
  <2> QED
    BY <2>1, <2>2, <2>3
<1>7. chosen \in [1 .. N + 1 -> DOMAIN next \cup {Nil}]
  <2> DEFINE T == {n \in 0 .. N : chosen[n + 1] \in DOMAIN next \cup {Nil}}
  <2>1. 0 \in T
    BY <1>1, <1>6
  <2>2. ASSUME NEW n \in 0 .. N - 1, n \in T PROVE n + 1 \in T
    <3>1. PICK k \in 1 .. N : k = n + 1 /\ k \in 0 .. N
      BY <1>1
    <3>2. chosen[k] \in DOMAIN next \cup {Nil}
      BY <2>2, <3>1
    <3>3. chosen[k + 1] \in DOMAIN next \cup {Nil}
      BY <1>6, <3>2
    <3> QED
      BY <3>1, <3>3
  <2>3. \A n \in 0 .. N : n \in T
    <3> HIDE DEF T, N
    <3> QED
      BY <1>1, <2>1, <2>2, UpTo
  <2>4. ASSUME NEW k \in 1 .. N + 1 PROVE chosen[k] \in DOMAIN next \cup {Nil}
    <3>1. PICK n \in 0 .. N : n = k - 1 /\ n + 1 = k
      BY <1>1
    <3> QED
      BY <2>3, <3>1
  <2>5. chosen = [k \in 1 .. N + 1 |-> chosen[k]]
    BY <1>4
  <2> QED
    BY <2>4, <2>5
<1>8. Places(chosen, b, next)
  BY <1>6, <1>7 DEF Places
<1> QED
  BY <1>5, <1>8

(* A walk upwards goes through all of S. *)
LEMMA WalkGoesThrough ==
  ASSUME NEW next, IsFiniteSet(DOMAIN next), Nil \notin DOMAIN next,
         \A c \in DOMAIN next : next[c] \in DOMAIN next \cup {Nil},
         NEW S, NEW b, NEW rank, Upwards(S, b, next, rank)
  PROVE  GoesThrough(Walk(b, next), S, b, next)
<1> DEFINE D == DOMAIN next
           N == Cardinality(D)
<1>1. N \in Nat /\ IsFiniteSet(S) /\ b \in D \cup {Nil}
  BY FS_CardinalityType, FS_Subset DEF Upwards
<1>2. PICK at : /\ Places(at, b, next)
                /\ Walk(b, next) = [k \in 1 .. Cardinality({i \in DOMAIN at : at[i] # Nil}) |-> at[k]]
  BY <1>1, WalkIs
<1> DEFINE In == {i \in 1 .. N + 1 : at[i] # Nil}
           m == Cardinality(In)
<1>3. /\ DOMAIN at = 1 .. N + 1 /\ at[1] = b
      /\ \A k \in 1 .. N : at[k + 1] = IF at[k] = Nil THEN Nil ELSE next[at[k]]
      /\ Walk(b, next) = [k \in 1 .. m |-> at[k]]
  BY <1>2 DEF Places
<1>4. IsFiniteSet(1 .. N + 1) /\ IsFiniteSet(In) /\ m \in Nat
  <2>1. IsFiniteSet(1 .. N + 1)
    BY <1>1, FS_Interval
  <2> QED
    BY <2>1, FS_Subset, FS_CardinalityType
<1>5. \A k \in 1 .. N + 1 : at[k] \in S \cup {Nil}
  <2> DEFINE T == {n \in 0 .. N : at[n + 1] \in S \cup {Nil}}
  <2>1. 0 \in T
    BY <1>1, <1>3 DEF Upwards
  <2>2. ASSUME NEW n \in 0 .. N - 1, n \in T PROVE n + 1 \in T
    <3>1. PICK k \in 1 .. N : k = n + 1 /\ k \in 0 .. N
      BY <1>1
    <3>2. at[k] \in S \cup {Nil}
      BY <2>2, <3>1
    <3>3. at[k + 1] \in S \cup {Nil}
      BY <1>3, <3>2 DEF Upwards
    <3> QED
      BY <3>1, <3>3
  <2>3. \A n \in 0 .. N : n \in T
    <3> HIDE DEF T, N
    <3> QED
      BY <1>1, <2>1, <2>2, UpTo
  <2> SUFFICES ASSUME NEW k \in 1 .. N + 1 PROVE at[k] \in S \cup {Nil}
    OBVIOUS
  <2>4. PICK n \in 0 .. N : n = k - 1 /\ n + 1 = k
    BY <1>1
  <2> QED
    BY <2>3, <2>4
(* Ranks grow along the walk, so that no block is met twice. *)
<1>6. \A j, k \in 1 .. N + 1 : j < k /\ at[k] # Nil => at[j] # Nil /\ rank[at[j]] < rank[at[k]]
  <2> DEFINE Up(k) == \A j \in 1 .. N + 1 :
                        j < k /\ at[k] # Nil => at[j] # Nil /\ rank[at[j]] < rank[at[k]]
             T == {n \in 0 .. N : Up(n + 1)}
  <2>1. 0 \in T
    BY <1>1
  <2>2. ASSUME NEW n \in 0 .. N - 1, n \in T PROVE n + 1 \in T
    <3>1. PICK k \in 1 .. N : k = n + 1 /\ k \in 0 .. N /\ k \in 1 .. N + 1 /\ k + 1 \in 1 .. N + 1
      BY <1>1
    <3>2. Up(k)
      BY <2>2, <3>1
    <3>3. ASSUME at[k + 1] # Nil
          PROVE  at[k] \in S /\ at[k + 1] = next[at[k]] /\ rank[at[k]] < rank[at[k + 1]]
      BY <1>3, <1>5, <3>1, <3>3 DEF Upwards
    <3>4. Up(k + 1)
      <4>1. SUFFICES ASSUME NEW j \in 1 .. N + 1, j < k + 1, at[k + 1] # Nil
                     PROVE  at[j] # Nil /\ rank[at[j]] < rank[at[k + 1]]
        OBVIOUS
      <4>2. at[k] \in S /\ at[k] # Nil /\ rank[at[k]] < rank[at[k + 1]] /\ at[k + 1] \in S
        BY <1>5, <3>1, <3>3, <4>1, <1>3
      <4>3. CASE j = k
        BY <4>2, <4>3
      <4>4. CASE j # k
        <5>1. j < k
          BY <1>1, <4>1, <4>4
        <5>2. at[j] # Nil /\ rank[at[j]] < rank[at[k]]
          BY <3>2, <4>2, <5>1
        <5>3. at[j] \in S
          BY <1>5, <5>2
        <5>4. rank[at[j]] \in Nat /\ rank[at[k]] \in Nat /\ rank[at[k + 1]] \in Nat
          BY <4>2, <5>3 DEF Upwards
        <5> QED
          BY <4>2, <5>2, <5>4
      <4> QED
        BY <4>3, <4>4
    <3> HIDE DEF Up
    <3> QED
      BY <3>1, <3>4
  <2>3. \A n \in 0 .. N : n \in T
    <3> HIDE DEF T, N
    <3> QED
      BY <1>1, <2>1, <2>2, UpTo
  <2>4. ASSUME NEW k \in 1 .. N + 1 PROVE Up(k)
    <3>1. PICK n \in 0 .. N : n = k - 1 /\ n + 1 = k
      BY <1>1
    <3> HIDE DEF Up
    <3> QED
      BY <2>3, <3>1
  <2> QED
    BY <2>4
<1>7. \A c \in S : rank[c] \in Nat
  BY DEF Upwards
(* The walk ends before it runs out of places: it meets a block once.      *)
<1>8. /\ \A j, k \in 1 .. N + 1 : k \in In /\ j < k => j \in In
      /\ \A j, k \in In : at[j] = at[k] => j = k
  <2>1. \A j, k \in 1 .. N + 1 : k \in In /\ j < k => j \in In
    BY <1>6
  <2>2. ASSUME NEW j \in In, NEW k \in In, at[j] = at[k], j < k PROVE FALSE
    <3>1. rank[at[j]] < rank[at[k]] /\ at[j] \in S
      BY <1>5, <1>6, <2>2
    <3>2. rank[at[j]] < rank[at[j]] /\ rank[at[j]] \in Nat
      BY <1>7, <2>2, <3>1
    <3> QED
      BY <3>2
  <2>3. \A j, k \in In : j \in Nat /\ k \in Nat
    BY <1>1
  <2>4. \A j, k \in In : j = k \/ j < k \/ k < j
    BY <2>3
  <2> QED
    BY <2>1, <2>2, <2>4
<1>9. N + 1 \notin In
  <2>1. SUFFICES ASSUME N + 1 \in In PROVE FALSE
    OBVIOUS
  <2>2. N + 1 \in 1 .. N + 1 /\ \A j \in 1 .. N + 1 : j < N + 1 \/ j = N + 1
    BY <1>1
  <2>3. \A j \in 1 .. N + 1 : j \in In
    BY <1>8, <2>1, <2>2
  <2>4. at \in [1 .. N + 1 -> D]
    <3>1. at = [k \in 1 .. N + 1 |-> at[k]]
      BY <1>2 DEF Places
    <3>2. \A k \in 1 .. N + 1 : at[k] \in D
      BY <1>5, <2>3 DEF Upwards
    <3> QED
      BY <3>1, <3>2
  <2>5. IsFiniteSet(1 .. N + 1) /\ Cardinality(1 .. N + 1) = N + 1
    BY <1>1, FS_Interval
  <2>6. Cardinality(D) < Cardinality(1 .. N + 1)
    BY <1>1, <2>5
  <2>7. \E x, y \in 1 .. N + 1 : x # y /\ at[x] = at[y]
    <3>1. IsFiniteSet(D)
      OBVIOUS
    <3> DEFINE J == 1 .. N + 1
    <3>2. IsFiniteSet(J) /\ Cardinality(D) < Cardinality(J) /\ at \in [J -> D]
      BY <2>4, <2>5, <2>6
    <3> HIDE DEF J, D
    <3>3. \E x, y \in J : x # y /\ at[x] = at[y]
      BY <3>1, <3>2, FS_PigeonHole
    <3> QED
      BY <3>3 DEF J
  <2> QED
    BY <1>8, <2>3, <2>7
<1>10. m \in 0 .. N /\ In = 1 .. m
  <2>1. PICK x \in (1 .. N + 1) \ In : \A y \in (1 .. N + 1) \ In : x <= y
    <3>1. (1 .. N + 1) \ In \subseteq Nat /\ (1 .. N + 1) \ In # {}
      BY <1>1, <1>9
    <3> HIDE DEF In
    <3> QED
      BY <3>1, Least
  <2>2. x \in Nat /\ x >= 1 /\ x <= N + 1 /\ x \notin In
    BY <1>1
  <2>3. \A k \in In : k < x
    <3>1. \A k \in In : k \in 1 .. N + 1 /\ k \in Nat
      BY <1>1
    <3>2. \A k \in In : k # x /\ ~ (x < k)
      BY <1>8, <2>1, <3>1
    <3> QED
      BY <2>2, <3>1, <3>2
  <2>4. \A k \in 1 .. N + 1 : k < x => k \in In
    <3>1. \A k \in 1 .. N + 1 : k < x => ~ (x <= k)
      BY <1>1, <2>2
    <3> QED
      BY <2>1, <3>1
  <2>5. In = 1 .. (x - 1)
    <3>1. \A k : k \in 1 .. (x - 1) <=> k \in 1 .. N + 1 /\ k < x
      BY <1>1, <2>2
    <3>2. \A k \in In : k \in 1 .. N + 1
      OBVIOUS
    <3> HIDE DEF In
    <3> QED
      BY <2>3, <2>4, <3>1, <3>2
  <2>6. m = x - 1
    <3>1. x - 1 \in Int /\ 1 \in Int /\ Cardinality(1 .. (x - 1)) = IF 1 > x - 1 THEN 0 ELSE x - 1 - 1 + 1
      BY <2>2, FS_Interval
    <3>2. Cardinality(1 .. (x - 1)) = x - 1
      BY <2>2, <3>1
    <3> HIDE DEF In
    <3> QED
      BY <2>5, <3>2 DEF m
  <2> QED
    BY <1>1, <2>2, <2>5, <2>6
<1> DEFINE w == Walk(b, next)
<1> HIDE DEF m, In
<1>11. /\ w = [k \in 1 .. m |-> at[k]] /\ w \in [1 .. m -> S]
       /\ \A k \in 1 .. m : w[k] = at[k] /\ w[k] \in S
  <2>1. \A k \in 1 .. m : at[k] \in S
    BY <1>1, <1>5, <1>10 DEF In
  <2> QED
    BY <1>3, <2>1
<1> HIDE DEF w
<1>12. \A j, k \in 1 .. m : w[j] = w[k] => j = k
  BY <1>8, <1>10, <1>11
<1>13. \A k \in 1 .. m - 1 : next[w[k]] = w[k + 1]
  <2>1. \A k \in 1 .. m - 1 : k \in 1 .. m /\ k + 1 \in 1 .. m /\ k \in 1 .. N
    BY <1>1, <1>10
  <2>2. \A k \in 1 .. m : at[k] # Nil
    BY <1>10 DEF In
  <2> QED
    BY <1>3, <1>11, <2>1, <2>2
<1>14. m # 0 => w[1] = b /\ next[w[m]] = Nil
  <2>1. SUFFICES ASSUME m # 0 PROVE w[1] = b /\ next[w[m]] = Nil
    OBVIOUS
  <2>2. 1 \in 1 .. m /\ m \in 1 .. m /\ m \in 1 .. N /\ m + 1 \notin 1 .. m /\ m + 1 \in 1 .. N + 1
    BY <1>1, <1>10, <2>1
  <2>3. at[m] # Nil /\ at[m + 1] = Nil
    BY <1>10, <2>2 DEF In
  <2> QED
    BY <1>3, <1>11, <2>2, <2>3
<1>15. m = 0 <=> S = {}
  <2>1. 1 \in 1 .. N + 1 /\ (1 \in 1 .. m <=> m # 0)
    BY <1>1, <1>10
  <2>2. b # Nil <=> m # 0
    BY <1>3, <1>10, <2>1 DEF In
  <2> QED
    BY <2>2 DEF Upwards
(* A block of S that is not met is led to from one of lower rank.          *)
<1>16. \A c \in S : \E k \in 1 .. m : w[k] = c
  <2> DEFINE Off == {c \in S : \A k \in 1 .. m : w[k] # c}
             R == {rank[c] : c \in Off}
  <2>1. SUFFICES ASSUME Off # {} PROVE FALSE
    OBVIOUS
  <2>2. PICK x \in R : \A y \in R : x <= y
    <3>1. R \subseteq Nat /\ R # {}
      BY <1>7, <2>1
    <3> HIDE DEF R
    <3> QED
      BY <3>1, Least
  <2>3. PICK c \in Off : x = rank[c]
    OBVIOUS
  <2>4. c \in S /\ c # b
    <3>1. m # 0
      BY <1>15
    <3>2. 1 \in 1 .. m /\ w[1] = b
      BY <1>10, <1>14, <3>1
    <3> QED
      BY <3>2
  <2>5. PICK e \in S : next[e] = c
    BY <2>4 DEF Upwards
  <2>6. c # Nil /\ rank[e] < rank[c]
    <3>1. c # Nil
      BY <2>4 DEF Upwards
    <3> QED
      BY <2>5, <3>1 DEF Upwards
  <2>7. e \notin Off
    <3>1. SUFFICES ASSUME e \in Off PROVE FALSE
      OBVIOUS
    <3>2. rank[e] \in R
      BY <3>1
    <3>3. rank[c] <= rank[e] /\ rank[c] \in Nat /\ rank[e] \in Nat
      BY <1>7, <2>2, <2>3, <2>4, <3>2
    <3> QED
      BY <2>6, <3>3
  <2>8. PICK k \in 1 .. m : w[k] = e
    BY <2>7
  <2>9. k \in 1 .. N /\ k + 1 \in 1 .. N + 1 /\ at[k] = e /\ e # Nil
    <3>1. k \in 1 .. N /\ k + 1 \in 1 .. N + 1
      BY <1>1, <1>10
    <3>2. e # Nil
      BY DEF Upwards
    <3> QED
      BY <1>11, <2>8, <3>1, <3>2
  <2>10. at[k + 1] = c
    BY <1>3, <2>5, <2>9
  <2>11. k + 1 \in 1 .. m
    BY <1>10, <2>6, <2>9, <2>10 DEF In
  <2>12. w[k + 1] = c
    BY <1>11, <2>10, <2>11
  <2> QED
    BY <2>11, <2>12
<1>17. m = Cardinality(S)
  <2>1. w \in Injection(1 .. m, S)
    BY <1>11, <1>12 DEF Injection, IsInjective
  <2>2. w \in Surjection(1 .. m, S)
    BY <1>11, <1>16 DEF Surjection
  <2>3. ExistsBijection(1 .. m, S)
    BY <2>1, <2>2 DEF ExistsBijection, Bijection
  <2>4. m \in Nat
    BY <1>10, <1>1
  <2> QED
    BY <2>3, <2>4, FS_CountingElements
<1> QED
  BY <1>4, <1>11, <1>12, <1>13, <1>14, <1>15, <1>16, <1>17 DEF GoesThrough, w

-----------------------------------------------------------------------------
(* What holds of a heap between two calls.                                 *)

Node == [size : Nat, free : BOOLEAN, prev : Nat, next : Nat, prevF : Nat, nextF : Nat]

HeapTyped(h) ==
  /\ h \in [blk : [DOMAIN h.blk -> Node], head : Nat, tail : Nat,
            headF : Nat, tailF : Nat, brk : Nat]
  /\ DOMAIN h.blk \subseteq Nat \ {0} /\ IsFiniteSet(DOMAIN h.blk)

End(h, b) == b + Header + h.blk[b].size

Free(h) == {b \in DOMAIN h.blk : h.blk[b].free}

(* The blocks lie one behind the other from the first word to brk, linked  *)
(* both ways.                                                              *)
Tiled(h) ==
  /\ 1 \in DOMAIN h.blk /\ h.head = 1 /\ h.tail \in DOMAIN h.blk
  /\ \A b \in DOMAIN h.blk :
       /\ End(h, b) <= h.brk
       /\ IF b = h.tail THEN h.blk[b].next = Nil /\ End(h, b) = h.brk
          ELSE /\ h.blk[b].next \in DOMAIN h.blk /\ h.blk[b].next = End(h, b)
               /\ h.blk[h.blk[b].next].prev = b
       /\ IF b = 1 THEN h.blk[b].prev = Nil
          ELSE h.blk[b].prev \in DOMAIN h.blk /\ h.blk[h.blk[b].prev].next = b
  /\ \A b, c \in DOMAIN h.blk : b < c => End(h, b) <= c

(* The blocks of S are linked both ways in some order (rank), with nothing *)
(* between a block and the one it leads to, and the others are not linked. *)
Ordered(h, S, rank) ==
  /\ \A b \in S : rank[b] \in Nat
  /\ \A b, c \in S : rank[b] = rank[c] => b = c
  /\ \A b \in S :
       IF h.blk[b].nextF = Nil THEN \A c \in S : rank[c] <= rank[b]
       ELSE /\ rank[b] < rank[h.blk[b].nextF]
            /\ \A c \in S : rank[c] <= rank[b] \/ rank[h.blk[b].nextF] <= rank[c]
  /\ \A b \in S : h.blk[b].prevF = Nil => \A c \in S : rank[b] <= rank[c]

Links(h, S) ==
  /\ S \subseteq DOMAIN h.blk /\ h.headF \in S \cup {Nil} /\ h.tailF \in S \cup {Nil}
  /\ h.headF = Nil <=> S = {}
  /\ h.tailF = Nil <=> S = {}
  /\ \A b \in S :
       /\ h.blk[b].nextF \in S \cup {Nil} /\ h.blk[b].prevF \in S \cup {Nil}
       /\ h.blk[b].nextF = Nil <=> b = h.tailF
       /\ h.blk[b].prevF = Nil <=> b = h.headF
       /\ h.blk[b].nextF # Nil => h.blk[h.blk[b].nextF].prevF = b
       /\ h.blk[b].prevF # Nil => h.blk[h.blk[b].prevF].nextF = b
  /\ \A b \in DOMAIN h.blk \ S : h.blk[b].nextF = Nil /\ h.blk[b].prevF = Nil

Listed(h, S) == Links(h, S) /\ \E rank : Ordered(h, S, rank)

Apart(h) ==
  \A b \in Free(h) : h.blk[b].next # Nil => ~h.blk[h.blk[b].next].free

HeapOK(h) == HeapTyped(h) /\ Tiled(h) /\ Listed(h, Free(h)) /\ Apart(h)

(* The dictionary d is of different blocks in use, with the test's words at*)
(* both ends.                                                              *)
KeptIn(h, m, d) ==
  /\ \A k \in DOMAIN d :
       /\ d[k].ptr \in DOMAIN h.blk /\ ~h.blk[d[k].ptr].free
       /\ d[k].size <= h.blk[d[k].ptr].size
       /\ m[First(d[k].ptr)] = k /\ m[LastWord(d[k].ptr, d[k].size)] = k
  /\ \A j, k \in DOMAIN d : d[j].ptr = d[k].ptr => j = k

(* Block p is another one in use. *)
Another(h, d, p) ==
  /\ p \in DOMAIN h.blk /\ ~h.blk[p].free
  /\ \A k \in DOMAIN d : d[k].ptr # p

Largest == CHOOSE s \in Sizes : \A r \in Sizes : r <= s

(* How far a allocations can bring the end of the heap. *)
Reach(a) == 1 + 2 * (Header + DictSize) + a * (Header + Room * Largest)

(* The words from 1 to top - 1 are all there are. *)
Memory(h, m, top) ==
  /\ HeapOK(h) /\ h.brk <= top /\ top \in Nat /\ m \in [1 .. top - 1 -> 0 .. TOTAL_ALLOCS]

(* The heap after a allocations, with what is kept. *)
Test(h, m, d, a) ==
  /\ Memory(h, m, Reach(TOTAL_ALLOCS)) /\ h.brk <= Reach(a)
  /\ d \in Seq([ptr : Nat, size : Nat \ {0}]) /\ KeptIn(h, m, d)

(* What the test will reallocate is another block, its first word written. *)
Retried ==
  phase = "alloc" /\ realloc_ptr # Nil =>
    /\ Another(heap, dictionary, realloc_ptr) /\ heap.blk[realloc_ptr].size # 0
    /\ mem[First(realloc_ptr)] = Len(dictionary) + 1

MInv ==
  /\ Test(heap, mem, dictionary, allocs)
  /\ allocs \in 0 .. TOTAL_ALLOCS /\ Len(dictionary) <= allocs
  /\ phase \in {"alloc", "check", "harmed", "passed"}
  /\ Retried

-----------------------------------------------------------------------------
(* What the operations on lists leave in each field. *)

SameBlocks(h, r) ==
  /\ DOMAIN r.blk = DOMAIN h.blk
  /\ r.head = h.head /\ r.tail = h.tail /\ r.brk = h.brk
  /\ \A b \in DOMAIN h.blk :
       /\ r.blk[b].size = h.blk[b].size /\ r.blk[b].free = h.blk[b].free
       /\ r.blk[b].prev = h.blk[b].prev /\ r.blk[b].next = h.blk[b].next

(* The changes UnlinkF and AppendF are made of, and what they do. *)
PutNextF(h, p, q) == IF p # Nil THEN [h EXCEPT !.blk[p].nextF = q] ELSE [h EXCEPT !.headF = q]
PutPrevF(h, p, q) == IF q # Nil THEN [h EXCEPT !.blk[q].prevF = p] ELSE [h EXCEPT !.tailF = p]
PutAlone(h, n) == [h EXCEPT !.blk[n].prevF = Nil, !.blk[n].nextF = Nil]
PutLast(h, n, p) == [h EXCEPT !.tailF = n, !.blk[n].prevF = p, !.blk[n].nextF = Nil]

NextFPut(h, p, q, r) ==
  /\ HeapTyped(r) /\ SameBlocks(h, r)
  /\ r.headF = (IF p = Nil THEN q ELSE h.headF) /\ r.tailF = h.tailF
  /\ \A b \in DOMAIN h.blk :
       /\ r.blk[b].nextF = IF b = p THEN q ELSE h.blk[b].nextF
       /\ r.blk[b].prevF = h.blk[b].prevF

PrevFPut(h, p, q, r) ==
  /\ HeapTyped(r) /\ SameBlocks(h, r)
  /\ r.tailF = (IF q = Nil THEN p ELSE h.tailF) /\ r.headF = h.headF
  /\ \A b \in DOMAIN h.blk :
       /\ r.blk[b].prevF = IF b = q THEN p ELSE h.blk[b].prevF
       /\ r.blk[b].nextF = h.blk[b].nextF

AlonePut(h, n, r) ==
  /\ HeapTyped(r) /\ SameBlocks(h, r)
  /\ r.headF = h.headF /\ r.tailF = h.tailF
  /\ \A b \in DOMAIN h.blk :
       /\ r.blk[b].prevF = IF b = n THEN Nil ELSE h.blk[b].prevF
       /\ r.blk[b].nextF = IF b = n THEN Nil ELSE h.blk[b].nextF

LastPut(h, n, p, r) ==
  /\ HeapTyped(r) /\ SameBlocks(h, r)
  /\ r.headF = h.headF /\ r.tailF = n
  /\ \A b \in DOMAIN h.blk :
       /\ r.blk[b].prevF = IF b = n THEN p ELSE h.blk[b].prevF
       /\ r.blk[b].nextF = IF b = n THEN Nil ELSE h.blk[b].nextF

LEMMA AheadFields ==
  ASSUME NEW h, HeapTyped(h), NEW p \in DOMAIN h.blk \cup {Nil}, NEW q \in Nat
  PROVE  NextFPut(h, p, q, PutNextF(h, p, q))
<1>1. Nil \notin DOMAIN h.blk
  BY DEF HeapTyped, Nil
<1>2. CASE p = Nil
  BY <1>1, <1>2 DEF PutNextF, NextFPut, HeapTyped, Node, SameBlocks
<1>3. CASE p # Nil
  BY <1>1, <1>3 DEF PutNextF, NextFPut, HeapTyped, Node, SameBlocks
<1> QED
  BY <1>2, <1>3

LEMMA BehindFields ==
  ASSUME NEW h, HeapTyped(h), NEW p \in Nat, NEW q \in DOMAIN h.blk \cup {Nil}
  PROVE  PrevFPut(h, p, q, PutPrevF(h, p, q))
<1>1. Nil \notin DOMAIN h.blk
  BY DEF HeapTyped, Nil
<1>2. CASE q = Nil
  BY <1>1, <1>2 DEF PutPrevF, PrevFPut, HeapTyped, Node, SameBlocks
<1>3. CASE q # Nil
  BY <1>1, <1>3 DEF PutPrevF, PrevFPut, HeapTyped, Node, SameBlocks
<1> QED
  BY <1>2, <1>3

LEMMA AloneFields ==
  ASSUME NEW h, HeapTyped(h), NEW n \in DOMAIN h.blk
  PROVE  AlonePut(h, n, PutAlone(h, n))
<1> DEFINE r == [h EXCEPT !.blk[n].prevF = Nil, !.blk[n].nextF = Nil]
           c == [h.blk EXCEPT ![n].prevF = Nil, ![n].nextF = Nil]
           d == [h.blk[n] EXCEPT !.prevF = Nil, !.nextF = Nil]
<1>1. h \in [blk : [DOMAIN h.blk -> Node], head : Nat, tail : Nat, headF : Nat, tailF : Nat, brk : Nat]
  BY DEF HeapTyped
<1>2. h.blk \in [DOMAIN h.blk -> Node] /\ h.blk[n] \in Node
  BY <1>1
<1>3. r.blk = c /\ r = [h EXCEPT !.blk = c]
  BY <1>1
<1>4. c[n] = d /\ c = [h.blk EXCEPT ![n] = d]
  BY <1>2
<1>5. /\ d \in Node /\ d.size = h.blk[n].size /\ d.free = h.blk[n].free
      /\ d.prev = h.blk[n].prev /\ d.next = h.blk[n].next /\ d.prevF = Nil /\ d.nextF = Nil
  BY <1>2 DEF Node, Nil
<1> HIDE DEF d
<1>6. /\ c \in [DOMAIN h.blk -> Node] /\ DOMAIN c = DOMAIN h.blk
      /\ \A b \in DOMAIN h.blk : c[b] = IF b = n THEN d ELSE h.blk[b]
  BY <1>2, <1>4, <1>5
<1> HIDE DEF c
<1>7. HeapTyped(r)
  BY <1>1, <1>3, <1>6 DEF HeapTyped
<1>8. r.head = h.head /\ r.tail = h.tail /\ r.brk = h.brk /\ r.headF = h.headF /\ r.tailF = h.tailF
  BY <1>1
<1> HIDE DEF r
<1> QED
  BY <1>3, <1>5, <1>6, <1>7, <1>8, SMTT(30) DEF r, AlonePut, PutAlone, SameBlocks

LEMMA LastFields ==
  ASSUME NEW h, HeapTyped(h), NEW n \in DOMAIN h.blk, NEW p \in Nat
  PROVE  LastPut(h, n, p, PutLast(h, n, p))
<1> DEFINE r == [h EXCEPT !.tailF = n, !.blk[n].prevF = p, !.blk[n].nextF = Nil]
           c == [h.blk EXCEPT ![n].prevF = p, ![n].nextF = Nil]
           d == [h.blk[n] EXCEPT !.prevF = p, !.nextF = Nil]
<1>1. h \in [blk : [DOMAIN h.blk -> Node], head : Nat, tail : Nat, headF : Nat, tailF : Nat, brk : Nat]
  BY DEF HeapTyped
<1>2. h.blk \in [DOMAIN h.blk -> Node] /\ h.blk[n] \in Node /\ n \in Nat
  BY <1>1 DEF HeapTyped
<1>3. r.blk = c /\ r = [h EXCEPT !.tailF = n, !.blk = c]
  BY <1>1
<1>4. c[n] = d /\ c = [h.blk EXCEPT ![n] = d]
  BY <1>2
<1>5. /\ d \in Node /\ d.size = h.blk[n].size /\ d.free = h.blk[n].free
      /\ d.prev = h.blk[n].prev /\ d.next = h.blk[n].next /\ d.prevF = p /\ d.nextF = Nil
  BY <1>2 DEF Node, Nil
<1> HIDE DEF d
<1>6. /\ c \in [DOMAIN h.blk -> Node] /\ DOMAIN c = DOMAIN h.blk
      /\ \A b \in DOMAIN h.blk : c[b] = IF b = n THEN d ELSE h.blk[b]
  BY <1>2, <1>4, <1>5
<1> HIDE DEF c
<1>7. HeapTyped(r)
  BY <1>1, <1>2, <1>3, <1>6 DEF HeapTyped
<1>8. r.head = h.head /\ r.tail = h.tail /\ r.brk = h.brk /\ r.headF = h.headF /\ r.tailF = n
  BY <1>1
<1> HIDE DEF r
<1> QED
  BY <1>3, <1>5, <1>6, <1>7, <1>8, SMTT(30) DEF r, LastPut, PutLast, SameBlocks

(* Block n taken out of the free list, and put at its end. *)
Unlinked(h, n, r) ==
  LET p == h.blk[n].prevF q == h.blk[n].nextF
  IN /\ HeapTyped(r) /\ SameBlocks(h, r)
     /\ r.headF = IF p = Nil THEN q ELSE h.headF
     /\ r.tailF = IF q = Nil THEN p ELSE h.tailF
     /\ \A b \in DOMAIN h.blk :
          /\ r.blk[b].nextF = IF b = n THEN Nil ELSE IF b = p THEN q ELSE h.blk[b].nextF
          /\ r.blk[b].prevF = IF b = n THEN Nil ELSE IF b = q THEN p ELSE h.blk[b].prevF

Appended(h, n, r) ==
  /\ HeapTyped(r) /\ SameBlocks(h, r)
  /\ r.headF = IF h.tailF = Nil THEN n ELSE h.headF
  /\ r.tailF = n
  /\ \A b \in DOMAIN h.blk :
       /\ r.blk[b].nextF = IF b = n THEN Nil ELSE IF b = h.tailF THEN n ELSE h.blk[b].nextF
       /\ r.blk[b].prevF = IF b = n THEN h.tailF ELSE h.blk[b].prevF

LEMMA UnlinkFields ==
  ASSUME NEW h, HeapTyped(h), NEW n \in DOMAIN h.blk,
         h.blk[n].prevF \in DOMAIN h.blk \cup {Nil}, h.blk[n].nextF \in DOMAIN h.blk \cup {Nil}
  PROVE  Unlinked(h, n, UnlinkF(h, n))
<1>1. PICK p, q : p = h.blk[n].prevF /\ q = h.blk[n].nextF
  OBVIOUS
<1>2. p \in Nat /\ q \in Nat /\ p \in DOMAIN h.blk \cup {Nil} /\ q \in DOMAIN h.blk \cup {Nil}
  BY <1>1 DEF HeapTyped, Nil
<1>3. PICK a, c, r : a = PutNextF(h, p, q) /\ c = PutPrevF(a, p, q) /\ r = PutAlone(c, n)
  OBVIOUS
<1>4. UnlinkF(h, n) = r
  BY <1>1, <1>3, ZenonT(40) DEF UnlinkF, PutAlone, PutPrevF, PutNextF
<1>5. NextFPut(h, p, q, a)
  BY <1>2, <1>3, AheadFields
<1>6. HeapTyped(a) /\ DOMAIN a.blk = DOMAIN h.blk
  BY <1>5 DEF NextFPut, SameBlocks
<1>7. PrevFPut(a, p, q, c)
  BY <1>2, <1>3, <1>6, BehindFields
<1>8. HeapTyped(c) /\ DOMAIN c.blk = DOMAIN h.blk
  BY <1>6, <1>7 DEF PrevFPut, SameBlocks
<1>9. AlonePut(c, n, r)
  BY <1>3, <1>8, AloneFields
<1>10. SameBlocks(h, r) /\ HeapTyped(r)
  BY <1>5, <1>6, <1>7, <1>8, <1>9 DEF SameBlocks, NextFPut, PrevFPut, AlonePut
<1>11. /\ r.headF = IF p = Nil THEN q ELSE h.headF
       /\ r.tailF = IF q = Nil THEN p ELSE h.tailF
       /\ \A b \in DOMAIN h.blk :
            /\ r.blk[b].nextF = IF b = n THEN Nil ELSE IF b = p THEN q ELSE h.blk[b].nextF
            /\ r.blk[b].prevF = IF b = n THEN Nil ELSE IF b = q THEN p ELSE h.blk[b].prevF
  BY <1>5, <1>6, <1>7, <1>8, <1>9 DEF NextFPut, PrevFPut, AlonePut
<1> QED
  BY <1>1, <1>4, <1>10, <1>11 DEF Unlinked

LEMMA AppendFields ==
  ASSUME NEW h, HeapTyped(h), NEW n \in DOMAIN h.blk, h.tailF \in DOMAIN h.blk \cup {Nil}
  PROVE  Appended(h, n, AppendF(h, n))
<1>1. PICK p : p = h.tailF
  OBVIOUS
<1>2. p \in Nat /\ n \in Nat /\ p \in DOMAIN h.blk \cup {Nil}
  BY <1>1 DEF HeapTyped, Nil
<1>3. PICK a, r : a = PutNextF(h, p, n) /\ r = PutLast(a, n, p)
  OBVIOUS
<1>4. AppendF(h, n) = r
  BY <1>1, <1>3 DEF AppendF, PutLast, PutNextF
<1>5. NextFPut(h, p, n, a)
  BY <1>2, <1>3, AheadFields
<1>6. HeapTyped(a) /\ DOMAIN a.blk = DOMAIN h.blk
  BY <1>5 DEF NextFPut, SameBlocks
<1>7. LastPut(a, n, p, r)
  BY <1>2, <1>3, <1>6, LastFields
<1>8. SameBlocks(h, r) /\ HeapTyped(r)
  BY <1>5, <1>6, <1>7 DEF SameBlocks, NextFPut, LastPut
<1>9. /\ r.headF = (IF p = Nil THEN n ELSE h.headF) /\ r.tailF = n
      /\ \A b \in DOMAIN h.blk :
           /\ r.blk[b].nextF = IF b = n THEN Nil ELSE IF b = p THEN n ELSE h.blk[b].nextF
           /\ r.blk[b].prevF = IF b = n THEN p ELSE h.blk[b].prevF
  BY <1>5, <1>6, <1>7 DEF NextFPut, LastPut
<1> QED
  BY <1>1, <1>4, <1>8, <1>9 DEF Appended

-----------------------------------------------------------------------------
(* The free list stays one. *)

LEMMA ListedEnds ==
  ASSUME NEW h, NEW S, HeapTyped(h), Listed(h, S)
  PROVE  /\ Nil \notin S /\ S \subseteq DOMAIN h.blk /\ h.tailF \in DOMAIN h.blk \cup {Nil}
         /\ \A n \in S : h.blk[n].prevF \in DOMAIN h.blk \cup {Nil} /\ h.blk[n].nextF \in DOMAIN h.blk \cup {Nil}
BY DEF HeapTyped, Listed, Links, Nil

LEMMA UnlinkedList ==
  ASSUME NEW h, NEW S, NEW n \in S, NEW r, HeapTyped(h), Listed(h, S), Unlinked(h, n, r)
  PROVE  Listed(r, S \ {n})
<1>1. PICK rank : Ordered(h, S, rank)
  BY DEF Listed
<1>2. PICK p, q : p = h.blk[n].prevF /\ q = h.blk[n].nextF
  OBVIOUS
<1>3. /\ DOMAIN r.blk = DOMAIN h.blk
      /\ r.headF = (IF p = Nil THEN q ELSE h.headF)
      /\ r.tailF = (IF q = Nil THEN p ELSE h.tailF)
      /\ \A b \in DOMAIN h.blk :
           /\ r.blk[b].nextF = IF b = n THEN Nil ELSE IF b = p THEN q ELSE h.blk[b].nextF
           /\ r.blk[b].prevF = IF b = n THEN Nil ELSE IF b = q THEN p ELSE h.blk[b].prevF
  BY <1>2 DEF Unlinked, SameBlocks
<1>4. Links(h, S)
  BY DEF Listed
<1>5. Nil \notin S
  BY ListedEnds
<1>6. /\ p \in S \cup {Nil} /\ q \in S \cup {Nil}
      /\ p # Nil => h.blk[p].nextF = n
      /\ q # Nil => h.blk[q].prevF = n
      /\ q = Nil <=> n = h.tailF
      /\ p = Nil <=> n = h.headF
  BY <1>2, <1>4 DEF Links
<1>7. /\ p # n /\ q # n
      /\ p # Nil => rank[p] < rank[n] /\ \A c \in S : rank[c] <= rank[p] \/ rank[n] <= rank[c]
      /\ q # Nil => rank[n] < rank[q] /\ \A c \in S : rank[c] <= rank[n] \/ rank[q] <= rank[c]
      /\ p = Nil => \A c \in S : rank[n] <= rank[c]
      /\ q = Nil => \A c \in S : rank[c] <= rank[n]
      /\ \A c \in S : rank[c] \in Nat
      /\ \A b, c \in S : rank[b] = rank[c] => b = c
  <2>1. p # Nil => rank[p] < rank[n] /\ \A c \in S : rank[c] <= rank[p] \/ rank[n] <= rank[c]
    BY <1>1, <1>2, <1>5, <1>6 DEF Ordered
  <2>2. q # Nil => rank[n] < rank[q] /\ \A c \in S : rank[c] <= rank[n] \/ rank[q] <= rank[c]
    BY <1>1, <1>2, <1>5, <1>6 DEF Ordered
  <2>3. p = Nil => \A c \in S : rank[n] <= rank[c]
    BY <1>1, <1>2 DEF Ordered
  <2>4. q = Nil => \A c \in S : rank[c] <= rank[n]
    BY <1>1, <1>2 DEF Ordered
  <2>5. \A c \in S : rank[c] \in Nat
    BY <1>1 DEF Ordered
  <2>6. \A b, c \in S : rank[b] = rank[c] => b = c
    BY <1>1 DEF Ordered
  <2>7. p # n /\ q # n
    BY <1>5, <2>1, <2>2, <2>5
  <2> QED
    BY <2>1, <2>2, <2>3, <2>4, <2>5, <2>6, <2>7
<1> DEFINE T == S \ {n}
<1>8. /\ p # Nil => p \in T
      /\ q # Nil => q \in T
      /\ p = Nil /\ q = Nil => T = {}
  <2>1. p = Nil /\ q = Nil => \A c \in S : rank[c] = rank[n]
    BY <1>7
  <2> QED
    BY <1>6, <1>7, <2>1
<1>9. Ordered(r, T, rank)
  <2>1. \A b \in T : rank[b] \in Nat
    BY <1>7
  <2>2. \A b, c \in T : rank[b] = rank[c] => b = c
    BY <1>7
  <2>3. ASSUME NEW b \in T
        PROVE  IF r.blk[b].nextF = Nil THEN \A c \in T : rank[c] <= rank[b]
               ELSE /\ rank[b] < rank[r.blk[b].nextF]
                    /\ \A c \in T : rank[c] <= rank[b] \/ rank[r.blk[b].nextF] <= rank[c]
    <3>1. b \in S /\ b # n /\ b \in DOMAIN h.blk
      BY <1>4 DEF Links
    <3>2. CASE b # p
      <4>1. r.blk[b].nextF = h.blk[b].nextF
        BY <1>3, <3>1, <3>2
      <4> QED
        BY <1>1, <3>1, <4>1 DEF Ordered
    <3>3. CASE b = p
      <4>1. r.blk[b].nextF = q /\ p # Nil
        BY <1>3, <1>5, <3>1, <3>3
      <4>2. CASE q = Nil
        <5>1. ASSUME NEW c \in T PROVE rank[c] <= rank[b]
          <6>1. rank[c] \in Nat /\ rank[n] \in Nat /\ rank[c] # rank[n]
            BY <1>7
          <6>2. rank[c] <= rank[n] /\ (rank[c] <= rank[p] \/ rank[n] <= rank[c])
            BY <1>7, <4>1, <4>2
          <6> QED
            BY <3>3, <6>1, <6>2
        <5> QED
          BY <4>1, <4>2, <5>1
      <4>3. CASE q # Nil
        <5>1. rank[b] < rank[q]
          <6>1. rank[p] \in Nat /\ rank[n] \in Nat /\ rank[q] \in Nat
            BY <1>7, <1>8, <4>1, <4>3
          <6> QED
            BY <1>7, <3>3, <4>1, <4>3, <6>1
        <5>2. ASSUME NEW c \in T PROVE rank[c] <= rank[b] \/ rank[q] <= rank[c]
          <6>1. rank[c] \in Nat /\ rank[n] \in Nat /\ rank[c] # rank[n]
            BY <1>7
          <6>2. /\ rank[c] <= rank[p] \/ rank[n] <= rank[c]
                /\ rank[c] <= rank[n] \/ rank[q] <= rank[c]
            BY <1>7, <4>1, <4>3
          <6> QED
            BY <3>3, <6>1, <6>2
        <5> QED
          BY <4>1, <4>3, <5>1, <5>2
      <4> QED
        BY <4>2, <4>3
    <3> QED
      BY <3>2, <3>3
  <2>4. ASSUME NEW b \in T, r.blk[b].prevF = Nil, NEW c \in T
        PROVE  rank[b] <= rank[c]
    <3>1. b \in S /\ b # n /\ b \in DOMAIN h.blk
      BY <1>4 DEF Links
    <3>2. CASE b # q
      <4>1. h.blk[b].prevF = Nil
        BY <1>3, <2>4, <3>1, <3>2
      <4> QED
        BY <1>1, <3>1, <4>1 DEF Ordered
    <3>3. CASE b = q
      <4>1. p = Nil /\ q # Nil
        BY <1>3, <1>5, <2>4, <3>1, <3>3
      <4>2. rank[c] \in Nat /\ rank[n] \in Nat /\ rank[c] # rank[n] /\ rank[n] <= rank[c]
        BY <1>7, <4>1
      <4>3. rank[c] <= rank[n] \/ rank[q] <= rank[c]
        BY <1>7, <4>1
      <4> QED
        BY <3>3, <4>2, <4>3
    <3> QED
      BY <3>2, <3>3
  <2> QED
    BY <2>1, <2>2, <2>3, <2>4 DEF Ordered
<1>10. Links(r, T)
  <2>1. T \subseteq DOMAIN r.blk
    BY <1>3, <1>4 DEF Links
  <2>2. /\ r.headF \in T \cup {Nil} /\ r.tailF \in T \cup {Nil}
        /\ r.headF = Nil <=> T = {}
        /\ r.tailF = Nil <=> T = {}
    <3>1. h.headF \in S /\ h.tailF \in S
      BY <1>4 DEF Links
    <3>2. p # Nil => h.headF \in T
      BY <1>6, <3>1
    <3>3. q # Nil => h.tailF \in T
      BY <1>6, <3>1
    <3> QED
      BY <1>3, <1>5, <1>8, <3>2, <3>3
  <2>3. ASSUME NEW b \in T
        PROVE  /\ r.blk[b].nextF \in T \cup {Nil} /\ r.blk[b].prevF \in T \cup {Nil}
               /\ r.blk[b].nextF = Nil <=> b = r.tailF
               /\ r.blk[b].prevF = Nil <=> b = r.headF
               /\ r.blk[b].nextF # Nil => r.blk[r.blk[b].nextF].prevF = b
               /\ r.blk[b].prevF # Nil => r.blk[r.blk[b].prevF].nextF = b
    <3>1. b \in S /\ b # n /\ b \in DOMAIN h.blk /\ T \subseteq DOMAIN h.blk
      BY <1>4 DEF Links
    <3>2. PICK x, y : x = h.blk[b].nextF /\ y = h.blk[b].prevF
      OBVIOUS
    <3>3. /\ x \in S \cup {Nil} /\ y \in S \cup {Nil}
          /\ x = Nil <=> b = h.tailF
          /\ y = Nil <=> b = h.headF
          /\ x # Nil => h.blk[x].prevF = b
          /\ y # Nil => h.blk[y].nextF = b
      BY <1>4, <3>1, <3>2 DEF Links
    <3>4. (x = n <=> b = p) /\ (y = n <=> b = q)
      BY <1>2, <1>5, <1>6, <3>1, <3>2, <3>3
    <3>5. r.blk[b].nextF = (IF b = p THEN q ELSE x) /\ r.blk[b].prevF = (IF b = q THEN p ELSE y)
      BY <1>3, <3>1, <3>2
    <3>6. r.blk[b].nextF \in T \cup {Nil} /\ r.blk[b].prevF \in T \cup {Nil}
      BY <1>8, <3>3, <3>4, <3>5
    <3>7. r.blk[b].nextF = Nil <=> b = r.tailF
      BY <1>3, <1>5, <1>6, <3>1, <3>3, <3>4, <3>5
    <3>8. r.blk[b].prevF = Nil <=> b = r.headF
      BY <1>3, <1>5, <1>6, <3>1, <3>3, <3>4, <3>5
    <3>9. r.blk[b].nextF # Nil => r.blk[r.blk[b].nextF].prevF = b
      <4>1. CASE b = p
        BY <1>3, <1>8, <3>1, <3>5, <4>1
      <4>2. CASE b # p
        <5>1. x # Nil => x # n /\ x # q /\ x \in DOMAIN h.blk
          BY <1>5, <1>6, <3>1, <3>3, <3>4, <4>2
        <5> QED
          BY <1>3, <3>3, <3>5, <4>2, <5>1
      <4> QED
        BY <4>1, <4>2
    <3>10. r.blk[b].prevF # Nil => r.blk[r.blk[b].prevF].nextF = b
      <4>1. CASE b = q
        BY <1>3, <1>8, <3>1, <3>5, <4>1
      <4>2. CASE b # q
        <5>1. y # Nil => y # n /\ y # p /\ y \in DOMAIN h.blk
          BY <1>5, <1>6, <3>1, <3>3, <3>4, <4>2
        <5> QED
          BY <1>3, <3>3, <3>5, <4>2, <5>1
      <4> QED
        BY <4>1, <4>2
    <3> QED
      BY <3>6, <3>7, <3>8, <3>9, <3>10
  <2>4. ASSUME NEW b \in DOMAIN r.blk \ T
        PROVE  r.blk[b].nextF = Nil /\ r.blk[b].prevF = Nil
    <3>1. b \in DOMAIN h.blk /\ (b = n \/ b \in DOMAIN h.blk \ S)
      BY <1>3
    <3>2. b # n => (b # p /\ b # q) \/ b = Nil
      BY <1>8
    <3>3. Nil \notin DOMAIN h.blk
      BY DEF HeapTyped, Nil
    <3>4. b # n => h.blk[b].nextF = Nil /\ h.blk[b].prevF = Nil
      BY <1>4, <3>1 DEF Links
    <3> QED
      BY <1>3, <3>1, <3>2, <3>3, <3>4
  <2> QED
    BY <2>1, <2>2, <2>3, <2>4 DEF Links
<1> QED
  BY <1>9, <1>10 DEF Listed

LEMMA AppendedList ==
  ASSUME NEW h, NEW S, NEW n \in DOMAIN h.blk, n \notin S, NEW r,
         HeapTyped(h), Listed(h, S), Appended(h, n, r)
  PROVE  Listed(r, S \cup {n})
<1>1. PICK rank : Ordered(h, S, rank)
  BY DEF Listed
<1>2. PICK l : l = h.tailF
  OBVIOUS
<1>3. /\ DOMAIN r.blk = DOMAIN h.blk
      /\ r.headF = (IF l = Nil THEN n ELSE h.headF) /\ r.tailF = n
      /\ \A b \in DOMAIN h.blk :
           /\ r.blk[b].nextF = IF b = n THEN Nil ELSE IF b = l THEN n ELSE h.blk[b].nextF
           /\ r.blk[b].prevF = IF b = n THEN l ELSE h.blk[b].prevF
  BY <1>2 DEF Appended, SameBlocks
<1>4. Links(h, S)
  BY DEF Listed
<1>5. Nil \notin S /\ Nil \notin DOMAIN h.blk /\ S \subseteq DOMAIN h.blk
  BY ListedEnds DEF HeapTyped, Nil
<1>6. l \in S \cup {Nil} /\ (l = Nil <=> S = {}) /\ (l # Nil => h.blk[l].nextF = Nil)
  BY <1>2, <1>4, <1>5 DEF Links
<1>7. /\ \A c \in S : rank[c] \in Nat
      /\ \A b, c \in S : rank[b] = rank[c] => b = c
      /\ \A c \in S : rank[c] <= rank[l]
  BY <1>1, <1>6 DEF Ordered
<1> DEFINE T == S \cup {n}
           new == [b \in T |-> IF b = n THEN (IF l = Nil THEN 0 ELSE rank[l] + 1) ELSE rank[b]]
<1>8. /\ \A c \in S : new[c] = rank[c] /\ new[c] < new[n]
      /\ \A c \in T : new[c] \in Nat
  <2>1. \A c \in S : new[c] = rank[c]
    OBVIOUS
  <2>2. new[n] = IF l = Nil THEN 0 ELSE rank[l] + 1
    OBVIOUS
  <2> HIDE DEF new
  <2>3. \A c \in S : l # Nil /\ rank[l] \in Nat /\ rank[c] \in Nat /\ rank[c] <= rank[l]
    BY <1>6, <1>7
  <2>4. new[n] \in Nat
    BY <1>6, <1>7, <2>2
  <2> QED
    BY <2>1, <2>2, <2>3, <2>4
<1> HIDE DEF new
<1>9. Ordered(r, T, new)
  <2>1. \A b, c \in T : new[b] = new[c] => b = c
    BY <1>7, <1>8
  <2>2. ASSUME NEW b \in T
        PROVE  IF r.blk[b].nextF = Nil THEN \A c \in T : new[c] <= new[b]
               ELSE /\ new[b] < new[r.blk[b].nextF]
                    /\ \A c \in T : new[c] <= new[b] \/ new[r.blk[b].nextF] <= new[c]
    <3>1. CASE b = n
      <4>1. r.blk[b].nextF = Nil
        BY <1>3, <3>1
      <4>2. \A c \in T : new[c] <= new[n]
        BY <1>8
      <4> QED
        BY <3>1, <4>1, <4>2
    <3>2. CASE b # n /\ b = l
      <4>1. r.blk[b].nextF = n /\ n # Nil /\ b \in S
        BY <1>3, <1>5, <1>6, <3>2
      <4>2. ASSUME NEW c \in S PROVE new[c] <= new[b]
        BY <1>7, <1>8, <3>2, <4>1
      <4>3. new[n] <= new[n]
        BY <1>8
      <4> QED
        BY <1>8, <4>1, <4>2, <4>3
    <3>3. CASE b # n /\ b # l
      <4>1. PICK x : x = h.blk[b].nextF
        OBVIOUS
      <4>2. b \in S /\ r.blk[b].nextF = x /\ x \in S
        <5>1. b \in S
          BY <3>3
        <5>2. x \in S \cup {Nil} /\ (x = Nil <=> b = l)
          BY <1>2, <1>4, <4>1, <5>1 DEF Links
        <5> QED
          BY <1>3, <1>5, <3>3, <4>1, <5>1, <5>2
      <4>3. /\ rank[b] < rank[x]
            /\ \A c \in S : rank[c] <= rank[b] \/ rank[x] <= rank[c]
        BY <1>1, <1>5, <4>1, <4>2 DEF Ordered
      <4>4. new[x] <= new[n] /\ x # Nil
        BY <1>5, <1>8, <4>2
      <4>5. \A c \in T : new[c] <= new[b] \/ new[x] <= new[c]
        BY <1>8, <4>2, <4>3, <4>4
      <4>6. new[b] < new[x]
        BY <1>8, <4>2, <4>3
      <4> QED
        BY <4>2, <4>4, <4>5, <4>6
    <3> QED
      BY <3>1, <3>2, <3>3
  <2>3. ASSUME NEW b \in T, r.blk[b].prevF = Nil, NEW c \in T
        PROVE  new[b] <= new[c]
    <3>1. CASE b = n
      <4>1. l = Nil
        BY <1>3, <2>3, <3>1
      <4>2. c = n
        BY <1>6, <4>1
      <4> QED
        BY <1>8, <3>1, <4>2
    <3>2. CASE b # n
      <4>1. b \in S /\ h.blk[b].prevF = Nil
        BY <1>3, <1>5, <2>3, <3>2
      <4>2. \A x \in S : rank[b] <= rank[x]
        BY <1>1, <4>1 DEF Ordered
      <4> QED
        BY <1>8, <4>1, <4>2
    <3> QED
      BY <3>1, <3>2
  <2> QED
    BY <1>8, <2>1, <2>2, <2>3 DEF Ordered
<1>10. Links(r, T)
  <2>1. T \subseteq DOMAIN r.blk
    BY <1>3, <1>5
  <2>2. /\ r.headF \in T \cup {Nil} /\ r.tailF \in T \cup {Nil}
        /\ r.headF = Nil <=> T = {}
        /\ r.tailF = Nil <=> T = {}
    <3>1. l # Nil => h.headF \in S
      BY <1>4, <1>6 DEF Links
    <3>2. r.headF \in T
      BY <1>3, <3>1
    <3> QED
      BY <1>3, <1>5, <3>2
  <2>3. ASSUME NEW b \in T
        PROVE  /\ r.blk[b].nextF \in T \cup {Nil} /\ r.blk[b].prevF \in T \cup {Nil}
               /\ r.blk[b].nextF = Nil <=> b = r.tailF
               /\ r.blk[b].prevF = Nil <=> b = r.headF
               /\ r.blk[b].nextF # Nil => r.blk[r.blk[b].nextF].prevF = b
               /\ r.blk[b].prevF # Nil => r.blk[r.blk[b].prevF].nextF = b
    <3>1. CASE b = n
      <4>1. r.blk[b].nextF = Nil /\ r.blk[b].prevF = l
        BY <1>3, <3>1
      <4>2. l # Nil => r.blk[l].nextF = n /\ h.headF \in S
        BY <1>3, <1>4, <1>5, <1>6 DEF Links
      <4> QED
        BY <1>3, <1>6, <3>1, <4>1, <4>2
    <3>2. CASE b # n
      <4>0. b \in S /\ b \in DOMAIN h.blk
        BY <1>5, <3>2
      <4>1. PICK x, y : x = h.blk[b].nextF /\ y = h.blk[b].prevF
        OBVIOUS
      <4>2. /\ x \in S \cup {Nil} /\ y \in S \cup {Nil}
            /\ x = Nil <=> b = l
            /\ y = Nil <=> b = h.headF
            /\ x # Nil => h.blk[x].prevF = b
            /\ y # Nil => h.blk[y].nextF = b
        BY <1>2, <1>4, <4>0, <4>1 DEF Links
      <4>3. r.blk[b].nextF = (IF b = l THEN n ELSE x) /\ r.blk[b].prevF = y /\ l # Nil
        BY <1>3, <1>6, <3>2, <4>0, <4>1
      <4>4. y = Nil <=> b = r.headF
        BY <1>3, <4>2, <4>3
      <4>5. r.blk[b].nextF # Nil => r.blk[r.blk[b].nextF].prevF = b
        <5>1. CASE b = l
          BY <1>3, <4>3, <5>1
        <5>2. CASE b # l
          BY <1>3, <1>5, <4>2, <4>3, <5>2
        <5> QED
          BY <5>1, <5>2
      <4>6. y # Nil => r.blk[y].nextF = b
        <5>1. y # Nil => y # l
          BY <1>6, <4>0, <1>5, <4>2
        <5> QED
          BY <1>3, <1>5, <4>2, <5>1
      <4> QED
        BY <1>3, <1>5, <3>2, <4>2, <4>3, <4>4, <4>5, <4>6
    <3> QED
      BY <3>1, <3>2
  <2>4. ASSUME NEW b \in DOMAIN r.blk \ T
        PROVE  r.blk[b].nextF = Nil /\ r.blk[b].prevF = Nil
    <3>1. b \in DOMAIN h.blk \ S /\ b # n /\ b # l
      BY <1>3, <1>5, <1>6
    <3>2. h.blk[b].nextF = Nil /\ h.blk[b].prevF = Nil
      BY <1>4, <3>1 DEF Links
    <3> QED
      BY <1>3, <3>1, <3>2
  <2> QED
    BY <2>1, <2>2, <2>3, <2>4 DEF Links
<1> QED
  BY <1>9, <1>10 DEF Listed

(* The list is the same when its links and its two ends are. *)
LEMMA SameList ==
  ASSUME NEW h, NEW S, NEW r, Listed(h, S), S \subseteq DOMAIN r.blk,
         r.headF = h.headF, r.tailF = h.tailF,
         \A b \in S : r.blk[b].nextF = h.blk[b].nextF /\ r.blk[b].prevF = h.blk[b].prevF,
         \A b \in DOMAIN r.blk \ S : r.blk[b].nextF = Nil /\ r.blk[b].prevF = Nil
  PROVE  Listed(r, S)
<1>1. PICK rank : Ordered(h, S, rank)
  BY DEF Listed
<1>2. Ordered(r, S, rank)
  BY <1>1 DEF Ordered
<1>3. Links(r, S)
  BY DEF Listed, Links
<1> QED
  BY <1>2, <1>3 DEF Listed

-----------------------------------------------------------------------------
(* What the operations on blocks leave in each field. *)

PutBack(h, x, m) == IF x # Nil THEN [h EXCEPT !.blk[x].prev = m] ELSE [h EXCEPT !.tail = m]

BackPut(h, x, m, r) ==
  /\ HeapTyped(r) /\ DOMAIN r.blk = DOMAIN h.blk
  /\ r.head = h.head /\ r.brk = h.brk /\ r.headF = h.headF /\ r.tailF = h.tailF
  /\ r.tail = (IF x = Nil THEN m ELSE h.tail)
  /\ \A b \in DOMAIN h.blk :
       /\ r.blk[b].size = h.blk[b].size /\ r.blk[b].free = h.blk[b].free
       /\ r.blk[b].prev = (IF b = x THEN m ELSE h.blk[b].prev) /\ r.blk[b].next = h.blk[b].next
       /\ r.blk[b].prevF = h.blk[b].prevF /\ r.blk[b].nextF = h.blk[b].nextF

(* Block n is gone, and t has its place. *)
Joined(h, t, n, r) ==
  /\ HeapTyped(r) /\ DOMAIN r.blk = DOMAIN h.blk \ {n}
  /\ r.head = h.head /\ r.brk = h.brk /\ r.headF = h.headF /\ r.tailF = h.tailF
  /\ r.tail = (IF h.blk[n].next = Nil THEN t ELSE h.tail)
  /\ \A b \in DOMAIN h.blk \ {n} :
       /\ r.blk[b].size = IF b = t THEN h.blk[t].size + Header + h.blk[n].size ELSE h.blk[b].size
       /\ r.blk[b].free = h.blk[b].free
       /\ r.blk[b].prev = IF b = h.blk[n].next THEN t ELSE h.blk[b].prev
       /\ r.blk[b].next = IF b = t THEN h.blk[n].next ELSE h.blk[b].next
       /\ r.blk[b].prevF = h.blk[b].prevF /\ r.blk[b].nextF = h.blk[b].nextF

(* Block t has size words, and a block m of its own what was behind them. *)
Divided(h, t, size, m, r) ==
  /\ HeapTyped(r) /\ DOMAIN r.blk = DOMAIN h.blk \cup {m}
  /\ r.head = h.head /\ r.brk = h.brk /\ r.headF = h.headF /\ r.tailF = h.tailF
  /\ r.tail = (IF h.blk[t].next = Nil THEN m ELSE h.tail)
  /\ r.blk[m].size = h.blk[t].size - size - Header /\ r.blk[m].free = TRUE
  /\ r.blk[m].prev = t /\ r.blk[m].next = h.blk[t].next
  /\ r.blk[m].prevF = Nil /\ r.blk[m].nextF = Nil
  /\ \A b \in DOMAIN h.blk :
       /\ r.blk[b].size = IF b = t THEN size ELSE h.blk[b].size
       /\ r.blk[b].free = h.blk[b].free
       /\ r.blk[b].prev = IF b = h.blk[t].next THEN m ELSE h.blk[b].prev
       /\ r.blk[b].next = IF b = t THEN m ELSE h.blk[b].next
       /\ r.blk[b].prevF = h.blk[b].prevF /\ r.blk[b].nextF = h.blk[b].nextF

LEMMA BackFields ==
  ASSUME NEW h, HeapTyped(h), NEW x \in DOMAIN h.blk \cup {Nil}, NEW m \in Nat
  PROVE  BackPut(h, x, m, PutBack(h, x, m))
<1>1. Nil \notin DOMAIN h.blk
  BY DEF HeapTyped, Nil
<1>2. CASE x = Nil
  BY <1>1, <1>2 DEF PutBack, BackPut, HeapTyped, Node
<1>3. CASE x # Nil
  BY <1>1, <1>3 DEF PutBack, BackPut, HeapTyped, Node
<1> QED
  BY <1>2, <1>3

LEMMA AbsorbFields ==
  ASSUME NEW h, HeapTyped(h), NEW t \in DOMAIN h.blk, NEW n \in DOMAIN h.blk, t # n,
         h.blk[n].next \in DOMAIN h.blk \cup {Nil}, h.blk[n].next # t, Header \in Nat
  PROVE  Joined(h, t, n, Absorb(h, t, n))
<1> DEFINE x == h.blk[n].next
           back == PutBack(h, x, t)
           d == [h.blk[t] EXCEPT !.size = @ + Header + h.blk[n].size, !.next = x]
           c == [b \in DOMAIN h.blk \ {n} |-> IF b = t THEN d ELSE back.blk[b]]
           r == Absorb(h, t, n)
<1>1. h.blk \in [DOMAIN h.blk -> Node] /\ h.blk[n] \in Node /\ h.blk[t] \in Node /\ t \in Nat
  BY DEF HeapTyped
<1>2. BackPut(h, x, t, back)
  BY <1>1, BackFields
<1>3. /\ HeapTyped(back) /\ DOMAIN back.blk = DOMAIN h.blk
      /\ back.head = h.head /\ back.brk = h.brk /\ back.headF = h.headF /\ back.tailF = h.tailF
      /\ back.tail = (IF x = Nil THEN t ELSE h.tail)
  BY <1>2 DEF BackPut
<1>4. r = [back EXCEPT !.blk = c]
  BY <1>3 DEF Absorb, PointBack, PutBack
<1>5. /\ d \in Node /\ d.size = h.blk[t].size + Header + h.blk[n].size /\ d.free = h.blk[t].free
      /\ d.prev = h.blk[t].prev /\ d.next = x /\ d.prevF = h.blk[t].prevF /\ d.nextF = h.blk[t].nextF
  <2>1. PICK y, z : y = x /\ z = h.blk[t].size + Header + h.blk[n].size
    OBVIOUS
  <2>2. y \in Nat /\ z \in Nat
    BY <1>1, <2>1 DEF Node
  <2>3. d = [h.blk[t] EXCEPT !.size = z, !.next = y]
    BY <1>1, <2>1 DEF Node
  <2> QED
    BY <1>1, <2>1, <2>2, <2>3 DEF Node
<1> HIDE DEF d, back
<1>6. /\ c \in [DOMAIN h.blk \ {n} -> Node] /\ DOMAIN c = DOMAIN h.blk \ {n}
      /\ \A b \in DOMAIN h.blk \ {n} : c[b] = IF b = t THEN d ELSE back.blk[b]
  BY <1>3, <1>5 DEF HeapTyped
<1> HIDE DEF c, r
<1>7. /\ HeapTyped(r) /\ r.blk = c
      /\ r.head = back.head /\ r.tail = back.tail /\ r.brk = back.brk
      /\ r.headF = back.headF /\ r.tailF = back.tailF
  <2>1. IsFiniteSet(DOMAIN h.blk \ {n}) /\ DOMAIN h.blk \ {n} \subseteq Nat \ {0}
    BY FS_Subset DEF HeapTyped
  <2> QED
    BY <1>3, <1>4, <1>6, <2>1 DEF HeapTyped
<1>8. \A b \in DOMAIN h.blk \ {n} :
        /\ r.blk[b].size = IF b = t THEN h.blk[t].size + Header + h.blk[n].size ELSE h.blk[b].size
        /\ r.blk[b].free = h.blk[b].free
        /\ r.blk[b].prev = IF b = x THEN t ELSE h.blk[b].prev
        /\ r.blk[b].next = IF b = t THEN x ELSE h.blk[b].next
        /\ r.blk[b].prevF = h.blk[b].prevF /\ r.blk[b].nextF = h.blk[b].nextF
  BY <1>2, <1>5, <1>6, <1>7 DEF BackPut
<1> QED
  BY <1>3, <1>6, <1>7, <1>8 DEF Joined, r

(* Split without the last line, which puts the rest on the free list. *)
Divide(h, t, size) ==
  LET m == t + Header + size
      rest == [Blank EXCEPT !.size = h.blk[t].size - size - Header, !.free = TRUE,
                            !.prev = t, !.next = h.blk[t].next]
      back == PointBack(h, t, m)
  IN [back EXCEPT !.blk = [b \in DOMAIN @ \cup {m} |->
                             IF b = m THEN rest ELSE IF b = t
                             THEN [@[t] EXCEPT !.size = size, !.next = m] ELSE @[b]]]

LEMMA SplitIsDivide ==
  ASSUME NEW h, NEW t, NEW size, NEW m, m = t + Header + size
  PROVE  Split(h, t, size) = AppendF(Divide(h, t, size), m)
BY DEF Split, Divide

LEMMA DivideFields ==
  ASSUME NEW h, HeapTyped(h), NEW t \in DOMAIN h.blk, NEW size \in Nat, Header \in Nat \ {0},
         h.blk[t].size >= size + Header,
         h.blk[t].next \in DOMAIN h.blk \cup {Nil}, h.blk[t].next # t,
         NEW m, m = t + Header + size, m \notin DOMAIN h.blk
  PROVE  Divided(h, t, size, m, Divide(h, t, size))
<1> DEFINE x == h.blk[t].next
           back == PutBack(h, x, m)
           rest == [Blank EXCEPT !.size = h.blk[t].size - size - Header, !.free = TRUE,
                                 !.prev = t, !.next = x]
           d == [back.blk[t] EXCEPT !.size = size, !.next = m]
           c == [b \in DOMAIN h.blk \cup {m} |->
                   IF b = m THEN rest ELSE IF b = t THEN d ELSE back.blk[b]]
           r == Divide(h, t, size)
<1>1. /\ h.blk \in [DOMAIN h.blk -> Node] /\ h.blk[t] \in Node /\ t \in Nat
      /\ m \in Nat \ {0} /\ x \in Nat
  <2>1. h.blk \in [DOMAIN h.blk -> Node] /\ h.blk[t] \in Node /\ t \in Nat
    BY DEF HeapTyped
  <2>2. x \in Nat
    BY DEF HeapTyped, Nil
  <2> QED
    BY <2>1, <2>2
<1>2. BackPut(h, x, m, back)
  BY <1>1, BackFields
<1>3. /\ HeapTyped(back) /\ DOMAIN back.blk = DOMAIN h.blk
      /\ back.head = h.head /\ back.brk = h.brk /\ back.headF = h.headF /\ back.tailF = h.tailF
      /\ back.tail = (IF x = Nil THEN m ELSE h.tail)
  BY <1>2 DEF BackPut
<1>4. r = [back EXCEPT !.blk = c]
  BY <1>3 DEF Divide, PointBack, PutBack
<1>5. /\ rest \in Node /\ rest.size = h.blk[t].size - size - Header /\ rest.free = TRUE
      /\ rest.prev = t /\ rest.next = x /\ rest.prevF = Nil /\ rest.nextF = Nil
  <2>1. h.blk[t].size - size - Header \in Nat
    BY <1>1 DEF Node
  <2> QED
    BY <1>1, <2>1 DEF Node, Blank, Nil
<1>6. /\ d \in Node /\ d.size = size /\ d.free = back.blk[t].free
      /\ d.prev = back.blk[t].prev /\ d.next = m
      /\ d.prevF = back.blk[t].prevF /\ d.nextF = back.blk[t].nextF
  <2>1. back.blk[t] \in Node
    BY <1>3 DEF HeapTyped
  <2> QED
    BY <1>1, <2>1 DEF Node
<1> HIDE DEF d, back, rest
<1>7. /\ c \in [DOMAIN h.blk \cup {m} -> Node] /\ DOMAIN c = DOMAIN h.blk \cup {m}
      /\ c[m] = rest
      /\ \A b \in DOMAIN h.blk : c[b] = IF b = t THEN d ELSE back.blk[b]
  BY <1>3, <1>5, <1>6 DEF HeapTyped
<1> HIDE DEF c, r
<1>8. /\ HeapTyped(r) /\ r.blk = c
      /\ r.head = back.head /\ r.tail = back.tail /\ r.brk = back.brk
      /\ r.headF = back.headF /\ r.tailF = back.tailF
  <2>1. IsFiniteSet(DOMAIN h.blk \cup {m}) /\ DOMAIN h.blk \cup {m} \subseteq Nat \ {0}
    BY <1>1, FS_AddElement DEF HeapTyped
  <2> QED
    BY <1>3, <1>4, <1>7, <2>1 DEF HeapTyped
<1>9. \A b \in DOMAIN h.blk :
        /\ r.blk[b].size = IF b = t THEN size ELSE h.blk[b].size
        /\ r.blk[b].free = h.blk[b].free
        /\ r.blk[b].prev = IF b = x THEN m ELSE h.blk[b].prev
        /\ r.blk[b].next = IF b = t THEN m ELSE h.blk[b].next
        /\ r.blk[b].prevF = h.blk[b].prevF /\ r.blk[b].nextF = h.blk[b].nextF
  BY <1>2, <1>6, <1>7, <1>8 DEF BackPut
<1> QED
  BY <1>3, <1>5, <1>7, <1>8, <1>9 DEF Divided, r

-----------------------------------------------------------------------------
(* The blocks stay one behind the other. *)

LEMMA Neighbours ==
  ASSUME NEW h, HeapTyped(h), Tiled(h), NEW t \in DOMAIN h.blk, Header \in Nat \ {0}
  PROVE  /\ t \in Nat \ {0} /\ h.blk[t].size \in Nat /\ h.blk[t].free \in BOOLEAN
         /\ End(h, t) \in Nat /\ t < End(h, t) /\ End(h, t) <= h.brk /\ h.brk \in Nat
         /\ h.blk[t].next \in DOMAIN h.blk \cup {Nil} /\ h.blk[t].prev \in DOMAIN h.blk \cup {Nil}
         /\ h.blk[t].next = Nil <=> t = h.tail
         /\ h.blk[t].next # Nil => h.blk[t].next = End(h, t) /\ h.blk[h.blk[t].next].prev = t
         /\ h.blk[t].prev = Nil <=> t = 1
         /\ h.blk[t].prev # Nil => h.blk[h.blk[t].prev].next = t
         /\ h.blk[t].next # t /\ h.blk[t].prev # t
<1>1. t \in Nat \ {0} /\ h.blk[t] \in Node /\ h.brk \in Nat /\ Nil \notin DOMAIN h.blk
  BY DEF HeapTyped, Nil
<1>2. h.blk[t].size \in Nat /\ h.blk[t].free \in BOOLEAN
  BY <1>1 DEF Node
<1>3. End(h, t) \in Nat /\ t < End(h, t)
  BY <1>1, <1>2 DEF End
<1>4. /\ End(h, t) <= h.brk
      /\ IF t = h.tail THEN h.blk[t].next = Nil /\ End(h, t) = h.brk
         ELSE /\ h.blk[t].next \in DOMAIN h.blk /\ h.blk[t].next = End(h, t)
              /\ h.blk[h.blk[t].next].prev = t
      /\ IF t = 1 THEN h.blk[t].prev = Nil
         ELSE h.blk[t].prev \in DOMAIN h.blk /\ h.blk[h.blk[t].prev].next = t
  BY DEF Tiled
<1>5. h.blk[t].next # t
  BY <1>1, <1>3, <1>4 DEF Nil
<1>6. h.blk[t].prev # t
  BY <1>1, <1>4, <1>5 DEF Nil
<1> QED
  BY <1>1, <1>2, <1>3, <1>4, <1>5, <1>6

LEMMA SameTiles ==
  ASSUME NEW h, NEW r, Tiled(h), DOMAIN r.blk = DOMAIN h.blk,
         r.head = h.head, r.tail = h.tail, r.brk = h.brk,
         \A b \in DOMAIN h.blk :
           /\ r.blk[b].size = h.blk[b].size
           /\ r.blk[b].prev = h.blk[b].prev /\ r.blk[b].next = h.blk[b].next
  PROVE  Tiled(r)
BY DEF Tiled, End

LEMMA DividedTiles ==
  ASSUME NEW h, HeapTyped(h), Tiled(h), NEW t \in DOMAIN h.blk, Header \in Nat \ {0},
         NEW size \in Nat, h.blk[t].size >= size + Header
  PROVE  /\ t + Header + size \in Nat \ DOMAIN h.blk
         /\ h.blk[t].next \in DOMAIN h.blk \cup {Nil} /\ h.blk[t].next # t
         /\ \A r : Divided(h, t, size, t + Header + size, r) => Tiled(r)
<1>1. PICK m, x : m = t + Header + size /\ x = h.blk[t].next
  OBVIOUS
<1>2. \A b \in DOMAIN h.blk :
        /\ b \in Nat \ {0} /\ h.blk[b].size \in Nat /\ End(h, b) \in Nat /\ b < End(h, b)
        /\ End(h, b) <= h.brk /\ h.brk \in Nat
  BY Neighbours
<1>3. m \in Nat /\ t < m /\ m + Header <= End(h, t) /\ m < End(h, t)
  BY <1>1, <1>2 DEF End
<1>4. \A b, c \in DOMAIN h.blk : b < c => End(h, b) <= c
  BY DEF Tiled
<1>5. m \notin DOMAIN h.blk
  BY <1>2, <1>3, <1>4
<1>6. x \in DOMAIN h.blk \cup {Nil} /\ x # t /\ (x = Nil <=> t = h.tail)
      /\ (x # Nil => x = End(h, t))
  BY <1>1, Neighbours
<1>7. ASSUME NEW r, Divided(h, t, size, m, r) PROVE Tiled(r)
  <2>1. /\ DOMAIN r.blk = DOMAIN h.blk \cup {m}
        /\ r.head = h.head /\ r.brk = h.brk
        /\ r.tail = (IF x = Nil THEN m ELSE h.tail)
        /\ r.blk[m].size = h.blk[t].size - size - Header
        /\ r.blk[m].prev = t /\ r.blk[m].next = x
        /\ \A b \in DOMAIN h.blk :
             /\ r.blk[b].size = IF b = t THEN size ELSE h.blk[b].size
             /\ r.blk[b].prev = IF b = x THEN m ELSE h.blk[b].prev
             /\ r.blk[b].next = IF b = t THEN m ELSE h.blk[b].next
    BY <1>1, <1>7 DEF Divided
  <2>2. End(r, m) = End(h, t) /\ End(r, t) = m
    BY <1>1, <1>2, <2>1 DEF End
  <2>3. \A b \in DOMAIN h.blk : b # t => End(r, b) = End(h, b)
    BY <2>1 DEF End
  <2>4. 1 \in DOMAIN r.blk /\ r.head = 1 /\ r.tail \in DOMAIN r.blk
    BY <2>1 DEF Tiled
  <2>5. ASSUME NEW b \in DOMAIN r.blk
        PROVE  /\ End(r, b) <= r.brk
               /\ IF b = r.tail THEN r.blk[b].next = Nil /\ End(r, b) = r.brk
                  ELSE /\ r.blk[b].next \in DOMAIN r.blk /\ r.blk[b].next = End(r, b)
                       /\ r.blk[r.blk[b].next].prev = b
               /\ IF b = 1 THEN r.blk[b].prev = Nil
                  ELSE r.blk[b].prev \in DOMAIN r.blk /\ r.blk[r.blk[b].prev].next = b
    <3>1. CASE b = m
      <4>1. b # 1
        BY <1>2, <1>3, <3>1
      <4>2. End(r, b) <= r.brk
        BY <1>2, <2>1, <2>2, <3>1
      <4>3. x = Nil => End(r, b) = r.brk
        BY <1>6, <2>1, <2>2, <3>1 DEF Tiled
      <4>4. b = r.tail <=> x = Nil
        BY <1>5, <2>1, <3>1 DEF Tiled
      <4>5. x # Nil => r.blk[x].prev = m
        BY <1>6, <2>1
      <4> QED
        BY <1>6, <2>1, <2>2, <3>1, <4>1, <4>2, <4>3, <4>4, <4>5
    <3>2. CASE b = t
      <4>1. End(r, b) <= r.brk
        BY <1>2, <1>3, <2>1, <2>2, <3>2
      <4>2. b # r.tail
        BY <1>3, <1>2, <1>6, <2>1, <3>2
      <4>3. IF b = 1 THEN h.blk[b].prev = Nil
            ELSE h.blk[b].prev \in DOMAIN h.blk /\ h.blk[h.blk[b].prev].next = b
        BY <3>2 DEF Tiled
      <4>4. r.blk[b].prev = h.blk[b].prev /\ r.blk[b].next = m
        BY <1>6, <2>1, <3>2
      <4>5. b # 1 => h.blk[b].prev # t
        BY <3>2, Neighbours
      <4> QED
        BY <2>1, <2>2, <3>2, <4>1, <4>2, <4>3, <4>4, <4>5
    <3>3. CASE b # m /\ b # t
      <4>0. b \in DOMAIN h.blk
        BY <2>1, <3>3
      <4>1. PICK y, z : y = h.blk[b].next /\ z = h.blk[b].prev
        OBVIOUS
      <4>2. /\ End(h, b) <= h.brk
            /\ IF b = h.tail THEN y = Nil /\ End(h, b) = h.brk
               ELSE y \in DOMAIN h.blk /\ y = End(h, b) /\ h.blk[y].prev = b
            /\ IF b = 1 THEN z = Nil ELSE z \in DOMAIN h.blk /\ h.blk[z].next = b
        BY <4>0, <4>1 DEF Tiled
      <4>3. r.blk[b].next = y /\ End(r, b) = End(h, b)
        BY <2>1, <2>3, <3>3, <4>0, <4>1
      <4>4. b = r.tail <=> b = h.tail
        BY <1>6, <2>1, <3>3
      <4>5. b # h.tail => y # x
        <5>1. b # h.tail /\ y = x => h.blk[x].prev = b /\ h.blk[x].prev = t
          BY <1>1, <1>6, <1>2, <4>2, Neighbours
        <5> QED
          BY <3>3, <5>1
      <4>6. b # h.tail => r.blk[y].prev = b
        BY <2>1, <4>2, <4>5
      <4>7. IF b = 1 THEN r.blk[b].prev = Nil
            ELSE r.blk[b].prev \in DOMAIN r.blk /\ r.blk[r.blk[b].prev].next = b
        <5>1. CASE b = x
          <6>1. b # 1
            <7>1. b # Nil /\ t \in Nat \ {0} /\ End(h, t) \in Nat /\ t < End(h, t)
              BY <1>2, <4>0 DEF Nil
            <7>2. b = End(h, t)
              BY <1>6, <5>1, <7>1
            <7> QED
              BY <7>1, <7>2
          <6> QED
            BY <2>1, <4>0, <5>1, <6>1
        <5>2. CASE b # x
          <6>1. r.blk[b].prev = z
            BY <2>1, <4>0, <4>1, <5>2
          <6>2. b # 1 => z # t
            BY <1>1, <4>2, <5>2
          <6> QED
            BY <2>1, <4>2, <6>1, <6>2
        <5> QED
          BY <5>1, <5>2
      <4> QED
        BY <2>1, <4>2, <4>3, <4>4, <4>6, <4>7
    <3> QED
      BY <3>1, <3>2, <3>3
  <2>6. ASSUME NEW b \in DOMAIN r.blk, NEW c \in DOMAIN r.blk, b < c
        PROVE  End(r, b) <= c
    <3>1. CASE b = m /\ c = m
      BY <1>3, <2>6, <3>1
    <3>2. CASE b = m /\ c # m
      <4>1. c \in DOMAIN h.blk /\ t < c
        BY <1>2, <1>3, <2>1, <2>6, <3>2
      <4> QED
        BY <1>4, <2>2, <3>2, <4>1
    <3>3. CASE b # m /\ c = m
      <4>1. b \in DOMAIN h.blk /\ b \in Nat
        BY <1>2, <2>1, <3>3
      <4>2. CASE b = t
        BY <1>3, <2>2, <3>3, <4>2
      <4>3. CASE b # t
        <5>1. ~ (t < b)
          <6>1. t < b => End(h, t) <= b
            BY <1>4, <4>1
          <6> QED
            BY <1>2, <1>3, <2>6, <3>3, <4>1, <6>1
        <5>2. b < t
          BY <1>2, <4>1, <4>3, <5>1
        <5>3. End(h, b) <= t
          BY <1>4, <4>1, <5>2
        <5> QED
          BY <1>2, <1>3, <2>3, <3>3, <4>1, <4>3, <5>3
      <4> QED
        BY <4>2, <4>3
    <3>4. CASE b # m /\ c # m
      <4>1. b \in DOMAIN h.blk /\ c \in DOMAIN h.blk /\ End(h, b) <= c
        BY <1>4, <2>1, <2>6, <3>4
      <4>2. End(r, b) <= End(h, b)
        BY <1>2, <1>3, <2>2, <2>3, <4>1
      <4>3. End(r, b) \in Nat
        BY <1>2, <1>3, <2>2, <2>3, <4>1
      <4> QED
        BY <1>2, <4>1, <4>2, <4>3
    <3> QED
      BY <3>1, <3>2, <3>3, <3>4
  <2> QED
    BY <2>4, <2>5, <2>6 DEF Tiled
<1> QED
  BY <1>1, <1>3, <1>5, <1>6, <1>7

LEMMA JoinedTiles ==
  ASSUME NEW h, HeapTyped(h), Tiled(h), NEW t \in DOMAIN h.blk, NEW n \in DOMAIN h.blk,
         h.blk[t].next = n, Header \in Nat \ {0}
  PROVE  /\ t # n /\ h.blk[n].next \in DOMAIN h.blk \cup {Nil} /\ h.blk[n].next # t
         /\ \A r : Joined(h, t, n, r) => Tiled(r)
<1>1. PICK x : x = h.blk[n].next
  OBVIOUS
<1>2. \A b \in DOMAIN h.blk :
        /\ b \in Nat \ {0} /\ h.blk[b].size \in Nat /\ End(h, b) \in Nat /\ b < End(h, b)
        /\ End(h, b) <= h.brk /\ h.brk \in Nat
  BY Neighbours
<1>3. n = End(h, t) /\ n # Nil /\ t < n /\ h.blk[n].prev = t /\ t # h.tail /\ n # 1
  <2>1. n # Nil
    BY DEF HeapTyped, Nil
  <2>2. n = End(h, t) /\ h.blk[n].prev = t /\ t # h.tail
    BY <2>1, Neighbours
  <2> QED
    BY <1>2, <2>1, <2>2
<1>4. \A b, c \in DOMAIN h.blk : b < c => End(h, b) <= c
  BY DEF Tiled
<1>5. /\ x \in DOMAIN h.blk \cup {Nil} /\ x # n /\ (x = Nil <=> n = h.tail)
      /\ (x # Nil => x = End(h, n) /\ n < x /\ x # t)
      /\ x # t
  <2>1. x \in DOMAIN h.blk \cup {Nil} /\ x # n /\ (x = Nil <=> n = h.tail)
        /\ (x # Nil => x = End(h, n))
    BY <1>1, Neighbours
  <2> QED
    BY <1>2, <1>3, <2>1 DEF Nil
<1>6. ASSUME NEW r, Joined(h, t, n, r) PROVE Tiled(r)
  <2>1. /\ DOMAIN r.blk = DOMAIN h.blk \ {n}
        /\ r.head = h.head /\ r.brk = h.brk
        /\ r.tail = (IF x = Nil THEN t ELSE h.tail)
        /\ \A b \in DOMAIN h.blk \ {n} :
             /\ r.blk[b].size = IF b = t THEN h.blk[t].size + Header + h.blk[n].size ELSE h.blk[b].size
             /\ r.blk[b].prev = IF b = x THEN t ELSE h.blk[b].prev
             /\ r.blk[b].next = IF b = t THEN x ELSE h.blk[b].next
    BY <1>1, <1>6 DEF Joined
  <2>2. End(r, t) = End(h, n)
    BY <1>2, <1>3, <2>1 DEF End
  <2>3. \A b \in DOMAIN r.blk : b # t => End(r, b) = End(h, b)
    BY <2>1 DEF End
  <2>4. 1 \in DOMAIN r.blk /\ r.head = 1 /\ r.tail \in DOMAIN r.blk
    BY <1>3, <1>5, <2>1 DEF Tiled
  <2>5. ASSUME NEW b \in DOMAIN r.blk
        PROVE  /\ End(r, b) <= r.brk
               /\ IF b = r.tail THEN r.blk[b].next = Nil /\ End(r, b) = r.brk
                  ELSE /\ r.blk[b].next \in DOMAIN r.blk /\ r.blk[b].next = End(r, b)
                       /\ r.blk[r.blk[b].next].prev = b
               /\ IF b = 1 THEN r.blk[b].prev = Nil
                  ELSE r.blk[b].prev \in DOMAIN r.blk /\ r.blk[r.blk[b].prev].next = b
    <3>1. CASE b = t
      <4>1. End(r, b) <= r.brk
        BY <1>2, <2>1, <2>2, <3>1
      <4>2. x = Nil => End(r, b) = r.brk
        BY <1>5, <2>1, <2>2, <3>1 DEF Tiled
      <4>3. b = r.tail <=> x = Nil
        BY <1>3, <1>5, <2>1, <3>1
      <4>4. x # Nil => r.blk[x].prev = t
        BY <1>5, <2>1
      <4>5. IF b = 1 THEN h.blk[b].prev = Nil
            ELSE h.blk[b].prev \in DOMAIN h.blk /\ h.blk[h.blk[b].prev].next = b
        BY <3>1 DEF Tiled
      <4>6. b # 1 => h.blk[b].prev # n /\ h.blk[b].prev # t
        <5>1. b # 1 /\ h.blk[b].prev = n => x = t
          BY <1>1, <3>1, <4>5
        <5>2. h.blk[b].prev # t
          BY <3>1, Neighbours
        <5> QED
          BY <1>5, <5>1, <5>2
      <4>7. r.blk[b].prev = h.blk[b].prev /\ r.blk[b].next = x
        BY <1>3, <1>5, <2>1, <3>1
      <4>8. IF b = 1 THEN r.blk[b].prev = Nil
            ELSE r.blk[b].prev \in DOMAIN r.blk /\ r.blk[r.blk[b].prev].next = b
        BY <2>1, <4>5, <4>6, <4>7
      <4> QED
        BY <1>5, <2>1, <2>2, <3>1, <4>1, <4>2, <4>3, <4>4, <4>7, <4>8
    <3>2. CASE b # t
      <4>0. b \in DOMAIN h.blk /\ b # n
        BY <2>1
      <4>1. PICK y, z : y = h.blk[b].next /\ z = h.blk[b].prev
        OBVIOUS
      <4>2. /\ End(h, b) <= h.brk
            /\ IF b = h.tail THEN y = Nil /\ End(h, b) = h.brk
               ELSE y \in DOMAIN h.blk /\ y = End(h, b) /\ h.blk[y].prev = b
            /\ IF b = 1 THEN z = Nil ELSE z \in DOMAIN h.blk /\ h.blk[z].next = b
        BY <4>0, <4>1 DEF Tiled
      <4>3. r.blk[b].next = y /\ End(r, b) = End(h, b)
        BY <2>1, <2>3, <3>2, <4>0, <4>1
      <4>4. b = r.tail <=> b = h.tail
        BY <1>5, <2>1, <3>2, <4>0
      <4>5. b # h.tail => y # x /\ y # n
        <5>1. b # h.tail /\ y = x => h.blk[x].prev = b /\ h.blk[x].prev = n
          <6>1. x # Nil => h.blk[x].prev = n
            BY <1>1, Neighbours
          <6> QED
            BY <1>2, <4>2, <6>1 DEF Nil
        <5>2. b # h.tail /\ y = n => h.blk[n].prev = b
          BY <4>2
        <5> QED
          BY <1>3, <3>2, <4>0, <5>1, <5>2
      <4>6. b # h.tail => y \in DOMAIN r.blk /\ r.blk[y].prev = b
        BY <2>1, <4>2, <4>5
      <4>7. IF b = 1 THEN r.blk[b].prev = Nil
            ELSE r.blk[b].prev \in DOMAIN r.blk /\ r.blk[r.blk[b].prev].next = b
        <5>1. CASE b = x
          <6>1. b # 1
            <7>1. b # Nil /\ n \in Nat \ {0} /\ b \in Nat
              BY <1>2, <4>0 DEF Nil
            <7>2. n < b
              BY <1>5, <5>1, <7>1
            <7> QED
              BY <7>1, <7>2
          <6> QED
            BY <1>3, <2>1, <4>0, <5>1, <6>1, <1>5
        <5>2. CASE b # x
          <6>1. r.blk[b].prev = z
            BY <2>1, <4>0, <4>1, <5>2
          <6>2. b # 1 => z # t /\ z # n
            BY <1>1, <4>0, <4>2, <5>2
          <6> QED
            BY <2>1, <4>2, <6>1, <6>2
        <5> QED
          BY <5>1, <5>2
      <4> QED
        BY <2>1, <4>2, <4>3, <4>4, <4>6, <4>7
    <3> QED
      BY <3>1, <3>2
  <2>6. ASSUME NEW b \in DOMAIN r.blk, NEW c \in DOMAIN r.blk, b < c
        PROVE  End(r, b) <= c
    <3>1. b \in DOMAIN h.blk /\ c \in DOMAIN h.blk /\ c # n /\ End(h, b) <= c /\ b \in Nat /\ c \in Nat
      BY <1>2, <1>4, <2>1, <2>6
    <3>2. CASE b = t
      <4>1. n < c
        BY <1>2, <1>3, <3>1, <3>2
      <4> QED
        BY <1>4, <2>2, <3>1, <3>2, <4>1
    <3>3. CASE b # t
      BY <2>3, <3>1, <3>3
    <3> QED
      BY <3>2, <3>3
  <2> QED
    BY <2>4, <2>5, <2>6 DEF Tiled
<1> QED
  BY <1>1, <1>3, <1>5, <1>6

-----------------------------------------------------------------------------
(* The steps of malloc and free.  Between them the free list may be that   *)
(* of other blocks (S) than those that are marked free.                    *)

Sound(h, S) == HeapTyped(h) /\ Tiled(h) /\ Listed(h, S)

(* The free bit of t is x, and nothing else is changed. *)
Marked(h, t, x, r) ==
  /\ HeapTyped(r) /\ DOMAIN r.blk = DOMAIN h.blk
  /\ r.head = h.head /\ r.tail = h.tail /\ r.headF = h.headF /\ r.tailF = h.tailF /\ r.brk = h.brk
  /\ \A b \in DOMAIN h.blk :
       /\ r.blk[b].size = h.blk[b].size
       /\ r.blk[b].free = IF b = t THEN x ELSE h.blk[b].free
       /\ r.blk[b].prev = h.blk[b].prev /\ r.blk[b].next = h.blk[b].next
       /\ r.blk[b].prevF = h.blk[b].prevF /\ r.blk[b].nextF = h.blk[b].nextF

LEMMA UnlinkSound ==
  ASSUME NEW h, NEW S, Sound(h, S), NEW n \in S
  PROVE  Sound(UnlinkF(h, n), S \ {n}) /\ SameBlocks(h, UnlinkF(h, n))
<1>1. HeapTyped(h) /\ Tiled(h) /\ Listed(h, S)
  BY DEF Sound
<1>2. /\ n \in DOMAIN h.blk
      /\ h.blk[n].prevF \in DOMAIN h.blk \cup {Nil} /\ h.blk[n].nextF \in DOMAIN h.blk \cup {Nil}
  BY <1>1, ListedEnds
<1>3. PICK r : r = UnlinkF(h, n)
  OBVIOUS
<1>4. Unlinked(h, n, r)
  BY <1>1, <1>2, <1>3, UnlinkFields
<1>5. Listed(r, S \ {n})
  BY <1>1, <1>4, UnlinkedList
<1>6. HeapTyped(r) /\ SameBlocks(h, r)
  BY <1>4 DEF Unlinked
<1>7. Tiled(r)
  BY <1>1, <1>6, SameTiles DEF SameBlocks
<1> QED
  BY <1>3, <1>5, <1>6, <1>7 DEF Sound

LEMMA AppendSound ==
  ASSUME NEW h, NEW S, Sound(h, S), NEW n \in DOMAIN h.blk, n \notin S
  PROVE  Sound(AppendF(h, n), S \cup {n}) /\ SameBlocks(h, AppendF(h, n))
<1>1. HeapTyped(h) /\ Tiled(h) /\ Listed(h, S)
  BY DEF Sound
<1>2. h.tailF \in DOMAIN h.blk \cup {Nil}
  BY <1>1, ListedEnds
<1>3. PICK r : r = AppendF(h, n)
  OBVIOUS
<1>4. Appended(h, n, r)
  BY <1>1, <1>2, <1>3, AppendFields
<1>5. Listed(r, S \cup {n})
  BY <1>1, <1>4, AppendedList
<1>6. HeapTyped(r) /\ SameBlocks(h, r)
  BY <1>4 DEF Appended
<1>7. Tiled(r)
  BY <1>1, <1>6, SameTiles DEF SameBlocks
<1> QED
  BY <1>3, <1>5, <1>6, <1>7 DEF Sound

LEMMA MarkSound ==
  ASSUME NEW h, NEW S, Sound(h, S), NEW t \in DOMAIN h.blk, NEW x \in BOOLEAN
  PROVE  \A r : r = [h EXCEPT !.blk[t].free = x] => Sound(r, S) /\ Marked(h, t, x, r)
<1>1. HeapTyped(h) /\ Tiled(h) /\ Listed(h, S)
  BY DEF Sound
<1> TAKE r
<1> DEFINE same == r = [h EXCEPT !.blk[t].free = x]
<1> HIDE DEF same
<1> SUFFICES ASSUME same PROVE Sound(r, S) /\ Marked(h, t, x, r)
  BY DEF same
<1>2. Marked(h, t, x, r)
  <2> DEFINE d == [h.blk[t] EXCEPT !.free = x]
             c == [h.blk EXCEPT ![t] = d]
  <2>1. h \in [blk : [DOMAIN h.blk -> Node], head : Nat, tail : Nat, headF : Nat, tailF : Nat, brk : Nat]
    BY <1>1 DEF HeapTyped
  <2>2. h.blk \in [DOMAIN h.blk -> Node] /\ h.blk[t] \in Node
    BY <2>1
  <2>3. r = [h EXCEPT !.blk = c]
    BY <2>1, <2>2 DEF same
  <2>4. /\ d \in Node /\ d.size = h.blk[t].size /\ d.free = x
        /\ d.prev = h.blk[t].prev /\ d.next = h.blk[t].next
        /\ d.prevF = h.blk[t].prevF /\ d.nextF = h.blk[t].nextF
    BY <2>2 DEF Node
  <2> HIDE DEF d
  <2>5. /\ c \in [DOMAIN h.blk -> Node] /\ DOMAIN c = DOMAIN h.blk
        /\ \A b \in DOMAIN h.blk : c[b] = IF b = t THEN d ELSE h.blk[b]
    BY <2>2, <2>4
  <2> HIDE DEF c
  <2>6. /\ r.blk = c /\ HeapTyped(r) /\ r.head = h.head /\ r.tail = h.tail
        /\ r.headF = h.headF /\ r.tailF = h.tailF /\ r.brk = h.brk
    BY <1>1, <2>1, <2>3, <2>5 DEF HeapTyped
  <2> QED
    BY <2>4, <2>5, <2>6 DEF Marked
<1>3. HeapTyped(r)
  BY <1>2 DEF Marked
<1>4. Tiled(r)
  BY <1>1, <1>2, SameTiles DEF Marked
<1>5. Listed(r, S)
  <2>1. Links(h, S)
    BY <1>1 DEF Listed
  <2>2. /\ S \subseteq DOMAIN r.blk
        /\ r.headF = h.headF /\ r.tailF = h.tailF
        /\ \A b \in S : r.blk[b].nextF = h.blk[b].nextF /\ r.blk[b].prevF = h.blk[b].prevF
        /\ \A b \in DOMAIN r.blk \ S : r.blk[b].nextF = Nil /\ r.blk[b].prevF = Nil
    BY <1>2, <2>1 DEF Marked, Links
  <2> QED
    BY <1>1, <2>2, SameList
<1> QED
  BY <1>2, <1>3, <1>4, <1>5 DEF Sound

LEMMA AbsorbSound ==
  ASSUME NEW h, NEW S, Sound(h, S), NEW t \in DOMAIN h.blk, NEW n \in DOMAIN h.blk \ S,
         h.blk[t].next = n, Header \in Nat \ {0}
  PROVE  Sound(Absorb(h, t, n), S) /\ Joined(h, t, n, Absorb(h, t, n)) /\ t # n
<1>1. HeapTyped(h) /\ Tiled(h) /\ Listed(h, S)
  BY DEF Sound
<1>2. /\ t # n /\ h.blk[n].next \in DOMAIN h.blk \cup {Nil} /\ h.blk[n].next # t
      /\ \A r : Joined(h, t, n, r) => Tiled(r)
  BY <1>1, JoinedTiles
<1>3. PICK r : r = Absorb(h, t, n)
  OBVIOUS
<1>4. Joined(h, t, n, r)
  BY <1>1, <1>2, <1>3, AbsorbFields
<1>5. Tiled(r)
  BY <1>2, <1>4
<1>6. HeapTyped(r)
  BY <1>4 DEF Joined
<1>7. Listed(r, S)
  <2>1. Links(h, S)
    BY <1>1 DEF Listed
  <2>2. /\ S \subseteq DOMAIN r.blk
        /\ r.headF = h.headF /\ r.tailF = h.tailF
        /\ \A b \in S : r.blk[b].nextF = h.blk[b].nextF /\ r.blk[b].prevF = h.blk[b].prevF
        /\ \A b \in DOMAIN r.blk \ S : r.blk[b].nextF = Nil /\ r.blk[b].prevF = Nil
    BY <1>4, <2>1 DEF Joined, Links
  <2> QED
    BY <1>1, <2>2, SameList
<1> QED
  BY <1>2, <1>3, <1>4, <1>5, <1>6, <1>7 DEF Sound

(* The rest of a block that is divided goes on the free list, and no other *)
(* block is changed.                                                       *)
SplitOff(h, t, size, r) ==
  /\ t + Header + size \in DOMAIN r.blk \ DOMAIN h.blk
  /\ DOMAIN r.blk = DOMAIN h.blk \cup {t + Header + size} /\ r.brk = h.brk
  /\ r.blk[t + Header + size].free = TRUE /\ r.blk[t + Header + size].next = h.blk[t].next
  /\ \A b \in DOMAIN h.blk :
       /\ r.blk[b].size = IF b = t THEN size ELSE h.blk[b].size
       /\ r.blk[b].free = h.blk[b].free
       /\ r.blk[b].next = IF b = t THEN t + Header + size ELSE h.blk[b].next

LEMMA SplitSound ==
  ASSUME NEW h, NEW S, Sound(h, S), NEW t \in DOMAIN h.blk, Header \in Nat \ {0},
         NEW size \in Nat, h.blk[t].size >= size + Header
  PROVE  /\ Sound(Split(h, t, size), S \cup {t + Header + size})
         /\ SplitOff(h, t, size, Split(h, t, size))
<1>1. HeapTyped(h) /\ Tiled(h) /\ Listed(h, S)
  BY DEF Sound
<1>2. PICK m : m = t + Header + size
  OBVIOUS
<1>3. /\ m \in Nat \ DOMAIN h.blk
      /\ h.blk[t].next \in DOMAIN h.blk \cup {Nil} /\ h.blk[t].next # t
      /\ \A r : Divided(h, t, size, m, r) => Tiled(r)
  BY <1>1, <1>2, DividedTiles
<1>4. PICK d, r : d = Divide(h, t, size) /\ r = AppendF(d, m)
  OBVIOUS
<1>5. Divided(h, t, size, m, d)
  BY <1>1, <1>2, <1>3, <1>4, DivideFields
<1>6. Tiled(d) /\ HeapTyped(d) /\ DOMAIN d.blk = DOMAIN h.blk \cup {m}
  BY <1>3, <1>5 DEF Divided
<1>7. Listed(d, S)
  <2>1. Links(h, S)
    BY <1>1 DEF Listed
  <2>2. /\ S \subseteq DOMAIN d.blk
        /\ d.headF = h.headF /\ d.tailF = h.tailF
        /\ \A b \in S : d.blk[b].nextF = h.blk[b].nextF /\ d.blk[b].prevF = h.blk[b].prevF
        /\ \A b \in DOMAIN d.blk \ S : d.blk[b].nextF = Nil /\ d.blk[b].prevF = Nil
    BY <1>5, <2>1 DEF Divided, Links
  <2> QED
    BY <1>1, <2>2, SameList
<1>8. Sound(d, S)
  BY <1>6, <1>7 DEF Sound
<1>9. m \notin S /\ m \in DOMAIN d.blk
  BY <1>1, <1>3, <1>6, ListedEnds
<1>10. Sound(r, S \cup {m}) /\ SameBlocks(d, r)
  BY <1>4, <1>8, <1>9, AppendSound
<1>11. SplitOff(h, t, size, r)
  BY <1>2, <1>3, <1>5, <1>10 DEF Divided, SameBlocks, SplitOff
<1>12. r = Split(h, t, size)
  BY <1>2, <1>4, SplitIsDivide
<1> QED
  BY <1>2, <1>10, <1>11, <1>12

-----------------------------------------------------------------------------
(* malloc *)

(* Block p is given out, and the blocks in use stay.                       *)
Given(h, p, size, r) ==
  /\ HeapOK(r) /\ p \in DOMAIN r.blk /\ ~r.blk[p].free /\ r.blk[p].size >= size
  /\ p \in DOMAIN h.blk => h.blk[p].free
  /\ \A b \in DOMAIN h.blk : ~h.blk[b].free =>
       b \in DOMAIN r.blk /\ ~r.blk[b].free /\ r.blk[b].size = h.blk[b].size

LEMMA TakeGives ==
  ASSUME NEW h, HeapOK(h), NEW t \in Free(h), NEW size \in Nat, h.blk[t].size >= size,
         Header \in Nat \ {0}
  PROVE  Given(h, t, size, Take(h, t, size)) /\ Take(h, t, size).brk = h.brk
<1>1. Sound(h, Free(h)) /\ t \in DOMAIN h.blk /\ HeapTyped(h) /\ Tiled(h) /\ Apart(h)
  BY DEF HeapOK, Sound, Free
<1>2. PICK a : a = [h EXCEPT !.blk[t].free = FALSE]
  OBVIOUS
<1>3. Sound(a, Free(h)) /\ Marked(h, t, FALSE, a)
  BY <1>1, <1>2, MarkSound
<1>4. PICK b : b = UnlinkF(a, t)
  OBVIOUS
<1>5. PICK S : S = Free(h) \ {t}
  OBVIOUS
<1>6. Sound(b, S) /\ SameBlocks(a, b)
  BY <1>3, <1>4, <1>5, UnlinkSound
<1>7. /\ DOMAIN b.blk = DOMAIN h.blk /\ b.brk = h.brk
      /\ \A c \in DOMAIN h.blk :
           /\ b.blk[c].size = h.blk[c].size /\ b.blk[c].next = h.blk[c].next
           /\ b.blk[c].free = IF c = t THEN FALSE ELSE h.blk[c].free
  BY <1>3, <1>6, ZenonT(40) DEF Marked, SameBlocks
<1>8. Free(b) = S
  BY <1>5, <1>7 DEF Free
<1>9. \A c \in DOMAIN h.blk : h.blk[c].next \in DOMAIN h.blk \cup {Nil} /\ h.blk[c].size \in Nat
  BY <1>1, Neighbours
<1>10. \A c \in Free(h) : h.blk[c].next # Nil => ~h.blk[h.blk[c].next].free
  BY <1>1 DEF Apart
<1>11. CASE ~ (h.blk[t].size >= size + 2 * Header)
  <2>1. Take(h, t, size) = b
    <3>1. b = UnlinkF([h EXCEPT !.blk[t].free = FALSE], t)
      BY <1>2, <1>4
    <3> QED
      BY <1>11, <3>1, Zenon DEF Take
  <2>2. Apart(b)
    <3>1. SUFFICES ASSUME NEW c \in Free(b), b.blk[c].next # Nil
                   PROVE  ~b.blk[b.blk[c].next].free
      BY DEF Apart
    <3>2. c \in Free(h) /\ c \in DOMAIN h.blk
      BY <1>5, <1>8 DEF Free
    <3>3. PICK n : n = h.blk[c].next
      OBVIOUS
    <3>4. n \in DOMAIN h.blk /\ ~h.blk[n].free /\ b.blk[c].next = n
      BY <1>7, <1>9, <1>10, <3>1, <3>2, <3>3
    <3>5. b.blk[n].free = IF n = t THEN FALSE ELSE h.blk[n].free
      BY <1>7, <3>4
    <3> QED
      BY <3>4, <3>5
  <2>3. HeapOK(b)
    BY <1>6, <1>8, <2>2 DEF HeapOK, Sound
  <2> QED
    BY <1>1, <1>7, <2>1, <2>3 DEF Given, Free
<1>12. CASE h.blk[t].size >= size + 2 * Header
  <2>1. PICK r, m : r = Split(b, t, size) /\ m = t + Header + size
    OBVIOUS
  <2>2. Take(h, t, size) = r
    <3>1. b = UnlinkF([h EXCEPT !.blk[t].free = FALSE], t)
      BY <1>2, <1>4
    <3> QED
      BY <1>12, <2>1, <3>1, Zenon DEF Take
  <2>3. b.blk[t].size >= size + Header
    <3>1. PICK old : old = h.blk[t].size
      OBVIOUS
    <3>2. old \in Nat /\ b.blk[t].size = old /\ old >= size + 2 * Header
      BY <1>1, <1>7, <1>9, <1>12, <3>1
    <3> QED
      BY <3>2
  <2>4. Sound(r, S \cup {m}) /\ SplitOff(b, t, size, r)
    BY <1>1, <1>6, <1>7, <2>1, <2>3, SplitSound
  <2>5. /\ m \in DOMAIN r.blk \ DOMAIN h.blk
        /\ DOMAIN r.blk = DOMAIN h.blk \cup {m} /\ r.brk = h.brk
        /\ r.blk[m].free = TRUE /\ r.blk[m].next = h.blk[t].next
        /\ \A c \in DOMAIN h.blk :
             /\ r.blk[c].size = IF c = t THEN size ELSE h.blk[c].size
             /\ r.blk[c].free = IF c = t THEN FALSE ELSE h.blk[c].free
             /\ r.blk[c].next = IF c = t THEN m ELSE h.blk[c].next
    BY <1>1, <1>7, <2>1, <2>4, ZenonT(40) DEF SplitOff
  <2>6. Free(r) = S \cup {m}
    BY <1>5, <2>5 DEF Free
  <2>7. Apart(r)
    <3>1. SUFFICES ASSUME NEW c \in Free(r), r.blk[c].next # Nil
                   PROVE  ~r.blk[r.blk[c].next].free
      BY DEF Apart
    <3>2. CASE c = m
      BY <1>1, <1>9, <1>10, <2>5, <3>1, <3>2, ZenonT(40)
    <3>3. CASE c # m
      <4>1. c \in Free(h) /\ c # t /\ c \in DOMAIN h.blk /\ r.blk[c].next = h.blk[c].next
        BY <1>5, <2>5, <2>6, <3>3 DEF Free
      <4> QED
        BY <1>9, <1>10, <2>5, <3>1, <4>1
    <3> QED
      BY <3>2, <3>3
  <2>8. HeapOK(r)
    BY <2>4, <2>6, <2>7 DEF HeapOK, Sound
  <2>9. Given(h, t, size, r)
    <3>1. t \in DOMAIN r.blk /\ ~r.blk[t].free /\ h.blk[t].free
      BY <1>1, <2>5 DEF Free
    <3>2. r.blk[t].size >= size
      <4>1. r.blk[t].size = size
        BY <1>1, <2>5
      <4> QED
        BY <4>1
    <3>3. ASSUME NEW c \in DOMAIN h.blk, ~h.blk[c].free
          PROVE  c \in DOMAIN r.blk /\ ~r.blk[c].free /\ r.blk[c].size = h.blk[c].size
      <4>1. c # t
        BY <3>1, <3>3
      <4> QED
        BY <2>5, <3>3, <4>1
    <3> QED
      BY <2>8, <3>1, <3>2, <3>3 DEF Given
  <2> QED
    BY <2>2, <2>5, <2>9
<1> QED
  BY <1>11, <1>12

(* The block that sbrk adds, in use and not yet split. *)
Added(h, space) ==
  LET t == h.brk
      new == [Blank EXCEPT !.size = space, !.prev = h.tail]
      linked == IF h.tail = Nil THEN [h EXCEPT !.head = t] ELSE [h EXCEPT !.blk[h.tail].next = t]
  IN [linked EXCEPT !.blk = [b \in DOMAIN @ \cup {t} |-> IF b = t THEN new ELSE @[b]],
                    !.tail = t, !.brk = @ + Header + space]

Extended(h, space, r) ==
  /\ HeapTyped(r) /\ DOMAIN r.blk = DOMAIN h.blk \cup {h.brk}
  /\ r.head = h.head /\ r.tail = h.brk /\ r.brk = h.brk + Header + space
  /\ r.headF = h.headF /\ r.tailF = h.tailF
  /\ r.blk[h.brk].size = space /\ r.blk[h.brk].free = FALSE
  /\ r.blk[h.brk].prev = h.tail /\ r.blk[h.brk].next = Nil
  /\ r.blk[h.brk].prevF = Nil /\ r.blk[h.brk].nextF = Nil
  /\ \A b \in DOMAIN h.blk :
       /\ r.blk[b].size = h.blk[b].size /\ r.blk[b].free = h.blk[b].free
       /\ r.blk[b].prev = h.blk[b].prev
       /\ r.blk[b].next = IF b = h.tail THEN h.brk ELSE h.blk[b].next
       /\ r.blk[b].prevF = h.blk[b].prevF /\ r.blk[b].nextF = h.blk[b].nextF

LEMMA AddedFields ==
  ASSUME NEW h, HeapTyped(h), h.tail \in DOMAIN h.blk, h.brk \in Nat \ DOMAIN h.blk, h.brk # 0,
         NEW space \in Nat, Header \in Nat
  PROVE  Extended(h, space, Added(h, space))
<1>1. PICK t, l : t = h.brk /\ l = h.tail
  OBVIOUS
<1> DEFINE new == [Blank EXCEPT !.size = space, !.prev = l]
           d == [h.blk[l] EXCEPT !.next = t]
           a == [h.blk EXCEPT ![l] = d]
           linked == [h EXCEPT !.blk = a]
           c == [b \in DOMAIN h.blk \cup {t} |-> IF b = t THEN new ELSE a[b]]
           r == Added(h, space)
<1>2. /\ h \in [blk : [DOMAIN h.blk -> Node], head : Nat, tail : Nat, headF : Nat, tailF : Nat, brk : Nat]
      /\ l \in DOMAIN h.blk /\ t \in Nat \ {0} /\ t \notin DOMAIN h.blk /\ l # Nil
      /\ l \in Nat
  BY <1>1 DEF HeapTyped, Nil
<1>3. h.blk \in [DOMAIN h.blk -> Node] /\ h.blk[l] \in Node
  BY <1>2
<1>4. [h EXCEPT !.blk[l].next = t] = linked
  BY <1>2
<1>5. r = [linked EXCEPT !.blk = [b \in DOMAIN @ \cup {t} |-> IF b = t THEN new ELSE @[b]],
                         !.tail = t, !.brk = @ + Header + space]
  BY <1>1, <1>2, <1>4 DEF Added
<1>6. /\ d \in Node /\ d.size = h.blk[l].size /\ d.free = h.blk[l].free
      /\ d.prev = h.blk[l].prev /\ d.next = t
      /\ d.prevF = h.blk[l].prevF /\ d.nextF = h.blk[l].nextF
  BY <1>2, <1>3 DEF Node
<1> HIDE DEF d
<1>7. /\ a \in [DOMAIN h.blk -> Node] /\ DOMAIN a = DOMAIN h.blk
      /\ \A b \in DOMAIN h.blk : a[b] = IF b = l THEN d ELSE h.blk[b]
  BY <1>3, <1>6
<1>8. /\ new \in Node /\ new.size = space /\ new.free = FALSE
      /\ new.prev = l /\ new.next = Nil /\ new.prevF = Nil /\ new.nextF = Nil
  BY <1>2 DEF Node, Blank, Nil
<1> HIDE DEF a, new
<1>9. /\ linked.blk = a /\ linked.head = h.head /\ linked.tail = h.tail
      /\ linked.headF = h.headF /\ linked.tailF = h.tailF /\ linked.brk = t
      /\ linked \in [blk : [DOMAIN h.blk -> Node], head : Nat, tail : Nat, headF : Nat, tailF : Nat, brk : Nat]
  BY <1>1, <1>2, <1>7
<1> HIDE DEF linked
<1>10. r = [linked EXCEPT !.blk = c, !.tail = t, !.brk = t + Header + space]
  BY <1>5, <1>7, <1>9
<1>11. /\ c \in [DOMAIN h.blk \cup {t} -> Node] /\ DOMAIN c = DOMAIN h.blk \cup {t}
       /\ c[t] = new
       /\ \A b \in DOMAIN h.blk : c[b] = a[b]
  BY <1>2, <1>7, <1>8
<1> HIDE DEF c, r
<1>12. /\ r.blk = c /\ r.head = h.head /\ r.tail = t /\ r.headF = h.headF /\ r.tailF = h.tailF
       /\ r.brk = t + Header + space /\ t + Header + space \in Nat
       /\ r \in [blk : [DOMAIN h.blk \cup {t} -> Node], head : Nat, tail : Nat, headF : Nat, tailF : Nat, brk : Nat]
  <2>1. PICK e : e = t + Header + space
    OBVIOUS
  <2>2. e \in Nat
    BY <1>2, <2>1
  <2>3. r = [linked EXCEPT !.blk = c, !.tail = t, !.brk = e]
    BY <1>10, <2>1
  <2>4. r \in [blk : [DOMAIN h.blk \cup {t} -> Node], head : Nat, tail : Nat, headF : Nat, tailF : Nat, brk : Nat]
    BY <1>2, <1>9, <1>11, <2>2, <2>3
  <2>5. r.blk = c /\ r.head = h.head /\ r.tail = t /\ r.headF = h.headF /\ r.tailF = h.tailF /\ r.brk = e
    BY <1>9, <2>3
  <2> QED
    BY <2>1, <2>2, <2>4, <2>5
<1>13. HeapTyped(r)
  <2>1. IsFiniteSet(DOMAIN h.blk \cup {t}) /\ DOMAIN h.blk \cup {t} \subseteq Nat \ {0}
    BY <1>2, FS_AddElement DEF HeapTyped
  <2> QED
    BY <1>11, <1>12, <2>1 DEF HeapTyped
<1>14. \A b \in DOMAIN h.blk :
         /\ r.blk[b].size = h.blk[b].size /\ r.blk[b].free = h.blk[b].free
         /\ r.blk[b].prev = h.blk[b].prev
         /\ r.blk[b].next = IF b = l THEN t ELSE h.blk[b].next
         /\ r.blk[b].prevF = h.blk[b].prevF /\ r.blk[b].nextF = h.blk[b].nextF
  BY <1>6, <1>7, <1>11, <1>12
<1> QED
  BY <1>1, <1>8, <1>11, <1>12, <1>13, <1>14 DEF Extended, r

LEMMA ExtendedTiles ==
  ASSUME NEW h, HeapTyped(h), Tiled(h), Header \in Nat \ {0}, NEW space \in Nat
  PROVE  /\ h.tail \in DOMAIN h.blk /\ h.brk \in Nat \ DOMAIN h.blk /\ h.brk # 0
         /\ \A r : Extended(h, space, r) => Tiled(r)
<1>1. PICK t : t = h.brk
  OBVIOUS
<1>2. \A b \in DOMAIN h.blk :
        /\ b \in Nat \ {0} /\ h.blk[b].size \in Nat /\ End(h, b) \in Nat /\ b < End(h, b)
        /\ End(h, b) <= t /\ t \in Nat
  BY <1>1, Neighbours
<1>3. h.tail \in DOMAIN h.blk /\ 1 \in DOMAIN h.blk /\ t \in Nat /\ h.tail # Nil
  BY <1>2 DEF Tiled, Nil
<1>4. \A b \in DOMAIN h.blk : b < t
  BY <1>2
<1>5. t \notin DOMAIN h.blk /\ t # 0 /\ t # 1
  BY <1>2, <1>3, <1>4
<1>6. ASSUME NEW r, Extended(h, space, r) PROVE Tiled(r)
  <2>1. /\ DOMAIN r.blk = DOMAIN h.blk \cup {t}
        /\ r.head = h.head /\ r.tail = t /\ r.brk = t + Header + space
        /\ r.blk[t].size = space /\ r.blk[t].prev = h.tail /\ r.blk[t].next = Nil
        /\ \A b \in DOMAIN h.blk :
             /\ r.blk[b].size = h.blk[b].size /\ r.blk[b].prev = h.blk[b].prev
             /\ r.blk[b].next = IF b = h.tail THEN t ELSE h.blk[b].next
    BY <1>1, <1>6 DEF Extended
  <2>2. End(r, t) = r.brk /\ t <= r.brk /\ r.brk \in Nat
    BY <1>3, <2>1 DEF End
  <2>3. \A b \in DOMAIN h.blk : End(r, b) = End(h, b)
    BY <2>1 DEF End
  <2>4. 1 \in DOMAIN r.blk /\ r.head = 1 /\ r.tail \in DOMAIN r.blk
    BY <2>1 DEF Tiled
  <2>5. ASSUME NEW b \in DOMAIN r.blk
        PROVE  /\ End(r, b) <= r.brk
               /\ IF b = r.tail THEN r.blk[b].next = Nil /\ End(r, b) = r.brk
                  ELSE /\ r.blk[b].next \in DOMAIN r.blk /\ r.blk[b].next = End(r, b)
                       /\ r.blk[r.blk[b].next].prev = b
               /\ IF b = 1 THEN r.blk[b].prev = Nil
                  ELSE r.blk[b].prev \in DOMAIN r.blk /\ r.blk[r.blk[b].prev].next = b
    <3>1. CASE b = t
      BY <1>3, <1>5, <2>1, <2>2, <3>1
    <3>2. CASE b # t
      <4>0. b \in DOMAIN h.blk
        BY <2>1, <3>2
      <4>1. PICK y, z : y = h.blk[b].next /\ z = h.blk[b].prev
        OBVIOUS
      <4>2. /\ IF b = h.tail THEN y = Nil /\ End(h, b) = t
               ELSE y \in DOMAIN h.blk /\ y = End(h, b) /\ h.blk[y].prev = b
            /\ IF b = 1 THEN z = Nil ELSE z \in DOMAIN h.blk /\ h.blk[z].next = b
        BY <1>1, <4>0, <4>1 DEF Tiled
      <4>3. End(r, b) <= r.brk
        <5>1. End(h, b) <= t /\ End(h, b) \in Nat
          BY <1>2, <4>0
        <5> QED
          BY <1>3, <2>2, <2>3, <4>0, <5>1
      <4>4. /\ r.blk[b].next \in DOMAIN r.blk /\ r.blk[b].next = End(r, b)
            /\ r.blk[r.blk[b].next].prev = b
        <5>1. CASE b = h.tail
          BY <2>1, <2>3, <4>0, <4>2, <5>1
        <5>2. CASE b # h.tail
          BY <2>1, <2>3, <4>0, <4>1, <4>2, <5>2
        <5> QED
          BY <5>1, <5>2
      <4>5. IF b = 1 THEN r.blk[b].prev = Nil
            ELSE r.blk[b].prev \in DOMAIN r.blk /\ r.blk[r.blk[b].prev].next = b
        <5>1. r.blk[b].prev = z
          BY <2>1, <4>0, <4>1
        <5>2. b # 1 => z # h.tail
          <6>1. h.blk[h.tail].next = Nil /\ b # Nil
            BY <1>2, <1>3, <4>0 DEF Tiled, Nil
          <6> QED
            BY <4>2, <6>1
        <5> QED
          BY <2>1, <4>2, <5>1, <5>2
      <4> QED
        BY <2>1, <3>2, <4>3, <4>4, <4>5
    <3> QED
      BY <3>1, <3>2
  <2>6. ASSUME NEW b \in DOMAIN r.blk, NEW c \in DOMAIN r.blk, b < c
        PROVE  End(r, b) <= c
    <3>1. b \in DOMAIN h.blk
      <4>1. b # t
        BY <1>2, <1>3, <1>4, <2>1, <2>6
      <4> QED
        BY <2>1, <4>1
    <3>2. CASE c = t
      BY <1>2, <2>3, <3>1, <3>2
    <3>3. CASE c # t
      <4>1. c \in DOMAIN h.blk
        BY <2>1, <3>3
      <4> QED
        BY <2>3, <2>6, <3>1, <4>1 DEF Tiled
    <3> QED
      BY <3>2, <3>3
  <2> QED
    BY <2>4, <2>5, <2>6 DEF Tiled
<1> QED
  BY <1>1, <1>3, <1>5, <1>6

Space(size) == IF size < SMALL THEN size * Room ELSE size

LEMMA GrowIs ==
  ASSUME NEW h, NEW size
  PROVE  Grow(h, size) = IF size # Space(size) THEN Split(Added(h, Space(size)), h.brk, size)
                         ELSE Added(h, Space(size))
BY DEF Grow, Added, Space

LEMMA GrowGives ==
  ASSUME NEW h, HeapOK(h), Header \in Nat \ {0}, SMALL \in Nat, Room \in Nat,
         NEW size \in Nat, size < SMALL => size * Room >= size + Header
  PROVE  /\ Given(h, h.brk, size, Grow(h, size))
         /\ Grow(h, size).brk = h.brk + Header + Space(size)
<1>1. Sound(h, Free(h)) /\ HeapTyped(h) /\ Tiled(h) /\ Apart(h) /\ Listed(h, Free(h))
  BY DEF HeapOK, Sound
<1>2. PICK space, t : space = Space(size) /\ t = h.brk
  OBVIOUS
<1>3. space \in Nat /\ (space # size => space >= size + Header)
  <2>1. CASE size < SMALL
    <3>1. PICK x : x = size * Room
      OBVIOUS
    <3> QED
      BY <1>2, <2>1, <3>1 DEF Space
  <2>2. CASE ~ (size < SMALL)
    BY <1>2, <2>2 DEF Space
  <2> QED
    BY <2>1, <2>2
<1>4. PICK a : a = Added(h, space)
  OBVIOUS
<1>5. /\ h.tail \in DOMAIN h.blk /\ t \in Nat \ DOMAIN h.blk /\ h.brk # 0
      /\ \A r : Extended(h, space, r) => Tiled(r)
  BY <1>1, <1>2, <1>3, ExtendedTiles
<1>6. Extended(h, space, a)
  BY <1>1, <1>2, <1>3, <1>4, <1>5, AddedFields
<1>7. /\ HeapTyped(a) /\ DOMAIN a.blk = DOMAIN h.blk \cup {t}
      /\ a.brk = h.brk + Header + space
      /\ a.blk[t].size = space /\ a.blk[t].free = FALSE /\ a.blk[t].next = Nil
      /\ \A b \in DOMAIN h.blk :
           /\ a.blk[b].size = h.blk[b].size /\ a.blk[b].free = h.blk[b].free
           /\ a.blk[b].next = IF b = h.tail THEN t ELSE h.blk[b].next
  BY <1>2, <1>6 DEF Extended
<1>8. Free(a) = Free(h)
  BY <1>5, <1>7 DEF Free
<1>9. Listed(a, Free(h))
  <2>1. Links(h, Free(h))
    BY <1>1 DEF Listed
  <2>2. /\ Free(h) \subseteq DOMAIN a.blk
        /\ a.headF = h.headF /\ a.tailF = h.tailF
        /\ \A b \in Free(h) : a.blk[b].nextF = h.blk[b].nextF /\ a.blk[b].prevF = h.blk[b].prevF
        /\ \A b \in DOMAIN a.blk \ Free(h) : a.blk[b].nextF = Nil /\ a.blk[b].prevF = Nil
    BY <1>2, <1>6, <2>1 DEF Extended, Links
  <2> QED
    BY <1>1, <2>2, SameList
<1>10. Sound(a, Free(h))
  BY <1>5, <1>6, <1>7, <1>9 DEF Sound
<1>11. \A b \in Free(h) : h.blk[b].next # Nil => ~h.blk[h.blk[b].next].free
  BY <1>1 DEF Apart
<1>12. \A b \in DOMAIN h.blk : h.blk[b].next \in DOMAIN h.blk \cup {Nil}
  BY <1>1, Neighbours
<1>13. ASSUME NEW b \in Free(h), a.blk[b].next # Nil
       PROVE  a.blk[b].next \in DOMAIN a.blk /\ ~a.blk[a.blk[b].next].free
  <2>1. b \in DOMAIN h.blk
    BY DEF Free
  <2>2. CASE b = h.tail
    BY <1>7, <2>1, <2>2
  <2>3. CASE b # h.tail
    <3>1. a.blk[b].next = h.blk[b].next /\ h.blk[b].next \in DOMAIN h.blk
      BY <1>7, <1>12, <1>13, <2>1, <2>3
    <3> QED
      BY <1>7, <1>11, <1>13, <3>1
  <2> QED
    BY <2>2, <2>3
<1>14. CASE size = space
  <2>1. Grow(h, size) = a
    BY <1>2, <1>4, <1>14, GrowIs
  <2>2. HeapOK(a)
    BY <1>8, <1>10, <1>13 DEF HeapOK, Sound, Apart
  <2> QED
    BY <1>2, <1>5, <1>7, <1>14, <2>1, <2>2 DEF Given
<1>15. CASE size # space
  <2>1. PICK r, m : r = Split(a, t, size) /\ m = t + Header + size
    OBVIOUS
  <2>2. Grow(h, size) = r
    BY <1>2, <1>4, <1>15, <2>1, GrowIs
  <2>3. t \in DOMAIN a.blk /\ a.blk[t].size >= size + Header
    BY <1>3, <1>7, <1>15
  <2>4. Sound(r, Free(h) \cup {m}) /\ SplitOff(a, t, size, r)
    BY <1>10, <2>1, <2>3, SplitSound
  <2>5. /\ m \in DOMAIN r.blk \ DOMAIN a.blk
        /\ DOMAIN r.blk = DOMAIN a.blk \cup {m} /\ r.brk = a.brk
        /\ r.blk[m].free = TRUE /\ r.blk[m].next = Nil
        /\ \A c \in DOMAIN a.blk :
             /\ r.blk[c].size = IF c = t THEN size ELSE a.blk[c].size
             /\ r.blk[c].free = a.blk[c].free
             /\ r.blk[c].next = IF c = t THEN m ELSE a.blk[c].next
    BY <1>7, <2>1, <2>4 DEF SplitOff
  <2>6. Free(r) = Free(h) \cup {m}
    BY <1>8, <2>5 DEF Free
  <2>7. Apart(r)
    <3>1. SUFFICES ASSUME NEW c \in Free(r), r.blk[c].next # Nil
                   PROVE  ~r.blk[r.blk[c].next].free
      BY DEF Apart
    <3>2. c \in Free(h)
      BY <2>5, <2>6, <3>1
    <3>3. c \in DOMAIN a.blk /\ c # t
      BY <1>5, <1>7, <3>2 DEF Free
    <3>4. r.blk[c].next = a.blk[c].next
      BY <2>5, <3>3
    <3>5. a.blk[c].next \in DOMAIN a.blk /\ ~a.blk[a.blk[c].next].free
      BY <1>13, <3>1, <3>2, <3>4
    <3> QED
      BY <2>5, <3>4, <3>5
  <2>8. HeapOK(r)
    BY <2>4, <2>6, <2>7 DEF HeapOK, Sound
  <2>9. Given(h, t, size, r)
    <3>1. t \in DOMAIN r.blk /\ ~r.blk[t].free /\ r.blk[t].size = size
      BY <1>7, <2>3, <2>5
    <3>2. r.blk[t].size >= size
      BY <3>1
    <3>3. ASSUME NEW c \in DOMAIN h.blk, ~h.blk[c].free
          PROVE  c \in DOMAIN r.blk /\ ~r.blk[c].free /\ r.blk[c].size = h.blk[c].size
      <4>1. c # t /\ c \in DOMAIN a.blk
        BY <1>5, <1>7
      <4> QED
        BY <1>7, <2>5, <3>3, <4>1
    <3> QED
      BY <1>5, <2>8, <3>1, <3>2, <3>3 DEF Given
  <2> QED
    BY <1>2, <1>7, <2>2, <2>5, <2>9
<1> QED
  BY <1>14, <1>15

(* The walk along the free list meets the free blocks.                     *)
NextFs(h) == [b \in DOMAIN h.blk |-> h.blk[b].nextF]

LEMMA FreeListGoes ==
  ASSUME NEW h, HeapOK(h)
  PROVE  GoesThrough(FreeList(h), Free(h), h.headF, NextFs(h))
<1>1. HeapTyped(h) /\ Listed(h, Free(h))
  BY DEF HeapOK
<1>2. PICK rank : Links(h, Free(h)) /\ Ordered(h, Free(h), rank)
  BY <1>1 DEF Listed
<1>3. PICK next, S : next = NextFs(h) /\ S = Free(h)
  OBVIOUS
<1>4. /\ DOMAIN next = DOMAIN h.blk /\ IsFiniteSet(DOMAIN next) /\ Nil \notin DOMAIN next
      /\ \A c \in DOMAIN next : next[c] = h.blk[c].nextF
  BY <1>1, <1>3 DEF NextFs, HeapTyped, Nil
<1>5. /\ S \subseteq DOMAIN next /\ h.headF \in S \cup {Nil} /\ (S # {} => h.headF # Nil)
      /\ \A c \in DOMAIN next : next[c] \in S \cup {Nil}
  BY <1>2, <1>3, <1>4 DEF Links
<1>6. ASSUME NEW c \in S
      PROVE  /\ rank[c] \in Nat
             /\ next[c] # Nil => rank[c] < rank[next[c]]
             /\ c = h.headF \/ \E e \in S : next[e] = c
  <2>1. rank[c] \in Nat /\ (next[c] # Nil => rank[c] < rank[next[c]])
    BY <1>2, <1>3, <1>4, <1>5 DEF Ordered
  <2>2. PICK p : p = h.blk[c].prevF
    OBVIOUS
  <2>3. p \in S \cup {Nil} /\ (p = Nil => c = h.headF) /\ (p # Nil => h.blk[p].nextF = c)
    BY <1>2, <1>3, <2>2 DEF Links
  <2>4. p # Nil => p \in S /\ next[p] = c
    BY <1>4, <1>5, <2>3
  <2> QED
    BY <2>1, <2>3, <2>4
<1>7. Upwards(S, h.headF, next, rank)
  BY <1>5, <1>6 DEF Upwards
<1>8. GoesThrough(Walk(h.headF, next), S, h.headF, next)
  <2>1. \A c \in DOMAIN next : next[c] \in DOMAIN next \cup {Nil}
    BY <1>5
  <2>2. PICK b : b = h.headF
    OBVIOUS
  <2> QED
    BY <1>4, <1>7, <2>1, <2>2, WalkGoesThrough
<1> QED
  BY <1>3, <1>8 DEF FreeList, NextFs

LEMMA FoundFits ==
  ASSUME NEW h, HeapOK(h), NEW size \in Nat, Fitting(h, size) # {}
  PROVE  /\ Found(h, size) \in Free(h)
         /\ h.blk[Found(h, size)].size >= size
<1>1. PICK w, fits : w = FreeList(h) /\ fits = Fitting(h, size)
  OBVIOUS
<1>2. PICK m \in Nat : w \in [1 .. m -> Free(h)]
  BY <1>1, FreeListGoes DEF GoesThrough
<1>3. fits = {k \in 1 .. m : h.blk[w[k]].free /\ h.blk[w[k]].size >= size}
  BY <1>1, <1>2 DEF Fitting
<1>4. fits \subseteq Nat /\ fits # {}
  BY <1>1, <1>3
<1>5. \E k \in fits : \A j \in fits : k <= j
  BY <1>4, Least
<1>6. PICK k : k = CHOOSE i \in fits : \A j \in fits : i <= j
  OBVIOUS
<1>7. k \in fits
  BY <1>5, <1>6
<1>8. Found(h, size) = w[k]
  BY <1>1, <1>4, <1>6 DEF Found
<1> QED
  BY <1>2, <1>3, <1>7, <1>8

LEMMA MallocGives ==
  ASSUME NEW h, HeapOK(h), Header \in Nat \ {0}, SMALL \in Nat, Room \in Nat,
         NEW size \in Nat, size < SMALL => size * Room >= size + Header
  PROVE  /\ Given(h, Found(h, size), size, malloc(h, size))
         /\ malloc(h, size).brk = h.brk \/ malloc(h, size).brk = h.brk + Header + Space(size)
<1>1. CASE Fitting(h, size) = {}
  <2>1. Found(h, size) = h.brk /\ malloc(h, size) = Grow(h, size)
    BY <1>1 DEF Found, malloc
  <2>2. PICK r : r = Grow(h, size)
    OBVIOUS
  <2>3. Given(h, h.brk, size, r) /\ r.brk = h.brk + Header + Space(size)
    BY <2>2, GrowGives
  <2> QED
    BY <2>1, <2>2, <2>3
<1>2. CASE Fitting(h, size) # {}
  <2>1. PICK t : t = Found(h, size)
    OBVIOUS
  <2>2. t \in Free(h) /\ h.blk[t].size >= size
    BY <1>2, <2>1, FoundFits
  <2>3. PICK r : r = Take(h, t, size)
    OBVIOUS
  <2>4. malloc(h, size) = r
    BY <1>2, <2>1, <2>3 DEF malloc
  <2>5. Given(h, t, size, r) /\ r.brk = h.brk
    BY <2>2, <2>3, TakeGives
  <2> QED
    BY <2>1, <2>4, <2>5
<1> QED
  BY <1>1, <1>2

-----------------------------------------------------------------------------
(* free *)

(* Of two heaps, the second one is sound, and has every block in use but t *)
(* as it was.                                                              *)
Stay(h, t, r) ==
  /\ HeapOK(r) /\ r.brk = h.brk
  /\ \A b \in DOMAIN h.blk \ {t} : ~h.blk[b].free =>
       b \in DOMAIN r.blk /\ ~r.blk[b].free /\ r.blk[b].size = h.blk[b].size

(* The first half of free: t takes in the block behind it. *)
Upped(h, t) ==
  LET n == h.blk[t].next
  IN IF n # Nil /\ h.blk[n].free THEN Absorb(UnlinkF(h, n), t, n) ELSE h

Apart1(h, t) ==
  /\ t \in DOMAIN h.blk /\ ~h.blk[t].free
  /\ h.blk[t].next # Nil => ~h.blk[h.blk[t].next].free

LEMMA UpFrees ==
  ASSUME NEW h, HeapOK(h), NEW t \in DOMAIN h.blk, ~h.blk[t].free, Header \in Nat \ {0}
  PROVE  /\ Stay(h, t, Upped(h, t)) /\ Apart1(Upped(h, t), t)
         /\ Upped(h, t).blk[t].prev = h.blk[t].prev
         /\ h.blk[t].prev # Nil =>
              Upped(h, t).blk[h.blk[t].prev].free = h.blk[h.blk[t].prev].free
<1>1. Sound(h, Free(h)) /\ HeapTyped(h) /\ Tiled(h) /\ Apart(h)
  BY DEF HeapOK, Sound
<1>2. PICK n, p, u : n = h.blk[t].next /\ p = h.blk[t].prev /\ u = Upped(h, t)
  OBVIOUS
<1>3. /\ n \in DOMAIN h.blk \cup {Nil} /\ p \in DOMAIN h.blk \cup {Nil} /\ n # t /\ p # t
      /\ n # Nil => h.blk[n].prev = t
      /\ p # Nil => h.blk[p].next = t
      /\ h.blk[t].size \in Nat
  BY <1>1, <1>2, Neighbours
<1>4. CASE ~ (n # Nil /\ h.blk[n].free)
  <2>1. u = h
    BY <1>2, <1>4 DEF Upped
  <2>2. Stay(h, t, h)
    BY DEF Stay
  <2>3. Apart1(h, t)
    BY <1>2, <1>4 DEF Apart1
  <2> QED
    BY <1>2, <2>1, <2>2, <2>3
<1>5. CASE n # Nil /\ h.blk[n].free
  <2>1. n \in Free(h) /\ n \in DOMAIN h.blk /\ t \notin Free(h)
    BY <1>3, <1>5 DEF Free
  <2>2. PICK a, S : a = UnlinkF(h, n) /\ S = Free(h) \ {n}
    OBVIOUS
  <2>3. Sound(a, S) /\ SameBlocks(h, a)
    BY <1>1, <2>1, <2>2, UnlinkSound
  <2>4. /\ DOMAIN a.blk = DOMAIN h.blk /\ a.brk = h.brk
        /\ \A b \in DOMAIN h.blk :
             /\ a.blk[b].size = h.blk[b].size /\ a.blk[b].free = h.blk[b].free
             /\ a.blk[b].prev = h.blk[b].prev /\ a.blk[b].next = h.blk[b].next
    BY <2>3 DEF SameBlocks
  <2>5. u = Absorb(a, t, n)
    BY <1>2, <1>5, <2>2 DEF Upped
  <2>6. Sound(u, S) /\ Joined(a, t, n, u)
    <3>1. t \in DOMAIN a.blk /\ n \in DOMAIN a.blk \ S /\ a.blk[t].next = n
      BY <1>2, <2>1, <2>2, <2>4
    <3> QED
      BY <2>3, <2>5, <3>1, AbsorbSound
  <2>7. PICK x : x = h.blk[n].next
    OBVIOUS
  <2>8. /\ DOMAIN u.blk = DOMAIN h.blk \ {n} /\ u.brk = h.brk
        /\ \A b \in DOMAIN h.blk \ {n} :
             /\ b # t => u.blk[b].size = h.blk[b].size /\ u.blk[b].next = h.blk[b].next
             /\ u.blk[b].free = h.blk[b].free
             /\ u.blk[b].prev = IF b = x THEN t ELSE h.blk[b].prev
        /\ u.blk[t].next = x
    <3>1. a.blk[n].next = x
      BY <2>1, <2>4, <2>7
    <3>2. /\ DOMAIN u.blk = DOMAIN a.blk \ {n} /\ u.brk = a.brk
          /\ \A b \in DOMAIN a.blk \ {n} :
               /\ b # t => u.blk[b].size = a.blk[b].size /\ u.blk[b].next = a.blk[b].next
               /\ u.blk[b].free = a.blk[b].free
               /\ u.blk[b].prev = IF b = x THEN t ELSE a.blk[b].prev
               /\ b = t => u.blk[b].next = x
      BY <2>6, <3>1 DEF Joined
    <3> QED
      BY <1>3, <2>1, <2>4, <3>2
  <2>9. /\ x \in DOMAIN h.blk \cup {Nil} /\ x # n
        /\ x # Nil => h.blk[x].prev = n /\ ~h.blk[x].free
        /\ x # t
    <3>1. /\ x \in DOMAIN h.blk \cup {Nil} /\ x # n
          /\ x # Nil => h.blk[x].prev = n
      BY <1>1, <2>1, <2>7, Neighbours
    <3>2. x # Nil => ~h.blk[x].free
      BY <1>1, <2>1, <2>7 DEF Apart
    <3>3. x # t
      <4>1. n = End(h, t) /\ t < End(h, t) /\ t \in Nat
        BY <1>1, <1>2, <1>5, Neighbours
      <4>2. x # Nil => x = End(h, n) /\ n < End(h, n) /\ n \in Nat /\ x \in Nat
        BY <1>1, <2>1, <2>7, Neighbours
      <4>3. t # Nil
        BY <1>1 DEF HeapTyped, Nil
      <4> QED
        BY <4>1, <4>2, <4>3
    <3> QED
      BY <3>1, <3>2, <3>3
  <2>10. Free(u) = S
    BY <2>1, <2>2, <2>8 DEF Free
  <2>11. Apart(u)
    <3>1. SUFFICES ASSUME NEW c \in Free(u), u.blk[c].next # Nil
                   PROVE  ~u.blk[u.blk[c].next].free
      BY DEF Apart
    <3>2. c \in Free(h) /\ c # n /\ c \in DOMAIN h.blk /\ c # t
      BY <2>1, <2>2, <2>10 DEF Free
    <3>3. PICK y : y = h.blk[c].next
      OBVIOUS
    <3>4. u.blk[c].next = y /\ y \in DOMAIN h.blk /\ ~h.blk[y].free
      <4>1. u.blk[c].next = y
        BY <2>8, <3>2, <3>3
      <4>2. y \in DOMAIN h.blk \cup {Nil}
        BY <1>1, <3>2, <3>3, Neighbours
      <4> QED
        BY <1>1, <3>1, <3>2, <3>3, <4>1, <4>2 DEF Apart
    <3>5. y # n
      BY <1>5, <3>4
    <3> QED
      BY <2>8, <3>4, <3>5
  <2>12. HeapOK(u)
    BY <2>6, <2>10, <2>11 DEF HeapOK, Sound
  <2>13. Stay(h, t, u)
    <3>1. ASSUME NEW b \in DOMAIN h.blk \ {t}, ~h.blk[b].free
          PROVE  b \in DOMAIN u.blk /\ ~u.blk[b].free /\ u.blk[b].size = h.blk[b].size
      <4>1. b # n
        BY <1>5, <3>1
      <4> QED
        BY <2>8, <3>1, <4>1
    <3> QED
      BY <2>8, <2>12, <3>1 DEF Stay
  <2>14. Apart1(u, t)
    <3>1. t \in DOMAIN u.blk /\ ~u.blk[t].free
      BY <1>3, <2>8
    <3>2. x # Nil => x \in DOMAIN h.blk \ {n} /\ ~h.blk[x].free
      BY <2>9
    <3>3. x # Nil => ~u.blk[x].free
      BY <2>8, <3>2
    <3> QED
      BY <2>8, <3>1, <3>3 DEF Apart1
  <2>15. u.blk[t].prev = p
    BY <1>2, <1>3, <2>8, <2>9
  <2>16. p # Nil => u.blk[p].free = h.blk[p].free
    <3>1. p # n
      <4>1. p = n => h.blk[n].next = t
        BY <1>3, <1>5
      <4> QED
        BY <2>7, <2>9, <4>1
    <3> QED
      BY <1>3, <2>8, <3>1
  <2> QED
    BY <1>2, <2>13, <2>14, <2>15, <2>16
<1> QED
  BY <1>4, <1>5

(* The second half: t joins the free block before it, or is one of its own.*)
Downed(u, t) ==
  LET p == u.blk[t].prev
  IN IF p # Nil /\ u.blk[p].free THEN AppendF(UnlinkF(Absorb(u, p, t), p), p)
     ELSE AppendF([u EXCEPT !.blk[t].free = TRUE], t)

LEMMA DownFrees ==
  ASSUME NEW u, HeapOK(u), NEW t, Apart1(u, t), Header \in Nat \ {0}
  PROVE  /\ Stay(u, t, Downed(u, t))
         /\ t \in DOMAIN Downed(u, t).blk => Downed(u, t).blk[t].free
<1>1. Sound(u, Free(u)) /\ HeapTyped(u) /\ Tiled(u) /\ Apart(u)
  BY DEF HeapOK, Sound
<1>2. /\ t \in DOMAIN u.blk /\ ~u.blk[t].free
      /\ u.blk[t].next # Nil => ~u.blk[u.blk[t].next].free
  BY DEF Apart1
<1>3. PICK p, x, r : p = u.blk[t].prev /\ x = u.blk[t].next /\ r = Downed(u, t)
  OBVIOUS
<1>4. /\ p \in DOMAIN u.blk \cup {Nil} /\ p # t
      /\ p # Nil => u.blk[p].next = t
      /\ x \in DOMAIN u.blk \cup {Nil} /\ x # t
  BY <1>1, <1>2, <1>3, Neighbours
<1>5. t \notin Free(u)
  BY <1>2 DEF Free
<1>6. \A c \in DOMAIN u.blk :
        /\ u.blk[c].next \in DOMAIN u.blk \cup {Nil}
        /\ u.blk[c].next = t => c = p
  <2>1. t # Nil
    BY <1>1, <1>2 DEF HeapTyped, Nil
  <2>2. ASSUME NEW c \in DOMAIN u.blk PROVE u.blk[c].next \in DOMAIN u.blk \cup {Nil} /\ (u.blk[c].next = t => c = p)
    <3>1. PICK y : y = u.blk[c].next
      OBVIOUS
    <3>2. y \in DOMAIN u.blk \cup {Nil} /\ (y # Nil => u.blk[y].prev = c)
      BY <1>1, <3>1, Neighbours
    <3> QED
      BY <1>3, <2>1, <3>1, <3>2
  <2> QED
    BY <2>2
<1>7. \A c \in Free(u) : u.blk[c].next # Nil => ~u.blk[u.blk[c].next].free
  BY <1>1 DEF Apart
<1>8. CASE p # Nil /\ u.blk[p].free
  <2>1. p \in Free(u) /\ p \in DOMAIN u.blk
    BY <1>4, <1>8 DEF Free
  <2>2. PICK a, b : a = Absorb(u, p, t) /\ b = UnlinkF(a, p)
    OBVIOUS
  <2>3. Sound(a, Free(u)) /\ Joined(u, p, t, a)
    BY <1>1, <1>2, <1>4, <1>5, <1>8, <2>1, <2>2, AbsorbSound
  <2>4. Sound(b, Free(u) \ {p}) /\ SameBlocks(a, b)
    BY <2>1, <2>2, <2>3, UnlinkSound
  <2>5. r = AppendF(b, p)
    BY <1>3, <1>8, <2>2 DEF Downed
  <2>6. DOMAIN b.blk = DOMAIN u.blk \ {t} /\ p \in DOMAIN b.blk
    BY <1>4, <2>1, <2>3, <2>4 DEF Joined, SameBlocks
  <2>7. Sound(r, Free(u)) /\ SameBlocks(b, r)
    <3>1. PICK S : S = Free(u) \ {p}
      OBVIOUS
    <3>2. p \notin S /\ S \cup {p} = Free(u)
      BY <2>1, <3>1
    <3> QED
      BY <2>4, <2>5, <2>6, <3>1, <3>2, AppendSound
  <2>8. /\ DOMAIN r.blk = DOMAIN u.blk \ {t} /\ r.brk = u.brk
        /\ \A c \in DOMAIN u.blk \ {t} :
             /\ c # p => r.blk[c].size = u.blk[c].size
             /\ r.blk[c].free = u.blk[c].free
             /\ r.blk[c].next = IF c = p THEN x ELSE u.blk[c].next
    BY <1>3, <2>3, <2>4, <2>7 DEF Joined, SameBlocks
  <2>9. Free(r) = Free(u)
    BY <1>5, <2>8 DEF Free
  <2>10. Apart(r)
    <3>1. SUFFICES ASSUME NEW c \in Free(r), r.blk[c].next # Nil
                   PROVE  ~r.blk[r.blk[c].next].free
      BY DEF Apart
    <3>2. c \in Free(u) /\ c \in DOMAIN u.blk \ {t}
      BY <1>5, <2>9 DEF Free
    <3>3. CASE c = p
      <4>1. r.blk[c].next = x /\ x \in DOMAIN u.blk \ {t} /\ ~u.blk[x].free
        BY <1>2, <1>3, <1>4, <2>8, <3>1, <3>2, <3>3
      <4> QED
        BY <2>8, <4>1
    <3>4. CASE c # p
      <4>1. PICK y : y = u.blk[c].next
        OBVIOUS
      <4>2. r.blk[c].next = y
        BY <2>8, <3>2, <3>4, <4>1
      <4>3. y \in DOMAIN u.blk \ {t} /\ ~u.blk[y].free
        BY <1>6, <1>7, <3>1, <3>2, <3>4, <4>1, <4>2
      <4> QED
        BY <2>8, <4>2, <4>3
    <3> QED
      BY <3>3, <3>4
  <2>11. HeapOK(r)
    BY <2>7, <2>9, <2>10 DEF HeapOK, Sound
  <2>12. Stay(u, t, r)
    <3>1. ASSUME NEW c \in DOMAIN u.blk \ {t}, ~u.blk[c].free
          PROVE  c \in DOMAIN r.blk /\ ~r.blk[c].free /\ r.blk[c].size = u.blk[c].size
      <4>1. c # p
        BY <1>8, <3>1
      <4> QED
        BY <2>8, <3>1, <4>1
    <3> QED
      BY <2>8, <2>11, <3>1 DEF Stay
  <2> QED
    BY <1>3, <2>8, <2>12
<1>9. CASE ~ (p # Nil /\ u.blk[p].free)
  <2>1. PICK a : a = [u EXCEPT !.blk[t].free = TRUE]
    OBVIOUS
  <2>2. Sound(a, Free(u)) /\ Marked(u, t, TRUE, a)
    BY <1>1, <1>2, <2>1, MarkSound
  <2>3. r = AppendF(a, t)
    BY <1>3, <1>9, <2>1 DEF Downed
  <2>4. DOMAIN a.blk = DOMAIN u.blk
    BY <2>2 DEF Marked
  <2>5. Sound(r, Free(u) \cup {t}) /\ SameBlocks(a, r)
    BY <1>2, <1>5, <2>2, <2>3, <2>4, AppendSound
  <2>6. /\ DOMAIN r.blk = DOMAIN u.blk /\ r.brk = u.brk
        /\ \A c \in DOMAIN u.blk :
             /\ r.blk[c].size = u.blk[c].size /\ r.blk[c].next = u.blk[c].next
             /\ r.blk[c].free = IF c = t THEN TRUE ELSE u.blk[c].free
    BY <2>2, <2>5, ZenonT(40) DEF Marked, SameBlocks
  <2>7. Free(r) = Free(u) \cup {t}
    BY <1>2, <2>6 DEF Free
  <2>8. Apart(r)
    <3>1. SUFFICES ASSUME NEW c \in Free(r), r.blk[c].next # Nil
                   PROVE  ~r.blk[r.blk[c].next].free
      BY DEF Apart
    <3>2. c \in DOMAIN u.blk /\ (c = t \/ c \in Free(u))
      BY <1>2, <2>7 DEF Free
    <3>3. PICK y : y = u.blk[c].next
      OBVIOUS
    <3>4. r.blk[c].next = y /\ y \in DOMAIN u.blk
      BY <1>6, <2>6, <3>1, <3>2, <3>3
    <3>5. ~u.blk[y].free
      BY <1>2, <1>7, <3>1, <3>2, <3>3, <3>4
    <3>6. y # t
      <4>1. c = t => y # t
        BY <1>3, <1>4, <3>3
      <4>2. c # t /\ y = t => c = p /\ c \in Free(u)
        BY <1>6, <3>2, <3>3
      <4>3. p \in Free(u) => p # Nil /\ u.blk[p].free
        BY <1>1 DEF Free, HeapTyped, Nil
      <4> QED
        BY <1>9, <4>1, <4>2, <4>3
    <3> QED
      BY <2>6, <3>4, <3>5, <3>6
  <2>9. HeapOK(r)
    BY <2>5, <2>7, <2>8 DEF HeapOK, Sound
  <2>10. Stay(u, t, r)
    BY <2>6, <2>9 DEF Stay
  <2>11. r.blk[t].free
    BY <1>2, <2>6
  <2> QED
    BY <1>3, <2>10, <2>11
<1> QED
  BY <1>8, <1>9

LEMMA FreeFrees ==
  ASSUME NEW h, HeapOK(h), NEW t \in DOMAIN h.blk, ~h.blk[t].free, Header \in Nat \ {0}
  PROVE  /\ Stay(h, t, free(h, t))
         /\ t \in DOMAIN free(h, t).blk => free(h, t).blk[t].free
<1>1. PICK u, r, p : u = Upped(h, t) /\ r = Downed(u, t) /\ p = h.blk[t].prev
  OBVIOUS
<1>2. /\ Stay(h, t, u) /\ Apart1(u, t) /\ u.blk[t].prev = p
      /\ p # Nil => u.blk[p].free = h.blk[p].free
  BY <1>1, UpFrees
<1>3. free(h, t) = r
  <2>1. free(h, t) =
          IF p # Nil /\ h.blk[p].free THEN AppendF(UnlinkF(Absorb(u, p, t), p), p)
          ELSE AppendF([u EXCEPT !.blk[t].free = TRUE], t)
    BY <1>1, Zenon DEF free, Upped
  <2>2. r = IF p # Nil /\ u.blk[p].free THEN AppendF(UnlinkF(Absorb(u, p, t), p), p)
            ELSE AppendF([u EXCEPT !.blk[t].free = TRUE], t)
    BY <1>1, <1>2, Zenon DEF Downed
  <2> QED
    BY <1>2, <2>1, <2>2
<1>4. HeapOK(u)
  BY <1>2 DEF Stay
<1>5. Stay(u, t, r) /\ (t \in DOMAIN r.blk => r.blk[t].free)
  BY <1>1, <1>2, <1>4, DownFrees
<1>6. Stay(h, t, r)
  BY <1>2, <1>5 DEF Stay
<1> QED
  BY <1>3, <1>5, <1>6

-----------------------------------------------------------------------------
(* What the test keeps, under what it does next.                           *)

LEMMA WordsApart ==
  ASSUME NEW h, HeapOK(h), Header \in Nat \ {0}, NEW top \in Nat, h.brk <= top,
         NEW b \in DOMAIN h.blk, NEW i \in Int, 0 <= i, i < h.blk[b].size
  PROVE  /\ b + Header + i \in 1 .. top - 1
         /\ \A c \in DOMAIN h.blk \ {b}, j \in Int :
              0 <= j /\ j < h.blk[c].size => b + Header + i # c + Header + j
<1>1. HeapTyped(h) /\ Tiled(h)
  BY DEF HeapOK
<1>2. \A c \in DOMAIN h.blk :
        /\ c \in Nat \ {0} /\ h.blk[c].size \in Nat /\ End(h, c) = c + Header + h.blk[c].size
        /\ End(h, c) <= h.brk /\ h.brk \in Nat
  BY <1>1, Neighbours DEF End
<1>3. b + Header + i \in 1 .. top - 1
  BY <1>2
<1>4. ASSUME NEW c \in DOMAIN h.blk \ {b}, NEW j \in Int, 0 <= j, j < h.blk[c].size
      PROVE  b + Header + i # c + Header + j
  <2>1. c < b \/ b < c
    BY <1>2
  <2>2. End(h, c) <= b \/ End(h, b) <= c
    BY <1>1, <2>1 DEF Tiled
  <2> QED
    BY <1>2, <1>4, <2>2
<1> QED
  BY <1>3, <1>4

(* Used blocks that stay keep their words. *)
LEMMA KeptStays ==
  ASSUME NEW h, NEW m, NEW d, NEW p, NEW r, KeptIn(h, m, d),
         \A k \in DOMAIN d : d[k].ptr # p,
         \A b \in DOMAIN h.blk \ {p} : ~h.blk[b].free =>
           b \in DOMAIN r.blk /\ ~r.blk[b].free /\ r.blk[b].size = h.blk[b].size
  PROVE  KeptIn(r, m, d)
BY DEF KeptIn

(* Between m and w only words of block p are written.                      *)
Within(h, p, x) == \E i \in Int : 0 <= i /\ i < h.blk[p].size /\ x = p + Header + i

Elsewhere(h, p, m, w) ==
  /\ DOMAIN w = DOMAIN m
  /\ \A x \in DOMAIN m : Within(h, p, x) \/ w[x] = m[x]

LEMMA KeptElsewhere ==
  ASSUME NEW h, NEW m, NEW top, Memory(h, m, top), Header \in Nat \ {0},
         NEW d \in Seq([ptr : Nat, size : Nat \ {0}]), KeptIn(h, m, d),
         NEW p, Another(h, d, p), NEW w, Elsewhere(h, p, m, w)
  PROVE  KeptIn(h, w, d)
<1>1. /\ HeapOK(h) /\ p \in DOMAIN h.blk /\ h.brk <= top /\ top \in Nat
      /\ DOMAIN m = 1 .. top - 1 /\ HeapTyped(h) /\ Tiled(h)
  BY DEF Memory, Another, HeapOK
<1>2. ASSUME NEW k \in DOMAIN d
      PROVE  w[First(d[k].ptr)] = k /\ w[LastWord(d[k].ptr, d[k].size)] = k
  <2>1. PICK b, s : b = d[k].ptr /\ s = d[k].size
    OBVIOUS
  <2>2. /\ b \in DOMAIN h.blk \ {p} /\ s <= h.blk[b].size
        /\ m[First(b)] = k /\ m[LastWord(b, s)] = k
    BY <2>1 DEF KeptIn, Another
  <2>3. s \in Nat \ {0}
    <3>1. d[k] \in [ptr : Nat, size : Nat \ {0}]
      <4>1. PICK E : E = [ptr : Nat, size : Nat \ {0}]
        OBVIOUS
      <4>2. d \in Seq(E) /\ k \in DOMAIN d
        BY <4>1
      <4>3. d[k] \in E
        BY <4>2
      <4> QED
        BY <4>1, <4>3
    <3> QED
      BY <2>1, <3>1
  <2>4. b \in Nat /\ h.blk[b].size \in Nat
    BY <1>1, <2>2, Neighbours
  <2>5. ASSUME NEW j \in Int, 0 <= j, j < h.blk[b].size
        PROVE  w[b + Header + j] = m[b + Header + j]
    <3>1. /\ b + Header + j \in 1 .. top - 1
          /\ \A c \in DOMAIN h.blk \ {b}, i \in Int :
               0 <= i /\ i < h.blk[c].size => b + Header + j # c + Header + i
      BY <1>1, <2>2, <2>5, WordsApart
    <3>2. ~Within(h, p, b + Header + j)
      BY <1>1, <2>2, <3>1 DEF Within
    <3> QED
      BY <1>1, <3>1, <3>2 DEF Elsewhere
  <2>6. PICK e : e = s - 1
    OBVIOUS
  <2>7. /\ e \in Int /\ 0 <= e /\ e < h.blk[b].size
        /\ First(b) = b + Header + 0 /\ LastWord(b, s) = b + Header + e /\ 0 < h.blk[b].size
    BY <2>2, <2>3, <2>4, <2>6, SMTT(30) DEF First, LastWord
  <2>8. w[First(b)] = m[First(b)] /\ w[LastWord(b, s)] = m[LastWord(b, s)]
    BY <2>5, <2>7
  <2> QED
    BY <2>1, <2>2, <2>8
<1> QED
  BY <1>2 DEF KeptIn

(* A word of block p is written. *)
Written(h, p, m, top, x, v, w) ==
  /\ Memory(h, w, top) /\ Elsewhere(h, p, m, w)
  /\ x \in DOMAIN m /\ DOMAIN w = DOMAIN m
  /\ w[x] = v /\ \A y \in DOMAIN m : y # x => w[y] = m[y]

LEMMA Writes ==
  ASSUME NEW h, NEW m, NEW top, Memory(h, m, top), Header \in Nat \ {0},
         NEW p \in DOMAIN h.blk, NEW x, Within(h, p, x), NEW v \in 0 .. TOTAL_ALLOCS
  PROVE  Written(h, p, m, top, x, v, [m EXCEPT ![x] = v])
<1>1. /\ HeapOK(h) /\ h.brk <= top /\ top \in Nat
      /\ m \in [1 .. top - 1 -> 0 .. TOTAL_ALLOCS]
  BY DEF Memory
<1>2. x \in 1 .. top - 1
  BY <1>1, WordsApart DEF Within
<1>3. PICK w : w = [m EXCEPT ![x] = v]
  OBVIOUS
<1>4. /\ w \in [1 .. top - 1 -> 0 .. TOTAL_ALLOCS] /\ DOMAIN w = DOMAIN m /\ DOMAIN m = 1 .. top - 1
      /\ w[x] = v /\ \A y \in DOMAIN m : y # x => w[y] = m[y]
  BY <1>1, <1>2, <1>3
<1>5. Memory(h, w, top)
  BY <1>1, <1>4 DEF Memory
<1>6. Elsewhere(h, p, m, w)
  BY <1>4 DEF Elsewhere
<1>7. Written(h, p, m, top, x, v, w)
  BY <1>2, <1>4, <1>5, <1>6 DEF Written
<1> QED
  BY <1>3, <1>7

(* realloc copies the n words of block t to block p. *)
LEMMA Copies ==
  ASSUME NEW h, NEW m, NEW top, Memory(h, m, top), Header \in Nat \ {0},
         NEW p \in DOMAIN h.blk, NEW t \in Nat, NEW n \in Nat \ {0},
         t + Header + n <= top, t # 0, p # t => n <= h.blk[p].size
  PROVE  \A w : w = Copied(m, t, p, n) =>
           /\ Memory(h, w, top) /\ Elsewhere(h, p, m, w)
           /\ First(p) \in DOMAIN m => w[First(p)] = m[First(t)]
<1>1. /\ HeapOK(h) /\ h.brk <= top /\ top \in Nat
      /\ m \in [1 .. top - 1 -> 0 .. TOTAL_ALLOCS] /\ HeapTyped(h) /\ Tiled(h)
  BY DEF Memory, HeapOK
<1>2. p \in Nat \ {0} /\ h.blk[p].size \in Nat
  BY <1>1, Neighbours
<1> TAKE w
<1> DEFINE same == w = Copied(m, t, p, n)
<1> HIDE DEF same
<1> SUFFICES ASSUME same
             PROVE  /\ Memory(h, w, top) /\ Elsewhere(h, p, m, w)
                    /\ First(p) \in DOMAIN m => w[First(p)] = m[First(t)]
  BY DEF same
<1>3. /\ DOMAIN w = 1 .. top - 1 /\ w = [x \in 1 .. top - 1 |-> w[x]]
      /\ \A x \in 1 .. top - 1 :
           w[x] = IF p + Header <= x /\ x <= p + Header + n - 1 THEN m[x - p + t] ELSE m[x]
  <2>1. w = [x \in 1 .. top - 1 |-> IF x \in Data(p, n) THEN m[x - p + t] ELSE m[x]]
    BY <1>1 DEF same, Copied
  <2>2. \A x \in 1 .. top - 1 : x \in Data(p, n) <=> p + Header <= x /\ x <= p + Header + n - 1
    BY <1>1, <1>2 DEF Data
  <2> QED
    BY <2>1, <2>2
<1>4. ASSUME NEW x \in 1 .. top - 1, p + Header <= x, x <= p + Header + n - 1
      PROVE  x - p + t \in 1 .. top - 1
  <2>1. PICK y : y = x - p + t
    OBVIOUS
  <2>2. x \in Int /\ p \in Int /\ t \in Nat /\ n \in Nat /\ Header \in Nat \ {0} /\ top \in Nat
    BY <1>1, <1>2
  <2>3. y \in Int /\ 1 <= y
    BY <1>4, <2>1, <2>2
  <2>4. y <= top - 1
    BY <1>4, <2>1, <2>2
  <2> QED
    BY <2>1, <2>2, <2>3, <2>4
<1>5. \A x \in 1 .. top - 1 : w[x] \in 0 .. TOTAL_ALLOCS
  BY <1>1, <1>3, <1>4
<1>6. Memory(h, w, top)
  BY <1>1, <1>3, <1>5 DEF Memory
<1>7. ASSUME NEW x \in 1 .. top - 1 PROVE Within(h, p, x) \/ w[x] = m[x]
  <2>1. CASE ~ (p + Header <= x /\ x <= p + Header + n - 1)
    BY <1>3, <2>1
  <2>2. CASE p + Header <= x /\ x <= p + Header + n - 1 /\ p = t
    <3>1. x - p + t = x
      BY <1>1, <1>2, <2>2
    <3> QED
      BY <1>3, <2>2, <3>1
  <2>3. CASE p + Header <= x /\ x <= p + Header + n - 1 /\ p # t
    <3>1. PICK i : i = x - (p + Header)
      OBVIOUS
    <3>2. i \in Int /\ 0 <= i /\ i < n /\ x = p + Header + i
      <4>1. x \in Int /\ p \in Int
        BY <1>1, <1>2
      <4> QED
        BY <2>3, <3>1, <4>1
    <3>3. i < h.blk[p].size
      BY <1>2, <2>3, <3>2
    <3> QED
      BY <3>2, <3>3 DEF Within
  <2> QED
    BY <2>1, <2>2, <2>3
<1>8. Elsewhere(h, p, m, w)
  BY <1>1, <1>3, <1>7 DEF Elsewhere
<1>9. First(p) \in DOMAIN m => w[First(p)] = m[First(t)]
  <2>1. PICK x : x = p + Header
    OBVIOUS
  <2>2. /\ x \in Nat /\ p + Header <= x /\ x <= p + Header + n - 1 /\ x - p + t = t + Header
    BY <1>2, <2>1
  <2>3. DOMAIN m = 1 .. top - 1
    BY <1>1
  <2> QED
    BY <1>3, <2>1, <2>2, <2>3 DEF First
<1> QED
  BY <1>6, <1>8, <1>9

-----------------------------------------------------------------------------
(* The steps of the test.                                                  *)

LEMMA Bounds ==
  ASSUME HeapAssumption
  PROVE  /\ Header \in Nat \ {0} /\ SMALL \in Nat /\ Room \in Nat /\ TOTAL_ALLOCS \in Nat
         /\ DictSize \in Nat \ {0} /\ DictSize >= SMALL
         /\ \A size \in Sizes : size \in Nat \ {0} /\ (size < SMALL => size * Room >= size + Header)
         /\ \A a \in Nat : Reach(a) \in Nat
         /\ \A a \in 0 .. TOTAL_ALLOCS : Reach(a) <= Reach(TOTAL_ALLOCS)
         /\ \A a \in Nat, size \in Sizes :
              Reach(a) <= Reach(a + 1) /\ Reach(a) + Header + Space(size) <= Reach(a + 1)
         /\ Reach(0) = 1 + 2 * (Header + DictSize)
         /\ Words = 1 .. Reach(TOTAL_ALLOCS) - 1
<1>1. /\ Header \in Nat \ {0} /\ SMALL \in Nat /\ Room \in Nat \ {0} /\ TOTAL_ALLOCS \in Nat
      /\ DictSize \in Nat \ {0} /\ DictSize >= SMALL
      /\ \A size \in Sizes : size \in Nat \ {0} /\ (size < SMALL => size * Room >= size + Header)
  BY DEF HeapAssumption
<1>2. Largest \in Sizes /\ \A s \in Sizes : s <= Largest
  BY DEF HeapAssumption, Largest
<1>3. Largest \in Nat \ {0}
  BY <1>1, <1>2
<1>4. PICK area, base : area = Room * Largest /\ base = 1 + 2 * (Header + DictSize)
  OBVIOUS
<1>5. area \in Nat /\ base \in Nat
  BY <1>1, <1>3, <1>4
<1>6. PICK K : K = Header + area
  OBVIOUS
<1>7. K \in Nat /\ \A a : Reach(a) = base + a * K
  BY <1>1, <1>4, <1>5, <1>6 DEF Reach
<1>8. \A a \in Nat : a * K \in Nat
  BY <1>7
<1>9. \A a \in Nat : Reach(a) \in Nat
  BY <1>5, <1>7, <1>8
<1>10. \A a, c \in Nat : a <= c => a * K <= c * K
  <2>1. SUFFICES ASSUME NEW a \in Nat, NEW c \in Nat, a <= c PROVE a * K <= c * K
    OBVIOUS
  <2>2. PICK e \in Nat : c = a + e
    <3>1. c - a \in Nat /\ c = a + (c - a)
      BY <2>1
    <3> QED
      BY <3>1
  <2>3. c * K = a * K + e * K
    BY <1>7, <2>2
  <2> QED
    BY <1>8, <2>3
<1>11. \A a \in 0 .. TOTAL_ALLOCS : Reach(a) <= Reach(TOTAL_ALLOCS)
  <2>1. SUFFICES ASSUME NEW a \in Nat, a <= TOTAL_ALLOCS PROVE Reach(a) <= Reach(TOTAL_ALLOCS)
    BY <1>1
  <2>2. PICK x, y : x = a * K /\ y = TOTAL_ALLOCS * K
    OBVIOUS
  <2>3. x \in Nat /\ y \in Nat /\ x <= y
    BY <1>1, <1>8, <1>10, <2>1, <2>2
  <2>4. Reach(a) = base + x /\ Reach(TOTAL_ALLOCS) = base + y
    BY <1>7, <2>2
  <2> QED
    BY <1>5, <2>3, <2>4
<1>12. ASSUME NEW size \in Sizes PROVE Space(size) \in Nat /\ Space(size) <= area
  <2>1. PICK x : x = size * Room
    OBVIOUS
  <2>2. size \in Nat /\ size <= Largest
    BY <1>1, <1>2
  <2>3. x \in Nat /\ x <= area
    <3>1. PICK e \in Nat : Largest = size + e
      <4>1. Largest - size \in Nat /\ Largest = size + (Largest - size)
        BY <1>3, <2>2
      <4> QED
        BY <4>1
    <3>2. area = size * Room + e * Room
      BY <1>1, <1>4, <2>2, <3>1
    <3>3. size * Room \in Nat /\ e * Room \in Nat
      BY <1>1, <2>2
    <3> QED
      BY <2>1, <3>2, <3>3
  <2>4. size <= x
    <3>1. PICK e \in Nat : Room = 1 + e
      <4>1. Room - 1 \in Nat /\ Room = 1 + (Room - 1)
        BY <1>1
      <4> QED
        BY <4>1
    <3>2. x = size + size * e /\ size * e \in Nat
      BY <2>1, <2>2, <3>1
    <3> QED
      BY <2>2, <3>2
  <2>5. Space(size) = x \/ Space(size) = size
    BY <2>1 DEF Space
  <2> QED
    BY <1>5, <2>2, <2>3, <2>4, <2>5
<1>13. \A a \in Nat, size \in Sizes :
         Reach(a) <= Reach(a + 1) /\ Reach(a) + Header + Space(size) <= Reach(a + 1)
  <2>1. SUFFICES ASSUME NEW a \in Nat, NEW size \in Sizes
                 PROVE  Reach(a) <= Reach(a + 1) /\ Reach(a) + Header + Space(size) <= Reach(a + 1)
    OBVIOUS
  <2>2. PICK x, s : x = a * K /\ s = Space(size)
    OBVIOUS
  <2>3. x \in Nat /\ s \in Nat /\ s <= area
    BY <1>8, <1>12, <2>2
  <2>4. (a + 1) * K = x + K
    BY <1>7, <2>2
  <2>5. Reach(a) = base + x /\ Reach(a + 1) = base + (x + K)
    BY <1>7, <2>2, <2>4
  <2> QED
    BY <1>1, <1>5, <1>6, <2>2, <2>3, <2>5
<1>14. Reach(0) = 1 + 2 * (Header + DictSize)
  <2>1. 0 * K = 0
    BY <1>7
  <2>2. Reach(0) = base + 0
    BY <1>7, <2>1
  <2> QED
    BY <1>4, <1>5, <2>2
<1>15. Words = 1 .. Reach(TOTAL_ALLOCS) - 1
  <2>1. PICK x, y : x = TOTAL_ALLOCS * K /\ y = 2 * (Header + DictSize)
    OBVIOUS
  <2>2. x \in Nat /\ y \in Nat /\ Reach(TOTAL_ALLOCS) = base + x /\ base = 1 + y
    BY <1>1, <1>4, <1>7, <1>8, <2>1
  <2>3. Words = 1 .. y + x
    BY <1>4, <1>6, <2>1 DEF Words, Largest
  <2>4. Reach(TOTAL_ALLOCS) - 1 = y + x
    BY <2>2
  <2> QED
    BY <2>3, <2>4
<1> QED
  BY <1>1, <1>9, <1>11, <1>13, <1>14, <1>15

LEMMA AfterMalloc ==
  ASSUME HeapAssumption, NEW h, NEW m, NEW d, NEW a \in 0 .. TOTAL_ALLOCS - 1, Test(h, m, d, a),
         NEW size \in Sizes
  PROVE  /\ Test(malloc(h, size), m, d, a + 1) /\ Another(malloc(h, size), d, Found(h, size))
         /\ malloc(h, size).blk[Found(h, size)].size >= size
<1>1. /\ Header \in Nat \ {0} /\ SMALL \in Nat /\ Room \in Nat /\ TOTAL_ALLOCS \in Nat
      /\ size \in Nat /\ (size < SMALL => size * Room >= size + Header)
  BY Bounds
<1>2. /\ HeapOK(h) /\ h.brk <= Reach(a)
      /\ m \in [1 .. Reach(TOTAL_ALLOCS) - 1 -> 0 .. TOTAL_ALLOCS]
      /\ d \in Seq([ptr : Nat, size : Nat \ {0}]) /\ KeptIn(h, m, d)
  BY DEF Test, Memory
<1>3. PICK g, p : g = malloc(h, size) /\ p = Found(h, size)
  OBVIOUS
<1>4. Given(h, p, size, g) /\ (g.brk = h.brk \/ g.brk = h.brk + Header + Space(size))
  BY <1>1, <1>2, <1>3, MallocGives
<1>5. /\ HeapOK(g) /\ p \in DOMAIN g.blk /\ ~g.blk[p].free /\ g.blk[p].size >= size
      /\ p \in DOMAIN h.blk => h.blk[p].free
      /\ \A b \in DOMAIN h.blk : ~h.blk[b].free =>
           b \in DOMAIN g.blk /\ ~g.blk[b].free /\ g.blk[b].size = h.blk[b].size
  BY <1>4 DEF Given
<1>6. \A k \in DOMAIN d : d[k].ptr # p
  BY <1>2, <1>5 DEF KeptIn
<1>7. KeptIn(g, m, d)
  BY <1>2, <1>5, <1>6, KeptStays
<1>8. g.brk <= Reach(a + 1) /\ g.brk <= Reach(TOTAL_ALLOCS) /\ Reach(TOTAL_ALLOCS) \in Nat
  <2>1. a \in Nat /\ a + 1 \in 0 .. TOTAL_ALLOCS /\ a + 1 \in Nat
    BY <1>1
  <2>2. PICK s, x, y, z : /\ s = Space(size) /\ x = Reach(a) /\ y = Reach(a + 1)
                          /\ z = Reach(TOTAL_ALLOCS)
    OBVIOUS
  <2>3. /\ x \in Nat /\ y \in Nat /\ z \in Nat /\ x <= y /\ x + Header + s <= y /\ y <= z
    BY <1>1, <2>1, <2>2, Bounds
  <2>4. h.brk \in Nat /\ g.brk \in Nat /\ h.brk <= x /\ (g.brk = h.brk \/ g.brk = h.brk + Header + s)
    BY <1>2, <1>4, <1>5, <2>2 DEF HeapOK, HeapTyped
  <2>5. s \in Nat
    BY <1>1, <2>2 DEF Space
  <2>6. g.brk <= y
    BY <1>1, <2>3, <2>4, <2>5
  <2> QED
    BY <2>2, <2>3, <2>4, <2>6
<1> QED
  BY <1>2, <1>3, <1>5, <1>6, <1>7, <1>8 DEF Test, Memory, Another

LEMMA AfterFree ==
  ASSUME HeapAssumption, NEW h, NEW m, NEW d, NEW a, Test(h, m, d, a), NEW p, Another(h, d, p)
  PROVE  Test(free(h, p), m, d, a)
<1>1. Header \in Nat \ {0}
  BY Bounds
<1>2. /\ HeapOK(h) /\ KeptIn(h, m, d) /\ p \in DOMAIN h.blk /\ ~h.blk[p].free
      /\ \A k \in DOMAIN d : d[k].ptr # p
  BY DEF Test, Memory, Another
<1>3. PICK r : r = free(h, p)
  OBVIOUS
<1>4. Stay(h, p, r)
  BY <1>1, <1>2, <1>3, FreeFrees
<1>5. KeptIn(r, m, d)
  BY <1>2, <1>4, KeptStays DEF Stay
<1>6. HeapOK(r) /\ r.brk = h.brk
  BY <1>4 DEF Stay
<1> QED
  BY <1>3, <1>5, <1>6 DEF Test, Memory

LEMMA AfterWrite ==
  ASSUME HeapAssumption, NEW h, NEW m, NEW d, NEW a, Test(h, m, d, a), NEW p, Another(h, d, p),
         NEW x, Within(h, p, x), NEW v \in 0 .. TOTAL_ALLOCS
  PROVE  /\ Test(h, [m EXCEPT ![x] = v], d, a)
         /\ Written(h, p, m, Reach(TOTAL_ALLOCS), x, v, [m EXCEPT ![x] = v])
<1>1. Header \in Nat \ {0}
  BY Bounds
<1>2. PICK top, w : top = Reach(TOTAL_ALLOCS) /\ w = [m EXCEPT ![x] = v]
  OBVIOUS
<1>3. Memory(h, m, top) /\ KeptIn(h, m, d) /\ d \in Seq([ptr : Nat, size : Nat \ {0}]) /\ h.brk <= Reach(a)
  BY <1>2 DEF Test
<1>4. p \in DOMAIN h.blk
  BY DEF Another
<1>5. Written(h, p, m, top, x, v, w)
  BY <1>1, <1>2, <1>3, <1>4, Writes
<1>6. Memory(h, w, top) /\ Elsewhere(h, p, m, w)
  BY <1>5 DEF Written
<1>7. KeptIn(h, w, d)
  BY <1>1, <1>3, <1>6, KeptElsewhere
<1>8. Test(h, w, d, a)
  BY <1>2, <1>3, <1>6, <1>7 DEF Test
<1> QED
  BY <1>2, <1>5, <1>8

LEMMA EndsWithin ==
  ASSUME HeapAssumption, NEW h, NEW m, NEW d, NEW a, Test(h, m, d, a), NEW p, Another(h, d, p),
         NEW size \in Nat \ {0}, size <= h.blk[p].size
  PROVE  Within(h, p, First(p)) /\ Within(h, p, LastWord(p, size))
<1>1. Header \in Nat \ {0}
  BY Bounds
<1>2. p \in Nat /\ h.blk[p].size \in Nat
  BY <1>1, Neighbours DEF Test, Memory, HeapOK, Another
<1>3. PICK e : e = size - 1
  OBVIOUS
<1>4. /\ e \in Int /\ 0 <= e /\ e < h.blk[p].size /\ 0 < h.blk[p].size
      /\ First(p) = p + Header + 0 /\ LastWord(p, size) = p + Header + e
  BY <1>1, <1>2, <1>3 DEF First, LastWord
<1> QED
  BY <1>4 DEF Within

(* Block p goes into the dictionary. *)
LEMMA Appends ==
  ASSUME NEW h, NEW m, NEW d \in Seq([ptr : Nat, size : Nat \ {0}]), KeptIn(h, m, d),
         NEW p \in Nat, Another(h, d, p), NEW size \in Nat \ {0}, size <= h.blk[p].size,
         m[First(p)] = Len(d) + 1, m[LastWord(p, size)] = Len(d) + 1
  PROVE  /\ Append(d, [ptr |-> p, size |-> size]) \in Seq([ptr : Nat, size : Nat \ {0}])
         /\ KeptIn(h, m, Append(d, [ptr |-> p, size |-> size]))
         /\ Len(Append(d, [ptr |-> p, size |-> size])) = Len(d) + 1
<1>1. PICK E, e : E = [ptr : Nat, size : Nat \ {0}] /\ e = [ptr |-> p, size |-> size]
  OBVIOUS
<1>2. d \in Seq(E) /\ e \in E /\ e.ptr = p /\ e.size = size /\ Len(d) \in Nat
  BY <1>1
<1>3. PICK r : r = Append(d, e)
  OBVIOUS
<1>4. /\ r \in Seq(E) /\ Len(r) = Len(d) + 1 /\ DOMAIN r = 1 .. Len(d) + 1 /\ DOMAIN d = 1 .. Len(d)
      /\ r[Len(d) + 1] = e /\ \A k \in 1 .. Len(d) : r[k] = d[k]
  BY <1>2, <1>3
<1>5. PICK n : n = Len(d) + 1
  OBVIOUS
<1>6. /\ DOMAIN r = DOMAIN d \cup {n} /\ n \notin DOMAIN d /\ r[n] = e
      /\ \A k \in DOMAIN d : r[k] = d[k]
  BY <1>2, <1>4, <1>5
<1>7. ASSUME NEW k \in DOMAIN r
      PROVE  /\ r[k].ptr \in DOMAIN h.blk /\ ~h.blk[r[k].ptr].free
             /\ r[k].size <= h.blk[r[k].ptr].size
             /\ m[First(r[k].ptr)] = k /\ m[LastWord(r[k].ptr, r[k].size)] = k
  <2>1. CASE k = n
    BY <1>2, <1>5, <1>6, <2>1 DEF Another
  <2>2. CASE k # n
    BY <1>6, <2>2 DEF KeptIn
  <2> QED
    BY <2>1, <2>2
<1>8. ASSUME NEW j \in DOMAIN r, NEW k \in DOMAIN r, r[j].ptr = r[k].ptr
      PROVE  j = k
  <2>1. CASE j = n \/ k = n
    BY <1>2, <1>6, <1>8, <2>1 DEF Another
  <2>2. CASE j # n /\ k # n
    BY <1>6, <1>8, <2>2 DEF KeptIn
  <2> QED
    BY <2>1, <2>2
<1>9. KeptIn(h, m, r)
  BY <1>7, <1>8 DEF KeptIn
<1> QED
  BY <1>1, <1>3, <1>4, <1>9

(* Keep, whether the first word is written or was. *)
LEMMA AfterKeep ==
  ASSUME HeapAssumption, NEW h, NEW m, NEW d, NEW a, Test(h, m, d, a), NEW p, Another(h, d, p),
         NEW size \in Nat \ {0}, size <= h.blk[p].size, Len(d) + 1 <= TOTAL_ALLOCS,
         NEW b, b = [m EXCEPT ![First(p)] = Len(d) + 1] \/ (b = m /\ m[First(p)] = Len(d) + 1)
  PROVE  /\ Test(h, [b EXCEPT ![LastWord(p, size)] = Len(d) + 1],
                 Append(d, [ptr |-> p, size |-> size]), a)
         /\ Len(Append(d, [ptr |-> p, size |-> size])) = Len(d) + 1
<1>1. Header \in Nat \ {0} /\ TOTAL_ALLOCS \in Nat
  BY Bounds
<1>2. PICK top, v, f, l : /\ top = Reach(TOTAL_ALLOCS) /\ v = Len(d) + 1
                          /\ f = First(p) /\ l = LastWord(p, size)
  OBVIOUS
<1>3. d \in Seq([ptr : Nat, size : Nat \ {0}]) /\ KeptIn(h, m, d)
  BY DEF Test
<1>4. v \in 0 .. TOTAL_ALLOCS
  <2>1. Len(d) \in Nat
    BY <1>3
  <2> QED
    BY <1>1, <1>2, <2>1
<1>5. Within(h, p, f) /\ Within(h, p, l)
  BY <1>2, EndsWithin
<1>6. Test(h, b, d, a) /\ b[f] = v
  <2>1. CASE b = m /\ m[First(p)] = Len(d) + 1
    BY <1>2, <2>1
  <2>2. CASE b = [m EXCEPT ![First(p)] = Len(d) + 1]
    <3>1. b = [m EXCEPT ![f] = v]
      BY <1>2, <2>2
    <3>2. Test(h, b, d, a) /\ Written(h, p, m, top, f, v, b)
      BY <1>2, <1>4, <1>5, <3>1, AfterWrite
    <3> QED
      BY <3>2 DEF Written
  <2> QED
    BY <2>1, <2>2
<1>7. PICK w : w = [b EXCEPT ![l] = v]
  OBVIOUS
<1>8. Test(h, w, d, a) /\ Written(h, p, b, top, l, v, w)
  BY <1>2, <1>4, <1>5, <1>6, <1>7, AfterWrite
<1>9. w[l] = v /\ w[f] = v
  <2>1. f \in DOMAIN b
    <3>1. Written(h, p, b, top, f, v, [b EXCEPT ![f] = v])
      BY <1>2, <1>4, <1>5, <1>6, AfterWrite
    <3> QED
      BY <3>1 DEF Written
  <2> QED
    BY <1>6, <1>8, <2>1 DEF Written
<1>10. p \in Nat
  BY DEF Test, Memory, HeapOK, HeapTyped, Another
<1>11. PICK r : r = Append(d, [ptr |-> p, size |-> size])
  OBVIOUS
<1>12. KeptIn(h, w, d)
  BY <1>8 DEF Test
<1>13. /\ r \in Seq([ptr : Nat, size : Nat \ {0}]) /\ KeptIn(h, w, r) /\ Len(r) = Len(d) + 1
  BY <1>2, <1>3, <1>9, <1>10, <1>11, <1>12, Appends
<1>14. Test(h, w, r, a)
  BY <1>8, <1>13 DEF Test
<1> QED
  BY <1>2, <1>7, <1>11, <1>13, <1>14

(* realloc, where the copy harms nothing. *)
LEMMA AfterRealloc ==
  ASSUME HeapAssumption, NEW h, NEW m, NEW d, NEW a \in 0 .. TOTAL_ALLOCS - 1, Test(h, m, d, a),
         NEW t, Another(h, d, t), h.blk[t].size # 0, NEW size \in Sizes,
         Harmless(ReallocHeap(h, t, size), t, ReallocBlock(h, t, size), h.blk[t].size)
  PROVE  /\ Test(ReallocHeap(h, t, size),
                 Copied(m, t, ReallocBlock(h, t, size), h.blk[t].size), d, a + 1)
         /\ Another(ReallocHeap(h, t, size), d, ReallocBlock(h, t, size))
         /\ ReallocHeap(h, t, size).blk[ReallocBlock(h, t, size)].size >= size
         /\ Copied(m, t, ReallocBlock(h, t, size), h.blk[t].size)[First(ReallocBlock(h, t, size))]
              = m[First(t)]
<1>1. /\ Header \in Nat \ {0} /\ TOTAL_ALLOCS \in Nat /\ size \in Nat \ {0}
  BY Bounds
<1>2. PICK f, g, p, n, top : /\ f = free(h, t) /\ g = malloc(f, size) /\ p = Found(f, size)
                             /\ n = h.blk[t].size /\ top = Reach(TOTAL_ALLOCS)
  OBVIOUS
<1>3. g = ReallocHeap(h, t, size) /\ p = ReallocBlock(h, t, size)
  BY <1>2 DEF ReallocHeap, ReallocBlock
<1>4. Test(f, m, d, a)
  BY <1>2, AfterFree
<1>5. Test(g, m, d, a + 1) /\ Another(g, d, p) /\ g.blk[p].size >= size
  BY <1>2, <1>4, AfterMalloc
<1>6. Memory(g, m, top) /\ p \in DOMAIN g.blk /\ KeptIn(g, m, d) /\ d \in Seq([ptr : Nat, size : Nat \ {0}])
  BY <1>2, <1>5 DEF Test, Another
<1>7. /\ t \in Nat \ {0} /\ n \in Nat \ {0} /\ t + Header + n <= top
  <2>1. /\ HeapTyped(h) /\ Tiled(h) /\ t \in DOMAIN h.blk /\ h.brk <= top /\ top \in Nat
    BY <1>2 DEF Test, Memory, HeapOK, Another
  <2>2. /\ t \in Nat \ {0} /\ n \in Nat /\ t + Header + n <= h.brk /\ h.brk \in Nat
    BY <1>1, <1>2, <2>1, Neighbours DEF End
  <2> QED
    BY <1>1, <1>2, <2>1, <2>2
<1>8. p # t => n <= g.blk[p].size
  BY <1>2, <1>3 DEF Harmless
<1>9. PICK w : w = Copied(m, t, p, n)
  OBVIOUS
<1>10. /\ Memory(g, w, top) /\ Elsewhere(g, p, m, w)
       /\ First(p) \in DOMAIN m => w[First(p)] = m[First(t)]
  BY <1>1, <1>6, <1>7, <1>8, <1>9, Copies
<1>11. KeptIn(g, w, d)
  BY <1>1, <1>5, <1>6, <1>10, KeptElsewhere
<1>12. Test(g, w, d, a + 1)
  BY <1>2, <1>5, <1>10, <1>11 DEF Test
<1>13. First(p) \in DOMAIN m
  <2>1. Within(g, p, First(p))
    BY <1>1, <1>5, EndsWithin
  <2>2. 0 \in 0 .. TOTAL_ALLOCS
    BY <1>1
  <2>3. Written(g, p, m, top, First(p), 0, [m EXCEPT ![First(p)] = 0])
    BY <1>2, <1>5, <2>1, <2>2, AfterWrite
  <2> QED
    BY <2>3 DEF Written
<1> QED
  BY <1>2, <1>3, <1>5, <1>9, <1>10, <1>12, <1>13

-----------------------------------------------------------------------------
(* The first block, in a heap that has none.                               *)

LEMMA FirstMalloc ==
  ASSUME HeapAssumption
  PROVE  HeapOK(malloc(NoHeap, DictSize)) /\ malloc(NoHeap, DictSize).brk = 1 + Header + DictSize
<1>1. /\ Header \in Nat \ {0} /\ SMALL \in Nat /\ DictSize \in Nat \ {0} /\ DictSize >= SMALL
  BY Bounds
<1> DEFINE h == NoHeap
<1>2. DOMAIN h.blk = {} /\ h.head = Nil /\ h.tail = Nil /\ h.headF = Nil /\ h.tailF = Nil /\ h.brk = 1
  BY DEF NoHeap
<1> HIDE DEF h
<1>3. Fitting(h, DictSize) = {}
  <2>1. PICK next : next = [b \in DOMAIN h.blk |-> h.blk[b].nextF]
    OBVIOUS
  <2>2. DOMAIN next = {}
    BY <1>2, <2>1
  <2>3. Upwards({}, Nil, next, next)
    BY <2>2 DEF Upwards
  <2>4. IsFiniteSet(DOMAIN next)
    BY <2>2, FS_EmptySet
  <2>5. GoesThrough(Walk(Nil, next), {}, Nil, next)
    BY <2>2, <2>3, <2>4, WalkGoesThrough
  <2>6. FreeList(h) = Walk(Nil, next)
    BY <1>2, <2>1 DEF FreeList
  <2>7. PICK m \in Nat : FreeList(h) \in [1 .. m -> {}] /\ (m = 0 <=> TRUE)
    BY <2>5, <2>6 DEF GoesThrough
  <2>8. DOMAIN FreeList(h) = {}
    BY <2>7
  <2> QED
    BY <2>8 DEF Fitting
<1>4. PICK r : r = Added(h, DictSize)
  OBVIOUS
<1>5. malloc(h, DictSize) = r
  <2>1. malloc(h, DictSize) = Grow(h, DictSize)
    BY <1>3 DEF malloc
  <2>2. Space(DictSize) = DictSize
    BY <1>1 DEF Space
  <2> QED
    BY <1>4, <2>1, <2>2, GrowIs
<1>6. PICK e : e = 1 + Header + DictSize
  OBVIOUS
<1>7. /\ DOMAIN r.blk = {1} /\ r.head = 1 /\ r.tail = 1 /\ r.headF = Nil /\ r.tailF = Nil /\ r.brk = e
      /\ r.blk = [b \in {1} |-> [Blank EXCEPT !.size = DictSize, !.prev = Nil]]
      /\ r \in [blk : [{1} -> Node], head : Nat, tail : Nat, headF : Nat, tailF : Nat, brk : Nat]
  <2> DEFINE new == [Blank EXCEPT !.size = DictSize, !.prev = Nil]
             c == [b \in {1} |-> new]
  <2>1. r = [[h EXCEPT !.head = 1] EXCEPT
               !.blk = [b \in DOMAIN @ \cup {1} |-> IF b = 1 THEN new ELSE @[b]],
               !.tail = 1, !.brk = @ + Header + DictSize]
    BY <1>2, <1>4 DEF Added
  <2>2. r = [blk |-> c, head |-> 1, tail |-> 1, headF |-> Nil, tailF |-> Nil, brk |-> e]
    <3>1. h = [blk |-> << >>, head |-> Nil, tail |-> Nil, headF |-> Nil, tailF |-> Nil, brk |-> 1]
      BY DEF h, NoHeap
    <3>2. PICK k : k = [h EXCEPT !.head = 1]
      OBVIOUS
    <3>3. k = [blk |-> << >>, head |-> 1, tail |-> Nil, headF |-> Nil, tailF |-> Nil, brk |-> 1]
      BY <3>1, <3>2
    <3>4. r = [k EXCEPT !.blk = [b \in DOMAIN k.blk \cup {1} |-> IF b = 1 THEN new ELSE k.blk[b]],
                        !.tail = 1, !.brk = k.brk + Header + DictSize]
      BY <2>1, <3>2, <3>3
    <3>5. [b \in DOMAIN k.blk \cup {1} |-> IF b = 1 THEN new ELSE k.blk[b]] = c
      <4>1. DOMAIN k.blk \cup {1} = {1}
        BY <3>3
      <4> QED
        BY <4>1
    <3>6. k.brk + Header + DictSize = e
      BY <1>6, <3>3
    <3> HIDE DEF c
    <3>7. r = [k EXCEPT !.blk = c, !.tail = 1, !.brk = e]
      BY <3>4, <3>5, <3>6
    <3> QED
      BY <3>3, <3>7
  <2>3. new \in Node
    BY <1>1 DEF Node, Blank, Nil
  <2>4. e \in Nat
    BY <1>1, <1>6
  <2>5. c \in [{1} -> Node] /\ DOMAIN c = {1}
    BY <2>3
  <2>6. Nil \in Nat
    BY DEF Nil
  <2> HIDE DEF new
  <2>7. r.blk = c
    BY <2>2
  <2> HIDE DEF c
  <2>8. DOMAIN r.blk = {1} /\ r.head = 1 /\ r.tail = 1 /\ r.headF = Nil /\ r.tailF = Nil /\ r.brk = e
    BY <2>2, <2>5
  <2>9. r \in [blk : [{1} -> Node], head : Nat, tail : Nat, headF : Nat, tailF : Nat, brk : Nat]
    BY <2>2, <2>4, <2>5, <2>6
  <2> QED
    BY <2>7, <2>8, <2>9 DEF c, new
<1>8. /\ r.blk[1].size = DictSize /\ r.blk[1].free = FALSE /\ r.blk[1].prev = Nil
      /\ r.blk[1].next = Nil /\ r.blk[1].prevF = Nil /\ r.blk[1].nextF = Nil
  <2>1. PICK d : d = [Blank EXCEPT !.size = DictSize, !.prev = Nil]
    OBVIOUS
  <2>2. r.blk[1] = d
    BY <1>7, <2>1
  <2>3. /\ d.size = DictSize /\ d.free = FALSE /\ d.prev = Nil
        /\ d.next = Nil /\ d.prevF = Nil /\ d.nextF = Nil
    BY <2>1 DEF Blank
  <2> QED
    BY <2>2, <2>3
<1>9. HeapTyped(r)
  <2>1. IsFiniteSet({1})
    BY FS_Singleton
  <2> QED
    BY <1>7, <2>1 DEF HeapTyped
<1>10. Tiled(r)
  <2>1. End(r, 1) = e /\ e \in Nat
    BY <1>1, <1>6, <1>8 DEF End
  <2> QED
    BY <1>7, <1>8, <2>1 DEF Tiled
<1>11. Free(r) = {}
  BY <1>7, <1>8 DEF Free
<1>12. Listed(r, {})
  <2>1. Links(r, {})
    BY <1>7, <1>8 DEF Links
  <2>2. Ordered(r, {}, [b \in {} |-> 0])
    BY DEF Ordered
  <2> QED
    BY <2>1, <2>2 DEF Listed
<1>13. HeapOK(r)
  BY <1>9, <1>10, <1>11, <1>12 DEF HeapOK, Apart
<1> QED
  BY <1>5, <1>6, <1>7, <1>13 DEF h

-----------------------------------------------------------------------------
LEMMA InitInv ==
  ASSUME HeapAssumption, MInit
  PROVE  MInv
<1>1. /\ Header \in Nat \ {0} /\ SMALL \in Nat /\ Room \in Nat /\ TOTAL_ALLOCS \in Nat
      /\ DictSize \in Nat \ {0} /\ DictSize >= SMALL
      /\ Reach(0) = 1 + 2 * (Header + DictSize)
      /\ Words = 1 .. Reach(TOTAL_ALLOCS) - 1
  BY Bounds
<1>2. PICK g : g = malloc(NoHeap, DictSize)
  OBVIOUS
<1>3. HeapOK(g) /\ g.brk = 1 + Header + DictSize
  BY <1>2, FirstMalloc
<1>4. heap = malloc(g, DictSize)
  BY <1>2 DEF MInit
<1>5. /\ Given(g, Found(g, DictSize), DictSize, heap)
      /\ heap.brk = g.brk \/ heap.brk = g.brk + Header + Space(DictSize)
  BY <1>1, <1>3, <1>4, MallocGives
<1>6. HeapOK(heap) /\ heap.brk <= Reach(0)
  <2>1. Space(DictSize) = DictSize
    BY <1>1 DEF Space
  <2> QED
    BY <1>1, <1>3, <1>5, <2>1 DEF Given
<1>7. heap.brk <= Reach(TOTAL_ALLOCS) /\ Reach(TOTAL_ALLOCS) \in Nat
  <2>1. 0 \in 0 .. TOTAL_ALLOCS
    BY <1>1
  <2>2. Reach(0) <= Reach(TOTAL_ALLOCS) /\ Reach(0) \in Nat /\ Reach(TOTAL_ALLOCS) \in Nat
    BY <1>1, <2>1, Bounds
  <2>3. heap.brk \in Nat
    BY <1>6 DEF HeapOK, HeapTyped
  <2> QED
    BY <1>6, <2>2, <2>3
<1>8. mem \in [1 .. Reach(TOTAL_ALLOCS) - 1 -> 0 .. TOTAL_ALLOCS]
  <2>1. 0 \in 0 .. TOTAL_ALLOCS
    BY <1>1
  <2>2. mem = [x \in Words |-> 0]
    BY DEF MInit, Nil
  <2> QED
    BY <1>1, <2>1, <2>2
<1>9. dictionary = << >> /\ realloc_ptr = Nil /\ allocs = 0 /\ phase = "alloc"
  BY DEF MInit
<1>10. KeptIn(heap, mem, dictionary) /\ dictionary \in Seq([ptr : Nat, size : Nat \ {0}])
  BY <1>9 DEF KeptIn
<1>11. Test(heap, mem, dictionary, allocs)
  BY <1>6, <1>7, <1>8, <1>9, <1>10 DEF Test, Memory
<1> QED
  BY <1>1, <1>9, <1>11 DEF MInv, Retried

(* What the test does with the block that it was given. *)
LEMMA DropInv ==
  ASSUME HeapAssumption, NEW h, NEW m, NEW a, NEW p,
         Test(h, m, dictionary, a), Another(h, dictionary, p), Drop(h, m, p)
  PROVE  Test(heap', mem', dictionary', a) /\ dictionary' = dictionary /\ realloc_ptr' = Nil
<1>1. Test(free(h, p), m, dictionary, a)
  BY AfterFree
<1> QED
  BY <1>1 DEF Drop

LEMMA RetryInv ==
  ASSUME HeapAssumption, NEW h, NEW m, NEW a, NEW p, NEW size \in Sizes,
         Test(h, m, dictionary, a), Another(h, dictionary, p), h.blk[p].size >= size,
         Len(dictionary) + 1 <= TOTAL_ALLOCS, Retry(h, m, p)
  PROVE  /\ Test(heap', mem', dictionary', a) /\ dictionary' = dictionary
         /\ Another(heap', dictionary', realloc_ptr') /\ heap'.blk[realloc_ptr'].size # 0
         /\ mem'[First(realloc_ptr')] = Len(dictionary) + 1
<1>1. size \in Nat \ {0} /\ TOTAL_ALLOCS \in Nat /\ Header \in Nat \ {0}
  BY Bounds
<1>2. Within(h, p, First(p))
  BY <1>1, EndsWithin
<1>3. PICK v, f : v = Len(dictionary) + 1 /\ f = First(p)
  OBVIOUS
<1>4. v \in 0 .. TOTAL_ALLOCS
  <2>1. dictionary \in Seq([ptr : Nat, size : Nat \ {0}])
    BY DEF Test
  <2>2. Len(dictionary) \in Nat
    BY <2>1
  <2> QED
    BY <1>1, <1>3, <2>2
<1>5. PICK w : w = [m EXCEPT ![f] = v]
  OBVIOUS
<1>6. Test(h, w, dictionary, a) /\ Written(h, p, m, Reach(TOTAL_ALLOCS), f, v, w)
  <2>1. Within(h, p, f)
    BY <1>2, <1>3
  <2> QED
    BY <1>4, <1>5, <2>1, AfterWrite
<1>7. w[f] = v
  BY <1>6 DEF Written
<1>8. heap' = h /\ mem' = w /\ realloc_ptr' = p /\ dictionary' = dictionary
  BY <1>3, <1>5 DEF Retry
<1>9. h.blk[p].size # 0
  <2>1. p \in DOMAIN h.blk /\ HeapTyped(h) /\ Tiled(h)
    BY DEF Test, Memory, HeapOK, Another
  <2>2. h.blk[p].size \in Nat
    BY <1>1, <2>1, Neighbours
  <2> QED
    BY <1>1, <2>2
<1> QED
  BY <1>3, <1>6, <1>7, <1>8, <1>9

LEMMA KeepInv ==
  ASSUME HeapAssumption, NEW h, NEW m, NEW a, NEW p, NEW size \in Sizes, NEW written \in BOOLEAN,
         Test(h, m, dictionary, a), Another(h, dictionary, p), h.blk[p].size >= size,
         Len(dictionary) + 1 <= TOTAL_ALLOCS, Keep(h, m, p, size, written),
         written => m[First(p)] = Len(dictionary) + 1
  PROVE  /\ Test(heap', mem', dictionary', a) /\ Len(dictionary') = Len(dictionary) + 1
         /\ realloc_ptr' = Nil
<1>1. size \in Nat \ {0} /\ Header \in Nat \ {0}
  BY Bounds
<1>2. size <= h.blk[p].size
  <2>1. p \in DOMAIN h.blk /\ HeapTyped(h) /\ Tiled(h)
    BY DEF Test, Memory, HeapOK, Another
  <2>2. h.blk[p].size \in Nat
    BY <1>1, <2>1, Neighbours
  <2> QED
    BY <1>1, <2>2
<1>3. PICK b : b = IF written THEN m ELSE [m EXCEPT ![First(p)] = Len(dictionary) + 1]
  OBVIOUS
<1>4. \/ b = [m EXCEPT ![First(p)] = Len(dictionary) + 1]
      \/ b = m /\ m[First(p)] = Len(dictionary) + 1
  BY <1>3
<1>5. /\ heap' = h /\ mem' = [b EXCEPT ![LastWord(p, size)] = Len(dictionary) + 1]
      /\ dictionary' = Append(dictionary, [ptr |-> p, size |-> size]) /\ realloc_ptr' = Nil
  BY <1>3 DEF Keep
<1>6. /\ Test(h, [b EXCEPT ![LastWord(p, size)] = Len(dictionary) + 1],
              Append(dictionary, [ptr |-> p, size |-> size]), a)
      /\ Len(Append(dictionary, [ptr |-> p, size |-> size])) = Len(dictionary) + 1
  BY <1>1, <1>2, <1>4, AfterKeep
<1> QED
  BY <1>5, <1>6

LEMMA NextInv ==
  ASSUME HeapAssumption, MInv, [MNext]_mvars
  PROVE  MInv'
<1>1. /\ Test(heap, mem, dictionary, allocs) /\ allocs \in 0 .. TOTAL_ALLOCS
      /\ Len(dictionary) <= allocs /\ Retried
      /\ phase \in {"alloc", "check", "harmed", "passed"}
  BY DEF MInv
<1>2. dictionary \in Seq([ptr : Nat, size : Nat \ {0}]) /\ KeptIn(heap, mem, dictionary)
  BY <1>1 DEF Test
<1>3. Len(dictionary) \in Nat /\ TOTAL_ALLOCS \in Nat /\ allocs \in Nat
  BY <1>1, <1>2, Bounds
<1>4. CASE UNCHANGED mvars
  BY <1>1, <1>4 DEF MInv, mvars, Test, Memory, KeptIn, HeapOK, Retried, Another, First, LastWord, Apart, Free, Reach, Largest, HeapTyped, Tiled, Listed
<1>5. ASSUME NEW size \in Sizes, Alloc(size) PROVE MInv'
  <2>1. phase = "alloc" /\ phase' = "alloc" /\ allocs' = allocs + 1 /\ allocs < TOTAL_ALLOCS
    BY <1>5 DEF Alloc
  <2>2. /\ allocs \in 0 .. TOTAL_ALLOCS - 1 /\ allocs' \in 0 .. TOTAL_ALLOCS
        /\ Len(dictionary) + 1 <= TOTAL_ALLOCS /\ Len(dictionary) + 1 <= allocs'
    BY <1>1, <1>3, <2>1
  <2>3. PICK h, p : h = malloc(heap, size) /\ p = Found(heap, size)
    OBVIOUS
  <2>4. Test(h, mem, dictionary, allocs') /\ Another(h, dictionary, p) /\ h.blk[p].size >= size
    BY <1>1, <2>1, <2>2, <2>3, AfterMalloc
  <2>5. Drop(h, mem, p) \/ Retry(h, mem, p) \/ Keep(h, mem, p, size, FALSE)
    BY <1>5, <2>3 DEF Alloc
  <2>6. /\ Test(heap', mem', dictionary', allocs') /\ Len(dictionary') <= allocs'
        /\ realloc_ptr' # Nil =>
             /\ Another(heap', dictionary', realloc_ptr') /\ heap'.blk[realloc_ptr'].size # 0
             /\ mem'[First(realloc_ptr')] = Len(dictionary') + 1
    <3>1. CASE Drop(h, mem, p)
      BY <1>3, <2>2, <2>4, <3>1, DropInv
    <3>2. CASE Retry(h, mem, p)
      <4>1. /\ Test(heap', mem', dictionary', allocs') /\ dictionary' = dictionary
            /\ Another(heap', dictionary', realloc_ptr') /\ heap'.blk[realloc_ptr'].size # 0
            /\ mem'[First(realloc_ptr')] = Len(dictionary) + 1
        BY <2>2, <2>4, <3>2, RetryInv
      <4> QED
        BY <1>3, <2>2, <4>1
    <3>3. CASE Keep(h, mem, p, size, FALSE)
      BY <1>3, <2>2, <2>4, <3>3, KeepInv
    <3> QED
      BY <2>5, <3>1, <3>2, <3>3
  <2> QED
    BY <2>1, <2>2, <2>6 DEF MInv, Retried
<1>6. ASSUME NEW size \in Sizes, Realloc(size) PROVE MInv'
  <2>1. /\ phase = "alloc" /\ allocs' = allocs + 1 /\ allocs < TOTAL_ALLOCS /\ realloc_ptr # Nil
    BY <1>6 DEF Realloc
  <2>2. /\ allocs \in 0 .. TOTAL_ALLOCS - 1 /\ allocs' \in 0 .. TOTAL_ALLOCS
        /\ Len(dictionary) + 1 <= TOTAL_ALLOCS /\ Len(dictionary) + 1 <= allocs'
    BY <1>1, <1>3, <2>1
  <2>3. PICK t, n, h, p, m :
          /\ t = realloc_ptr /\ n = heap.blk[t].size
          /\ h = ReallocHeap(heap, t, size) /\ p = ReallocBlock(heap, t, size)
          /\ m = Copied(mem, t, p, n)
    OBVIOUS
  <2>4. \/ /\ Harmless(h, t, p, n)
           /\ \/ Drop(h, m, p) \/ Keep(h, m, p, size, TRUE)
              \/ heap' = h /\ mem' = m /\ realloc_ptr' = p /\ UNCHANGED dictionary
           /\ UNCHANGED phase
        \/ phase' = "harmed" /\ UNCHANGED <<heap, mem, dictionary, realloc_ptr>>
    BY <1>6, <2>3 DEF Realloc
  <2>5. /\ Another(heap, dictionary, t) /\ heap.blk[t].size # 0
        /\ mem[First(t)] = Len(dictionary) + 1
    BY <1>1, <2>1, <2>3 DEF Retried
  <2>6. CASE /\ Harmless(h, t, p, n)
             /\ \/ Drop(h, m, p) \/ Keep(h, m, p, size, TRUE)
                \/ heap' = h /\ mem' = m /\ realloc_ptr' = p /\ UNCHANGED dictionary
             /\ UNCHANGED phase
    <3>1. /\ Test(h, m, dictionary, allocs') /\ Another(h, dictionary, p)
          /\ h.blk[p].size >= size /\ m[First(p)] = mem[First(t)]
      BY <1>1, <2>1, <2>2, <2>3, <2>5, <2>6, AfterRealloc
    <3>2. m[First(p)] = Len(dictionary) + 1
      BY <2>5, <3>1
    <3>3. /\ Test(heap', mem', dictionary', allocs') /\ Len(dictionary') <= allocs'
          /\ realloc_ptr' # Nil =>
               /\ Another(heap', dictionary', realloc_ptr') /\ heap'.blk[realloc_ptr'].size # 0
               /\ mem'[First(realloc_ptr')] = Len(dictionary') + 1
      <4>1. CASE Drop(h, m, p)
        BY <1>3, <2>2, <3>1, <4>1, DropInv
      <4>2. CASE Keep(h, m, p, size, TRUE)
        BY <1>3, <2>2, <3>1, <3>2, <4>2, KeepInv
      <4>3. CASE heap' = h /\ mem' = m /\ realloc_ptr' = p /\ UNCHANGED dictionary
        <5>1. h.blk[p].size # 0
          <6>1. p \in DOMAIN h.blk /\ HeapTyped(h) /\ Tiled(h)
            BY <3>1 DEF Test, Memory, HeapOK, Another
          <6>2. h.blk[p].size \in Nat /\ size \in Nat \ {0}
            BY <6>1, Bounds, Neighbours
          <6> QED
            BY <3>1, <6>2
        <5>2. Len(dictionary') <= allocs'
          BY <1>3, <2>2, <4>3
        <5> QED
          BY <3>1, <3>2, <4>3, <5>1, <5>2
      <4> QED
        BY <2>6, <4>1, <4>2, <4>3
    <3> QED
      BY <2>1, <2>2, <2>6, <3>3 DEF MInv, Retried
  <2>7. CASE phase' = "harmed" /\ UNCHANGED <<heap, mem, dictionary, realloc_ptr>>
    <3>1. Test(heap, mem, dictionary, allocs')
      <4>1. heap.brk <= Reach(allocs) /\ heap.brk \in Nat
        BY <1>1 DEF Test, Memory, HeapOK, HeapTyped
      <4>2. PICK a, x, y : a = allocs /\ x = Reach(a) /\ y = Reach(a + 1)
        OBVIOUS
      <4>3. a \in Nat /\ a + 1 \in Nat /\ allocs' = a + 1
        BY <1>3, <2>1, <4>2
      <4>4. x \in Nat /\ y \in Nat /\ x <= y
        BY <4>2, <4>3, Bounds
      <4>5. heap.brk <= Reach(allocs')
        BY <4>1, <4>2, <4>3, <4>4
      <4> QED
        BY <1>1, <4>5 DEF Test
    <3>2. Test(heap', mem', dictionary', allocs')
      BY <2>7, <3>1
    <3> QED
      BY <1>3, <2>2, <2>7, <3>2 DEF MInv, Retried
  <2> QED
    BY <2>4, <2>6, <2>7
<1>7. CASE EndAllocs
  <2>1. /\ heap' = heap /\ mem' = mem /\ dictionary' = dictionary /\ allocs' = allocs
        /\ phase' = "check"
    BY <1>7 DEF EndAllocs
  <2> QED
    BY <1>1, <2>1 DEF MInv, Retried
<1>8. CASE Check
  <2>1. phase = "check" /\ mem' = mem /\ allocs' = allocs
    BY <1>8 DEF Check
  <2>2. CASE dictionary = << >>
    <3>1. phase' = "passed" /\ heap' = heap /\ dictionary' = dictionary
      BY <1>8, <2>2 DEF Check
    <3> QED
      BY <1>1, <2>1, <3>1 DEF MInv, Retried
  <2>3. CASE dictionary # << >>
    <3>1. PICK k, e : k = Len(dictionary) /\ e = dictionary[k]
      OBVIOUS
    <3>2. k \in DOMAIN dictionary /\ k \in Nat \ {0}
      BY <1>2, <2>3, <3>1
    <3>3. mem[First(e.ptr)] = k /\ mem[LastWord(e.ptr, e.size)] = k
      BY <1>2, <3>1, <3>2 DEF KeptIn
    <3>4. /\ heap' = free(heap, e.ptr) /\ dictionary' = SubSeq(dictionary, 1, k - 1)
          /\ phase' = phase
      BY <1>8, <2>3, <3>1, <3>3 DEF Check
    <3>5. PICK r : r = SubSeq(dictionary, 1, k - 1)
      OBVIOUS
    <3>6. /\ r \in Seq([ptr : Nat, size : Nat \ {0}]) /\ Len(r) = k - 1
          /\ DOMAIN r = 1 .. k - 1 /\ DOMAIN r \subseteq DOMAIN dictionary /\ k \notin DOMAIN r
          /\ \A i \in DOMAIN r : r[i] = dictionary[i]
      <4>1. PICK E : E = [ptr : Nat, size : Nat \ {0}]
        OBVIOUS
      <4>2. dictionary \in Seq(E) /\ DOMAIN dictionary = 1 .. k
        BY <1>2, <3>1, <4>1
      <4>3. r \in Seq(E) /\ Len(r) = k - 1 /\ DOMAIN r = 1 .. k - 1
            /\ \A i \in 1 .. k - 1 : r[i] = dictionary[i]
        BY <3>1, <3>2, <3>5, <4>2
      <4> QED
        BY <3>2, <4>1, <4>2, <4>3
    <3>7. KeptIn(heap, mem, r)
      <4>1. ASSUME NEW i \in DOMAIN r
            PROVE  /\ r[i].ptr \in DOMAIN heap.blk /\ ~heap.blk[r[i].ptr].free
                   /\ r[i].size <= heap.blk[r[i].ptr].size
                   /\ mem[First(r[i].ptr)] = i /\ mem[LastWord(r[i].ptr, r[i].size)] = i
        <5>1. i \in DOMAIN dictionary /\ r[i] = dictionary[i]
          BY <3>6
        <5> QED
          BY <1>2, <5>1 DEF KeptIn
      <4>2. ASSUME NEW i \in DOMAIN r, NEW j \in DOMAIN r, r[i].ptr = r[j].ptr PROVE i = j
        <5>1. /\ i \in DOMAIN dictionary /\ r[i] = dictionary[i]
              /\ j \in DOMAIN dictionary /\ r[j] = dictionary[j]
          BY <3>6
        <5> QED
          BY <1>2, <4>2, <5>1 DEF KeptIn
      <4> QED
        BY <4>1, <4>2 DEF KeptIn
    <3>8. Test(heap, mem, r, allocs)
      BY <1>1, <3>6, <3>7 DEF Test
    <3>9. Another(heap, r, e.ptr)
      BY <1>2, <3>1, <3>2, <3>6 DEF KeptIn, Another
    <3>10. Test(free(heap, e.ptr), mem, r, allocs)
      BY <3>8, <3>9, AfterFree
    <3>11. Len(r) <= allocs
      BY <1>1, <1>3, <3>1, <3>6
    <3> QED
      BY <1>1, <2>1, <3>4, <3>5, <3>10, <3>11 DEF MInv, Retried
  <2> QED
    BY <2>2, <2>3
<1> QED
  BY <1>4, <1>5, <1>6, <1>7, <1>8 DEF MNext, main

-----------------------------------------------------------------------------
(* What the invariant says. *)

LEMMA InvIsTyped ==
  ASSUME HeapAssumption, MInv
  PROVE  MTypeOK
<1>1. Header \in Nat \ {0} /\ Words = 1 .. Reach(TOTAL_ALLOCS) - 1
  BY Bounds
<1>2. /\ HeapTyped(heap) /\ Tiled(heap) /\ Listed(heap, Free(heap))
      /\ mem \in [1 .. Reach(TOTAL_ALLOCS) - 1 -> 0 .. TOTAL_ALLOCS]
  BY DEF MInv, Test, Memory, HeapOK
<1>3. ASSUME NEW b \in DOMAIN heap.blk
      PROVE  /\ heap.blk[b].size \in Nat /\ heap.blk[b].free \in BOOLEAN
             /\ {heap.blk[b].prev, heap.blk[b].next, heap.blk[b].prevF, heap.blk[b].nextF}
                  \subseteq DOMAIN heap.blk \cup {Nil}
  <2>1. /\ heap.blk[b].size \in Nat /\ heap.blk[b].free \in BOOLEAN
        /\ heap.blk[b].prev \in DOMAIN heap.blk \cup {Nil}
        /\ heap.blk[b].next \in DOMAIN heap.blk \cup {Nil}
    BY <1>1, <1>2, Neighbours
  <2>2. Links(heap, Free(heap))
    BY <1>2 DEF Listed
  <2>3. /\ heap.blk[b].prevF \in DOMAIN heap.blk \cup {Nil}
        /\ heap.blk[b].nextF \in DOMAIN heap.blk \cup {Nil}
    <3>1. CASE b \in Free(heap)
      BY <2>2, <3>1 DEF Links
    <3>2. CASE b \notin Free(heap)
      BY <2>2, <3>2 DEF Links
    <3> QED
      BY <3>1, <3>2
  <2> QED
    BY <2>1, <2>3
<1> QED
  BY <1>1, <1>2, <1>3 DEF MTypeOK, MInv

LEMMA InvTiles ==
  ASSUME HeapAssumption, MInv
  PROVE  BlocksTile
<1>1. Header \in Nat \ {0}
  BY Bounds
<1>2. HeapTyped(heap) /\ Tiled(heap)
  BY DEF MInv, Test, Memory, HeapOK
<1>3. PICK D, next, rank : /\ D = DOMAIN heap.blk
                           /\ next = [b \in DOMAIN heap.blk |-> heap.blk[b].next]
                           /\ rank = [b \in DOMAIN heap.blk |-> b]
  OBVIOUS
<1>4. /\ DOMAIN next = D /\ IsFiniteSet(D) /\ Nil \notin D /\ 1 \in D
      /\ heap.head = 1 /\ heap.tail \in D
      /\ \A b \in D : next[b] = heap.blk[b].next /\ rank[b] = b
  BY <1>2, <1>3 DEF HeapTyped, Tiled, Nil
<1>5. \A b \in D :
        /\ b \in Nat \ {0} /\ heap.blk[b].size \in Nat
        /\ next[b] \in D \cup {Nil} /\ heap.blk[b].prev \in D \cup {Nil}
        /\ next[b] = Nil <=> b = heap.tail
        /\ next[b] # Nil => next[b] = End(heap, b) /\ b < next[b] /\ heap.blk[next[b]].prev = b
        /\ heap.blk[b].prev = Nil <=> b = 1
        /\ heap.blk[b].prev # Nil => next[heap.blk[b].prev] = b
  <2>1. SUFFICES ASSUME NEW b \in D
        PROVE  /\ b \in Nat \ {0} /\ heap.blk[b].size \in Nat
               /\ next[b] \in D \cup {Nil} /\ heap.blk[b].prev \in D \cup {Nil}
               /\ next[b] = Nil <=> b = heap.tail
               /\ next[b] # Nil => next[b] = End(heap, b) /\ b < next[b] /\ heap.blk[next[b]].prev = b
               /\ heap.blk[b].prev = Nil <=> b = 1
               /\ heap.blk[b].prev # Nil => next[heap.blk[b].prev] = b
    OBVIOUS
  <2>2. PICK y, z : y = heap.blk[b].next /\ z = heap.blk[b].prev
    OBVIOUS
  <2>3. /\ b \in Nat \ {0} /\ heap.blk[b].size \in Nat
        /\ y \in D \cup {Nil} /\ z \in D \cup {Nil}
        /\ y = Nil <=> b = heap.tail
        /\ y # Nil => y = End(heap, b) /\ heap.blk[y].prev = b
        /\ b < End(heap, b)
        /\ z = Nil <=> b = 1
        /\ z # Nil => heap.blk[z].next = b
    BY <1>1, <1>2, <1>3, <2>2, Neighbours
  <2>4. next[b] = y /\ (z # Nil => next[z] = heap.blk[z].next)
    BY <1>4, <2>2, <2>3
  <2> QED
    BY <2>2, <2>3, <2>4
<1>6. Upwards(D, 1, next, rank)
  <2>1. ASSUME NEW c \in D
        PROVE  /\ rank[c] \in Nat /\ next[c] \in D \cup {Nil}
               /\ next[c] # Nil => rank[c] < rank[next[c]]
               /\ c = 1 \/ \E e \in D : next[e] = c
    <3>1. rank[c] = c /\ c \in Nat /\ next[c] \in D \cup {Nil}
      BY <1>4, <1>5
    <3>2. next[c] # Nil => rank[c] < rank[next[c]]
      <4>1. SUFFICES ASSUME next[c] # Nil PROVE rank[c] < rank[next[c]]
        OBVIOUS
      <4>2. PICK d : d = next[c]
        OBVIOUS
      <4>3. d \in D /\ c < d
        BY <1>5, <3>1, <4>1, <4>2
      <4>4. rank[d] = d
        BY <1>4, <4>3
      <4> QED
        BY <3>1, <4>2, <4>3, <4>4
    <3>3. c = 1 \/ \E e \in D : next[e] = c
      <4>1. PICK z : z = heap.blk[c].prev
        OBVIOUS
      <4>2. c # 1 => z \in D /\ next[z] = c
        BY <1>5, <4>1
      <4> QED
        BY <4>2
    <3> QED
      BY <3>1, <3>2, <3>3
  <2>2. 1 \in D \cup {Nil} /\ 1 # Nil
    BY <1>4 DEF Nil
  <2> QED
    BY <1>4, <2>1, <2>2 DEF Upwards
<1>7. PICK all : all = Walk(heap.head, next)
  OBVIOUS
<1>8. GoesThrough(all, D, 1, next)
  <2>1. \A c \in DOMAIN next : next[c] \in DOMAIN next \cup {Nil}
    BY <1>4, <1>5
  <2> QED
    BY <1>4, <1>6, <1>7, <2>1, WalkGoesThrough
<1>9. PICK m \in Nat :
        /\ all \in [1 .. m -> D] /\ m = Cardinality(D)
        /\ \A j, k \in 1 .. m : all[j] = all[k] => j = k
        /\ m = 0 <=> D = {}
        /\ m # 0 => all[1] = 1 /\ next[all[m]] = Nil
        /\ \A k \in 1 .. m - 1 : next[all[k]] = all[k + 1]
  BY <1>8 DEF GoesThrough
<1>10. m # 0 /\ DOMAIN all = 1 .. m /\ Len(all) = m
  <2>1. all \in Seq(D)
    BY <1>9
  <2> QED
    BY <1>4, <1>9, <2>1
<1>11. all[1] = 1 /\ heap.tail = all[m]
  BY <1>5, <1>9, <1>10
<1>12. ASSUME NEW k \in 1 .. m
       PROVE  /\ all[k] + Header + heap.blk[all[k]].size = IF k = m THEN heap.brk ELSE all[k + 1]
              /\ heap.blk[all[k]].prev = IF k = 1 THEN Nil ELSE all[k - 1]
  <2>1. PICK b : b = all[k]
    OBVIOUS
  <2>2. b \in D /\ End(heap, b) = b + Header + heap.blk[b].size
    BY <1>9, <2>1 DEF End
  <2>3. k = m => End(heap, b) = heap.brk
    BY <1>2, <1>3, <1>11, <2>1, <2>2 DEF Tiled
  <2>4. k # m => End(heap, b) = all[k + 1]
    <3>1. SUFFICES ASSUME k # m PROVE End(heap, b) = all[k + 1]
      OBVIOUS
    <3>2. k \in 1 .. m - 1 /\ k + 1 \in 1 .. m
      BY <1>9, <3>1
    <3>3. next[b] = all[k + 1] /\ all[k + 1] \in D
      BY <1>9, <2>1, <3>2
    <3> QED
      BY <1>4, <1>5, <2>2, <3>3
  <2>5. k = 1 => heap.blk[b].prev = Nil
    BY <1>5, <1>11, <2>1, <2>2
  <2>6. k # 1 => heap.blk[b].prev = all[k - 1]
    <3>1. SUFFICES ASSUME k # 1 PROVE heap.blk[b].prev = all[k - 1]
      OBVIOUS
    <3>2. PICK j \in 1 .. m - 1 : j = k - 1 /\ j + 1 = k /\ j \in 1 .. m
      BY <1>9, <3>1
    <3>3. next[all[j]] = b /\ all[j] \in D
      BY <1>9, <2>1, <3>2
    <3> QED
      BY <1>4, <1>5, <2>2, <3>2, <3>3
  <2> QED
    BY <2>1, <2>2, <2>3, <2>4, <2>5, <2>6
<1>13. /\ all[1] = 1 /\ heap.tail = all[Len(all)]
       /\ \A k \in DOMAIN all :
            /\ all[k] + Header + heap.blk[all[k]].size = IF k = Len(all) THEN heap.brk ELSE all[k + 1]
            /\ heap.blk[all[k]].prev = IF k = 1 THEN Nil ELSE all[k - 1]
       /\ Len(all) = Cardinality(DOMAIN heap.blk)
  <2>1. \A k \in DOMAIN all :
          /\ all[k] + Header + heap.blk[all[k]].size = IF k = Len(all) THEN heap.brk ELSE all[k + 1]
          /\ heap.blk[all[k]].prev = IF k = 1 THEN Nil ELSE all[k - 1]
    BY <1>10, <1>12
  <2>2. Len(all) = Cardinality(DOMAIN heap.blk)
    BY <1>3, <1>9, <1>10
  <2> QED
    BY <1>10, <1>11, <2>1, <2>2
<1>14. all = Walk(heap.head, [b \in DOMAIN heap.blk |-> heap.blk[b].next])
  BY <1>3, <1>7
<1> QED
  BY <1>13, <1>14, Zenon DEF BlocksTile

LEMMA InvLists ==
  ASSUME HeapAssumption, MInv
  PROVE  FreeListRight
<1>1. HeapOK(heap)
  BY DEF MInv, Test, Memory
<1>2. PICK f, S, next : f = FreeList(heap) /\ S = Free(heap) /\ next = NextFs(heap)
  OBVIOUS
<1>3. GoesThrough(f, S, heap.headF, next)
  BY <1>1, <1>2, FreeListGoes
<1>4. PICK m \in Nat :
        /\ f \in [1 .. m -> S]
        /\ \A c \in S : \E k \in 1 .. m : f[k] = c
        /\ \A j, k \in 1 .. m : f[j] = f[k] => j = k
        /\ m = 0 <=> S = {}
        /\ m # 0 => f[1] = heap.headF /\ next[f[m]] = Nil
        /\ \A k \in 1 .. m - 1 : next[f[k]] = f[k + 1]
  BY <1>3 DEF GoesThrough
<1>5. DOMAIN f = 1 .. m /\ Len(f) = m /\ (f = << >> <=> m = 0)
  <2>1. f \in Seq(S)
    BY <1>4
  <2> QED
    BY <1>4, <2>1
<1>6. Links(heap, S) /\ Apart(heap) /\ Nil \notin S /\ S \subseteq DOMAIN heap.blk
      /\ \A b \in S : next[b] = heap.blk[b].nextF
  BY <1>1, <1>2 DEF HeapOK, HeapTyped, Listed, Links, Nil, NextFs
<1>7. /\ {f[k] : k \in DOMAIN f} = S
      /\ \A j, k \in DOMAIN f : f[j] = f[k] => j = k
  BY <1>4, <1>5
<1>8. heap.tailF = IF f = << >> THEN Nil ELSE f[Len(f)]
  <2>1. CASE m = 0
    BY <1>4, <1>5, <1>6, <2>1 DEF Links
  <2>2. CASE m # 0
    <3>1. m \in 1 .. m
      BY <2>2
    <3>2. f[m] \in S /\ heap.blk[f[m]].nextF = Nil
      BY <1>4, <1>6, <2>2, <3>1
    <3> QED
      BY <1>5, <1>6, <2>2, <3>2 DEF Links
  <2> QED
    BY <2>1, <2>2
<1>9. ASSUME NEW k \in DOMAIN f
      PROVE  /\ heap.blk[f[k]].prevF = IF k = 1 THEN Nil ELSE f[k - 1]
             /\ heap.blk[f[k]].next # Nil => ~heap.blk[heap.blk[f[k]].next].free
  <2>1. k \in 1 .. m /\ f[k] \in S /\ m # 0
    BY <1>4, <1>5
  <2>2. heap.blk[f[k]].next # Nil => ~heap.blk[heap.blk[f[k]].next].free
    BY <1>2, <1>6, <2>1 DEF Apart
  <2>3. k = 1 => heap.blk[f[k]].prevF = Nil
    BY <1>4, <1>6, <2>1 DEF Links
  <2>4. k # 1 => heap.blk[f[k]].prevF = f[k - 1]
    <3>1. SUFFICES ASSUME k # 1 PROVE heap.blk[f[k]].prevF = f[k - 1]
      OBVIOUS
    <3>2. PICK j \in 1 .. m - 1 : j = k - 1 /\ j + 1 = k /\ j \in 1 .. m
      BY <2>1, <3>1
    <3>3. f[j] \in S /\ heap.blk[f[j]].nextF = f[k]
      BY <1>4, <1>6, <3>2
    <3>4. f[k] # Nil
      BY <1>6, <2>1
    <3> QED
      BY <1>6, <3>2, <3>3, <3>4 DEF Links
  <2> QED
    BY <2>2, <2>3, <2>4
<1> QED
  BY <1>2, <1>7, <1>8, <1>9 DEF FreeListRight, Free

LEMMA InvKeeps ==
  ASSUME MInv
  PROVE  DataKept
BY DEF MInv, Test, KeptIn, DataKept

-----------------------------------------------------------------------------
(* The invariant holds from the first allocation on.                       *)
THEOREM MInvariance == HeapAssumption => (MSpec => []MInv)
<1> SUFFICES ASSUME HeapAssumption PROVE MSpec => []MInv
  OBVIOUS
<1>1. MInit => MInv
  BY InitInv
<1>2. MInv /\ [MNext]_mvars => MInv'
  BY NextInv
<1> QED
  BY <1>1, <1>2, PTL DEF MSpec

(* The links of the blocks lead to blocks, and the words the test looks at *)
(* hold what it wrote there.                                               *)
THEOREM MTyped == HeapAssumption => (MSpec => []MTypeOK)
<1> SUFFICES ASSUME HeapAssumption PROVE MSpec => []MTypeOK
  OBVIOUS
<1>1. MInv => MTypeOK
  BY InvIsTyped
<1> QED
  BY <1>1, MInvariance, PTL

(* Whatever is allocated, freed and grown, in whatever order, the blocks   *)
(* fill the heap from its start to its end: split, join and extend lose no *)
(* word and give none away twice.                                          *)
THEOREM NoWordIsLost == HeapAssumption => (MSpec => []BlocksTile)
<1> SUFFICES ASSUME HeapAssumption PROVE MSpec => []BlocksTile
  OBVIOUS
<1>1. MInv => BlocksTile
  BY InvTiles
<1> QED
  BY <1>1, MInvariance, PTL

(* The free list is the free blocks, each once, both ways, and free left   *)
(* no two of them side by side.                                            *)
THEOREM FreeListIsFreeBlocks == HeapAssumption => (MSpec => []FreeListRight)
<1> SUFFICES ASSUME HeapAssumption PROVE MSpec => []FreeListRight
  OBVIOUS
<1>1. MInv => FreeListRight
  BY InvLists
<1> QED
  BY <1>1, MInvariance, PTL

(* What the test keeps is in a block of its own that is large enough, and  *)
(* both of its words are there when it looks: its checks pass.             *)
THEOREM ChecksPass == HeapAssumption => (MSpec => []DataKept)
<1> SUFFICES ASSUME HeapAssumption PROVE MSpec => []DataKept
  OBVIOUS
<1>1. MInv => DataKept
  BY InvKeeps
<1> QED
  BY <1>1, MInvariance, PTL

=============================================================================
