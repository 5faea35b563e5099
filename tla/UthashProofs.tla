---------------------------- MODULE UthashProofs ----------------------------
(***************************************************************************)
(* What uthash.h keeps true of a table, for any elements, keys, hash       *)
(* values and limits: its lists and counts stay sound, the right element   *)
(* is found, chains stay bounded, and HASH_SORT is a stable sort.          *)
(*                                                                         *)
(* What is kept is said of tables whose chains are sequences (Tables); one *)
(* in memory, whose chains are the pointers hh_next and hh_prev (Memory),  *)
(* threads such a table (Threads), and each macro keeps it so.             *)
(***************************************************************************)
EXTENDS Uthash, Induction, FiniteSetTheorems

Distinct(s) == \A i, j \in DOMAIN s : s[i] = s[j] => i = j

Image(s) == {s[i] : i \in DOMAIN s}

LEMMA ImageIn ==
  ASSUME NEW E, NEW s \in Seq(E)
  PROVE  Image(s) \subseteq E
BY DEF Image

-----------------------------------------------------------------------------
(* Recursive functions on 0..N.                                            *)
Steps(f, N, S, f0, step) ==
  f \in [0..N -> S] /\ f[0] = f0 /\ \A k \in 1..N : f[k] = step[<<k, f[k - 1]>>]

LEMMA StepsExist ==
  ASSUME NEW N \in Nat, NEW S, NEW f0 \in S, NEW step \in [(1..N) \X S -> S]
  PROVE  \E f : Steps(f, N, S, f0, step)
<1> DEFINE next == [x \in Nat \X S |-> IF x[1] + 1 \in 1..N THEN step[<<x[1] + 1, x[2]>>] ELSE x[2]]
<1>1. next \in [Nat \X S -> S]
  <2>1. \A x \in Nat \X S : x[1] \in Nat /\ x[2] \in S
    OBVIOUS
  <2>2. \A x \in Nat \X S : x[1] + 1 \in 1..N => step[<<x[1] + 1, x[2]>>] \in S
    BY <2>1
  <2> QED
    BY <2>1, <2>2
<1>2. \A n \in 0..N - 1, x \in S : next[<<n, x>>] = step[<<n + 1, x>>]
  OBVIOUS
<1> HIDE DEF next
<1>3. PICK f : Runs(f, N, S, f0, next)
  BY <1>1, RunExists
<1>4. /\ f \in [0..N -> S] /\ f[0] = f0
      /\ \A n \in 0..N - 1 : f[n + 1] = step[<<n + 1, f[n]>>]
  <2>1. /\ f \in [0..N -> S] /\ f[0] = f0
        /\ \A n \in 0..N - 1 : f[n + 1] = next[<<n, f[n]>>]
    BY <1>3 DEF Runs
  <2>2. \A n \in 0..N - 1 : f[n] \in S
    BY <2>1
  <2> QED
    BY <1>2, <2>1, <2>2
<1>5. ASSUME NEW k \in 1..N PROVE f[k] = step[<<k, f[k - 1]>>]
  <2>1. PICK n \in 0..N - 1 : n + 1 = k /\ k - 1 = n
    OBVIOUS
  <2> QED
    BY <1>4, <2>1
<1>6. Steps(f, N, S, f0, step)
  BY <1>4, <1>5 DEF Steps
<1> QED
  BY <1>6

LEMMA StaysIn ==
  ASSUME NEW N \in Nat, NEW S, NEW f, f[0] \in S,
         \A k \in 1..N : f[k - 1] \in S => f[k] \in S
  PROVE  \A k \in 0..N : f[k] \in S
<1> DEFINE T == {n \in 0..N : f[n] \in S}
<1>1. 0 \in T
  OBVIOUS
<1>2. ASSUME NEW n \in 0..N - 1, n \in T PROVE n + 1 \in T
  <2>1. n + 1 \in 1..N /\ n + 1 - 1 = n
    OBVIOUS
  <2> QED
    BY <1>2, <2>1
<1> HIDE DEF T
<1>3. \A n \in 0..N : n \in T
  BY <1>1, <1>2, UpTo
<1> QED
  BY <1>3 DEF T

(* A recursion that keeps its k-th value in the set A[k].                   *)
Stages(f, N, A, f0, step) ==
  /\ f = [k \in 0..N |-> f[k]] /\ f[0] = f0 /\ (\A k \in 0..N : f[k] \in A[k])
  /\ \A k \in 1..N : f[k] = step[<<k, f[k - 1]>>]

LEMMA StagesExist ==
  ASSUME NEW N \in Nat, NEW U, NEW A, \A k \in 0..N : A[k] \subseteq U,
         NEW f0, f0 \in A[0], NEW step, \A k \in 1..N : \A x \in A[k - 1] : step[<<k, x>>] \in A[k]
  PROVE  \E f : Stages(f, N, A, f0, step)
<1> DEFINE go == [x \in (1..N) \X U |-> IF step[x] \in U THEN step[x] ELSE x[2]]
<1>1. go \in [(1..N) \X U -> U]
  <2>1. \A x \in (1..N) \X U : x[2] \in U
    OBVIOUS
  <2> QED
    BY <2>1
<1>2. \A k \in 1..N, x \in U : step[<<k, x>>] \in U => go[<<k, x>>] = step[<<k, x>>]
  OBVIOUS
<1> HIDE DEF go
<1>3. f0 \in U
  OBVIOUS
<1>4. PICK f : Steps(f, N, U, f0, go)
  BY <1>1, <1>3, StepsExist
<1>5. f \in [0..N -> U] /\ f[0] = f0 /\ \A k \in 1..N : f[k] = go[<<k, f[k - 1]>>]
  BY <1>4 DEF Steps
<1>6. ASSUME NEW k \in 1..N, f[k - 1] \in A[k - 1]
      PROVE  f[k] = step[<<k, f[k - 1]>>] /\ f[k] \in A[k]
  <2>1. k - 1 \in 0..N /\ k \in 0..N
    OBVIOUS
  <2>2. step[<<k, f[k - 1]>>] \in A[k]
    BY <1>6
  <2>3. f[k - 1] \in U /\ step[<<k, f[k - 1]>>] \in U
    BY <1>6, <2>1, <2>2
  <2> QED
    BY <1>2, <1>5, <2>2, <2>3
<1> DEFINE T == {k \in 0..N : f[k] \in A[k]}
<1>7. 0 \in T
  BY <1>5
<1>8. ASSUME NEW k \in 0..N - 1, k \in T PROVE k + 1 \in T
  <2>1. PICK j \in 1..N : j = k + 1 /\ j - 1 = k /\ j \in 0..N
    OBVIOUS
  <2>2. f[j - 1] \in A[j - 1]
    BY <1>8, <2>1
  <2>3. f[j] \in A[j]
    BY <1>6, <2>2
  <2> QED
    BY <2>1, <2>3
<1> HIDE DEF T
<1>9. \A k \in 0..N : k \in T
  BY <1>7, <1>8, UpTo
<1>10. \A k \in 0..N : f[k] \in A[k]
  BY <1>9 DEF T
<1>11. \A k \in 1..N : k - 1 \in 0..N
  OBVIOUS
<1>12. \A k \in 1..N : f[k] = step[<<k, f[k - 1]>>]
  BY <1>6, <1>10, <1>11
<1>13. f = [k \in 0..N |-> f[k]]
  BY <1>5
<1> QED
  BY <1>5, <1>10, <1>12, <1>13 DEF Stages

(* A function whose steps go from stage to stage. *)
LEMMA StagesKept ==
  ASSUME NEW N \in Nat, NEW A, NEW f, f[0] \in A[0],
         \A k \in 1..N : f[k - 1] \in A[k - 1] => f[k] \in A[k]
  PROVE  f[N] \in A[N]
<1> DEFINE T == {k \in 0..N : f[k] \in A[k]}
<1>1. 0 \in T
  OBVIOUS
<1>2. ASSUME NEW k \in 0..N - 1, k \in T PROVE k + 1 \in T
  <2>1. k + 1 \in 1..N /\ k + 1 - 1 = k /\ k + 1 \in 0..N /\ f[k] \in A[k]
    BY <1>2
  <2> QED
    BY <2>1
<1> HIDE DEF T
<1>3. \A k \in 0..N : k \in T
  BY <1>1, <1>2, UpTo
<1>4. N \in T
  BY <1>3
<1> QED
  BY <1>4 DEF T

-----------------------------------------------------------------------------
(* A sequence of different elements has as many of them as it is long.     *)
LEMMA DistinctCount ==
  ASSUME NEW E, NEW s \in Seq(E), Distinct(s)
  PROVE  IsFiniteSet(Image(s)) /\ Cardinality(Image(s)) = Len(s)
<1>1. s \in Bijection(1..Len(s), Image(s))
  <2>1. s \in [1..Len(s) -> Image(s)]
    BY DEF Image
  <2> QED
    <3>1. s \in Injection(1..Len(s), Image(s))
      BY <2>1 DEF Injection, IsInjective, Distinct
    <3>2. s \in Surjection(1..Len(s), Image(s))
      <4>1. DOMAIN s = 1..Len(s)
        OBVIOUS
      <4>2. \A t \in Image(s) : \E k \in 1..Len(s) : s[k] = t
        BY <4>1, Zenon DEF Image
      <4> QED
        BY <2>1, <4>2, Zenon DEF Surjection
    <3> QED
      BY <3>1, <3>2 DEF Bijection
<1>2. IsFiniteSet(1..Len(s)) /\ Cardinality(1..Len(s)) = Len(s)
  <2>1. Len(s) \in Nat /\ Len(s) \in Int /\ 1 \in Int
    OBVIOUS
  <2>2. /\ IsFiniteSet(1..Len(s))
        /\ Cardinality(1..Len(s)) = IF 1 > Len(s) THEN 0 ELSE Len(s) - 1 + 1
    BY <2>1, FS_Interval
  <2> QED
    BY <2>1, <2>2
<1> QED
  BY <1>1, <1>2, FS_Bijection DEF ExistsBijection

LEMMA DistinctShort ==
  ASSUME HashAssumption, NEW s \in Seq(Elems), Distinct(s)
  PROVE  /\ Len(s) \in 0..Cardinality(Elems) /\ Cardinality(Elems) \in Nat
         /\ IsFiniteSet(Image(s)) /\ Cardinality(Image(s)) = Len(s)
<1>1. Image(s) \subseteq Elems /\ IsFiniteSet(Elems)
  BY DEF Image, HashAssumption
<1>2. Cardinality(Image(s)) <= Cardinality(Elems) /\ Cardinality(Elems) \in Nat
  BY <1>1, FS_Subset, FS_CardinalityType
<1> QED
  BY <1>2, DistinctCount

-----------------------------------------------------------------------------
(* The list in application order. *)
LEMMA LinksIs ==
  ASSUME NEW s \in Seq(Elems), Distinct(s), NEW d \in Int
  PROVE  /\ Links(s, d) \in [Elems -> Elems \cup {NULL}]
         /\ \A i \in 1..Len(s) :
              Links(s, d)[s[i]] = IF i + d \in 1..Len(s) THEN s[i + d] ELSE NULL
         /\ \A e \in Elems \ Image(s) : Links(s, d)[e] = NULL
<1>1. DOMAIN s = 1..Len(s) /\ \A i \in 1..Len(s) : s[i] \in Elems
  OBVIOUS
<1>2. ASSUME NEW e \in Elems
      PROVE  Links(s, d)[e] = IF \E i \in 1..Len(s) : s[i] = e /\ i + d \in 1..Len(s)
                              THEN s[(CHOOSE i \in 1..Len(s) : s[i] = e) + d] ELSE NULL
  BY <1>1 DEF Links
<1>3. ASSUME NEW i \in 1..Len(s)
      PROVE  (CHOOSE k \in 1..Len(s) : s[k] = s[i]) = i
  BY <1>1 DEF Distinct
<1>4. ASSUME NEW i \in 1..Len(s)
      PROVE  Links(s, d)[s[i]] = IF i + d \in 1..Len(s) THEN s[i + d] ELSE NULL
  <2>1. (\E k \in 1..Len(s) : s[k] = s[i] /\ k + d \in 1..Len(s)) <=> i + d \in 1..Len(s)
    BY <1>1 DEF Distinct
  <2>2. s[i] \in Elems
    BY <1>1
  <2> QED
    BY <1>2, <1>3, <2>1, <2>2
<1>5. ASSUME NEW e \in Elems \ Image(s) PROVE Links(s, d)[e] = NULL
  BY <1>1, <1>2 DEF Image
<1>6. ASSUME NEW e \in Elems PROVE Links(s, d)[e] \in Elems \cup {NULL}
  <2>1. CASE e \in Image(s)
    <3>1. PICK i \in 1..Len(s) : s[i] = e
      BY <1>1, <2>1 DEF Image
    <3> QED
      BY <1>1, <1>4, <3>1
  <2> QED
    BY <1>5, <2>1
<1>7. Links(s, d) = [e \in Elems |-> Links(s, d)[e]]
  BY DEF Links
<1> QED
  BY <1>4, <1>5, <1>6, <1>7

LEMMA LinksFrom ==
  ASSUME NEW s \in Seq(Elems), Distinct(s), NEW d \in Int,
         NEW f \in [Elems -> Elems \cup {NULL}],
         \A i \in 1..Len(s) : f[s[i]] = IF i + d \in 1..Len(s) THEN s[i + d] ELSE NULL,
         \A e \in Elems \ Image(s) : f[e] = NULL
  PROVE  f = Links(s, d)
<1> DEFINE g == Links(s, d)
<1>1. /\ g \in [Elems -> Elems \cup {NULL}]
      /\ \A i \in 1..Len(s) : g[s[i]] = IF i + d \in 1..Len(s) THEN s[i + d] ELSE NULL
      /\ \A e \in Elems \ Image(s) : g[e] = NULL
  BY LinksIs
<1> HIDE DEF g
<1>2. ASSUME NEW e \in Elems PROVE f[e] = g[e]
  <2>1. CASE e \in Image(s)
    <3>1. PICK i \in 1..Len(s) : s[i] = e
      BY <2>1 DEF Image
    <3> QED
      BY <1>1, <3>1
  <2> QED
    BY <1>1, <2>1
<1>3. f = g
  BY <1>1, <1>2
<1> QED
  BY <1>3 DEF g

(* The list of a table is s. *)
Linked(t, s) ==
  /\ s \in Seq(Elems) /\ Distinct(s)
  /\ t.head = IF s = << >> THEN NULL ELSE s[1]
  /\ t.next = Links(s, 1) /\ t.prev = Links(s, -1)

(* A walk along the pointers nxt from first finds the list s. *)
LEMMA AlongIs ==
  ASSUME HashAssumption, NEW s \in Seq(Elems), Distinct(s),
         NEW first, first = (IF s = << >> THEN NULL ELSE s[1]),
         NEW nxt, \A i \in 1..Len(s) : nxt[s[i]] = IF i + 1 \in 1..Len(s) THEN s[i + 1] ELSE NULL
  PROVE  Along(first, nxt) = s
<1> DEFINE N == Cardinality(Elems)
           At(at) == at = [i \in 1..N + 1 |->
                             IF i = 1 THEN first
                             ELSE LET e == at[i - 1] IN IF e = NULL THEN NULL ELSE nxt[e]]
           walk == [i \in 1..N + 1 |-> IF i <= Len(s) THEN s[i] ELSE NULL]
<1>1. /\ s \in Seq(Elems) /\ Distinct(s) /\ Len(s) \in 0..N /\ N \in Nat
      /\ first = IF s = << >> THEN NULL ELSE s[1]
  BY DistinctShort
<1>2. \A i \in 1..Len(s) : /\ s[i] \in Elems /\ s[i] # NULL
                           /\ nxt[s[i]] = IF i + 1 \in 1..Len(s) THEN s[i + 1] ELSE NULL
  BY <1>1 DEF HashAssumption
<1> HIDE DEF N
<1>3. At(walk)
  <2>1. ASSUME NEW i \in 1..N + 1
        PROVE  walk[i] = IF i = 1 THEN first
                         ELSE LET e == walk[i - 1] IN IF e = NULL THEN NULL ELSE nxt[e]
    <3>1. CASE i = 1
      BY <1>1, <3>1
    <3>2. CASE i # 1
      <4>1. PICK j \in 1..N : j = i - 1 /\ i = j + 1
        BY <1>1, <3>2
      <4>2. walk[j] = IF j <= Len(s) THEN s[j] ELSE NULL
        BY <1>1, <4>1
      <4>3. CASE j <= Len(s)
        BY <1>1, <1>2, <3>2, <4>1, <4>2, <4>3
      <4>4. CASE ~ (j <= Len(s))
        BY <1>1, <3>2, <4>1, <4>2, <4>4
      <4> QED
        BY <4>3, <4>4
    <3> QED
      BY <3>1, <3>2
  <2>2. walk = [i \in 1..N + 1 |-> walk[i]]
    OBVIOUS
  <2> HIDE DEF walk
  <2> QED
    BY <2>1, <2>2
<1> DEFINE at == CHOOSE f : At(f)
<1>4. At(at)
  <2> HIDE DEF At, walk
  <2> QED
    BY <1>3
<1>5. Along(first, nxt) = [i \in 1..Cardinality({i \in DOMAIN at : at[i] # NULL}) |-> at[i]]
  BY DEF Along, N
<1> HIDE DEF at, walk
<1>6. \A i \in 1..N + 1 : at[i] = IF i <= Len(s) THEN s[i] ELSE NULL
  <2> DEFINE T == {n \in 0..N : at[n + 1] = IF n + 1 <= Len(s) THEN s[n + 1] ELSE NULL}
  <2>1. \A i \in 1..N + 1 :
          at[i] = IF i = 1 THEN first
                  ELSE LET e == at[i - 1] IN IF e = NULL THEN NULL ELSE nxt[e]
    BY <1>4
  <2>2. 0 \in T
    BY <1>1, <2>1
  <2>3. ASSUME NEW n \in 0..N - 1, n \in T PROVE n + 1 \in T
    <3>1. PICK j \in 1..N : j = n + 1 /\ j + 1 \in 1..N + 1 /\ j + 1 # 1 /\ j + 1 - 1 = j
      BY <1>1
    <3>2. at[j + 1] = IF at[j] = NULL THEN NULL ELSE nxt[at[j]]
      BY <2>1, <3>1
    <3>3. at[j] = IF j <= Len(s) THEN s[j] ELSE NULL
      BY <2>3, <3>1
    <3>4. at[j + 1] = IF j + 1 <= Len(s) THEN s[j + 1] ELSE NULL
      BY <1>1, <1>2, <3>2, <3>3
    <3> QED
      BY <1>1, <3>1, <3>4
  <2>4. \A n \in 0..N : n \in T
    <3> HIDE DEF T
    <3> QED
      BY <1>1, <2>2, <2>3, UpTo
  <2>5. ASSUME NEW i \in 1..N + 1 PROVE at[i] = IF i <= Len(s) THEN s[i] ELSE NULL
    <3>1. PICK n \in 0..N : n + 1 = i
      BY <1>1
    <3> QED
      BY <2>4, <3>1
  <2> QED
    BY <2>5
<1>7. {i \in DOMAIN at : at[i] # NULL} = 1..Len(s)
  <2>1. DOMAIN at = 1..N + 1
    BY <1>4
  <2> HIDE DEF At
  <2> QED
    BY <1>1, <1>2, <1>6, <2>1
<1>8. Cardinality(1..Len(s)) = Len(s)
  <2>1. Len(s) \in Int /\ 1 \in Int /\ Len(s) >= 0
    BY <1>1
  <2>2. Cardinality(1..Len(s)) = IF 1 > Len(s) THEN 0 ELSE Len(s) - 1 + 1
    BY <2>1, FS_Interval
  <2> QED
    BY <2>1, <2>2
<1>9. Along(first, nxt) = [i \in 1..Len(s) |-> at[i]]
  BY <1>5, <1>7, <1>8
<1>10. Along(first, nxt) = s
  <2>1. \A i \in 1..Len(s) : at[i] = s[i]
    BY <1>1, <1>6
  <2>2. s = [i \in 1..Len(s) |-> s[i]]
    BY <1>1
  <2> QED
    BY <1>9, <2>1, <2>2
<1> QED
  BY <1>10

LEMMA OrderIs ==
  ASSUME HashAssumption, NEW t, NEW s, Linked(t, s)
  PROVE  AppOrder(t) = s /\ InTable(t) = Image(s)
<1>1. /\ s \in Seq(Elems) /\ Distinct(s)
      /\ t.head = IF s = << >> THEN NULL ELSE s[1]
  BY DEF Linked
<1>2. \A i \in 1..Len(s) : t.next[s[i]] = IF i + 1 \in 1..Len(s) THEN s[i + 1] ELSE NULL
  BY <1>1, LinksIs DEF Linked
<1>3. Along(t.head, t.next) = s
  BY <1>1, <1>2, AlongIs
<1> QED
  BY <1>3 DEF AppOrder, InTable, Image

LEMMA SeqFrom ==
  ASSUME NEW E, NEW n \in Nat, NEW d \in [1..n -> E]
  PROVE  d \in Seq(E) /\ Len(d) = n /\ DOMAIN d = 1..n
OBVIOUS

(* The sequence without its i-th element. *)
Drop(s, i) == [k \in 1..Len(s) - 1 |-> IF k < i THEN s[k] ELSE s[k + 1]]

LEMMA DropIs ==
  ASSUME NEW E, NEW s \in Seq(E), Distinct(s), NEW i \in 1..Len(s)
  PROVE  /\ Drop(s, i) \in Seq(E) /\ Len(Drop(s, i)) = Len(s) - 1
         /\ Distinct(Drop(s, i)) /\ Image(Drop(s, i)) = Image(s) \ {s[i]}
<1> DEFINE d == Drop(s, i)
<1>1. /\ DOMAIN s = 1..Len(s) /\ Len(s) - 1 \in Nat
      /\ \A j, k \in 1..Len(s) : s[j] = s[k] => j = k
  BY DEF Distinct
<1>2. \A k \in 1..Len(s) - 1 : d[k] = IF k < i THEN s[k] ELSE s[k + 1]
  BY DEF Drop
<1>3. d \in Seq(E) /\ Len(d) = Len(s) - 1 /\ DOMAIN d = 1..Len(s) - 1
  <2>1. \A k \in 1..Len(s) - 1 : d[k] \in E
    BY <1>1, <1>2
  <2>2. d \in [1..Len(s) - 1 -> E]
    BY <2>1 DEF Drop
  <2> HIDE DEF d
  <2>3. PICK n \in Nat : n = Len(s) - 1
    BY <1>1
  <2>4. d \in Seq(E) /\ Len(d) = n /\ DOMAIN d = 1..n
    BY <2>2, <2>3, SeqFrom
  <2> QED
    BY <2>3, <2>4
<1> HIDE DEF d
<1>4. Distinct(d)
  BY <1>1, <1>2, <1>3 DEF Distinct
<1>5. Image(d) \subseteq Image(s) \ {s[i]}
  BY <1>1, <1>2, <1>3, SMTT(30) DEF Image
<1>6. ASSUME NEW x \in Image(s) \ {s[i]} PROVE x \in Image(d)
  <2>1. PICK j \in 1..Len(s) : s[j] = x /\ j # i
    BY <1>1 DEF Image
  <2>2. CASE j < i
    <3>1. j \in 1..Len(s) - 1 /\ d[j] = x
      BY <1>2, <2>1, <2>2
    <3> QED
      BY <1>3, <3>1 DEF Image
  <2>3. CASE ~ (j < i)
    <3>1. j - 1 \in 1..Len(s) - 1 /\ ~ (j - 1 < i) /\ j - 1 + 1 = j
      BY <2>1, <2>3
    <3>2. d[j - 1] = x
      BY <1>2, <2>1, <3>1
    <3> QED
      BY <1>3, <3>1, <3>2 DEF Image
  <2> QED
    BY <2>2, <2>3
<1> QED
  BY <1>3, <1>4, <1>5, <1>6 DEF d

LEMMA AppendIs ==
  ASSUME NEW E, NEW s \in Seq(E), Distinct(s), NEW e \in E \ Image(s)
  PROVE  /\ Append(s, e) \in Seq(E) /\ Len(Append(s, e)) = Len(s) + 1
         /\ \A i \in 1..Len(s) : Append(s, e)[i] = s[i]
         /\ Append(s, e)[Len(s) + 1] = e
         /\ Distinct(Append(s, e)) /\ Image(Append(s, e)) = Image(s) \cup {e}
<1> DEFINE a == Append(s, e)
<1>1. /\ a \in Seq(E) /\ Len(a) = Len(s) + 1 /\ DOMAIN a = 1..Len(s) + 1
      /\ \A i \in 1..Len(s) : a[i] = s[i]
      /\ a[Len(s) + 1] = e /\ DOMAIN s = 1..Len(s)
      /\ \A i \in 1..Len(s) + 1 : i \in 1..Len(s) \/ i = Len(s) + 1
      /\ \A i \in 1..Len(s) : s[i] # e
  BY DEF Image
<1> HIDE DEF a
<1>2. Distinct(a)
  BY <1>1 DEF Distinct
<1>3. Image(a) = Image(s) \cup {e}
  <2>1. ASSUME NEW x \in Image(a) PROVE x \in Image(s) \cup {e}
    BY <1>1 DEF Image
  <2>2. ASSUME NEW x \in Image(s) PROVE x \in Image(a)
    <3>1. PICK i \in 1..Len(s) : x = s[i]
      BY <1>1 DEF Image
    <3> QED
      BY <1>1, <3>1 DEF Image
  <2>3. e \in Image(a)
    BY <1>1 DEF Image
  <2> QED
    BY <2>1, <2>2, <2>3
<1> QED
  BY <1>1, <1>2, <1>3 DEF a

LEMMA LinkedAppend ==
  ASSUME NEW t, NEW s, Linked(t, s), s # << >>, NEW e \in Elems \ Image(s),
         NEW u, u.head = t.head,
         u.next = [t.next EXCEPT ![s[Len(s)]] = e], u.prev = [t.prev EXCEPT ![e] = s[Len(s)]]
  PROVE  Linked(u, Append(s, e))
<1> DEFINE n == Len(s)
           a == Append(s, e)
<1>1. /\ s \in Seq(Elems) /\ Distinct(s) /\ n \in Nat \ {0} /\ s[1] \in Elems
      /\ \A i, j \in 1..n : s[i] = s[j] => i = j
      /\ \A i \in 1..n : s[i] \in Elems /\ s[i] \in Image(s)
  BY DEF Linked, Distinct, Image
<1>2. /\ t.next \in [Elems -> Elems \cup {NULL}] /\ t.prev \in [Elems -> Elems \cup {NULL}]
      /\ \A i \in 1..n : t.next[s[i]] = IF i + 1 \in 1..n THEN s[i + 1] ELSE NULL
      /\ \A i \in 1..n : t.prev[s[i]] = IF i + -1 \in 1..n THEN s[i + -1] ELSE NULL
      /\ \A x \in Elems \ Image(s) : t.next[x] = NULL /\ t.prev[x] = NULL
  BY <1>1, LinksIs, SMTT(30) DEF Linked
<1>3. /\ a \in Seq(Elems) /\ Len(a) = n + 1 /\ a[n + 1] = e /\ \A i \in 1..n : a[i] = s[i]
      /\ Distinct(a) /\ Image(a) = Image(s) \cup {e}
  BY <1>1, AppendIs
<1>4. u.head = IF a = << >> THEN NULL ELSE a[1]
  BY <1>1, <1>3 DEF Linked
<1> HIDE DEF a, n
<1>5. /\ u.next \in [Elems -> Elems \cup {NULL}]
      /\ \A x \in Elems : u.next[x] = IF x = s[n] THEN e ELSE t.next[x]
  BY <1>1, <1>2 DEF n
<1>6. /\ u.prev \in [Elems -> Elems \cup {NULL}]
      /\ \A x \in Elems : u.prev[x] = IF x = e THEN s[n] ELSE t.prev[x]
  BY <1>1, <1>2 DEF n
<1>7. \A i \in 1..n + 1 : i \in 1..n \/ i = n + 1
  BY <1>1
<1>8. ASSUME NEW i \in 1..n + 1
      PROVE  u.next[a[i]] = IF i + 1 \in 1..n + 1 THEN a[i + 1] ELSE NULL
  <2>1. CASE i = n + 1
    BY <1>1, <1>2, <1>3, <1>5, <2>1
  <2>2. CASE i = n
    BY <1>1, <1>3, <1>5, <2>2
  <2>3. CASE i \in 1..n - 1
    <3>1. i \in 1..n /\ i + 1 \in 1..n /\ i + 1 \in 1..n + 1 /\ n \in 1..n /\ i # n
      BY <1>1, <2>3
    <3>2. a[i] = s[i] /\ a[i + 1] = s[i + 1] /\ s[i] # s[n] /\ s[i] \in Elems
      BY <1>1, <1>3, <3>1
    <3> QED
      BY <1>2, <1>5, <3>1, <3>2
  <2> QED
    BY <1>1, <2>1, <2>2, <2>3
<1>9. ASSUME NEW i \in 1..n + 1
      PROVE  u.prev[a[i]] = IF i + -1 \in 1..n + 1 THEN a[i + -1] ELSE NULL
  <2>1. CASE i = n + 1
    <3>1. i + -1 = n /\ n \in 1..n /\ n \in 1..n + 1
      BY <1>1, <2>1
    <3> QED
      BY <1>3, <1>6, <2>1, <3>1
  <2>2. CASE i \in 1..n
    <3>1. a[i] = s[i] /\ s[i] # e /\ s[i] \in Elems
      BY <1>1, <1>3, <2>2
    <3>2. i + -1 \in 1..n <=> i + -1 \in 1..n + 1
      BY <1>1, <2>2
    <3>3. i + -1 \in 1..n => a[i + -1] = s[i + -1]
      BY <1>3
    <3> QED
      BY <1>2, <1>6, <2>2, <3>1, <3>2, <3>3
  <2> QED
    BY <1>7, <2>1, <2>2
<1>10. \A x \in Elems \ Image(a) : u.next[x] = NULL /\ u.prev[x] = NULL
  <2>1. s[n] \in Image(s)
    BY <1>1
  <2> QED
    BY <1>2, <1>3, <1>5, <1>6, <2>1
<1>11. u.next = Links(a, 1) /\ u.prev = Links(a, -1)
  <2>1. \A i \in 1..Len(a) : u.next[a[i]] = IF i + 1 \in 1..Len(a) THEN a[i + 1] ELSE NULL
    BY <1>3, <1>8
  <2>2. \A i \in 1..Len(a) : u.prev[a[i]] = IF i + -1 \in 1..Len(a) THEN a[i + -1] ELSE NULL
    BY <1>3, <1>9
  <2>3. u.next = Links(a, 1)
    BY <1>3, <1>5, <1>10, <2>1, LinksFrom
  <2>4. PICK d \in Int : d = -1
    OBVIOUS
  <2>5. \A i \in 1..Len(a) : u.prev[a[i]] = IF i + d \in 1..Len(a) THEN a[i + d] ELSE NULL
    BY <2>2, <2>4
  <2>6. u.prev = Links(a, d)
    <3>1. a \in Seq(Elems) /\ Distinct(a)
      BY <1>3
    <3>2. u.prev \in [Elems -> Elems \cup {NULL}]
      BY <1>6
    <3>3. \A e1 \in Elems \ Image(a) : u.prev[e1] = NULL
      BY <1>10
    <3> QED
      BY <2>5, <3>1, <3>2, <3>3, LinksFrom, SMTT(30)
  <2> QED
    BY <2>3, <2>4, <2>6
<1> QED
  BY <1>3, <1>4, <1>11 DEF Linked, a

LEMMA LinkedNone ==
  ASSUME NEW u, u.head = NULL, u.next = [e \in Elems |-> NULL], u.prev = [e \in Elems |-> NULL]
  PROVE  Linked(u, << >>)
<1>1. << >> \in Seq(Elems) /\ Len(<< >>) = 0 /\ DOMAIN << >> = {}
  OBVIOUS
<1>2. \A d \in Int : Links(<< >>, d) = [e \in Elems |-> NULL]
  BY <1>1 DEF Links
<1>3. 1 \in Int /\ -1 \in Int
  OBVIOUS
<1> QED
  BY <1>1, <1>2, <1>3 DEF Linked, Distinct

LEMMA LinkedFirst ==
  ASSUME NEW e \in Elems, NEW u, u.head = e,
         u.next = [x \in Elems |-> NULL], u.prev = [x \in Elems |-> NULL]
  PROVE  Linked(u, <<e>>) /\ Image(<<e>>) = {e}
<1>1. <<e>> \in Seq(Elems) /\ Len(<<e>>) = 1 /\ <<e>>[1] = e /\ DOMAIN <<e>> = {1} /\ <<e>> # << >>
  OBVIOUS
<1>2. \A d \in Int : d # 0 => Links(<<e>>, d) = [x \in Elems |-> NULL]
  BY <1>1 DEF Links
<1>3. 1 \in Int /\ -1 \in Int /\ 1 # 0 /\ -1 # 0
  OBVIOUS
<1> QED
  BY <1>1, <1>2, <1>3 DEF Linked, Distinct, Image

(* The order of u is that of t without the element e. *)
Cut(t, e, before, after, u) ==
  /\ before = t.prev[e] /\ after = t.next[e]
  /\ u.head = IF before = NULL THEN after ELSE t.head
  /\ u.next = [x \in Elems |-> IF x = before THEN after ELSE IF x = e THEN NULL ELSE t.next[x]]
  /\ u.prev = [x \in Elems |-> IF x = after THEN before ELSE IF x = e THEN NULL ELSE t.prev[x]]

Ends(s, i, before, after) ==
  /\ (before = NULL <=> i = 1) /\ (after = NULL <=> i = Len(s))
  /\ i # 1 => before = s[i - 1]

LEMMA LinkedDrop ==
  ASSUME HashAssumption, NEW t, NEW s, Linked(t, s), NEW i \in 1..Len(s), Len(s) # 1,
         NEW before, NEW after, NEW u, Cut(t, s[i], before, after, u)
  PROVE  Linked(u, Drop(s, i)) /\ Ends(s, i, before, after)
<1>0. /\ before = t.prev[s[i]] /\ after = t.next[s[i]]
      /\ u.head = IF before = NULL THEN after ELSE t.head
      /\ u.next = [x \in Elems |-> IF x = before THEN after
                                   ELSE IF x = s[i] THEN NULL ELSE t.next[x]]
      /\ u.prev = [x \in Elems |-> IF x = after THEN before
                                   ELSE IF x = s[i] THEN NULL ELSE t.prev[x]]
  BY DEF Cut
<1> DEFINE n == Len(s)
           a == Drop(s, i)
<1>1. /\ s \in Seq(Elems) /\ Distinct(s) /\ n \in Nat /\ n > 1
      /\ \A j, k \in 1..n : s[j] = s[k] => j = k
      /\ \A j \in 1..n : s[j] \in Elems /\ s[j] # NULL /\ s[j] \in Image(s)
      /\ t.head = s[1]
  <2>1. s \in Seq(Elems) /\ Distinct(s) /\ t.head = IF s = << >> THEN NULL ELSE s[1]
    BY DEF Linked
  <2>2. n \in Nat /\ n > 1 /\ s # << >> /\ DOMAIN s = 1..n /\ \A j \in 1..n : s[j] \in Elems
    <3>1. s \in Seq(Elems)
      BY <2>1
    <3>2. n \in Nat /\ n > 1
      <4>1. PICK m \in Nat : m = Len(s)
        BY <3>1
      <4>2. i \in 1..m /\ m # 1
        BY <4>1
      <4>3. m > 1
        BY <4>2
      <4> QED
        BY <4>1, <4>3
    <3>3. s # << >> /\ DOMAIN s = 1..n /\ \A j \in 1..n : s[j] \in Elems
      BY <3>1, <3>2
    <3> QED
      BY <3>2, <3>3
  <2>3. \A j, k \in 1..n : s[j] = s[k] => j = k
    BY <2>1, <2>2 DEF Distinct
  <2>4. \A j \in 1..n : s[j] \in Image(s)
    BY <2>2 DEF Image
  <2>5. \A j \in 1..n : s[j] # NULL
    BY <2>2 DEF HashAssumption
  <2> QED
    BY <2>1, <2>2, <2>3, <2>4, <2>5
<1>2. /\ t.next \in [Elems -> Elems \cup {NULL}] /\ t.prev \in [Elems -> Elems \cup {NULL}]
      /\ \A k \in 1..n : t.next[s[k]] = IF k + 1 \in 1..n THEN s[k + 1] ELSE NULL
      /\ \A k \in 1..n : t.prev[s[k]] = IF k + -1 \in 1..n THEN s[k + -1] ELSE NULL
      /\ \A x \in Elems \ Image(s) : t.next[x] = NULL /\ t.prev[x] = NULL
  BY <1>1, LinksIs DEF Linked
<1>3. /\ a \in Seq(Elems) /\ Len(a) = n - 1 /\ Distinct(a) /\ Image(a) = Image(s) \ {s[i]}
      /\ \A k \in 1..n - 1 : a[k] = IF k < i THEN s[k] ELSE s[k + 1]
  <2>1. a \in Seq(Elems) /\ Len(a) = n - 1 /\ Distinct(a) /\ Image(a) = Image(s) \ {s[i]}
    BY <1>1, DropIs
  <2>2. \A k \in 1..n - 1 : a[k] = IF k < i THEN s[k] ELSE s[k + 1]
    BY DEF Drop
  <2> QED
    BY <2>1, <2>2
<1>4. /\ before = IF i = 1 THEN NULL ELSE s[i - 1]
      /\ after = IF i = n THEN NULL ELSE s[i + 1]
      /\ before \in Elems \cup {NULL} /\ after \in Elems \cup {NULL}
  <2>1. i + -1 \in 1..n <=> i # 1
    BY <1>1
  <2>2. i + 1 \in 1..n <=> i # n
    BY <1>1
  <2>3. i + -1 = i - 1
    OBVIOUS
  <2> QED
    BY <1>0, <1>1, <1>2, <2>1, <2>2, <2>3
<1> HIDE DEF a, n
<1>5. NULL \notin Elems
  BY DEF HashAssumption
<1>6. /\ u.next \in [Elems -> Elems \cup {NULL}]
      /\ u.prev \in [Elems -> Elems \cup {NULL}]
  BY <1>0, <1>2, <1>4
<1>7. /\ \A x \in Elems : u.next[x] = IF x = before THEN after
                                      ELSE IF x = s[i] THEN NULL ELSE t.next[x]
      /\ \A x \in Elems : u.prev[x] = IF x = after THEN before
                                      ELSE IF x = s[i] THEN NULL ELSE t.prev[x]
  BY <1>0
<1>8. i \in 1..n /\ n \in Nat /\ n - 1 \in Nat /\ n - 1 >= 1
  BY <1>1 DEF n
<1>9. u.head = IF a = << >> THEN NULL ELSE a[1]
  <2>1. a # << >> /\ 1 \in 1..n - 1 /\ 1 \in 1..n
    BY <1>3, <1>8
  <2>2. a[1] = IF i = 1 THEN s[2] ELSE s[1]
    BY <1>3, <1>8, <2>1
  <2> QED
    BY <1>0, <1>1, <1>4, <1>5, <1>8, <2>1, <2>2
<1>10. ASSUME NEW k \in 1..n - 1
       PROVE  u.next[a[k]] = IF k + 1 \in 1..n - 1 THEN a[k + 1] ELSE NULL
  <2>1. CASE k < i - 1
    <3>1. k \in 1..n /\ k + 1 \in 1..n - 1 /\ k + 1 \in 1..n /\ k < i /\ k + 1 < i /\ i - 1 \in 1..n
      BY <1>8, <2>1
    <3>2. a[k] = s[k] /\ a[k + 1] = s[k + 1] /\ s[k] # s[i] /\ before = s[i - 1] /\ s[k] # s[i - 1]
      BY <1>1, <1>3, <1>4, <1>8, <2>1, <3>1
    <3> QED
      BY <1>1, <1>2, <1>7, <3>1, <3>2
  <2>2. CASE k = i - 1
    <3>1. k \in 1..n /\ k < i /\ ~ (k + 1 < i) /\ i # 1 /\ (k + 1 \in 1..n - 1 <=> i # n)
      BY <1>8, <2>2
    <3>2. a[k] = s[k] /\ before = s[k] /\ s[k] \in Elems
      BY <1>1, <1>3, <1>4, <2>2, <3>1
    <3>3. i # n => a[k + 1] = s[i + 1]
      BY <1>3, <2>2, <3>1
    <3> QED
      BY <1>4, <1>7, <3>1, <3>2, <3>3
  <2>3. CASE k > i - 1
    <3>1. k + 1 \in 1..n /\ ~ (k < i) /\ ~ (k + 1 < i) /\ k + 1 # i /\ (k + 1 \in 1..n - 1 <=> k + 1 + 1 \in 1..n)
      BY <1>8, <2>3
    <3>2. a[k] = s[k + 1] /\ s[k + 1] # s[i] /\ s[k + 1] \in Elems /\ s[k + 1] # before
      BY <1>1, <1>3, <1>4, <1>5, <1>8, <2>3, <3>1
    <3>3. k + 1 \in 1..n - 1 => a[k + 1] = s[k + 1 + 1]
      BY <1>3, <3>1
    <3> QED
      BY <1>2, <1>7, <3>1, <3>2, <3>3
  <2> QED
    BY <1>8, <2>1, <2>2, <2>3
<1>11. ASSUME NEW k \in 1..n - 1
       PROVE  u.prev[a[k]] = IF k + -1 \in 1..n - 1 THEN a[k + -1] ELSE NULL
  <2>1. CASE k < i
    <3>1. k \in 1..n /\ (k + -1 \in 1..n - 1 <=> k + -1 \in 1..n) /\ k + -1 < i
      BY <1>8, <2>1
    <3>2. a[k] = s[k] /\ s[k] # s[i] /\ s[k] \in Elems /\ s[k] # after
      BY <1>1, <1>3, <1>4, <1>5, <1>8, <2>1, <3>1
    <3>3. k + -1 \in 1..n - 1 => a[k + -1] = s[k + -1]
      BY <1>3, <3>1
    <3> QED
      BY <1>2, <1>7, <3>1, <3>2, <3>3
  <2>2. CASE k = i
    <3>1. k + 1 \in 1..n /\ ~ (k < i) /\ i # n /\ (k + -1 \in 1..n - 1 <=> i # 1) /\ k + -1 < i
      BY <1>8, <2>2
    <3>2. a[k] = s[i + 1] /\ after = s[i + 1] /\ s[i + 1] \in Elems
      BY <1>1, <1>3, <1>4, <2>2, <3>1
    <3>3. i # 1 => a[k + -1] = s[i + -1] /\ i + -1 = i - 1
      BY <1>3, <2>2, <3>1
    <3> QED
      BY <1>4, <1>7, <3>1, <3>2, <3>3
  <2>3. CASE k > i
    <3>1. /\ k + 1 \in 1..n /\ ~ (k < i) /\ k + -1 \in 1..n - 1 /\ ~ (k + -1 < i)
          /\ k + 1 + -1 = k /\ k + -1 + 1 = k /\ k \in 1..n /\ k + 1 # i /\ k # i
      BY <1>8, <2>3
    <3>2. a[k] = s[k + 1] /\ s[k + 1] # s[i] /\ s[k + 1] \in Elems
      BY <1>1, <1>3, <1>8, <3>1
    <3>5. a[k + -1] = s[k + -1 + 1]
      BY <1>3, <3>1
    <3>3. s[k + 1] # after
      BY <1>1, <1>4, <1>5, <1>8, <2>3, <3>1
    <3>4. t.prev[s[k + 1]] = s[k]
      BY <1>2, <3>1
    <3> QED
      BY <1>7, <3>1, <3>2, <3>3, <3>4, <3>5
  <2> QED
    BY <1>8, <2>1, <2>2, <2>3
<1>12. ASSUME NEW x \in Elems \ Image(a) PROVE u.next[x] = NULL /\ u.prev[x] = NULL
  <2>1. CASE x = s[i]
    <3>1. x # before /\ x # after
      BY <1>1, <1>4, <1>5, <1>8, <2>1
    <3> QED
      BY <1>7, <2>1, <3>1
  <2>2. CASE x # s[i]
    <3>1. x \notin Image(s)
      BY <1>3, <2>2
    <3>2. x # before /\ x # after
      BY <1>1, <1>4, <1>5, <1>8, <3>1
    <3> QED
      BY <1>2, <1>7, <2>2, <3>1, <3>2
  <2> QED
    BY <2>1, <2>2
<1>13. u.next = Links(a, 1)
  <2>1. \A k \in 1..Len(a) : u.next[a[k]] = IF k + 1 \in 1..Len(a) THEN a[k + 1] ELSE NULL
    BY <1>3, <1>10
  <2>2. \A x \in Elems \ Image(a) : u.next[x] = NULL
    BY <1>12
  <2>3. a \in Seq(Elems) /\ Distinct(a) /\ u.next \in [Elems -> Elems \cup {NULL}] /\ 1 \in Int
    BY <1>3, <1>6
  <2>4. PICK f : f = u.next
    OBVIOUS
  <2>5. /\ \A k \in 1..Len(a) : f[a[k]] = IF k + 1 \in 1..Len(a) THEN a[k + 1] ELSE NULL
        /\ \A x \in Elems \ Image(a) : f[x] = NULL
        /\ f \in [Elems -> Elems \cup {NULL}]
    BY <2>1, <2>2, <2>3, <2>4
  <2>6. f = Links(a, 1)
    BY <2>3, <2>5, LinksFrom
  <2> QED
    BY <2>4, <2>6
<1>14. u.prev = Links(a, -1)
  <2>1. PICK d \in Int : d = -1
    OBVIOUS
  <2>2. \A k \in 1..Len(a) : u.prev[a[k]] = IF k + d \in 1..Len(a) THEN a[k + d] ELSE NULL
    BY <1>3, <1>11, <2>1
  <2>3. \A x \in Elems \ Image(a) : u.prev[x] = NULL
    BY <1>12
  <2>4. a \in Seq(Elems) /\ Distinct(a) /\ u.prev \in [Elems -> Elems \cup {NULL}]
    BY <1>3, <1>6
  <2>5. PICK f : f = u.prev
    OBVIOUS
  <2>6. /\ \A k \in 1..Len(a) : f[a[k]] = IF k + d \in 1..Len(a) THEN a[k + d] ELSE NULL
        /\ \A x \in Elems \ Image(a) : f[x] = NULL
        /\ f \in [Elems -> Elems \cup {NULL}]
    BY <2>2, <2>3, <2>4, <2>5
  <2>7. f = Links(a, d)
    BY <2>4, <2>6, LinksFrom
  <2> QED
    BY <2>1, <2>5, <2>7
<1>15. Linked(u, a)
  BY <1>3, <1>9, <1>13, <1>14 DEF Linked
<1>16. (before = NULL <=> i = 1) /\ (after = NULL <=> i = n) /\ (i # 1 => before = s[i - 1])
  BY <1>1, <1>4, <1>5, <1>8
<1> QED
  BY <1>15, <1>16 DEF a, n, Ends

-----------------------------------------------------------------------------
(* Sums. *)
Sums(sum, f) == sum = [i \in 0..Len(f) |-> IF i = 0 THEN 0 ELSE sum[i - 1] + f[i]]

LEMMA SumsExist ==
  ASSUME NEW f \in Seq(Nat)
  PROVE  \E sum : Sums(sum, f)
<1> DEFINE step == [x \in (1..Len(f)) \X Nat |-> x[2] + f[x[1]]]
<1>1. step \in [(1..Len(f)) \X Nat -> Nat]
  <2>1. \A x \in (1..Len(f)) \X Nat : x[2] + f[x[1]] \in Nat
    OBVIOUS
  <2> QED
    BY <2>1
<1>2. \A i \in 1..Len(f), y \in Nat : step[<<i, y>>] = y + f[i]
  OBVIOUS
<1>3. Len(f) \in Nat /\ 0 \in Nat
  OBVIOUS
<1> HIDE DEF step
<1>4. PICK sum \in [0..Len(f) -> Nat] :
        sum[0] = 0 /\ \A i \in 1..Len(f) : sum[i] = step[<<i, sum[i - 1]>>]
  <2>1. \E sum : Steps(sum, Len(f), Nat, 0, step)
    BY <1>1, <1>3, StepsExist
  <2> QED
    BY <2>1 DEF Steps
<1>5. ASSUME NEW i \in 0..Len(f)
      PROVE  sum[i] = IF i = 0 THEN 0 ELSE sum[i - 1] + f[i]
  <2>1. CASE i # 0
    <3>1. i \in 1..Len(f) /\ i - 1 \in 0..Len(f)
      BY <1>3, <2>1
    <3>2. sum[i - 1] \in Nat
      BY <1>4, <3>1
    <3> QED
      BY <1>2, <1>4, <2>1, <3>1, <3>2
  <2> QED
    BY <1>4, <2>1
<1>6. sum = [i \in 0..Len(f) |-> sum[i]]
  BY <1>4
<1>7. Sums(sum, f)
  BY <1>5, <1>6 DEF Sums
<1> QED
  BY <1>7

LEMMA TotalIs ==
  ASSUME NEW f \in Seq(Nat)
  PROVE  \E sum : /\ \A i \in 0..Len(f) : sum[i] \in Nat
                  /\ sum[0] = 0 /\ \A i \in 1..Len(f) : sum[i] = sum[i - 1] + f[i]
                  /\ Total(f) = sum[Len(f)]
<1> DEFINE sum == CHOOSE g : Sums(g, f)
<1>1. Sums(sum, f)
  BY SumsExist
<1>2. Total(f) = sum[Len(f)]
  BY DEF Total, Sums
<1> HIDE DEF sum
<1>3. Len(f) \in Nat /\ \A i \in 1..Len(f) : i \in 0..Len(f) /\ i # 0 /\ f[i] \in Nat
  OBVIOUS
<1>4. sum[0] = 0 /\ \A i \in 1..Len(f) : sum[i] = sum[i - 1] + f[i]
  BY <1>1, <1>3, SMTT(30) DEF Sums
<1>5. \A i \in 0..Len(f) : sum[i] \in Nat
  <2>1. ASSUME NEW i \in 1..Len(f), sum[i - 1] \in Nat PROVE sum[i] \in Nat
    <3>1. f[i] \in Nat /\ sum[i] = sum[i - 1] + f[i]
      BY <1>3, <1>4
    <3> QED
      BY <2>1, <3>1
  <2>2. PICK n \in Nat : n = Len(f)
    BY <1>3
  <2>3. sum[0] \in Nat /\ \A i \in 1..n : sum[i - 1] \in Nat => sum[i] \in Nat
    BY <1>4, <2>1, <2>2
  <2>4. \A i \in 0..n : sum[i] \in Nat
    BY <2>3, StaysIn
  <2> QED
    BY <2>2, <2>4
<1> QED
  BY <1>2, <1>4, <1>5

(* What bounds the members bounds the sums. *)
LEMMA TotalBound ==
  ASSUME NEW f \in Seq(Nat), NEW g \in Seq(Nat), Len(f) = Len(g),
         NEW a \in Nat, NEW b \in Nat, NEW c \in Nat,
         \A i \in 1..Len(f) : f[i] * a <= b * (g[i] + c)
  PROVE  Total(f) \in Nat /\ Total(g) \in Nat /\ Total(f) * a <= b * (Total(g) + c * Len(f))
<1>1. PICK F : /\ \A i \in 0..Len(f) : F[i] \in Nat
               /\ F[0] = 0 /\ \A i \in 1..Len(f) : F[i] = F[i - 1] + f[i]
               /\ Total(f) = F[Len(f)]
  BY TotalIs
<1>2. PICK G : /\ \A i \in 0..Len(g) : G[i] \in Nat
               /\ G[0] = 0 /\ \A i \in 1..Len(g) : G[i] = G[i - 1] + g[i]
               /\ Total(g) = G[Len(g)]
  BY TotalIs
<1>3. Len(f) \in Nat
  OBVIOUS
<1> DEFINE T == {n \in 0..Len(f) : F[n] * a <= b * (G[n] + c * n)}
<1>4. 0 \in T
  <2>1. F[0] = 0 /\ G[0] = 0 /\ 0 \in 0..Len(f) /\ 0 * a = 0 /\ b * (0 + c * 0) = 0
    BY <1>1, <1>2, <1>3
  <2> QED
    BY <2>1
<1>5. ASSUME NEW n \in 0..Len(f) - 1, n \in T PROVE n + 1 \in T
  <2>1. PICK i \in 1..Len(f) : i = n + 1 /\ i - 1 = n /\ n \in 0..Len(f)
    BY <1>3
  <2>2. PICK x \in Nat, y \in Nat : x = f[i] /\ y = g[i]
    BY SMTT(30)
  <2>3. x * a <= b * (y + c)
    BY <2>2
  <2>4. PICK F0 \in Nat, G0 \in Nat : F0 = F[n] /\ G0 = G[n]
    BY <1>1, <1>2, <2>1
  <2>5. F[i] = F0 + x /\ G[i] = G0 + y
    BY <1>1, <1>2, <2>1, <2>2, <2>4
  <2>6. F0 * a <= b * (G0 + c * n)
    BY <1>5, <2>4
  <2>7. (F0 + x) * a = F0 * a + x * a /\ n \in Nat
    BY <1>3
  <2>8. b * (G0 + y + c * (n + 1)) = b * (G0 + c * n) + b * (y + c)
    BY <2>7
  <2>9. (F0 + x) * a <= b * (G0 + y + c * (n + 1))
    <3>1. PICK p1 \in Int, p2 \in Int, q1 \in Int, q2 \in Int :
            p1 = F0 * a /\ p2 = x * a /\ q1 = b * (G0 + c * n) /\ q2 = b * (y + c)
      BY <2>7
    <3> QED
      BY <2>3, <2>6, <2>7, <2>8, <3>1
  <2> QED
    BY <2>1, <2>5, <2>9, SMTT(30)
<1>6. \A n \in 0..Len(f) : n \in T
  <2> HIDE DEF T
  <2> QED
    BY <1>3, <1>4, <1>5, UpTo
<1>7. Len(f) \in T /\ Len(f) \in 0..Len(f) /\ Len(g) \in 0..Len(g)
  <2> HIDE DEF T
  <2> QED
    BY <1>3, <1>6
<1> QED
  BY <1>1, <1>2, <1>7

-----------------------------------------------------------------------------
(* Buckets. *)
LEMMA ModIs ==
  ASSUME NEW h \in Nat, NEW n \in Nat \ {0}
  PROVE  \E q \in Nat, r \in 0..n - 1 : q = h \div n /\ r = h % n /\ h = n * q + r
<1>1. PICK q \in Int, r \in Int : q = h \div n /\ r = h % n
  OBVIOUS
<1>2. r \in 0..n - 1 /\ h = n * q + r
  BY <1>1
<1>3. q >= 0
  <2>1. SUFFICES ASSUME q <= -1 PROVE FALSE
    BY <1>1
  <2>2. n * q <= 0 - n
    BY <2>1
  <2> QED
    BY <1>2, <2>2
<1>4. q \in Nat
  BY <1>3
<1> QED
  BY <1>1, <1>2, <1>4

LEMMA ModOf ==
  ASSUME NEW q \in Nat, NEW n \in Nat \ {0}, NEW r \in 0..n - 1
  PROVE  (n * q + r) % n = r
<1>1. PICK h \in Nat : h = n * q + r
  OBVIOUS
<1>2. PICK q1 \in Nat, r1 \in 0..n - 1 : q1 = h \div n /\ r1 = h % n /\ h = n * q1 + r1
  BY ModIs
<1>3. h = n * q1 + r1
  BY <1>2
<1>4. PICK d \in Int : d = q - q1
  OBVIOUS
<1>5. n * d = n * q - n * q1
  BY <1>4
<1>6. n * d = r1 - r
  BY <1>1, <1>3, <1>5
<1>7. d < 1
  <2>1. SUFFICES ASSUME d >= 1 PROVE FALSE
    OBVIOUS
  <2>2. n * d >= n
    BY <2>1
  <2> QED
    BY <1>6, <2>2
<1>8. d > -1
  <2>1. SUFFICES ASSUME d <= -1 PROVE FALSE
    OBVIOUS
  <2>2. n * d <= 0 - n
    BY <2>1
  <2> QED
    BY <1>6, <2>2
<1>9. d = 0
  BY <1>7, <1>8
<1>10. n * d = 0
  BY <1>9
<1> QED
  BY <1>1, <1>2, <1>6, <1>10

(* The low bits are the low bits of one bit more. *)
LEMMA ModDouble ==
  ASSUME NEW h \in Nat, NEW n \in Nat \ {0}
  PROVE  (h % (2 * n)) % n = h % n
<1>1. PICK m \in Nat \ {0} : m = 2 * n
  OBVIOUS
<1>2. PICK q \in Nat, r \in 0..m - 1 : r = h % m /\ h = m * q + r
  <2>1. \E q \in Nat, r \in 0..m - 1 : q = h \div m /\ r = h % m /\ h = m * q + r
    BY ModIs
  <2> QED
    BY <2>1
<1>3. CASE r < n
  <2>1. r \in 0..n - 1 /\ 2 * q \in Nat /\ 0 \in Nat
    BY <1>2, <1>3
  <2>2. (n * (2 * q) + r) % n = r /\ (n * 0 + r) % n = r
    BY <2>1, ModOf
  <2>3. n * (2 * q) + r = h /\ n * 0 + r = r
    BY <1>1, <1>2
  <2> QED
    BY <1>1, <1>2, <2>2, <2>3
<1>4. CASE ~ (r < n)
  <2>1. r - n \in 0..n - 1 /\ 2 * q + 1 \in Nat /\ 1 \in Nat
    BY <1>1, <1>2, <1>4
  <2>2. (n * (2 * q + 1) + (r - n)) % n = r - n /\ (n * 1 + (r - n)) % n = r - n
    BY <2>1, ModOf
  <2>3. n * (2 * q + 1) + (r - n) = h /\ n * 1 + (r - n) = r
    BY <1>1, <1>2
  <2> QED
    BY <1>1, <1>2, <2>2, <2>3
<1> QED
  BY <1>3, <1>4

LEMMA ConsIs ==
  ASSUME NEW E, NEW s \in Seq(E), Distinct(s), NEW e \in E \ Image(s)
  PROVE  /\ <<e>> \o s \in Seq(E) /\ Len(<<e>> \o s) = Len(s) + 1
         /\ (<<e>> \o s)[1] = e
         /\ \A i \in 2..Len(s) + 1 : (<<e>> \o s)[i] = s[i - 1]
         /\ Distinct(<<e>> \o s) /\ Image(<<e>> \o s) = Image(s) \cup {e}
<1> DEFINE a == <<e>> \o s
<1>1. /\ a \in Seq(E) /\ Len(a) = Len(s) + 1 /\ a[1] = e
      /\ \A i \in 2..Len(s) + 1 : a[i] = s[i - 1]
  OBVIOUS
<1>2. /\ DOMAIN a = 1..Len(s) + 1 /\ DOMAIN s = 1..Len(s) /\ Len(s) \in Nat
      /\ \A i \in 1..Len(s) : s[i] # e
      /\ \A i, j \in 1..Len(s) : s[i] = s[j] => i = j
  BY <1>1 DEF Image, Distinct
<1> HIDE DEF a
<1>3. \A i \in 1..Len(s) + 1 : i = 1 \/ (i \in 2..Len(s) + 1 /\ i - 1 \in 1..Len(s))
  BY <1>2
<1>4. \A i \in 1..Len(s) : i + 1 \in 2..Len(s) + 1 /\ i + 1 \in 1..Len(s) + 1 /\ i + 1 - 1 = i
  BY <1>2
<1>5. Distinct(a)
  <2>1. ASSUME NEW i \in 1..Len(s) + 1, NEW j \in 1..Len(s) + 1, a[i] = a[j] PROVE i = j
    BY <1>1, <1>2, <1>3, <2>1
  <2> QED
    BY <1>2, <2>1 DEF Distinct
<1>6. ASSUME NEW x \in Image(a) PROVE x \in Image(s) \cup {e}
  BY <1>1, <1>2, <1>3, SMTT(30) DEF Image
<1>7. ASSUME NEW x \in Image(s) PROVE x \in Image(a)
  <2>1. PICK i \in 1..Len(s) : x = s[i]
    BY <1>2 DEF Image
  <2>2. a[i + 1] = x /\ i + 1 \in DOMAIN a
    BY <1>1, <1>2, <1>4, <2>1
  <2> QED
    BY <2>2 DEF Image
<1>8. e \in Image(a)
  BY <1>1, <1>2, <1>3 DEF Image
<1> QED
  BY <1>1, <1>5, <1>6, <1>7, <1>8 DEF a

(* A table seen with its chains as sequences. *)
Buckets == [chain : Seq(Elems), count : Nat, expand_mult : Nat]

Tables == [head : Elems \cup {NULL}, tail : Elems \cup {NULL},
           next : [Elems -> Elems \cup {NULL}], prev : [Elems -> Elems \cup {NULL}],
           buckets : Seq(Buckets), num_items : Nat, ideal_chain_maxlen : Nat,
           ineff_expands : Nat, noexpand : {0, 1}]

(* Bucket i holds, once, what of P hashes to it, and knows how many. *)
FiledAt(t, P, i) ==
  /\ Distinct(t.buckets[i].chain)
  /\ Image(t.buckets[i].chain) = {e \in P : BktOf(e, t) = i}
  /\ t.buckets[i].count = Len(t.buckets[i].chain)

Filed(t, P) == \A i \in 1..Len(t.buckets) : FiledAt(t, P, i)

LEMMA BktIs ==
  ASSUME HashAssumption, NEW t, Len(t.buckets) \in Nat \ {0}, NEW e \in Elems
  PROVE  BktOf(e, t) \in 1..Len(t.buckets)
<1>1. PICK n \in Nat \ {0}, h \in Nat : n = Len(t.buckets) /\ h = HashOf[Key[e]]
  BY DEF HashAssumption
<1>2. h % n \in 0..n - 1
  OBVIOUS
<1>3. 1 + (h % n) \in 1..n
  BY <1>2
<1> QED
  BY <1>1, <1>3 DEF BktOf, HASH_TO_BKT

LEMMA FiledSame ==
  ASSUME NEW t, NEW P, Filed(t, P), NEW u, u.buckets = t.buckets
  PROVE  Filed(u, P)
<1>1. \A x : BktOf(x, u) = BktOf(x, t)
  BY DEF BktOf, HASH_TO_BKT
<1>2. ASSUME NEW i \in 1..Len(u.buckets) PROVE FiledAt(u, P, i)
  <2>1. FiledAt(t, P, i)
    BY DEF Filed
  <2> QED
    BY <1>1, <2>1 DEF FiledAt
<1> QED
  BY <1>2 DEF Filed

(* What doubling the buckets of t makes of it. *)
Expanded(t, u) ==
  /\ u \in Tables /\ Len(u.buckets) = 2 * Len(t.buckets)
  /\ u.head = t.head /\ u.tail = t.tail /\ u.next = t.next /\ u.prev = t.prev
  /\ u.num_items = t.num_items /\ u.ideal_chain_maxlen # 0
  /\ t.num_items <= Len(u.buckets) * u.ideal_chain_maxlen
  /\ (u.ideal_chain_maxlen - 1) * Len(u.buckets) < t.num_items
  /\ \A i \in 1..Len(u.buckets) :
       u.buckets[i].expand_mult = IF u.buckets[i].count > u.ideal_chain_maxlen
                                  THEN u.buckets[i].count \div u.ideal_chain_maxlen ELSE 0
  /\ u.noexpand = 0 => t.noexpand = 0

(* The ideal length is the average, rounded up. *)
LEMMA Ceiling ==
  ASSUME NEW N \in Nat \ {0}, NEW n \in Nat \ {0},
         NEW c, c = (N \div n) + (IF N % n # 0 THEN 1 ELSE 0)
  PROVE  c \in Nat \ {0} /\ N <= n * c /\ (c - 1) * n < N
<1>1. PICK q \in Nat, r \in 0..n - 1 : q = N \div n /\ r = N % n /\ N = n * q + r
  BY ModIs
<1>2. c = q + (IF r # 0 THEN 1 ELSE 0)
  BY <1>1
<1>3. CASE r = 0
  <2>1. c = q /\ N = n * q
    BY <1>1, <1>2, <1>3
  <2>2. q # 0
    BY <2>1
  <2>3. (q - 1) * n = n * q - n
    OBVIOUS
  <2> QED
    BY <2>1, <2>2, <2>3
<1>4. CASE r # 0
  <2>1. c = q + 1
    BY <1>2, <1>4
  <2>2. n * (q + 1) = n * q + n /\ (q + 1 - 1) * n = n * q
    OBVIOUS
  <2> QED
    BY <1>1, <1>4, <2>1, <2>2
<1> QED
  BY <1>3, <1>4

-----------------------------------------------------------------------------
(* Adding to a bucket: first in front of the chain ... *)
Put(t, e) == [t EXCEPT !.buckets[BktOf(e, t)].chain = <<e>> \o @,
                       !.buckets[BktOf(e, t)].count = @ + 1]

PutIn(t, e, u) ==
  /\ u \in Tables /\ Len(u.buckets) = Len(t.buckets)
  /\ u.head = t.head /\ u.tail = t.tail /\ u.next = t.next /\ u.prev = t.prev
  /\ u.num_items = t.num_items /\ u.ideal_chain_maxlen = t.ideal_chain_maxlen
  /\ u.noexpand = t.noexpand /\ BktOf(e, t) \in 1..Len(t.buckets)
  /\ \A x \in Elems : BktOf(x, u) = BktOf(x, t)
  /\ \A i \in 1..Len(t.buckets) :
       /\ u.buckets[i].chain = IF i = BktOf(e, t) THEN <<e>> \o t.buckets[i].chain
                               ELSE t.buckets[i].chain
       /\ u.buckets[i].count = IF i = BktOf(e, t) THEN t.buckets[i].count + 1
                               ELSE t.buckets[i].count
       /\ u.buckets[i].expand_mult = t.buckets[i].expand_mult

LEMMA PutIsIn ==
  ASSUME HashAssumption, NEW t \in Tables, Len(t.buckets) # 0, NEW e \in Elems
  PROVE  PutIn(t, e, Put(t, e))
<1> DEFINE n == Len(t.buckets)
<1>1. t.buckets \in Seq(Buckets) /\ n \in Nat \ {0}
  BY DEF Tables
<1>2. PICK i \in 1..n : i = BktOf(e, t)
  BY <1>1, BktIs
<1>3. PICK b \in Buckets : b = t.buckets[i]
  BY <1>1, <1>2
<1>4. PICK c \in Seq(Elems), k \in Nat : c = <<e>> \o b.chain /\ k = b.count + 1
  <2>1. PICK s \in Seq(Elems), l \in Nat : s = b.chain /\ l = b.count
    BY DEF Buckets
  <2>2. <<e>> \o s \in Seq(Elems) /\ l + 1 \in Nat
    OBVIOUS
  <2> QED
    BY <2>1, <2>2
<1>5. PICK b1 : b1 = [b EXCEPT !.chain = c]
  OBVIOUS
<1>6. b1 \in Buckets /\ b1.count = b.count /\ b1.chain = c /\ b1.expand_mult = b.expand_mult
  BY <1>5 DEF Buckets
<1>7. PICK b2 : b2 = [b1 EXCEPT !.count = k]
  OBVIOUS
<1>8. b2 \in Buckets /\ b2.count = k /\ b2.chain = c /\ b2.expand_mult = b.expand_mult
  BY <1>6, <1>7 DEF Buckets
<1>9. PICK bs1 : bs1 = [t.buckets EXCEPT ![i] = b1]
  OBVIOUS
<1>10. /\ bs1[i] = b1 /\ bs1 \in [1..n -> Buckets]
       /\ \A j \in 1..n : j # i => bs1[j] = t.buckets[j]
  <2>1. t.buckets \in [1..n -> Buckets]
    BY <1>1
  <2> HIDE DEF n
  <2> QED
    BY <1>6, <1>9, <2>1
<1>11. PICK bs2 : bs2 = [bs1 EXCEPT ![i] = b2]
  OBVIOUS
<1>12. /\ bs2[i] = b2 /\ DOMAIN bs2 = 1..n /\ \A j \in 1..n : j # i => bs2[j] = t.buckets[j]
       /\ bs2 \in [1..n -> Buckets]
  <2> HIDE DEF n
  <2> QED
    BY <1>8, <1>10, <1>11
<1>13. PICK t1 : t1 = [t EXCEPT !.buckets = bs1]
  OBVIOUS
<1>14. t1.buckets = bs1
  BY <1>13 DEF Tables
<1>15. Put(t, e) = [t1 EXCEPT !.buckets = bs2]
  <2>1. t1 = [t EXCEPT !.buckets[i].chain = <<e>> \o @]
    BY <1>3, <1>4, <1>5, <1>9, <1>13
  <2>2. [t1 EXCEPT !.buckets = bs2] = [t1 EXCEPT !.buckets[i].count = @ + 1]
    BY <1>4, <1>6, <1>7, <1>10, <1>11, <1>14
  <2>3. Put(t, e) = [[t EXCEPT !.buckets[i].chain = <<e>> \o @] EXCEPT !.buckets[i].count = @ + 1]
    BY <1>2 DEF Put
  <2> QED
    BY <2>1, <2>2, <2>3
<1>16. Put(t, e) = [t EXCEPT !.buckets = bs2]
  BY <1>13, <1>15 DEF Tables
<1>17. PICK u : u = Put(t, e)
  OBVIOUS
<1>18. bs2 \in Seq(Buckets) /\ Len(bs2) = n
  BY <1>1, <1>12, SeqFrom
<1>19. /\ u \in Tables /\ u.buckets = bs2
       /\ u.head = t.head /\ u.tail = t.tail /\ u.next = t.next /\ u.prev = t.prev
       /\ u.num_items = t.num_items /\ u.ideal_chain_maxlen = t.ideal_chain_maxlen
       /\ u.noexpand = t.noexpand
  BY <1>16, <1>17, <1>18 DEF Tables
<1>20. \A x \in Elems : BktOf(x, u) = BktOf(x, t)
  BY <1>18, <1>19 DEF BktOf, HASH_TO_BKT
<1>21. ASSUME NEW j \in 1..n
       PROVE  /\ u.buckets[j].chain = IF j = i THEN <<e>> \o t.buckets[j].chain
                                      ELSE t.buckets[j].chain
              /\ u.buckets[j].count = IF j = i THEN t.buckets[j].count + 1
                                      ELSE t.buckets[j].count
              /\ u.buckets[j].expand_mult = t.buckets[j].expand_mult
  BY <1>3, <1>4, <1>8, <1>12, <1>19
<1>22. PutIn(t, e, u)
  <2>1. Len(u.buckets) = Len(t.buckets)
    BY <1>18, <1>19
  <2> QED
    BY <1>2, <1>19, <1>20, <1>21, <2>1 DEF PutIn
<1> QED
  BY <1>17, <1>22

LEMMA PutFiled ==
  ASSUME HashAssumption, NEW t \in Tables, NEW P \in SUBSET Elems, Filed(t, P),
         Len(t.buckets) # 0, NEW e \in Elems \ P, NEW u, PutIn(t, e, u)
  PROVE  Filed(u, P \cup {e})
<1> DEFINE n == Len(t.buckets)
<1>1. t.buckets \in Seq(Buckets) /\ n \in Nat \ {0} /\ Len(u.buckets) = n
  <2>1. t.buckets \in Seq(Buckets) /\ n \in Nat \ {0}
    BY DEF Tables
  <2>2. Len(u.buckets) = n
    BY DEF PutIn
  <2> QED
    BY <2>1, <2>2
<1>2. ASSUME NEW i \in 1..n PROVE FiledAt(u, P \cup {e}, i)
  <2>1. /\ t.buckets[i].chain \in Seq(Elems) /\ FiledAt(t, P, i)
    <3>1. t.buckets[i] \in Buckets
      BY <1>1
    <3>2. FiledAt(t, P, i)
      BY DEF Filed
    <3> QED
      BY <3>1, <3>2 DEF Buckets
  <2>2. PICK c \in Seq(Elems) : c = t.buckets[i].chain
    BY <2>1
  <2>3. Distinct(c) /\ Image(c) = {x \in P : BktOf(x, t) = i} /\ t.buckets[i].count = Len(c)
    BY <2>1, <2>2 DEF FiledAt
  <2>4. \A x \in Elems : BktOf(x, u) = BktOf(x, t)
    BY DEF PutIn
  <2>5. CASE i = BktOf(e, t)
    <3>1. u.buckets[i].chain = <<e>> \o c /\ u.buckets[i].count = Len(c) + 1
      BY <2>2, <2>3, <2>5 DEF PutIn
    <3>2. e \in Elems \ Image(c)
      BY <2>3
    <3>3. /\ Len(<<e>> \o c) = Len(c) + 1 /\ Distinct(<<e>> \o c)
          /\ Image(<<e>> \o c) = Image(c) \cup {e}
      BY <2>3, <3>2, ConsIs
    <3>4. {x \in P \cup {e} : BktOf(x, u) = i} = {x \in P : BktOf(x, t) = i} \cup {e}
      BY <2>4, <2>5
    <3> QED
      BY <2>3, <3>1, <3>3, <3>4 DEF FiledAt
  <2>6. CASE i # BktOf(e, t)
    <3>1. u.buckets[i].chain = c /\ u.buckets[i].count = Len(c)
      BY <2>2, <2>3, <2>6 DEF PutIn
    <3>2. {x \in P \cup {e} : BktOf(x, u) = i} = {x \in P : BktOf(x, t) = i}
      BY <2>4, <2>6
    <3> QED
      BY <2>3, <3>1, <3>2 DEF FiledAt
  <2> QED
    BY <2>5, <2>6
<1> QED
  BY <1>1, <1>2 DEF Filed

(* ... then, at the limit, the buckets are doubled. *)
Limit(b) == (b.expand_mult + 1) * Thresh

Full(u, e) == u.buckets[BktOf(e, u)].count >= Limit(u.buckets[BktOf(e, u)]) /\ u.noexpand # 1

Grown(p, e, u) == IF Full(p, e) THEN Expanded(p, u) ELSE u = p

-----------------------------------------------------------------------------
(* The table in memory, whose chains are the pointers hh_next and hh_prev:  *)
(* t threads a when they lead along the chains of a.                        *)
Pointers == [Elems -> Elems \cup {NULL}]

Heads == [hh_head : Elems \cup {NULL}, count : Nat, expand_mult : Nat]

Memory == [head : Elems \cup {NULL}, tail : Elems \cup {NULL},
           next : Pointers, prev : Pointers, hh_next : Pointers, hh_prev : Pointers,
           buckets : Seq(Heads), num_items : Nat, ideal_chain_maxlen : Nat,
           nonideal_items : Nat, ineff_expands : Nat, noexpand : {0, 1}]

Chained(h, nx, pv, c) ==
  /\ h = IF c = << >> THEN NULL ELSE c[1]
  /\ \A k \in 1..Len(c) :
       /\ nx[c[k]] = IF k + 1 \in 1..Len(c) THEN c[k + 1] ELSE NULL
       /\ pv[c[k]] = IF k = 1 THEN NULL ELSE c[k - 1]

ThreadedAt(t, a, i) ==
  /\ t.buckets[i].count = a.buckets[i].count
  /\ t.buckets[i].expand_mult = a.buckets[i].expand_mult
  /\ Chained(t.buckets[i].hh_head, t.hh_next, t.hh_prev, a.buckets[i].chain)

Alike(t, a) ==
  /\ t.head = a.head /\ t.tail = a.tail /\ t.next = a.next /\ t.prev = a.prev
  /\ t.num_items = a.num_items /\ t.ideal_chain_maxlen = a.ideal_chain_maxlen
  /\ t.noexpand = a.noexpand

Threads(t, a) ==
  /\ t \in Memory /\ a \in Tables /\ Alike(t, a) /\ Len(t.buckets) = Len(a.buckets)
  /\ \A i \in 1..Len(a.buckets) : ThreadedAt(t, a, i)

LEMMA ThreadsBkt ==
  ASSUME NEW t, NEW a, Threads(t, a), NEW e
  PROVE  BktOf(e, t) = BktOf(e, a)
BY DEF Threads, BktOf, HASH_TO_BKT

LEMMA SeqIs ==
  ASSUME NEW E, NEW s \in Seq(E)
  PROVE  s \in [1..Len(s) -> E]
OBVIOUS

LEMMA ThreadsIs ==
  ASSUME NEW t, NEW a, Threads(t, a)
  PROVE  /\ t \in Memory /\ a \in Tables /\ Alike(t, a)
         /\ \E n \in Nat : /\ n = Len(a.buckets) /\ n = Len(t.buckets)
                           /\ a.buckets \in [1..n -> Buckets] /\ t.buckets \in [1..n -> Heads]
         /\ \A i \in 1..Len(a.buckets) : ThreadedAt(t, a, i)
<1>1. t \in Memory /\ a \in Tables /\ Len(t.buckets) = Len(a.buckets)
  BY DEF Threads
<1>2. a.buckets \in Seq(Buckets) /\ t.buckets \in Seq(Heads)
  BY <1>1 DEF Memory, Tables
<1>3. PICK n \in Nat : n = Len(a.buckets) /\ n = Len(t.buckets)
  BY <1>1, <1>2
<1>4. a.buckets \in [1..n -> Buckets] /\ t.buckets \in [1..n -> Heads]
  BY <1>2, <1>3, SeqIs
<1> QED
  BY <1>1, <1>3, <1>4 DEF Threads

(* Walking a chain's pointers finds the chain. *)
LEMMA ChainIs ==
  ASSUME HashAssumption, NEW t, NEW a, Threads(t, a), NEW P, Filed(a, P),
         NEW i \in 1..Len(a.buckets)
  PROVE  ChainOf(t, i) = a.buckets[i].chain
<1>1. a.buckets[i] \in Buckets
  BY ThreadsIs
<1>2. PICK c \in Seq(Elems) : c = a.buckets[i].chain
  BY <1>1 DEF Buckets
<1>3. Distinct(c)
  BY <1>2 DEF Filed, FiledAt
<1>4. ThreadedAt(t, a, i)
  BY ThreadsIs
<1>5. PICK h, nx : h = t.buckets[i].hh_head /\ nx = t.hh_next
  OBVIOUS
<1>6. /\ h = IF c = << >> THEN NULL ELSE c[1]
      /\ \A k \in 1..Len(c) : nx[c[k]] = IF k + 1 \in 1..Len(c) THEN c[k + 1] ELSE NULL
  BY <1>2, <1>4, <1>5 DEF ThreadedAt, Chained
<1>7. Along(h, nx) = c
  BY <1>3, <1>6, AlongIs
<1> QED
  BY <1>2, <1>5, <1>7 DEF ChainOf

(* An element that is put in front of its chain. *)
LEMMA ChainedCons ==
  ASSUME HashAssumption, NEW c \in Seq(Elems), Distinct(c), NEW e \in Elems \ Image(c),
         NEW h, NEW nx, NEW pv, Chained(h, nx, pv, c), NEW nx2, NEW pv2,
         \A x \in Elems : /\ nx2[x] = IF x = e THEN h ELSE nx[x]
                          /\ pv2[x] = IF x = e THEN NULL ELSE IF x = h THEN e ELSE pv[x]
  PROVE  Chained(e, nx2, pv2, <<e>> \o c)
<1> DEFINE a == <<e>> \o c
<1>1. PICK n \in Nat : n = Len(c) /\ DOMAIN c = 1..n
  OBVIOUS
<1>2. /\ a \in Seq(Elems) /\ Len(a) = n + 1 /\ a[1] = e
      /\ \A i \in 2..n + 1 : a[i] = c[i - 1]
  BY <1>1, ConsIs
<1>3. a # << >>
  BY <1>1, <1>2
<1> HIDE DEF a
<1>4. /\ \A k \in 1..n : c[k] \in Elems /\ c[k] # e
      /\ \A j, k \in 1..n : c[j] = c[k] => j = k
  BY <1>1 DEF Image, Distinct
<1>5. /\ h = IF c = << >> THEN NULL ELSE c[1]
      /\ \A k \in 1..n : /\ nx[c[k]] = IF k + 1 \in 1..n THEN c[k + 1] ELSE NULL
                         /\ pv[c[k]] = IF k = 1 THEN NULL ELSE c[k - 1]
  BY <1>1 DEF Chained
<1>6. h = IF n = 0 THEN NULL ELSE c[1]
  BY <1>1, <1>5
<1>7. ASSUME NEW k \in 1..n + 1
      PROVE  /\ nx2[a[k]] = IF k + 1 \in 1..n + 1 THEN a[k + 1] ELSE NULL
             /\ pv2[a[k]] = IF k = 1 THEN NULL ELSE a[k - 1]
  <2>1. CASE k = 1
    <3>1. nx2[e] = h /\ pv2[e] = NULL
      OBVIOUS
    <3>2. CASE n = 0
      BY <1>2, <1>6, <2>1, <3>1, <3>2
    <3>3. CASE n # 0
      <4>1. 2 \in 2..n + 1 /\ 1 + 1 \in 1..n + 1 /\ 1 + 1 = 2 /\ 2 - 1 = 1
        BY <1>1, <3>3
      <4>2. a[2] = c[1]
        BY <1>2, <4>1
      <4> QED
        BY <1>2, <1>6, <2>1, <3>1, <3>3, <4>1, <4>2
    <3> QED
      BY <3>2, <3>3
  <2>2. CASE k # 1
    <3>1. PICK m \in 1..n : m = k - 1 /\ k = m + 1 /\ k \in 2..n + 1
      BY <1>1, <2>2
    <3>2. a[k] = c[m] /\ c[m] \in Elems /\ c[m] # e
      BY <1>2, <1>4, <3>1
    <3>3. nx2[c[m]] = nx[c[m]]
      BY <3>2
    <3>4. m + 1 \in 1..n => a[k + 1] = c[m + 1]
      <4>1. SUFFICES ASSUME m + 1 \in 1..n PROVE a[k + 1] = c[m + 1]
        OBVIOUS
      <4>2. k + 1 \in 2..n + 1 /\ k + 1 - 1 = m + 1
        BY <1>1, <3>1, <4>1
      <4> QED
        BY <1>2, <4>2
    <3>5. m + 1 \in 1..n <=> k + 1 \in 1..n + 1
      BY <1>1, <3>1
    <3>6. nx2[a[k]] = IF k + 1 \in 1..n + 1 THEN a[k + 1] ELSE NULL
      BY <1>5, <3>2, <3>3, <3>4, <3>5
    <3>7. CASE m = 1
      <4>1. h = c[m]
        BY <1>1, <1>6, <3>7
      <4>2. pv2[c[m]] = e
        BY <3>2, <4>1
      <4>3. k - 1 = 1
        BY <3>1, <3>7
      <4> QED
        BY <1>2, <2>2, <3>2, <3>6, <4>2, <4>3
    <3>8. CASE m # 1
      <4>1. h # c[m]
        <5>1. 1 \in 1..n
          BY <1>1
        <5> QED
          BY <1>4, <1>6, <3>8, <5>1
      <4>2. pv2[c[m]] = c[m - 1]
        BY <1>5, <3>2, <3>8, <4>1
      <4>3. k - 1 \in 2..n + 1 /\ k - 1 - 1 = m - 1
        BY <1>1, <3>1, <3>8
      <4>4. a[k - 1] = c[m - 1]
        BY <1>2, <4>3
      <4> QED
        BY <2>2, <3>2, <3>6, <4>2, <4>4
    <3> QED
      BY <3>7, <3>8
  <2> QED
    BY <2>1, <2>2
<1>8. Chained(e, nx2, pv2, a)
  BY <1>2, <1>3, <1>7 DEF Chained
<1> QED
  BY <1>8 DEF a

(* Pointers that change at no element of a chain. *)
LEMMA ChainedElse ==
  ASSUME NEW c \in Seq(Elems), NEW h, NEW nx, NEW pv, Chained(h, nx, pv, c), NEW nx2, NEW pv2,
         \A x \in Image(c) : nx2[x] = nx[x] /\ pv2[x] = pv[x]
  PROVE  Chained(h, nx2, pv2, c)
<1>1. \A k \in 1..Len(c) : c[k] \in Image(c)
  BY DEF Image
<1> QED
  BY <1>1 DEF Chained

LEMMA InFrontIs ==
  ASSUME HashAssumption, NEW t, NEW a, Threads(t, a), NEW P \in SUBSET Elems, Filed(a, P),
         Len(a.buckets) # 0, NEW e \in Elems \ P, NEW u, u = InFront(t, BktOf(e, t), e)
  PROVE  \E p : Threads(u, p) /\ PutIn(a, e, p) /\ Filed(p, P \cup {e})
<1>1. t \in Memory /\ a \in Tables /\ Alike(t, a)
  BY ThreadsIs
<1>2. PICK n \in Nat \ {0} : /\ n = Len(a.buckets) /\ n = Len(t.buckets)
                             /\ a.buckets \in [1..n -> Buckets] /\ t.buckets \in [1..n -> Heads]
                             /\ \A j \in 1..n : ThreadedAt(t, a, j)
  <2>1. PICK n \in Nat : /\ n = Len(a.buckets) /\ n = Len(t.buckets)
                         /\ a.buckets \in [1..n -> Buckets] /\ t.buckets \in [1..n -> Heads]
    BY ThreadsIs
  <2> QED
    BY <2>1, ThreadsIs
<1>3. PICK i \in 1..n : i = BktOf(e, a) /\ i = BktOf(e, t)
  BY <1>2, BktIs, ThreadsBkt
<1>4. PICK p : p = Put(a, e)
  OBVIOUS
<1>5. PutIn(a, e, p)
  BY <1>1, <1>4, PutIsIn
<1>6. Filed(p, P \cup {e})
  BY <1>1, <1>5, PutFiled
<1>7. PICK b \in Heads : b = t.buckets[i]
  BY <1>2
<1>8. PICK old \in Elems \cup {NULL}, k \in Nat : old = b.hh_head /\ k = b.count + 1
  BY DEF Heads
<1>9. PICK b2 : b2 = [b EXCEPT !.hh_head = e, !.count = k]
  OBVIOUS
<1>10. b2 \in Heads /\ b2.hh_head = e /\ b2.count = k /\ b2.expand_mult = b.expand_mult
  BY <1>9 DEF Heads
<1>11. PICK bs : bs = [t.buckets EXCEPT ![i] = b2]
  OBVIOUS
<1>12. bs \in [1..n -> Heads] /\ \A j \in 1..n : bs[j] = IF j = i THEN b2 ELSE t.buckets[j]
  BY <1>2, <1>10, <1>11
<1>13. bs \in Seq(Heads) /\ Len(bs) = n
  BY <1>12, SeqFrom
<1>14. t.hh_next \in Pointers /\ t.hh_prev \in Pointers
  BY <1>1 DEF Memory
<1>15. PICK hn : hn = [t.hh_next EXCEPT ![e] = old]
  OBVIOUS
<1>16. PICK hp : hp = [x \in Elems |-> IF x = e THEN NULL ELSE IF x = old THEN e ELSE t.hh_prev[x]]
  OBVIOUS
<1>17. /\ hn \in Pointers /\ hp \in Pointers
       /\ \A x \in Elems : /\ hn[x] = IF x = e THEN old ELSE t.hh_next[x]
                           /\ hp[x] = IF x = e THEN NULL ELSE IF x = old THEN e ELSE t.hh_prev[x]
  BY <1>14, <1>15, <1>16 DEF Pointers
<1>18. u = [t EXCEPT !.hh_next = hn, !.hh_prev = hp, !.buckets = bs]
  BY <1>1, <1>3, <1>7, <1>8, <1>9, <1>11, <1>15, <1>16 DEF InFront, Memory
<1>19. /\ u \in Memory /\ u.hh_next = hn /\ u.hh_prev = hp /\ u.buckets = bs
       /\ u.head = t.head /\ u.tail = t.tail /\ u.next = t.next /\ u.prev = t.prev
       /\ u.num_items = t.num_items /\ u.ideal_chain_maxlen = t.ideal_chain_maxlen
       /\ u.noexpand = t.noexpand
  BY <1>1, <1>13, <1>17, <1>18 DEF Memory
<1>20. p \in Tables /\ Len(p.buckets) = n /\ Alike(u, p)
  BY <1>1, <1>2, <1>5, <1>19 DEF PutIn, Alike
<1>21. ASSUME NEW j \in 1..n PROVE ThreadedAt(u, p, j)
  <2>1. a.buckets[j] \in Buckets /\ a.buckets[i] \in Buckets
    BY <1>2
  <2>2. PICK c \in Seq(Elems), ci \in Seq(Elems) : c = a.buckets[j].chain /\ ci = a.buckets[i].chain
    BY <2>1 DEF Buckets
  <2>3. /\ Distinct(c) /\ Image(c) = {x \in P : BktOf(x, a) = j}
        /\ Distinct(ci) /\ Image(ci) = {x \in P : BktOf(x, a) = i}
    BY <1>2, <2>2 DEF Filed, FiledAt
  <2>4. /\ t.buckets[j].count = a.buckets[j].count
        /\ t.buckets[j].expand_mult = a.buckets[j].expand_mult
        /\ Chained(t.buckets[j].hh_head, t.hh_next, t.hh_prev, c)
    BY <1>2, <2>2 DEF ThreadedAt
  <2>5. CASE j = i
    <3>1. /\ p.buckets[j].chain = <<e>> \o c /\ p.buckets[j].count = a.buckets[j].count + 1
          /\ p.buckets[j].expand_mult = a.buckets[j].expand_mult
      BY <1>2, <1>3, <1>5, <2>2, <2>5 DEF PutIn
    <3>2. u.buckets[j] = b2
      BY <1>12, <1>19, <2>5
    <3>3. e \in Elems \ Image(c)
      BY <2>3
    <3>4. Chained(old, t.hh_next, t.hh_prev, c)
      BY <1>7, <1>8, <2>4, <2>5
    <3>5. Chained(e, hn, hp, <<e>> \o c)
      <4>1. PICK nx, pv : nx = t.hh_next /\ pv = t.hh_prev
        OBVIOUS
      <4>2. /\ Chained(old, nx, pv, c)
            /\ \A x \in Elems : /\ hn[x] = IF x = e THEN old ELSE nx[x]
                                /\ hp[x] = IF x = e THEN NULL ELSE IF x = old THEN e ELSE pv[x]
        BY <1>17, <3>4, <4>1
      <4> QED
        BY <2>3, <3>3, <4>2, ChainedCons
    <3>6. b2.count = a.buckets[j].count + 1 /\ b2.expand_mult = a.buckets[j].expand_mult
      BY <1>7, <1>8, <1>10, <2>4, <2>5
    <3> QED
      BY <1>10, <1>19, <3>1, <3>2, <3>5, <3>6 DEF ThreadedAt
  <2>6. CASE j # i
    <3>1. /\ p.buckets[j].chain = c /\ p.buckets[j].count = a.buckets[j].count
          /\ p.buckets[j].expand_mult = a.buckets[j].expand_mult
      BY <1>2, <1>3, <1>5, <2>2, <2>6 DEF PutIn
    <3>2. u.buckets[j] = t.buckets[j]
      BY <1>12, <1>19, <2>6
    <3>3. old = IF ci = << >> THEN NULL ELSE ci[1]
      BY <1>2, <1>7, <1>8, <2>2 DEF ThreadedAt, Chained
    <3>4. ASSUME NEW x \in Image(c) PROVE x \in Elems /\ x # e /\ x # old
      <4>1. x \in P /\ BktOf(x, a) = j /\ x # NULL
        BY <2>3 DEF HashAssumption
      <4>2. ci # << >> => ci[1] \in Image(ci)
        BY DEF Image
      <4>3. ci # << >> => BktOf(ci[1], a) = i
        BY <2>3, <4>2
      <4> QED
        BY <2>6, <3>3, <4>1, <4>3
    <3>5. \A x \in Image(c) : hn[x] = t.hh_next[x] /\ hp[x] = t.hh_prev[x]
      BY <1>17, <3>4
    <3>6. Chained(t.buckets[j].hh_head, hn, hp, c)
      BY <2>4, <3>5, ChainedElse
    <3> QED
      BY <1>19, <2>4, <3>1, <3>2, <3>6 DEF ThreadedAt
  <2> QED
    BY <2>5, <2>6
<1>22. Threads(u, p)
  BY <1>13, <1>19, <1>20, <1>21 DEF Threads
<1> QED
  BY <1>5, <1>6, <1>22

-----------------------------------------------------------------------------
(* Doubling: b has the elements of a that were moved so far, in twice the   *)
(* buckets, with c the ideal length.                                        *)
Multiplied(b, i) ==
  b.buckets[i].expand_mult = IF b.buckets[i].count > b.ideal_chain_maxlen
                             THEN b.buckets[i].count \div b.ideal_chain_maxlen ELSE 0

Moving(b, a, c) ==
  /\ Len(b.buckets) = 2 * Len(a.buckets)
  /\ b.head = a.head /\ b.tail = a.tail /\ b.next = a.next /\ b.prev = a.prev
  /\ b.num_items = a.num_items /\ b.noexpand = a.noexpand /\ b.ideal_chain_maxlen = c
  /\ \A i \in 1..Len(b.buckets) : Multiplied(b, i)

Moved(a, c, P) ==
  {t \in Memory : \E b : Threads(t, b) /\ Filed(b, P) /\ Moving(b, a, c)}

(* The multiplier of one bucket is set. *)
MultSet(t, i, m, u) ==
  /\ u \in Memory /\ Alike(u, t) /\ u.hh_next = t.hh_next /\ u.hh_prev = t.hh_prev
  /\ Len(u.buckets) = Len(t.buckets)
  /\ \A j \in 1..Len(t.buckets) :
       /\ u.buckets[j].hh_head = t.buckets[j].hh_head /\ u.buckets[j].count = t.buckets[j].count
       /\ u.buckets[j].expand_mult = IF j = i THEN m ELSE t.buckets[j].expand_mult

LEMMA MultIsSet ==
  ASSUME NEW t \in Memory, NEW i \in 1..Len(t.buckets), NEW m \in Nat,
         NEW k \in Nat, NEW u, u = [t EXCEPT !.nonideal_items = k, !.buckets[i].expand_mult = m]
  PROVE  MultSet(t, i, m, u)
<1>1. PICK n \in Nat : n = Len(t.buckets) /\ t.buckets \in [1..n -> Heads]
  <2>1. t.buckets \in Seq(Heads)
    BY DEF Memory
  <2> QED
    BY <2>1, SeqIs
<1>2. PICK h \in Heads : h = t.buckets[i]
  BY <1>1
<1>3. PICK h2 : h2 = [h EXCEPT !.expand_mult = m]
  OBVIOUS
<1>4. h2 \in Heads /\ h2.hh_head = h.hh_head /\ h2.count = h.count /\ h2.expand_mult = m
  BY <1>3 DEF Heads
<1>5. PICK hs : hs = [t.buckets EXCEPT ![i] = h2]
  OBVIOUS
<1>6. hs \in [1..n -> Heads] /\ \A j \in 1..n : hs[j] = IF j = i THEN h2 ELSE t.buckets[j]
  BY <1>1, <1>4, <1>5
<1>7. hs \in Seq(Heads) /\ Len(hs) = n
  BY <1>6, SeqFrom
<1>8. u = [t EXCEPT !.nonideal_items = k, !.buckets = hs]
  BY <1>1, <1>2, <1>3, <1>5 DEF Memory
<1>9. /\ u \in Memory /\ u.buckets = hs /\ u.hh_next = t.hh_next /\ u.hh_prev = t.hh_prev
      /\ Alike(u, t)
  BY <1>7, <1>8 DEF Memory, Alike
<1> QED
  BY <1>1, <1>2, <1>4, <1>6, <1>7, <1>9 DEF MultSet

LEMMA SetMult ==
  ASSUME NEW t, NEW a, Threads(t, a), NEW P, Filed(a, P), NEW i \in 1..Len(a.buckets), NEW m \in Nat,
         NEW u, MultSet(t, i, m, u)
  PROVE  \E b : /\ Threads(u, b) /\ Filed(b, P) /\ Alike(a, b) /\ Len(b.buckets) = Len(a.buckets)
                /\ \A j \in 1..Len(a.buckets) :
                     /\ b.buckets[j].count = a.buckets[j].count
                     /\ b.buckets[j].expand_mult = IF j = i THEN m ELSE a.buckets[j].expand_mult
<1>1. t \in Memory /\ a \in Tables /\ Alike(t, a)
  BY ThreadsIs
<1>2. PICK n \in Nat : /\ n = Len(a.buckets) /\ n = Len(t.buckets)
                       /\ a.buckets \in [1..n -> Buckets] /\ t.buckets \in [1..n -> Heads]
  BY ThreadsIs
<1>3. \A j \in 1..n : ThreadedAt(t, a, j)
  BY <1>2, ThreadsIs
<1>4. PICK g \in Buckets : g = a.buckets[i]
  BY <1>2
<1>5. PICK g2 : g2 = [g EXCEPT !.expand_mult = m]
  OBVIOUS
<1>6. g2 \in Buckets /\ g2.chain = g.chain /\ g2.count = g.count /\ g2.expand_mult = m
  BY <1>5 DEF Buckets
<1>7. PICK gs : gs = [a.buckets EXCEPT ![i] = g2]
  OBVIOUS
<1>8. gs \in [1..n -> Buckets] /\ \A j \in 1..n : gs[j] = IF j = i THEN g2 ELSE a.buckets[j]
  BY <1>2, <1>6, <1>7
<1>9. gs \in Seq(Buckets) /\ Len(gs) = n
  BY <1>8, SeqFrom
<1>10. PICK b : b = [a EXCEPT !.buckets = gs]
  OBVIOUS
<1>12. /\ u \in Memory /\ u.hh_next = t.hh_next /\ u.hh_prev = t.hh_prev
       /\ Alike(u, t) /\ Len(u.buckets) = n
  BY <1>2 DEF MultSet
<1>13. b \in Tables /\ b.buckets = gs /\ Alike(a, b)
  BY <1>1, <1>9, <1>10 DEF Tables, Alike
<1>14. Alike(u, b)
  BY <1>1, <1>12, <1>13 DEF Alike
<1>15. \A x : BktOf(x, b) = BktOf(x, a)
  BY <1>2, <1>9, <1>13 DEF BktOf, HASH_TO_BKT
<1>16. ASSUME NEW j \in 1..n
       PROVE  /\ ThreadedAt(u, b, j) /\ FiledAt(b, P, j)
              /\ b.buckets[j].count = a.buckets[j].count
              /\ b.buckets[j].expand_mult = IF j = i THEN m ELSE a.buckets[j].expand_mult
  <2>1. /\ b.buckets[j].chain = a.buckets[j].chain /\ b.buckets[j].count = a.buckets[j].count
        /\ b.buckets[j].expand_mult = IF j = i THEN m ELSE a.buckets[j].expand_mult
    BY <1>4, <1>6, <1>8, <1>13
  <2>2. /\ u.buckets[j].hh_head = t.buckets[j].hh_head /\ u.buckets[j].count = t.buckets[j].count
        /\ u.buckets[j].expand_mult = IF j = i THEN m ELSE t.buckets[j].expand_mult
    BY <1>2 DEF MultSet
  <2>3. ThreadedAt(u, b, j)
    BY <1>3, <1>12, <2>1, <2>2 DEF ThreadedAt
  <2>4. FiledAt(b, P, j)
    <3>1. FiledAt(a, P, j)
      BY <1>2 DEF Filed
    <3> QED
      BY <1>15, <2>1, <3>1 DEF FiledAt
  <2> QED
    BY <2>1, <2>3, <2>4
<1>17. Threads(u, b) /\ Filed(b, P)
  BY <1>2, <1>9, <1>12, <1>13, <1>14, <1>16 DEF Threads, Filed
<1> QED
  BY <1>2, <1>9, <1>13, <1>16, <1>17

LEMMA QuotientIs ==
  ASSUME NEW k \in Nat, NEW c \in Nat \ {0}
  PROVE  k \div c \in Nat
<1>1. \E q \in Nat, r \in 0..c - 1 : q = k \div c /\ r = k % c /\ k = c * q + r
  BY ModIs
<1> QED
  BY <1>1

LEMMA RehashIs ==
  ASSUME HashAssumption, NEW a, NEW n \in Nat \ {0}, Len(a.buckets) = n, NEW c \in Nat \ {0},
         NEW P \in SUBSET Elems, NEW t \in Moved(a, c, P), NEW e \in Elems \ P
  PROVE  Rehash(t, e) \in Moved(a, c, P \cup {e})
<1>1. PICK b : Threads(t, b) /\ Filed(b, P) /\ Moving(b, a, c)
  BY DEF Moved
<1>2. PICK i, v : i = BktOf(e, t) /\ v = InFront(t, i, e)
  OBVIOUS
<1>3. Len(b.buckets) = 2 * n /\ b.ideal_chain_maxlen = c
  BY <1>1 DEF Moving
<1>4. PICK p : Threads(v, p) /\ PutIn(b, e, p) /\ Filed(p, P \cup {e})
  <2>1. Len(b.buckets) # 0
    BY <1>3
  <2> QED
    BY <1>1, <1>2, <2>1, InFrontIs
<1>5. t \in Memory /\ v \in Memory /\ t.ideal_chain_maxlen = c
  BY <1>1, <1>3, <1>4 DEF Threads, Alike
<1>6. i \in 1..2 * n /\ i = BktOf(e, b) /\ Len(p.buckets) = 2 * n /\ p.ideal_chain_maxlen = c
  BY <1>1, <1>2, <1>3, <1>4, ThreadsBkt DEF PutIn
<1>7. PICK k \in Nat : k = p.buckets[i].count /\ k = v.buckets[i].count
  <2>1. p \in Tables /\ ThreadedAt(v, p, i)
    BY <1>4, <1>6 DEF Threads
  <2>2. p.buckets[i] \in Buckets
    BY <1>6, <2>1 DEF Tables
  <2> QED
    BY <2>1, <2>2 DEF ThreadedAt, Buckets
<1>8. /\ p.head = a.head /\ p.tail = a.tail /\ p.next = a.next /\ p.prev = a.prev
      /\ p.num_items = a.num_items /\ p.noexpand = a.noexpand
  BY <1>1, <1>4 DEF Moving, PutIn
<1>9. ASSUME NEW j \in 1..2 * n
      PROVE  /\ p.buckets[j].expand_mult = b.buckets[j].expand_mult
             /\ j # i => p.buckets[j].count = b.buckets[j].count
             /\ Multiplied(b, j)
  BY <1>1, <1>3, <1>4, <1>6 DEF PutIn, Moving
<1>10. p.buckets[i].count = b.buckets[i].count + 1 /\ b.buckets[i].count \in Nat
  <2>1. p.buckets[i].count = b.buckets[i].count + 1
    BY <1>3, <1>4, <1>6 DEF PutIn
  <2>2. b.buckets[i] \in Buckets
    BY <1>1, <1>3, <1>6 DEF Threads, Tables
  <2> QED
    BY <2>1, <2>2 DEF Buckets
<1>11. PICK u : u = Rehash(t, e)
  OBVIOUS
<1>12. CASE k <= c
  <2>1. u = v
    BY <1>2, <1>5, <1>7, <1>11, <1>12 DEF Rehash
  <2>2. ASSUME NEW j \in 1..2 * n PROVE Multiplied(p, j)
    <3>1. CASE j = i
      <4>1. ~ (b.buckets[i].count > c) /\ ~ (p.buckets[i].count > c)
        <5>1. PICK l \in Nat : l = b.buckets[i].count /\ k = l + 1
          BY <1>7, <1>10
        <5>2. ~ (l > c) /\ ~ (k > c)
          BY <1>12, <5>1
        <5> QED
          BY <1>7, <5>1, <5>2
      <4> QED
        BY <1>3, <1>6, <1>9, <3>1, <4>1 DEF Multiplied
    <3>2. CASE j # i
      BY <1>3, <1>6, <1>9, <3>2 DEF Multiplied
    <3> QED
      BY <3>1, <3>2
  <2>3. Moving(p, a, c)
    BY <1>6, <1>8, <2>2 DEF Moving
  <2> QED
    BY <1>4, <1>5, <1>11, <2>1, <2>3 DEF Moved
<1>13. CASE ~ (k <= c)
  <2>1. PICK m \in Nat : m = k \div c
    BY QuotientIs
  <2>2. PICK l \in Nat : l = v.nonideal_items + 1
    BY <1>5 DEF Memory
  <2>3. u = [v EXCEPT !.nonideal_items = @ + 1, !.buckets[i].expand_mult = k \div c]
    BY <1>2, <1>5, <1>7, <1>11, <1>13 DEF Rehash
  <2>4. u = [v EXCEPT !.nonideal_items = l, !.buckets[i].expand_mult = m]
    BY <1>5, <2>1, <2>2, <2>3 DEF Memory
  <2>5. PICK q : /\ Threads(u, q) /\ Filed(q, P \cup {e}) /\ Alike(p, q)
                 /\ Len(q.buckets) = Len(p.buckets)
                 /\ \A j \in 1..Len(p.buckets) :
                      /\ q.buckets[j].count = p.buckets[j].count
                      /\ q.buckets[j].expand_mult = IF j = i THEN m ELSE p.buckets[j].expand_mult
    <3>1. i \in 1..Len(p.buckets)
      BY <1>6
    <3>2. PICK R : R = P \cup {e}
      OBVIOUS
    <3>3. Threads(v, p)
      BY <1>4
    <3>6. Filed(p, R)
      BY <1>4, <3>2
    <3>4. MultSet(v, i, m, u)
      <4>1. i \in 1..Len(v.buckets)
        BY <1>4, <3>1 DEF Threads
      <4> QED
        BY <1>5, <2>4, <4>1, MultIsSet
    <3>5. \E q : /\ Threads(u, q) /\ Filed(q, R) /\ Alike(p, q)
                 /\ Len(q.buckets) = Len(p.buckets)
                 /\ \A j \in 1..Len(p.buckets) :
                      /\ q.buckets[j].count = p.buckets[j].count
                      /\ q.buckets[j].expand_mult = IF j = i THEN m ELSE p.buckets[j].expand_mult
      BY ONLY <3>1, <3>3, <3>6, <3>4, m \in Nat, SetMult
    <3> QED
      BY <3>2, <3>5
  <2>6. ASSUME NEW j \in 1..2 * n PROVE Multiplied(q, j)
    <3>1. q.ideal_chain_maxlen = c
      BY <1>6, <2>5 DEF Alike
    <3>2. CASE j = i
      <4>1. q.buckets[i].count = k /\ q.buckets[i].expand_mult = m /\ k > c
        <5>1. i \in 1..Len(p.buckets)
          BY <1>6
        <5>2. k > c
          BY <1>13
        <5> QED
          BY <1>7, <2>5, <5>1, <5>2
      <4> QED
        BY <2>1, <3>1, <3>2, <4>1 DEF Multiplied
    <3>3. CASE j # i
      BY <1>3, <1>6, <1>9, <2>5, <3>1, <3>3 DEF Multiplied
    <3> QED
      BY <3>2, <3>3
  <2>7. Moving(q, a, c)
    BY <1>6, <1>8, <2>5, <2>6 DEF Moving, Alike
  <2>8. u \in Memory
    BY <2>5 DEF Threads
  <2> QED
    BY <1>11, <2>5, <2>7, <2>8 DEF Moved
<1> QED
  BY <1>7, <1>12, <1>13

LEMMA RehashFromIs ==
  ASSUME HashAssumption, NEW a, NEW n \in Nat \ {0}, Len(a.buckets) = n, NEW c \in Nat \ {0},
         NEW P \in SUBSET Elems, NEW t \in Moved(a, c, P), NEW chain \in Seq(Elems),
         Distinct(chain), Image(chain) \cap P = {}
  PROVE  RehashFrom(chain, t) \in Moved(a, c, P \cup Image(chain))
<1> DEFINE N == Len(chain)
           Moves(f) == f = [k \in 0..Len(chain) |->
                              IF k = 0 THEN t ELSE Rehash(f[k - 1], chain[k])]
           Q(k) == P \cup {chain[j] : j \in 1..k}
           A == [k \in 0..N |-> Moved(a, c, Q(k))]
           step == [x \in (1..N) \X Memory |-> Rehash(x[2], chain[x[1]])]
           f == CHOOSE g : Moves(g)
<1>1. N \in Nat /\ \A k \in 1..N : chain[k] \in Elems
  OBVIOUS
<1>2. RehashFrom(chain, t) = f[N]
  BY DEF RehashFrom
<1>3. \A k \in 0..N : A[k] = Moved(a, c, Q(k)) /\ A[k] \subseteq Memory
  BY DEF Moved
<1>4. ASSUME NEW k \in 1..N, NEW x \in A[k - 1]
      PROVE  Rehash(x, chain[k]) \in A[k] /\ x \in Memory
  <2>1. k - 1 \in 0..N /\ k \in 0..N
    BY <1>1
  <2>2. x \in Moved(a, c, Q(k - 1)) /\ x \in Memory
    BY <1>3, <1>4, <2>1
  <2>3. 1..k = (1..k - 1) \cup {k} /\ k \notin 1..k - 1
    BY <1>1
  <2>4. {chain[j] : j \in 1..k} = {chain[j] : j \in 1..k - 1} \cup {chain[k]}
    BY <2>3
  <2>5. chain[k] \notin Q(k - 1)
    <3>1. chain[k] \notin {chain[j] : j \in 1..k - 1}
      <4>1. SUFFICES ASSUME NEW j \in 1..k - 1, chain[j] = chain[k] PROVE FALSE
        OBVIOUS
      <4>2. j \in DOMAIN chain /\ k \in DOMAIN chain /\ j # k
        BY <1>1, <2>3
      <4> QED
        BY <4>1, <4>2 DEF Distinct
    <3>2. chain[k] \in Image(chain)
      BY DEF Image
    <3> QED
      BY <3>1, <3>2
  <2>6. Q(k) = Q(k - 1) \cup {chain[k]}
    BY <2>4
  <2>7. PICK R \in SUBSET Elems : R = Q(k - 1)
    <3>1. {chain[j] : j \in 1..k - 1} \subseteq Elems
      BY <1>1
    <3> QED
      BY <3>1
  <2>8. Rehash(x, chain[k]) \in Moved(a, c, R \cup {chain[k]})
    <3>1. x \in Moved(a, c, R) /\ chain[k] \in Elems \ R
      BY <1>1, <2>2, <2>5, <2>7
    <3> QED
      BY <3>1, RehashIs
  <2> HIDE DEF Q
  <2> QED
    BY <1>3, <2>1, <2>2, <2>6, <2>7, <2>8
<1>5. \A k \in 1..N, x \in Memory : step[<<k, x>>] = Rehash(x, chain[k])
  OBVIOUS
<1>6. t \in A[0]
  <2>1. Q(0) = P
    OBVIOUS
  <2> HIDE DEF Q
  <2> QED
    BY <1>1, <1>3, <2>1
<1>7. Q(N) = P \cup Image(chain)
  <2>1. {chain[j] : j \in 1..N} = Image(chain)
    BY DEF Image
  <2> QED
    BY <2>1
<1> HIDE DEF A, Q, step, N
<1>8. \A k \in 1..N : \A x \in A[k - 1] : step[<<k, x>>] \in A[k]
  BY <1>4, <1>5
<1>9. PICK g : Stages(g, N, A, t, step)
  <2>1. \A k \in 0..N : A[k] \subseteq Memory
    BY <1>3
  <2> QED
    BY <1>1, <1>6, <1>8, <2>1, StagesExist
<1>10. /\ g = [k \in 0..N |-> g[k]] /\ g[0] = t /\ (\A k \in 0..N : g[k] \in A[k])
       /\ \A k \in 1..N : g[k] = step[<<k, g[k - 1]>>]
  BY <1>9 DEF Stages
<1>11. Moves(g)
  <2>1. ASSUME NEW k \in 0..N
        PROVE  g[k] = IF k = 0 THEN t ELSE Rehash(g[k - 1], chain[k])
    <3>1. CASE k # 0
      <4>1. k \in 1..N /\ k - 1 \in 0..N
        BY <1>1, <3>1
      <4>2. g[k - 1] \in Memory
        BY <1>3, <1>10, <4>1
      <4> QED
        BY <1>5, <1>10, <3>1, <4>1, <4>2
    <3> QED
      BY <1>10, <3>1
  <2>2. g = [k \in 0..N |-> g[k]]
    BY <1>10
  <2> QED
    BY <2>1, <2>2 DEF N
<1>12. Moves(f)
  <2> HIDE DEF Moves
  <2> QED
    BY <1>11
<1> HIDE DEF f
<1>13. f[0] = t /\ \A k \in 1..N : f[k] = Rehash(f[k - 1], chain[k])
  <2>1. f[0] = t
    BY <1>1, <1>12 DEF N
  <2>2. ASSUME NEW k \in 1..N PROVE f[k] = Rehash(f[k - 1], chain[k])
    <3>1. k \in 0..Len(chain) /\ k # 0
      BY <1>1 DEF N
    <3> QED
      BY <1>12, <3>1
  <2> QED
    BY <2>1, <2>2
<1> HIDE DEF Moves
<1>14. f[N] \in A[N]
  <2>1. f[0] \in A[0]
    BY <1>6, <1>13
  <2>2. \A k \in 1..N : f[k - 1] \in A[k - 1] => f[k] \in A[k]
    BY <1>4, <1>13
  <2> QED
    BY <1>1, <2>1, <2>2, StagesKept
<1>15. N \in 0..N
  BY <1>1
<1> QED
  BY <1>2, <1>3, <1>7, <1>14, <1>15

(* A change that touches no chain. *)
LEMMA ThreadsSame ==
  ASSUME NEW t, NEW a, Threads(t, a), NEW u \in Memory, NEW b \in Tables, Alike(u, b),
         u.buckets = t.buckets, u.hh_next = t.hh_next, u.hh_prev = t.hh_prev,
         b.buckets = a.buckets
  PROVE  Threads(u, b)
BY DEF Threads, ThreadedAt

EmptyChain == [chain |-> << >>, count |-> 0, expand_mult |-> 0]

LEMMA NoChain ==
  /\ EmptyChain \in Buckets /\ EmptyChain.chain = << >>
  /\ EmptyChain.count = 0 /\ EmptyChain.expand_mult = 0
  /\ EmptyBucket \in Heads /\ EmptyBucket.hh_head = NULL
  /\ EmptyBucket.count = 0 /\ EmptyBucket.expand_mult = 0
<1>1. << >> \in Seq(Elems) /\ 0 \in Nat
  OBVIOUS
<1> QED
  BY <1>1 DEF EmptyChain, EmptyBucket, Buckets, Heads

(* Tables of empty chains. *)
LEMMA EmptyThreads ==
  ASSUME NEW t \in Memory, NEW a \in Tables, Alike(t, a), NEW n \in Nat,
         Len(t.buckets) = n, Len(a.buckets) = n,
         \A i \in 1..n : t.buckets[i] = EmptyBucket /\ a.buckets[i] = EmptyChain
  PROVE  Threads(t, a) /\ Filed(a, {})
<1>2. ASSUME NEW i \in 1..n
      PROVE  ThreadedAt(t, a, i) /\ FiledAt(a, {}, i)
  <2>1. t.buckets[i] = EmptyBucket /\ a.buckets[i] = EmptyChain
    OBVIOUS
  <2>2. /\ a.buckets[i].chain = << >> /\ a.buckets[i].count = 0
        /\ a.buckets[i].expand_mult = 0 /\ t.buckets[i].hh_head = NULL
        /\ t.buckets[i].count = 0 /\ t.buckets[i].expand_mult = 0
    BY <2>1, NoChain
  <2>3. Chained(NULL, t.hh_next, t.hh_prev, << >>)
    BY DEF Chained
  <2>4. Distinct(<< >>) /\ Image(<< >>) = {} /\ Len(<< >>) = 0
    BY DEF Distinct, Image
  <2>5. {x \in {} : BktOf(x, a) = i} = {}
    OBVIOUS
  <2>6. ThreadedAt(t, a, i)
    BY <2>2, <2>3 DEF ThreadedAt
  <2>7. FiledAt(a, {}, i)
    BY <2>2, <2>4, <2>5 DEF FiledAt
  <2> QED
    BY <2>6, <2>7
<1> QED
  BY <1>2 DEF Threads, Filed

LEMMA FreshIs ==
  ASSUME HashAssumption, NEW t, NEW a, Threads(t, a), NEW c \in Nat \ {0}, NEW n \in Nat,
         n = 2 * Len(a.buckets),
         NEW u, u = [t EXCEPT !.buckets = [i \in 1..n |-> EmptyBucket],
                              !.ideal_chain_maxlen = c, !.nonideal_items = 0]
  PROVE  u \in Moved(a, c, {})
<1>1. t \in Memory /\ a \in Tables /\ Alike(t, a)
  BY ThreadsIs
<1>2. PICK hs, gs : hs = [i \in 1..n |-> EmptyBucket] /\ gs = [i \in 1..n |-> EmptyChain]
  OBVIOUS
<1>3. /\ hs \in Seq(Heads) /\ gs \in Seq(Buckets) /\ Len(hs) = n /\ Len(gs) = n
      /\ \A i \in 1..n : hs[i] = EmptyBucket /\ gs[i] = EmptyChain
  <2>1. hs \in [1..n -> Heads] /\ gs \in [1..n -> Buckets]
    BY <1>2, NoChain
  <2>2. \A i \in 1..n : hs[i] = EmptyBucket /\ gs[i] = EmptyChain
    BY <1>2
  <2> QED
    BY <2>1, <2>2, SeqFrom
<1>4. PICK b : b = [a EXCEPT !.buckets = gs, !.ideal_chain_maxlen = c]
  OBVIOUS
<1>5. u = [t EXCEPT !.buckets = hs, !.ideal_chain_maxlen = c, !.nonideal_items = 0]
  BY <1>2
<1>6. /\ u \in Memory /\ u.buckets = hs /\ u.ideal_chain_maxlen = c
      /\ u.head = t.head /\ u.tail = t.tail /\ u.next = t.next /\ u.prev = t.prev
      /\ u.num_items = t.num_items /\ u.noexpand = t.noexpand
  <2>1. PICK d \in Nat, z \in Nat : d = c /\ z = 0
    OBVIOUS
  <2>2. u = [t EXCEPT !.buckets = hs, !.ideal_chain_maxlen = d, !.nonideal_items = z]
    BY <1>5, <2>1
  <2>3. t \in Memory /\ hs \in Seq(Heads)
    BY <1>1, <1>3
  <2>4. u \in Memory /\ u.buckets = hs /\ u.ideal_chain_maxlen = d
    BY <2>2, <2>3 DEF Memory
  <2>5. /\ u.head = t.head /\ u.tail = t.tail /\ u.next = t.next /\ u.prev = t.prev
        /\ u.num_items = t.num_items /\ u.noexpand = t.noexpand
    BY <2>2, <2>3 DEF Memory
  <2> QED
    BY <2>1, <2>4, <2>5
<1>7. /\ b \in Tables /\ b.buckets = gs /\ b.ideal_chain_maxlen = c
      /\ b.head = a.head /\ b.tail = a.tail /\ b.next = a.next /\ b.prev = a.prev
      /\ b.num_items = a.num_items /\ b.noexpand = a.noexpand
  BY <1>1, <1>3, <1>4 DEF Tables
<1>8. Alike(u, b)
  BY <1>1, <1>6, <1>7 DEF Alike
<1>9. Threads(u, b) /\ Filed(b, {}) /\ Len(b.buckets) = n
  <2>1. /\ Len(u.buckets) = n /\ Len(b.buckets) = n
        /\ \A i \in 1..n : u.buckets[i] = EmptyBucket /\ b.buckets[i] = EmptyChain
    BY <1>3, <1>6, <1>7
  <2> QED
    BY <1>6, <1>7, <1>8, <2>1, EmptyThreads
<1>10. ASSUME NEW i \in 1..n PROVE Multiplied(b, i)
  <2>1. b.buckets[i].count = 0 /\ b.buckets[i].expand_mult = 0
    BY <1>3, <1>7, NoChain
  <2>2. ~ (0 > b.ideal_chain_maxlen)
    BY <1>7
  <2> QED
    BY <2>1, <2>2 DEF Multiplied
<1>11. Moving(b, a, c)
  BY <1>7, <1>9, <1>10 DEF Moving
<1> QED
  BY <1>6, <1>9, <1>11 DEF Moved

(* Every chain is walked, and what is in it moved. *)
LEMMA BucketsMoved ==
  ASSUME HashAssumption, NEW t, NEW a, Threads(t, a), NEW P \in SUBSET Elems, Filed(a, P),
         Len(a.buckets) # 0, NEW c \in Nat \ {0}, NEW fresh \in Moved(a, c, {}),
         NEW u, u = (LET bkt[i \in 0..Len(t.buckets)] ==
                           IF i = 0 THEN fresh ELSE RehashFrom(ChainOf(t, i), bkt[i - 1])
                     IN bkt[Len(t.buckets)])
  PROVE  u \in Moved(a, c, P)
<1> DEFINE N == Len(t.buckets)
           Moves(f) == f = [i \in 0..Len(t.buckets) |->
                              IF i = 0 THEN fresh ELSE RehashFrom(ChainOf(t, i), f[i - 1])]
           Q(k) == {e \in P : BktOf(e, a) \in 1..k}
           A == [k \in 0..N |-> Moved(a, c, Q(k))]
           step == [x \in (1..N) \X Memory |-> RehashFrom(ChainOf(t, x[1]), x[2])]
           f == CHOOSE g : Moves(g)
<1>1. /\ N \in Nat \ {0} /\ N = Len(a.buckets) /\ a.buckets \in [1..N -> Buckets]
  BY ThreadsIs
<1>2. u = f[N]
  OBVIOUS
<1>3. \A k \in 0..N : A[k] = Moved(a, c, Q(k)) /\ A[k] \subseteq Memory
  BY DEF Moved
<1>4. ASSUME NEW k \in 1..N, NEW x \in A[k - 1]
      PROVE  RehashFrom(ChainOf(t, k), x) \in A[k] /\ x \in Memory
  <2>1. k - 1 \in 0..N /\ k \in 0..N
    BY <1>1
  <2>2. x \in Moved(a, c, Q(k - 1)) /\ x \in Memory
    BY <1>3, <1>4, <2>1
  <2>3. 1..k = (1..k - 1) \cup {k} /\ k \notin 1..k - 1
    BY <1>1
  <2>4. PICK h : h = a.buckets[k].chain
    OBVIOUS
  <2>5. h \in Seq(Elems) /\ Distinct(h) /\ Image(h) = {e \in P : BktOf(e, a) = k}
    <3>1. a.buckets[k] \in Buckets
      BY <1>1
    <3>2. FiledAt(a, P, k)
      BY <1>1 DEF Filed
    <3> QED
      BY <2>4, <3>1, <3>2 DEF Buckets, FiledAt
  <2>6. Image(h) \cap Q(k - 1) = {}
    BY <2>3, <2>5
  <2>7. Q(k) = Q(k - 1) \cup Image(h)
    BY <2>3, <2>5
  <2>8. PICK R \in SUBSET Elems : R = Q(k - 1)
    OBVIOUS
  <2>9. RehashFrom(h, x) \in Moved(a, c, R \cup Image(h))
    <3>1. x \in Moved(a, c, R) /\ Image(h) \cap R = {}
      BY <2>2, <2>6, <2>8
    <3>2. PICK n \in Nat \ {0} : Len(a.buckets) = n
      BY <1>1
    <3> QED
      BY <2>5, <3>1, <3>2, RehashFromIs
  <2>10. ChainOf(t, k) = h
    BY <1>1, <2>4, ChainIs
  <2> HIDE DEF Q
  <2> QED
    BY <1>3, <2>1, <2>2, <2>7, <2>8, <2>9, <2>10
<1>5. \A k \in 1..N, x \in Memory : step[<<k, x>>] = RehashFrom(ChainOf(t, k), x)
  OBVIOUS
<1>6. fresh \in A[0]
  <2>1. Q(0) = {}
    OBVIOUS
  <2>2. 0 \in 0..N
    BY <1>1
  <2> HIDE DEF Q, A, N
  <2>3. A[0] = Moved(a, c, Q(0))
    BY <1>3, <2>2
  <2> QED
    BY <2>1, <2>3
<1>7. Q(N) = P
  <2>1. ASSUME NEW e \in P PROVE BktOf(e, a) \in 1..N
    BY <1>1, BktIs
  <2> QED
    BY <2>1
<1> HIDE DEF A, Q, step, N
<1>8. \A k \in 1..N : \A x \in A[k - 1] : step[<<k, x>>] \in A[k]
  BY <1>4, <1>5
<1>9. PICK g : Stages(g, N, A, fresh, step)
  <2>1. \A k \in 0..N : A[k] \subseteq Memory
    BY <1>3
  <2> QED
    BY <1>1, <1>6, <1>8, <2>1, StagesExist
<1>10. /\ g = [k \in 0..N |-> g[k]] /\ g[0] = fresh /\ (\A k \in 0..N : g[k] \in A[k])
       /\ \A k \in 1..N : g[k] = step[<<k, g[k - 1]>>]
  BY <1>9 DEF Stages
<1>11. Moves(g)
  <2>1. ASSUME NEW k \in 0..N
        PROVE  g[k] = IF k = 0 THEN fresh ELSE RehashFrom(ChainOf(t, k), g[k - 1])
    <3>1. CASE k # 0
      <4>1. k \in 1..N /\ k - 1 \in 0..N
        BY <1>1, <3>1
      <4>2. g[k - 1] \in Memory
        BY <1>3, <1>10, <4>1
      <4> QED
        BY <1>5, <1>10, <3>1, <4>1, <4>2
    <3> QED
      BY <1>10, <3>1
  <2>2. g = [k \in 0..N |-> g[k]]
    BY <1>10
  <2> QED
    BY <2>1, <2>2 DEF N
<1>12. Moves(f)
  <2> HIDE DEF Moves
  <2> QED
    BY <1>11
<1> HIDE DEF f
<1>13. f[0] = fresh /\ \A k \in 1..N : f[k] = RehashFrom(ChainOf(t, k), f[k - 1])
  <2>1. f[0] = fresh
    BY <1>1, <1>12 DEF N
  <2>2. ASSUME NEW k \in 1..N PROVE f[k] = RehashFrom(ChainOf(t, k), f[k - 1])
    <3>1. k \in 0..Len(t.buckets) /\ k # 0
      BY <1>1 DEF N
    <3> QED
      BY <1>12, <3>1
  <2> QED
    BY <2>1, <2>2
<1> HIDE DEF Moves
<1>14. f[N] \in A[N]
  <2>1. f[0] \in A[0]
    BY <1>6, <1>13
  <2>2. \A k \in 1..N : f[k - 1] \in A[k - 1] => f[k] \in A[k]
    BY <1>4, <1>13
  <2> QED
    BY <1>1, <2>1, <2>2, StagesKept
<1>15. N \in 0..N
  BY <1>1
<1> QED
  BY <1>2, <1>3, <1>7, <1>14, <1>15

LEMMA ExpandIs ==
  ASSUME HashAssumption, NEW t, NEW a, Threads(t, a), NEW P \in SUBSET Elems, Filed(a, P),
         Len(a.buckets) # 0, a.num_items # 0, NEW u, u = HASH_EXPAND_BUCKETS(t)
  PROVE  \E b : Threads(u, b) /\ Expanded(a, b) /\ Filed(b, P)
<1> DEFINE n == 2 * Len(t.buckets)
           ideal == (t.num_items \div n) + (IF t.num_items % n # 0 THEN 1 ELSE 0)
           fresh == [t EXCEPT !.buckets = [i \in 1..n |-> EmptyBucket],
                              !.ideal_chain_maxlen = ideal, !.nonideal_items = 0]
           new == LET bkt[i \in 0..Len(t.buckets)] ==
                        IF i = 0 THEN fresh ELSE RehashFrom(ChainOf(t, i), bkt[i - 1])
                  IN bkt[Len(t.buckets)]
           ineff == IF new.nonideal_items > t.num_items \div 2 THEN t.ineff_expands + 1 ELSE 0
           given == IF ineff > 1 THEN 1 ELSE new.noexpand
<1>1. u = [new EXCEPT !.ineff_expands = ineff, !.noexpand = IF ineff > 1 THEN 1 ELSE @]
  BY DEF HASH_EXPAND_BUCKETS
<1>2. /\ n \in Nat \ {0} /\ n = 2 * Len(a.buckets) /\ t.num_items \in Nat \ {0}
      /\ t.num_items = a.num_items /\ t.ineff_expands \in Nat /\ a.noexpand \in {0, 1}
  <2>1. t \in Memory /\ a \in Tables /\ Alike(t, a)
    BY ThreadsIs
  <2>2. PICK m \in Nat : m = Len(a.buckets) /\ m = Len(t.buckets)
    BY ThreadsIs
  <2> QED
    BY <2>1, <2>2 DEF Memory, Tables, Alike
<1>3. ideal \in Nat \ {0} /\ t.num_items <= n * ideal /\ (ideal - 1) * n < t.num_items
  <2>1. PICK N \in Nat \ {0}, m \in Nat \ {0} : N = t.num_items /\ m = n
    BY <1>2
  <2>2. PICK c : c = (N \div m) + (IF N % m # 0 THEN 1 ELSE 0)
    OBVIOUS
  <2>3. c \in Nat \ {0} /\ N <= m * c /\ (c - 1) * m < N
    BY <2>2, Ceiling
  <2>4. ideal = c
    BY <2>1, <2>2
  <2> QED
    BY <2>1, <2>3, <2>4
<1>4. PICK c \in Nat \ {0}, m \in Nat \ {0} :
        /\ c = ideal /\ m = n /\ m = 2 * Len(a.buckets)
        /\ a.num_items <= m * c /\ (c - 1) * m < a.num_items
  BY <1>2, <1>3
<1>5. fresh \in Moved(a, c, {})
  <2>1. fresh = [t EXCEPT !.buckets = [i \in 1..m |-> EmptyBucket],
                          !.ideal_chain_maxlen = c, !.nonideal_items = 0]
    BY <1>4
  <2> HIDE DEF fresh
  <2> QED
    BY <1>4, <2>1, FreshIs
<1>6. new \in Moved(a, c, P)
  <2> HIDE DEF fresh
  <2>1. PICK v : v = new
    OBVIOUS
  <2>2. v = (LET bkt[i \in 0..Len(t.buckets)] ==
                   IF i = 0 THEN fresh ELSE RehashFrom(ChainOf(t, i), bkt[i - 1])
             IN bkt[Len(t.buckets)])
    BY <2>1
  <2>3. v \in Moved(a, c, P)
    <3> HIDE DEF new
    <3> QED
      BY <1>5, <2>2, BucketsMoved
  <2> QED
    BY <2>1, <2>3
<1> HIDE DEF new, n, ideal, fresh
<1>7. PICK d : Threads(new, d) /\ Filed(d, P) /\ Moving(d, a, c)
  BY <1>6 DEF Moved
<1>8. new \in Memory /\ d \in Tables /\ Alike(new, d)
  BY <1>7, ThreadsIs
<1>9. new.noexpand = a.noexpand
  BY <1>7, <1>8 DEF Moving, Alike
<1>10. PICK k \in Nat, g \in {0, 1} : k = ineff /\ g = given
  BY <1>2, <1>9
<1>11. g = 0 => a.noexpand = 0
  BY <1>2, <1>9, <1>10
<1>12. u = [new EXCEPT !.ineff_expands = k, !.noexpand = g]
  BY <1>1, <1>8, <1>10 DEF Memory
<1>13. PICK b : b = [d EXCEPT !.noexpand = g]
  OBVIOUS
<1>14. /\ u \in Memory /\ u.buckets = new.buckets /\ u.hh_next = new.hh_next
       /\ u.hh_prev = new.hh_prev /\ u.noexpand = g
       /\ u.head = new.head /\ u.tail = new.tail /\ u.next = new.next /\ u.prev = new.prev
       /\ u.num_items = new.num_items /\ u.ideal_chain_maxlen = new.ideal_chain_maxlen
  BY <1>8, <1>12 DEF Memory
<1>15. /\ b \in Tables /\ b.buckets = d.buckets /\ b.noexpand = g
       /\ b.head = d.head /\ b.tail = d.tail /\ b.next = d.next /\ b.prev = d.prev
       /\ b.num_items = d.num_items /\ b.ideal_chain_maxlen = d.ideal_chain_maxlen
  BY <1>8, <1>13 DEF Tables
<1>16. Alike(u, b)
  BY <1>8, <1>14, <1>15 DEF Alike
<1>17. Threads(u, b)
  BY <1>7, <1>14, <1>15, <1>16, ThreadsSame
<1>18. Filed(b, P)
  BY <1>7, <1>15, FiledSame
<1>19. Expanded(a, b)
  <2>1. /\ Len(d.buckets) = m
        /\ d.head = a.head /\ d.tail = a.tail /\ d.next = a.next /\ d.prev = a.prev
        /\ d.num_items = a.num_items /\ d.ideal_chain_maxlen = c
        /\ \A i \in 1..Len(d.buckets) : Multiplied(d, i)
    BY <1>4, <1>7 DEF Moving
  <2> QED
    BY <1>4, <1>11, <1>15, <2>1 DEF Expanded, Multiplied
<1> QED
  BY <1>17, <1>18, <1>19

-----------------------------------------------------------------------------
(* Putting an element in its bucket: p has it in front of the chain, b is p *)
(* or, at the limit, p with twice the buckets.                              *)
LEMMA AddIs ==
  ASSUME HashAssumption, NEW t, NEW a, Threads(t, a), NEW P \in SUBSET Elems, Filed(a, P),
         Len(a.buckets) # 0, P # {} => a.num_items # 0, NEW e \in Elems \ P,
         NEW u, u = HASH_ADD_TO_BKT(t, e)
  PROVE  \E p, b : /\ PutIn(a, e, p) /\ Filed(p, P \cup {e}) /\ Grown(p, e, b)
                   /\ Filed(b, P \cup {e}) /\ Threads(u, b)
<1>1. PICK v : v = InFront(t, BktOf(e, t), e)
  OBVIOUS
<1>2. PICK p : Threads(v, p) /\ PutIn(a, e, p) /\ Filed(p, P \cup {e})
  BY <1>1, InFrontIs
<1>3. /\ BktOf(e, p) = BktOf(e, a) /\ BktOf(e, t) = BktOf(e, a) /\ p \in Tables /\ Len(p.buckets) # 0
      /\ BktOf(e, a) \in 1..Len(a.buckets) /\ Len(p.buckets) = Len(a.buckets) /\ a \in Tables
  BY <1>2, ThreadsBkt DEF PutIn, Threads
<1>4. PICK i \in 1..Len(a.buckets) : i = BktOf(e, a) /\ i = BktOf(e, t) /\ i = BktOf(e, p)
  BY <1>3
<1>5. /\ v.buckets[i].count = p.buckets[i].count
      /\ v.buckets[i].expand_mult = p.buckets[i].expand_mult
      /\ t.noexpand = p.noexpand
  <2>1. ThreadedAt(v, p, i)
    BY <1>2, <1>3, ThreadsIs
  <2>2. t.noexpand = a.noexpand /\ p.noexpand = a.noexpand
    BY <1>2 DEF Threads, Alike, PutIn
  <2> QED
    BY <2>1, <2>2 DEF ThreadedAt
<1>6. u = IF Full(p, e) THEN HASH_EXPAND_BUCKETS(v) ELSE v
  BY <1>1, <1>4, <1>5 DEF HASH_ADD_TO_BKT, Full, Limit
<1>7. CASE ~ Full(p, e)
  <2>1. Grown(p, e, p)
    BY <1>7 DEF Grown
  <2> QED
    BY <1>2, <1>6, <1>7, <2>1
<1>8. CASE Full(p, e)
  <2>2. p.buckets[i].count >= (p.buckets[i].expand_mult + 1) * Thresh
    BY <1>4, <1>8 DEF Full, Limit
  <2>3. FiledAt(a, P, i)
    BY DEF Filed
  <2>4. a.buckets[i] \in Buckets
    BY <1>3 DEF Tables
  <2>5. PICK c \in Seq(Elems), m \in Nat : c = a.buckets[i].chain /\ m = a.buckets[i].expand_mult
    BY <2>4 DEF Buckets
  <2>6. p.buckets[i].count = a.buckets[i].count + 1 /\ p.buckets[i].expand_mult = m
    BY <1>2, <1>4, <2>5 DEF PutIn
  <2>7. a.buckets[i].count = Len(c) /\ Image(c) \subseteq P
    BY <2>3, <2>5 DEF FiledAt
  <2>8. Len(c) + 1 >= (m + 1) * Thresh
    BY <2>2, <2>6, <2>7
  <2>9. Thresh \in Nat /\ Thresh >= 2
    BY DEF HashAssumption
  <2>10. (m + 1) * Thresh >= 2
    <3>1. (m + 1) * Thresh = m * Thresh + Thresh /\ m * Thresh >= 0
      BY <2>9
    <3> QED
      BY <2>9, <3>1
  <2>11. Len(c) >= 1
    <3>1. PICK l \in Nat, q \in Int : l = Len(c) /\ q = (m + 1) * Thresh
      BY <2>9
    <3> QED
      BY <2>8, <2>10, <3>1
  <2>12. 1 \in DOMAIN c
    BY <2>11
  <2>13. P # {}
    BY <2>7, <2>12 DEF Image
  <2>14. p.num_items # 0
    BY <1>2, <2>13 DEF PutIn
  <2>15. u = HASH_EXPAND_BUCKETS(v)
    BY <1>6, <1>8
  <2>16. P \cup {e} \in SUBSET Elems
    OBVIOUS
  <2>17. PICK b : Threads(u, b) /\ Expanded(p, b) /\ Filed(b, P \cup {e})
    <3>1. PICK Q \in SUBSET Elems : Q = P \cup {e}
      BY <2>16
    <3>2. Filed(p, Q)
      BY <1>2, <3>1
    <3>3. \E b : Threads(u, b) /\ Expanded(p, b) /\ Filed(b, Q)
      BY <1>2, <1>3, <2>14, <2>15, <3>2, ExpandIs
    <3> QED
      BY <3>1, <3>3
  <2>18. Grown(p, e, b)
    BY <1>8, <2>17 DEF Grown
  <2> QED
    BY <1>2, <2>17, <2>18
<1> QED
  BY <1>7, <1>8

-----------------------------------------------------------------------------
(* The counts add up to the number of elements. *)
Counts(t) == [i \in DOMAIN t.buckets |-> t.buckets[i].count]

LEMMA CountsAre ==
  ASSUME NEW t \in Tables
  PROVE  /\ Counts(t) \in Seq(Nat) /\ Len(Counts(t)) = Len(t.buckets) /\ Len(t.buckets) \in Nat
         /\ \A i \in 1..Len(t.buckets) : Counts(t)[i] = t.buckets[i].count /\ t.buckets[i] \in Buckets
<1>1. t.buckets \in Seq(Buckets)
  BY DEF Tables
<1>2. PICK n \in Nat : n = Len(t.buckets) /\ DOMAIN t.buckets = 1..n
  BY <1>1
<1>3. \A i \in 1..n : t.buckets[i] \in Buckets
  BY <1>1, <1>2
<1>4. Counts(t) = [i \in 1..n |-> t.buckets[i].count]
  BY <1>2 DEF Counts
<1>5. Counts(t) \in [1..n -> Nat]
  BY <1>3, <1>4 DEF Buckets
<1>6. Counts(t) \in Seq(Nat) /\ Len(Counts(t)) = n
  BY <1>5, SeqFrom
<1> QED
  BY <1>2, <1>3, <1>4, <1>6

LEMMA TotalCard ==
  ASSUME HashAssumption, NEW t \in Tables, NEW P \in SUBSET Elems, Filed(t, P),
         P # {} => Len(t.buckets) # 0
  PROVE  Total(Counts(t)) = Cardinality(P)
<1> DEFINE n == Len(t.buckets)
           upto(k) == {e \in P : BktOf(e, t) \in 1..k}
<1>1. PICK f \in Seq(Nat) : f = Counts(t)
  BY CountsAre
<1>2. /\ Len(f) = n /\ n \in Nat
      /\ \A i \in 1..n : f[i] = t.buckets[i].count /\ t.buckets[i] \in Buckets
  BY <1>1, CountsAre
<1>3. PICK F : /\ \A i \in 0..Len(f) : F[i] \in Nat
               /\ F[0] = 0 /\ \A i \in 1..Len(f) : F[i] = F[i - 1] + f[i]
               /\ Total(f) = F[Len(f)]
  BY TotalIs
<1>4. ASSUME NEW i \in 1..n
      PROVE  /\ IsFiniteSet({e \in P : BktOf(e, t) = i})
             /\ Cardinality({e \in P : BktOf(e, t) = i}) = f[i]
  <2>1. FiledAt(t, P, i)
    BY DEF Filed
  <2>2. PICK c \in Seq(Elems) : c = t.buckets[i].chain
    BY <1>2 DEF Buckets
  <2>3. Distinct(c) /\ Image(c) = {e \in P : BktOf(e, t) = i} /\ t.buckets[i].count = Len(c)
    BY <2>1, <2>2 DEF FiledAt
  <2>4. IsFiniteSet(Image(c)) /\ Cardinality(Image(c)) = Len(c)
    BY <2>3, DistinctCount
  <2> QED
    BY <1>2, <2>3, <2>4
<1> DEFINE T == {k \in 0..n : IsFiniteSet(upto(k)) /\ Cardinality(upto(k)) = F[k]}
<1> HIDE DEF n
<1>5. 0 \in T
  <2>1. 0 \in 0..n /\ upto(0) = {}
    BY <1>2
  <2>2. IsFiniteSet({}) /\ Cardinality({}) = 0
    BY FS_EmptySet
  <2> QED
    BY <1>3, <2>1, <2>2
<1>6. ASSUME NEW k \in 0..n - 1, k \in T PROVE k + 1 \in T
  <2>1. PICK i \in 1..n : i = k + 1 /\ k = i - 1 /\ k \in 0..n /\ i \in 0..n
    BY <1>2
  <2>2. PICK A : A = upto(k)
    OBVIOUS
  <2>3. PICK B : B = {e \in P : BktOf(e, t) = i}
    OBVIOUS
  <2>4. IsFiniteSet(A) /\ Cardinality(A) = F[k]
    BY <1>6, <2>2
  <2>5. IsFiniteSet(B) /\ Cardinality(B) = f[i]
    BY <1>4, <2>3
  <2>6. A \cap B = {}
    BY <2>1, <2>2, <2>3
  <2>7. A \cup B = upto(i)
    <3>1. \A x : x \in 1..i <=> x \in 1..k \/ x = i
      BY <2>1
    <3> QED
      BY <2>2, <2>3, <3>1
  <2>8. IsFiniteSet({}) /\ Cardinality({}) = 0
    BY FS_EmptySet
  <2>9. /\ IsFiniteSet(A \cup B)
        /\ Cardinality(A \cup B) = Cardinality(A) + Cardinality(B) - Cardinality(A \cap B)
    BY <2>4, <2>5, FS_Union
  <2>10. F[i] = F[k] + f[i] /\ F[k] \in Nat /\ f[i] \in Nat
    BY <1>2, <1>3, <2>1
  <2>11. Cardinality(A \cup B) = F[i]
    <3>1. Cardinality(A \cap B) = 0
      BY <2>6, <2>8
    <3>2. PICK x \in Nat, y \in Nat : x = F[k] /\ y = f[i]
      BY <2>10
    <3>3. Cardinality(A \cup B) = x + y - 0
      BY <2>4, <2>5, <2>9, <3>1, <3>2
    <3> QED
      BY <2>10, <3>2, <3>3
  <2> QED
    BY <2>1, <2>7, <2>9, <2>11
<1>7. n \in T
  <2> HIDE DEF T
  <2>1. \A k \in 0..n : k \in T
    BY <1>2, <1>5, <1>6, UpTo
  <2> QED
    BY <1>2, <2>1
<1>8. upto(n) = P
  <2>1. ASSUME NEW e \in P PROVE BktOf(e, t) \in 1..n
    <3>1. Len(t.buckets) \in Nat \ {0} /\ e \in Elems
      BY <1>2 DEF n
    <3> QED
      BY <3>1, BktIs DEF n
  <2> QED
    BY <2>1
<1> QED
  BY <1>1, <1>2, <1>3, <1>7, <1>8

(* A table of the elements of s, in that order. *)
LEMMA LinkedSame ==
  ASSUME NEW t, NEW s, Linked(t, s),
         NEW u, u.head = t.head, u.next = t.next, u.prev = t.prev
  PROVE  Linked(u, s)
BY DEF Linked

NoChains == [head |-> NULL, tail |-> NULL,
             next |-> [e \in Elems |-> NULL], prev |-> [e \in Elems |-> NULL],
             buckets |-> << >>, num_items |-> 0, ideal_chain_maxlen |-> 0,
             ineff_expands |-> 0, noexpand |-> 0]

MakeChains(e) == [NoChains EXCEPT !.head = e, !.tail = e,
                                  !.buckets = [i \in 1..InitialBuckets |-> EmptyChain]]

LEMMA NoneThreads ==
  ASSUME HashAssumption
  PROVE  Threads(NoTable, NoChains) /\ NoTable \in Memory /\ NoTable.buckets = << >>
<1>1. PICK none : none = [x \in Elems |-> NULL]
  OBVIOUS
<1>2. none \in Pointers /\ none \in [Elems -> Elems \cup {NULL}]
  BY <1>1 DEF Pointers
<1>3. PICK t, a : t = NoTable /\ a = NoChains
  OBVIOUS
<1>4. t = [head |-> NULL, tail |-> NULL, next |-> none, prev |-> none,
           hh_next |-> none, hh_prev |-> none, buckets |-> << >>, num_items |-> 0,
           ideal_chain_maxlen |-> 0, nonideal_items |-> 0, ineff_expands |-> 0, noexpand |-> 0]
  BY <1>1, <1>3 DEF NoTable
<1>5. a = [head |-> NULL, tail |-> NULL, next |-> none, prev |-> none, buckets |-> << >>,
           num_items |-> 0, ideal_chain_maxlen |-> 0, ineff_expands |-> 0, noexpand |-> 0]
  BY <1>1, <1>3 DEF NoChains
<1>6. << >> \in Seq(Heads) /\ << >> \in Seq(Buckets) /\ Len(<< >>) = 0 /\ 1..0 = {} /\ 0 \in Nat
  OBVIOUS
<1>7. t \in Memory /\ t.buckets = << >>
  BY <1>2, <1>4, <1>6 DEF Memory
<1>8. a \in Tables /\ a.buckets = << >>
  BY <1>2, <1>5, <1>6 DEF Tables
<1>9. Alike(t, a)
  BY <1>4, <1>5 DEF Alike
<1>10. Threads(t, a)
  BY <1>6, <1>7, <1>8, <1>9 DEF Threads
<1> QED
  BY <1>3, <1>7, <1>10

LEMMA MakeThreads ==
  ASSUME HashAssumption, NEW e \in Elems, MakeChains(e) \in Tables
  PROVE  Threads(HASH_MAKE_TABLE(e), MakeChains(e))
<1>1. PICK t, a, o, n : /\ t = HASH_MAKE_TABLE(e) /\ a = MakeChains(e)
                        /\ o = NoTable /\ n = NoChains
  OBVIOUS
<1>2. o \in Memory /\ n \in Tables /\ Alike(o, n)
  BY <1>1, NoneThreads DEF Threads
<1>3. PICK m \in Nat : m = InitialBuckets
  BY DEF HashAssumption
<1>4. PICK hs, gs : hs = [i \in 1..m |-> EmptyBucket] /\ gs = [i \in 1..m |-> EmptyChain]
  OBVIOUS
<1>5. /\ hs \in Seq(Heads) /\ gs \in Seq(Buckets) /\ Len(hs) = m /\ Len(gs) = m
      /\ \A i \in 1..m : hs[i] = EmptyBucket /\ gs[i] = EmptyChain
  <2>1. hs \in [1..m -> Heads] /\ gs \in [1..m -> Buckets]
    BY <1>4, NoChain
  <2>2. \A i \in 1..m : hs[i] = EmptyBucket /\ gs[i] = EmptyChain
    BY <1>4
  <2> QED
    BY <2>1, <2>2, SeqFrom
<1>6. /\ t = [o EXCEPT !.head = e, !.tail = e, !.buckets = hs]
      /\ a = [n EXCEPT !.head = e, !.tail = e, !.buckets = gs]
  BY <1>1, <1>3, <1>4 DEF HASH_MAKE_TABLE, MakeChains
<1>7. t \in Memory /\ t.buckets = hs
  BY <1>2, <1>5, <1>6 DEF Memory
<1>8. a \in Tables /\ a.buckets = gs
  BY <1>2, <1>5, <1>6 DEF Tables
<1>9. Alike(t, a)
  BY <1>2, <1>6 DEF Alike, Memory, Tables
<1>10. /\ Len(t.buckets) = m /\ Len(a.buckets) = m
       /\ \A i \in 1..m : t.buckets[i] = EmptyBucket /\ a.buckets[i] = EmptyChain
  BY <1>5, <1>7, <1>8
<1>11. Threads(t, a)
  BY <1>7, <1>8, <1>9, <1>10, EmptyThreads
<1> QED
  BY <1>1, <1>11

Sound(t, s) ==
  /\ t \in Tables /\ Linked(t, s) /\ Filed(t, Image(s)) /\ t.num_items = Len(s)
  /\ s = << >> => t = NoChains
  /\ s # << >> => Len(t.buckets) # 0

LEMMA FsckIs ==
  ASSUME HashAssumption, NEW t, NEW a, Threads(t, a), NEW s, Sound(a, s)
  PROVE  HASH_FSCK(t) /\ AppOrder(t) = s /\ InTable(t) = Image(s)
<1> DEFINE chain == [i \in DOMAIN t.buckets |-> ChainOf(t, i)]
           lens == [i \in DOMAIN chain |-> Len(chain[i])]
<1>0. t \in Memory /\ a \in Tables /\ Alike(t, a)
  BY ThreadsIs
<1>1. Linked(t, s)
  BY <1>0, LinkedSame DEF Sound, Alike
<1>2. AppOrder(t) = s /\ InTable(t) = Image(s)
  BY <1>1, OrderIs
<1>3. s \in Seq(Elems) /\ Distinct(s) /\ t.prev = Links(s, -1)
  BY <1>1 DEF Linked
<1>4. PICK P \in SUBSET Elems : P = Image(s)
  <2>1. Image(s) \subseteq Elems
    BY <1>3, ImageIn
  <2> QED
    BY <2>1
<1>5. Filed(a, P)
  BY <1>4 DEF Sound
<1>6. PICK n \in Nat : /\ n = Len(a.buckets) /\ n = Len(t.buckets)
                       /\ a.buckets \in [1..n -> Buckets] /\ t.buckets \in [1..n -> Heads]
  BY ThreadsIs
<1>7. DOMAIN chain = 1..n /\ DOMAIN t.buckets = 1..n /\ DOMAIN a.buckets = 1..n
  BY <1>6
<1>8. ASSUME NEW i \in 1..n
      PROVE  /\ chain[i] = a.buckets[i].chain
             /\ LeadsBack(chain[i], t.hh_prev) /\ t.buckets[i].count = Len(chain[i])
             /\ Len(chain[i]) = a.buckets[i].count
  <2>1. ChainOf(t, i) = a.buckets[i].chain
    BY <1>5, <1>6, ChainIs
  <2>2. chain[i] = a.buckets[i].chain
    BY <1>7, <2>1
  <2> HIDE DEF chain
  <2>3. ThreadedAt(t, a, i) /\ FiledAt(a, P, i)
    BY <1>5, <1>6, ThreadsIs DEF Filed
  <2>4. PICK c \in Seq(Elems) : c = chain[i]
    BY <1>6, <2>2 DEF Buckets
  <2>5. LeadsBack(c, t.hh_prev)
    <3>1. DOMAIN c = 1..Len(c)
      OBVIOUS
    <3>2. \A k \in 1..Len(c) : t.hh_prev[c[k]] = IF k = 1 THEN NULL ELSE c[k - 1]
      BY <2>2, <2>3, <2>4 DEF ThreadedAt, Chained
    <3> QED
      BY <3>1, <3>2 DEF LeadsBack
  <2> QED
    BY <2>2, <2>3, <2>4, <2>5 DEF ThreadedAt, FiledAt
<1>9. Total(lens) = t.num_items
  <2>1. Cardinality(P) = Len(s)
    BY <1>3, <1>4, DistinctCount
  <2>2. P # {} => Len(a.buckets) # 0
    <3>1. s = << >> => Image(s) = {}
      BY DEF Image
    <3> QED
      BY <1>4, <3>1 DEF Sound
  <2>3. Total(Counts(a)) = Cardinality(P)
    BY <1>0, <1>5, <2>2, TotalCard
  <2>4. lens = Counts(a)
    <3>1. Counts(a) = [i \in 1..n |-> a.buckets[i].count]
      BY <1>7 DEF Counts
    <3>2. lens = [i \in 1..n |-> Len(chain[i])]
      BY <1>7
    <3> HIDE DEF lens, chain
    <3> QED
      BY <1>8, <3>1, <3>2
  <2>5. t.num_items = Len(s)
    BY <1>0 DEF Alike, Sound
  <2> QED
    BY <2>1, <2>3, <2>4, <2>5
<1>10. Len(s) = t.num_items
  BY <1>0 DEF Alike, Sound
<1>11. LeadsBack(s, t.prev)
  <2>1. PICK d \in Int : d = -1
    OBVIOUS
  <2>2. \A i \in 1..Len(s) : t.prev[s[i]] = IF i + d \in 1..Len(s) THEN s[i + d] ELSE NULL
    BY <1>3, <2>1, LinksIs
  <2>3. \A i \in 1..Len(s) : (i + d \in 1..Len(s) <=> i # 1) /\ i + d = i - 1
    BY <1>3, <2>1
  <2>4. DOMAIN s = 1..Len(s)
    BY <1>3
  <2> QED
    BY <2>2, <2>3, <2>4 DEF LeadsBack
<1>12. HASH_FSCK(t)
  <2>1. \A i \in DOMAIN chain : /\ LeadsBack(chain[i], t.hh_prev)
                                /\ t.buckets[i].count = Len(chain[i])
    <3> HIDE DEF chain
    <3> QED
      BY <1>7, <1>8
  <2> QED
    BY <1>2, <1>9, <1>10, <1>11, <2>1 DEF HASH_FSCK
<1> QED
  BY <1>2, <1>12

-----------------------------------------------------------------------------
(* Why chains stay within their limits: a bucket is allowed one limit more  *)
(* for each ideal length its chain had at the last doubling, and those      *)
(* allowances are together no more than the buckets.  So the elements are   *)
(* at most two limits to a bucket when the next doubling comes, the new     *)
(* ideal is at most one limit, and that is what the next allowances count.  *)
Allowed(b) == IF b.expand_mult = 0 /\ b.count >= Thresh THEN 1 ELSE b.expand_mult

Allowances(t) == [i \in DOMAIN t.buckets |-> Allowed(t.buckets[i])]

Within(t, b) ==
  b.count < Limit(b) \/ (b.expand_mult = 0 /\ b.count <= t.ideal_chain_maxlen)

Bounded(t) ==
  t.noexpand = 0 =>
    /\ t.ideal_chain_maxlen <= Thresh
    /\ \A i \in 1..Len(t.buckets) : Within(t, t.buckets[i])
    /\ Total(Allowances(t)) <= Len(t.buckets)

LEMMA AllowancesAre ==
  ASSUME NEW t \in Tables
  PROVE  /\ Allowances(t) \in Seq(Nat) /\ Len(Allowances(t)) = Len(t.buckets)
         /\ Len(t.buckets) \in Nat
         /\ \A i \in 1..Len(t.buckets) : /\ Allowances(t)[i] = Allowed(t.buckets[i])
                                         /\ t.buckets[i] \in Buckets
<1>1. t.buckets \in Seq(Buckets)
  BY DEF Tables
<1>2. PICK n \in Nat : n = Len(t.buckets) /\ DOMAIN t.buckets = 1..n
  BY <1>1
<1>3. \A i \in 1..n : t.buckets[i] \in Buckets
  BY <1>1, <1>2
<1>4. Allowances(t) = [i \in 1..n |-> Allowed(t.buckets[i])]
  BY <1>2 DEF Allowances
<1>5. \A b \in Buckets : Allowed(b) \in Nat
  BY DEF Buckets, Allowed
<1>6. Allowances(t) \in [1..n -> Nat]
  BY <1>3, <1>4, <1>5
<1>7. Allowances(t) \in Seq(Nat) /\ Len(Allowances(t)) = n
  BY <1>6, SeqFrom
<1> QED
  BY <1>2, <1>3, <1>4, <1>7

(* Fewer in a bucket, or as many as are under its limit, change nothing. *)
LEMMA BoundedLess ==
  ASSUME HashAssumption, NEW t \in Tables, Bounded(t), NEW u \in Tables,
         Len(u.buckets) = Len(t.buckets), u.noexpand = t.noexpand,
         u.ideal_chain_maxlen = t.ideal_chain_maxlen,
         \A i \in 1..Len(t.buckets) :
           /\ u.buckets[i].expand_mult = t.buckets[i].expand_mult
           /\ \/ u.buckets[i].count <= t.buckets[i].count
              \/ u.buckets[i].count < Limit(u.buckets[i])
  PROVE  Bounded(u)
<1>1. SUFFICES ASSUME t.noexpand = 0 PROVE Bounded(u)
  BY DEF Bounded
<1>2. PICK n \in Nat : n = Len(t.buckets) /\ n = Len(u.buckets)
  BY AllowancesAre
<1>3. Thresh \in Nat /\ Thresh >= 2
  BY DEF HashAssumption
<1>4. ASSUME NEW i \in 1..n
      PROVE  /\ Within(u, u.buckets[i])
             /\ Allowed(u.buckets[i]) <= Allowed(t.buckets[i])
  <2>1. PICK b \in Buckets, c \in Buckets : b = t.buckets[i] /\ c = u.buckets[i]
    BY <1>2, AllowancesAre
  <2>2. PICK m \in Nat, x \in Nat, y \in Nat : /\ m = b.expand_mult /\ m = c.expand_mult
                                               /\ x = b.count /\ y = c.count
    BY <1>2, <2>1 DEF Buckets
  <2>3. PICK l \in Nat, q \in Nat : l = (m + 1) * Thresh /\ q = t.ideal_chain_maxlen
    <3>1. t.ideal_chain_maxlen \in Nat
      BY DEF Tables
    <3>2. (m + 1) * Thresh \in Nat
      BY <1>3
    <3> QED
      BY <3>1, <3>2
  <2>4. y <= x \/ y < l
    BY <1>2, <2>1, <2>2, <2>3 DEF Limit
  <2>5. x < l \/ (m = 0 /\ x <= q)
    BY <1>1, <1>2, <2>1, <2>2, <2>3 DEF Bounded, Within, Limit
  <2>6. y < l \/ (m = 0 /\ y <= q)
    BY <2>4, <2>5
  <2>7. Within(u, u.buckets[i])
    BY <2>1, <2>2, <2>3, <2>6 DEF Within, Limit
  <2>8. m = 0 => l = Thresh
    BY <1>3, <2>3
  <2>9. Allowed(c) <= Allowed(b)
    BY <1>3, <2>2, <2>4, <2>8 DEF Allowed
  <2> QED
    BY <2>1, <2>7, <2>9
<1>5. Total(Allowances(u)) <= n
  <2>1. PICK f \in Seq(Nat), g \in Seq(Nat) : f = Allowances(u) /\ g = Allowances(t)
    BY AllowancesAre
  <2>2. /\ Len(f) = n /\ Len(g) = n
        /\ \A i \in 1..n : f[i] = Allowed(u.buckets[i]) /\ g[i] = Allowed(t.buckets[i])
    BY <1>2, <2>1, AllowancesAre
  <2>3. PICK a \in Nat, c \in Nat : a = 1 /\ c = 0
    OBVIOUS
  <2>4. \A i \in 1..Len(f) : f[i] * a <= a * (g[i] + c)
    <3>1. ASSUME NEW i \in 1..n PROVE f[i] * a <= a * (g[i] + c)
      <4>1. f[i] \in Nat /\ g[i] \in Nat /\ f[i] <= g[i]
        BY <1>4, <2>2
      <4> QED
        BY <2>3, <4>1
    <3> QED
      BY <2>2, <3>1
  <2>5. Len(f) = Len(g)
    BY <2>2
  <2>6. Total(f) \in Nat /\ Total(g) \in Nat /\ Total(f) * a <= a * (Total(g) + c * Len(f))
    BY <2>4, <2>5, TotalBound
  <2>7. Total(f) <= Total(g)
    BY <2>2, <2>3, <2>6
  <2>8. Total(g) <= n
    BY <1>1, <1>2, <2>1 DEF Bounded
  <2> QED
    BY <2>1, <2>6, <2>7, <2>8
<1>6. u.ideal_chain_maxlen <= Thresh
  BY <1>1 DEF Bounded
<1> QED
  BY <1>2, <1>4, <1>5, <1>6 DEF Bounded

(* The product with a positive factor. *)
LEMMA Cancel ==
  ASSUME NEW a \in Int, NEW b \in Int, NEW k \in Nat \ {0}
  PROVE  (a * k <= b * k => a <= b) /\ (a * k < b * k => a < b)
<1>1. CASE a >= b
  <2>1. PICK d \in Nat : d = a - b
    BY <1>1
  <2>2. a * k = b * k + d * k
    BY <2>1
  <2>3. d # 0 => d * k >= 1
    <3>1. CASE d # 0
      <4>1. d * k >= k
        BY <3>1
      <4> QED
        BY <4>1
    <3> QED
      BY <3>1
  <2>4. d * k >= 0
    OBVIOUS
  <2>5. PICK x \in Int, y \in Int, z \in Int : x = a * k /\ y = b * k /\ z = d * k
    OBVIOUS
  <2> QED
    BY <2>1, <2>2, <2>3, <2>4, <2>5
<1> QED
  BY <1>1

(* The doubling: p, which is t and one element more, becomes u. *)
LEMMA BoundedGrown ==
  ASSUME HashAssumption, NEW t \in Tables, Bounded(t), NEW e \in Elems, NEW p, PutIn(t, e, p),
         NEW P \in SUBSET Elems, Filed(p, P), Len(t.buckets) # 0, p.num_items = Cardinality(P),
         NEW u, Expanded(p, u), Filed(u, P)
  PROVE  Bounded(u)
<1>1. SUFFICES ASSUME u.noexpand = 0 PROVE Bounded(u)
  BY DEF Bounded
<1>2. p \in Tables /\ u \in Tables /\ t.noexpand = 0
  BY <1>1 DEF PutIn, Expanded
<1>3. PICK n \in Nat \ {0}, m \in Nat \ {0} : /\ n = Len(t.buckets) /\ n = Len(p.buckets)
                                              /\ m = Len(u.buckets) /\ m = 2 * n
  <2>1. Len(t.buckets) \in Nat \ {0}
    BY AllowancesAre
  <2>2. Len(p.buckets) = Len(t.buckets)
    BY DEF PutIn
  <2>3. Len(u.buckets) = 2 * Len(p.buckets)
    BY DEF Expanded
  <2> QED
    BY <2>1, <2>2, <2>3
<1>4. PICK T \in Nat \ {0, 1} : T = Thresh
  BY DEF HashAssumption
<1>5. PICK N \in Nat, c \in Nat \ {0} :
        /\ N = p.num_items /\ c = u.ideal_chain_maxlen
        /\ N <= m * c /\ (c - 1) * m < N
  <2>1. p.num_items \in Nat
    BY <1>2 DEF Tables
  <2>2. u.ideal_chain_maxlen \in Nat
    BY <1>2 DEF Tables
  <2>3. /\ u.ideal_chain_maxlen # 0
        /\ p.num_items <= Len(u.buckets) * u.ideal_chain_maxlen
        /\ (u.ideal_chain_maxlen - 1) * Len(u.buckets) < p.num_items
    BY DEF Expanded
  <2> QED
    BY <1>3, <2>1, <2>2, <2>3
<1>6. Total(Counts(p)) = N /\ Total(Counts(u)) = N
  <2>1. Len(p.buckets) # 0 /\ Len(u.buckets) # 0
    BY <1>3
  <2> QED
    BY <1>2, <1>5, <2>1, TotalCard
(* Before: no bucket has more than a limit more than it is allowed. *)
<1>7. ASSUME NEW i \in 1..n
      PROVE  Counts(p)[i] * 1 <= T * (Allowances(t)[i] + 1)
  <2>1. PICK b \in Buckets, d \in Buckets : b = t.buckets[i] /\ d = p.buckets[i]
    BY <1>2, <1>3, AllowancesAre
  <2>2. PICK k \in Nat, x \in Nat, y \in Nat : /\ k = b.expand_mult /\ k = d.expand_mult
                                               /\ x = b.count /\ y = d.count
                                               /\ y <= x + 1
    <3>1. b.expand_mult \in Nat /\ b.count \in Nat /\ d.count \in Nat
      BY DEF Buckets
    <3>2. d.expand_mult = b.expand_mult /\ d.count <= b.count + 1
      BY <1>3, <2>1, <3>1, SMTT(30) DEF PutIn
    <3> QED
      BY <3>1, <3>2
  <2>3. PICK l \in Nat, q \in Nat : l = (k + 1) * T /\ q = t.ideal_chain_maxlen /\ q <= T
    <3>1. t.ideal_chain_maxlen \in Nat
      BY DEF Tables
    <3>2. (k + 1) * T \in Nat
      OBVIOUS
    <3>3. t.ideal_chain_maxlen <= T
      BY <1>2, <1>4 DEF Bounded
    <3> QED
      BY <3>1, <3>2, <3>3
  <2>4. x < l \/ (k = 0 /\ x <= q)
    <3>1. Within(t, t.buckets[i])
      BY <1>2, <1>3 DEF Bounded
    <3> QED
      BY <1>4, <2>1, <2>2, <2>3, <3>1 DEF Within, Limit
  <2>5. Counts(p)[i] = y /\ Allowances(t)[i] = IF k = 0 /\ x >= T THEN 1 ELSE k
    <3>1. Counts(p)[i] = p.buckets[i].count
      BY <1>2, <1>3, CountsAre
    <3>2. Allowances(t)[i] = Allowed(t.buckets[i])
      BY <1>3, AllowancesAre
    <3> QED
      BY <1>4, <2>1, <2>2, <3>1, <3>2 DEF Allowed
  <2>6. l = T * (k + 1)
    BY <2>3
  <2>7. CASE k = 0
    <3>1. l = T
      BY <2>3, <2>7
    <3>2. CASE x >= T
      BY <2>2, <2>3, <2>4, <2>5, <2>7, <3>1, <3>2
    <3>3. CASE x < T
      BY <2>2, <2>3, <2>4, <2>5, <2>7, <3>1, <3>3
    <3> QED
      BY <3>2, <3>3
  <2>8. CASE k # 0
    <3>1. x + 1 <= l /\ y <= l
      BY <2>2, <2>3, <2>4, <2>8
    <3> QED
      BY <2>5, <2>6, <2>8, <3>1
  <2> QED
    BY <2>7, <2>8
<1>8. c <= T
  <2>1. PICK f \in Seq(Nat), g \in Seq(Nat) : f = Counts(p) /\ g = Allowances(t)
    BY <1>2, AllowancesAre, CountsAre
  <2>2. Len(f) = n /\ Len(g) = n
    BY <1>2, <1>3, <2>1, AllowancesAre, CountsAre
  <2>3. \A i \in 1..Len(f) : f[i] * 1 <= T * (g[i] + 1)
    BY <1>7, <2>1, <2>2
  <2>4. PICK one \in Nat : one = 1
    OBVIOUS
  <2>5. \A i \in 1..Len(f) : f[i] * one <= T * (g[i] + one)
    BY <2>3, <2>4
  <2>6. Len(f) = Len(g)
    BY <2>2
  <2>7. Total(f) \in Nat /\ Total(g) \in Nat /\ Total(f) * one <= T * (Total(g) + one * Len(f))
    BY <2>5, <2>6, TotalBound
  <2>8. PICK G \in Nat : G = Total(g) /\ G <= n
    <3>1. Total(Allowances(t)) <= Len(t.buckets)
      BY <1>2 DEF Bounded
    <3> QED
      BY <1>3, <2>1, <2>7, <3>1
  <2>9. N <= T * (G + n)
    BY <1>6, <2>1, <2>2, <2>4, <2>7, <2>8
  <2>10. T * (G + n) <= T * m
    <3>1. PICK d \in Nat : d = n - G
      BY <2>8
    <3>2. T * m = T * (G + n) + T * d /\ T * d >= 0
      BY <1>3, <3>1
    <3> QED
      BY <3>2
  <2>11. (c - 1) * m < T * m
    <3>1. PICK x \in Int, y \in Int, z \in Int : x = (c - 1) * m /\ y = T * (G + n) /\ z = T * m
      OBVIOUS
    <3>2. x < N
      BY <1>5, <3>1
    <3>3. N <= y
      BY <2>9, <3>1
    <3>4. y <= z
      BY <2>10, <3>1
    <3>5. x < z
      BY <3>2, <3>3, <3>4
    <3> QED
      BY <3>1, <3>5
  <2>12. c - 1 < T
    <3>1. PICK x \in Int : x = c - 1
      OBVIOUS
    <3>2. x * m < T * m
      BY <2>11, <3>1
    <3>3. x < T
      BY <3>2, Cancel
    <3> QED
      BY <3>1, <3>3
  <2> QED
    BY <2>12
(* Afterwards: an allowance is an ideal length that the chain does have. *)
<1>9. ASSUME NEW i \in 1..m
      PROVE  Within(u, u.buckets[i]) /\ Allowances(u)[i] * c <= 1 * (Counts(u)[i] + 0)
  <2>1. PICK b \in Buckets : b = u.buckets[i]
    BY <1>2, <1>3, AllowancesAre
  <2>2. PICK k \in Nat, x \in Nat : k = b.expand_mult /\ x = b.count
    BY DEF Buckets
  <2>3. k = IF x > c THEN x \div c ELSE 0
    BY <1>3, <1>5, <2>1, <2>2 DEF Expanded
  <2>4. Counts(u)[i] = x /\ Allowances(u)[i] = IF k = 0 /\ x >= T THEN 1 ELSE k
    <3>1. Counts(u)[i] = u.buckets[i].count
      BY <1>2, <1>3, CountsAre
    <3>2. Allowances(u)[i] = Allowed(u.buckets[i])
      BY <1>2, <1>3, AllowancesAre
    <3> QED
      BY <1>4, <2>1, <2>2, <3>1, <3>2 DEF Allowed
  <2>5. CASE x > c
    <3>1. PICK q \in Nat, r \in 0..c - 1 : q = x \div c /\ r = x % c /\ x = c * q + r
      BY ModIs
    <3>2. k = q
      BY <2>3, <2>5, <3>1
    <3>3. q # 0
      BY <2>5, <3>1
    <3>4. Allowances(u)[i] = q
      BY <2>4, <3>2, <3>3
    <3>5. q * c = c * q /\ q * c <= x
      BY <3>1
    <3>6. x < (q + 1) * T
      <4>1. (q + 1) * T = (q + 1) * c + (q + 1) * (T - c)
        OBVIOUS
      <4>2. (q + 1) * (T - c) >= 0
        BY <1>8
      <4>3. (q + 1) * c = c * q + c
        OBVIOUS
      <4> QED
        BY <3>1, <4>1, <4>2, <4>3
    <3>7. Within(u, u.buckets[i])
      BY <1>4, <2>1, <2>2, <3>2, <3>6 DEF Within, Limit
    <3> QED
      BY <2>4, <3>4, <3>5, <3>7
  <2>6. CASE x <= c
    <3>1. k = 0
      BY <2>3, <2>6
    <3>2. Within(u, u.buckets[i])
      BY <1>5, <2>1, <2>2, <2>6, <3>1 DEF Within
    <3>3. Allowances(u)[i] = IF x >= T THEN 1 ELSE 0
      BY <2>4, <3>1
    <3>4. x >= T => x >= c
      BY <1>8
    <3> QED
      BY <2>4, <3>2, <3>3, <3>4
  <2> QED
    BY <2>5, <2>6
<1>10. Total(Allowances(u)) <= m
  <2>1. PICK f \in Seq(Nat), g \in Seq(Nat) : f = Allowances(u) /\ g = Counts(u)
    BY <1>2, AllowancesAre, CountsAre
  <2>2. Len(f) = m /\ Len(g) = m
    BY <1>2, <1>3, <2>1, AllowancesAre, CountsAre
  <2>3. PICK one \in Nat, zero \in Nat : one = 1 /\ zero = 0
    OBVIOUS
  <2>4. \A i \in 1..Len(f) : f[i] * c <= one * (g[i] + zero)
    BY <1>9, <2>1, <2>2, <2>3
  <2>5. Len(f) = Len(g)
    BY <2>2
  <2>6. Total(f) \in Nat /\ Total(g) \in Nat /\ Total(f) * c <= one * (Total(g) + zero * Len(f))
    BY <2>4, <2>5, TotalBound
  <2>7. PICK F \in Nat : F = Total(f)
    BY <2>6
  <2>8. F * c <= N
    BY <1>6, <2>1, <2>2, <2>3, <2>6, <2>7
  <2>9. F * c <= m * c
    <3>1. PICK x \in Int, y \in Int : x = F * c /\ y = m * c
      OBVIOUS
    <3> QED
      BY <1>5, <2>8, <3>1, SMTT(30)
  <2>10. F <= m
    BY <2>9, Cancel
  <2> QED
    BY <2>1, <2>7, <2>10
<1> QED
  BY <1>3, <1>4, <1>5, <1>8, <1>9, <1>10 DEF Bounded

-----------------------------------------------------------------------------
(* A new table, and the element that is put at the end of the order.       *)
LEMMA MakeTable ==
  ASSUME HashAssumption, NEW e \in Elems, NEW v, v = MakeChains(e)
  PROVE  /\ v \in Tables /\ Linked(v, <<e>>) /\ Filed(v, {}) /\ Bounded(v)
         /\ Len(v.buckets) = InitialBuckets /\ Len(v.buckets) # 0
         /\ v.num_items = 0 /\ v.tail = e
         /\ \A i \in 1..Len(v.buckets) : v.buckets[i] = EmptyChain
<1>1. InitialBuckets \in Nat \ {0} /\ Thresh \in Nat /\ Thresh >= 2
  BY DEF HashAssumption
<1>2. PICK bs : bs = [i \in 1..InitialBuckets |-> EmptyChain]
  OBVIOUS
<1>3. EmptyChain \in Buckets
  <2>1. << >> \in Seq(Elems) /\ 0 \in Nat
    OBVIOUS
  <2> QED
    BY <2>1 DEF EmptyChain, Buckets
<1>4. bs \in Seq(Buckets) /\ Len(bs) = InitialBuckets
  <2>1. bs \in [1..InitialBuckets -> Buckets]
    BY <1>2, <1>3
  <2>2. InitialBuckets \in Nat
    BY <1>1
  <2> QED
    BY <2>1, <2>2, SeqFrom
<1>5. PICK none : none = [x \in Elems |-> NULL]
  OBVIOUS
<1>6. v = [head |-> e, tail |-> e, next |-> none, prev |-> none, buckets |-> bs, num_items |-> 0,
           ideal_chain_maxlen |-> 0, ineff_expands |-> 0, noexpand |-> 0]
  BY <1>2, <1>5 DEF MakeChains, NoChains
<1>7. none \in [Elems -> Elems \cup {NULL}]
  BY <1>5
<1>8. v \in Tables
  BY <1>4, <1>6, <1>7 DEF Tables
<1>9. /\ v.head = e /\ v.tail = e /\ v.next = none /\ v.prev = none /\ v.buckets = bs
      /\ v.num_items = 0 /\ v.ideal_chain_maxlen = 0 /\ v.noexpand = 0
  BY <1>6
<1>10. Linked(v, <<e>>)
  BY <1>5, <1>9, LinkedFirst
<1>11. \A i \in 1..Len(v.buckets) : v.buckets[i] = EmptyChain
  BY <1>2, <1>4, <1>9
<1>12. EmptyChain.chain = << >> /\ EmptyChain.count = 0 /\ EmptyChain.expand_mult = 0
  BY DEF EmptyChain
<1>13. Distinct(<< >>) /\ Image(<< >>) = {} /\ Len(<< >>) = 0
  BY DEF Distinct, Image
<1>14. Filed(v, {})
  <2>1. ASSUME NEW i \in 1..Len(v.buckets) PROVE FiledAt(v, {}, i)
    <3>1. v.buckets[i].chain = << >> /\ v.buckets[i].count = 0
      BY <1>11, <1>12
    <3>2. {x \in {} : BktOf(x, v) = i} = {}
      OBVIOUS
    <3> QED
      BY <1>13, <3>1, <3>2 DEF FiledAt
  <2> QED
    BY <2>1 DEF Filed
<1>15. Bounded(v)
  <2>1. PICK f \in Seq(Nat) : f = Allowances(v)
    BY <1>8, AllowancesAre
  <2>2. Len(f) = InitialBuckets /\ \A i \in 1..InitialBuckets : f[i] = Allowed(EmptyChain)
    BY <1>4, <1>8, <1>9, <1>11, <2>1, AllowancesAre
  <2>3. Allowed(EmptyChain) = 0
    BY <1>1, <1>12 DEF Allowed
  <2>4. PICK one \in Nat, zero \in Nat : one = 1 /\ zero = 0
    OBVIOUS
  <2>5. \A i \in 1..Len(f) : f[i] * one <= zero * (f[i] + zero)
    BY <2>2, <2>3, <2>4
  <2>6. Total(f) \in Nat /\ Total(f) * one <= zero * (Total(f) + zero * Len(f))
    <3>1. Len(f) = Len(f)
      OBVIOUS
    <3> QED
      BY <2>5, <3>1, TotalBound
  <2>7. Total(f) <= 0
    BY <2>2, <2>4, <2>6
  <2>8. ASSUME NEW i \in 1..Len(v.buckets) PROVE Within(v, v.buckets[i])
    BY <1>9, <1>11, <1>12 DEF Within
  <2> QED
    BY <1>1, <1>4, <1>9, <2>1, <2>6, <2>7, <2>8 DEF Bounded
<1> QED
  BY <1>1, <1>4, <1>8, <1>9, <1>10, <1>11, <1>14, <1>15

(* What putting e in its bucket keeps, when the order has it already. *)
LEMMA AddSound ==
  ASSUME HashAssumption, NEW w, NEW v, Threads(w, v), NEW s \in Seq(Elems), NEW e \in Elems \ Image(s),
         Linked(v, Append(s, e)), Filed(v, Image(s)), Len(v.buckets) # 0,
         s # << >> => v.num_items # 0
  PROVE  \E u : /\ Threads(HASH_ADD_TO_BKT(w, e), u)
                /\ u \in Tables /\ Linked(u, Append(s, e)) /\ Filed(u, Image(Append(s, e)))
                /\ Len(u.buckets) # 0 /\ u.num_items = v.num_items /\ u.tail = v.tail
                /\ \E p : /\ PutIn(v, e, p) /\ Filed(p, Image(Append(s, e))) /\ Grown(p, e, u)
<1>1. PICK P \in SUBSET Elems : P = Image(s)
  <2>1. Image(s) \subseteq Elems
    BY ImageIn
  <2> QED
    BY <2>1
<1>2. P # {} => v.num_items # 0
  <2>1. s = << >> => Image(s) = {}
    BY DEF Image
  <2> QED
    BY <1>1, <2>1
<1>3. PICK p, u : /\ PutIn(v, e, p) /\ Filed(p, P \cup {e}) /\ Grown(p, e, u)
                 /\ Filed(u, P \cup {e}) /\ Threads(HASH_ADD_TO_BKT(w, e), u)
  <2>1. Filed(v, P) /\ e \in Elems \ P
    BY <1>1
  <2> QED
    BY <1>2, <2>1, AddIs
<1>4. Image(Append(s, e)) = P \cup {e}
  <2>1. PICK n \in Nat : n = Len(s) /\ DOMAIN s = 1..n /\ DOMAIN Append(s, e) = 1..n + 1
    OBVIOUS
  <2>2. (\A i \in 1..n : Append(s, e)[i] = s[i]) /\ Append(s, e)[n + 1] = e
    BY <2>1
  <2>3. \A i \in 1..n + 1 : i \in 1..n \/ i = n + 1
    OBVIOUS
  <2>4. n + 1 \in 1..n + 1 /\ \A i \in 1..n : i \in 1..n + 1
    OBVIOUS
  <2> QED
    BY <1>1, <2>1, <2>2, <2>3, <2>4 DEF Image
<1>5. /\ p \in Tables /\ Len(p.buckets) = Len(v.buckets) /\ p.num_items = v.num_items
      /\ p.head = v.head /\ p.tail = v.tail /\ p.next = v.next /\ p.prev = v.prev
  BY <1>3 DEF PutIn
<1>6. /\ u \in Tables /\ Len(u.buckets) # 0 /\ u.num_items = p.num_items
      /\ u.head = p.head /\ u.tail = p.tail /\ u.next = p.next /\ u.prev = p.prev
  <2>1. CASE Full(p, e)
    <3>1. Expanded(p, u)
      BY <1>3, <2>1 DEF Grown
    <3>2. Len(v.buckets) \in Nat
      BY CountsAre DEF Threads
    <3>3. Len(u.buckets) = 2 * Len(p.buckets)
      BY <3>1 DEF Expanded
    <3>4. Len(u.buckets) # 0
      BY <1>5, <3>2, <3>3
    <3> QED
      BY <3>1, <3>4 DEF Expanded
  <2>2. CASE ~ Full(p, e)
    BY <1>3, <1>5, <2>2 DEF Grown
  <2> QED
    BY <2>1, <2>2
<1>7. Linked(u, Append(s, e))
  <2>1. PICK a : a = Append(s, e)
    OBVIOUS
  <2>2. Linked(v, a) /\ u.head = v.head /\ u.next = v.next /\ u.prev = v.prev
    BY <1>5, <1>6, <2>1
  <2>3. Linked(u, a)
    BY <2>2, LinkedSame
  <2> QED
    BY <2>1, <2>3
<1> QED
  BY <1>3, <1>4, <1>5, <1>6, <1>7

-----------------------------------------------------------------------------
(* The invariant. *)

(* Until the buckets are doubled a chain has its elements, those of one     *)
(* key, in the order in which they were not added.                          *)
LastFirst(t, s) ==
  Len(t.buckets) = InitialBuckets =>
    \A i \in 1..Len(t.buckets), x \in Elems, y \in Elems :
      Precedes(t.buckets[i].chain, x, y) /\ Key[x] = Key[y] => Precedes(s, y, x)

Sized(t) == \A i \in 1..Len(t.buckets) : t.buckets[i].expand_mult <= Cardinality(Elems)

Good(t, s) ==
  /\ Sound(t, s)
  /\ s # << >> => t.tail = s[Len(s)] /\ Len(t.buckets) >= InitialBuckets
  /\ LastFirst(t, s) /\ Sized(t) /\ Bounded(t)

LEMMA PrecedesCons ==
  ASSUME NEW E, NEW s \in Seq(E), NEW e \in E, NEW x, NEW y, Precedes(<<e>> \o s, x, y)
  PROVE  (x = e /\ y \in Image(s)) \/ Precedes(s, x, y)
<1> DEFINE a == <<e>> \o s
<1>1. PICK n \in Nat : n = Len(s) /\ DOMAIN s = 1..n
  OBVIOUS
<1>2. DOMAIN a = 1..n + 1 /\ a[1] = e /\ \A i \in 2..n + 1 : a[i] = s[i - 1]
  BY <1>1
<1> HIDE DEF a
<1>3. PICK i \in 1..n + 1, j \in 1..n + 1 : i < j /\ a[i] = x /\ a[j] = y
  BY <1>2 DEF Precedes, a
<1>4. j - 1 \in 1..n /\ s[j - 1] = y
  BY <1>2, <1>3
<1>5. CASE i = 1
  BY <1>1, <1>2, <1>3, <1>4, <1>5 DEF Image
<1>6. CASE i # 1
  <2>1. i - 1 \in 1..n /\ i - 1 < j - 1 /\ s[i - 1] = x
    BY <1>2, <1>3, <1>6
  <2> QED
    BY <1>1, <1>4, <2>1 DEF Precedes
<1> QED
  BY <1>5, <1>6

LEMMA PrecedesAppend ==
  ASSUME NEW E, NEW s \in Seq(E), NEW e \in E
  PROVE  /\ \A x, y : Precedes(s, x, y) => Precedes(Append(s, e), x, y)
         /\ \A y \in Image(s) : Precedes(Append(s, e), y, e)
<1> DEFINE a == Append(s, e)
<1>1. PICK n \in Nat : n = Len(s) /\ DOMAIN s = 1..n
  OBVIOUS
<1>2. DOMAIN a = 1..n + 1 /\ a[n + 1] = e /\ \A i \in 1..n : a[i] = s[i]
  BY <1>1
<1>3. n + 1 \in 1..n + 1 /\ \A i \in 1..n : i \in 1..n + 1 /\ i < n + 1
  OBVIOUS
<1> HIDE DEF a
<1>4. ASSUME NEW x, NEW y, Precedes(s, x, y) PROVE Precedes(a, x, y)
  BY <1>1, <1>2, <1>3, <1>4 DEF Precedes
<1>5. ASSUME NEW y \in Image(s) PROVE Precedes(a, y, e)
  BY <1>1, <1>2, <1>3 DEF Precedes, Image
<1> QED
  BY <1>4, <1>5 DEF a

LEMMA PrecedesDrop ==
  ASSUME NEW E, NEW s \in Seq(E), NEW d \in 1..Len(s)
  PROVE  /\ \A x, y : Precedes(Drop(s, d), x, y) => Precedes(s, x, y)
         /\ \A x, y : Precedes(s, x, y) /\ x # s[d] /\ y # s[d] => Precedes(Drop(s, d), x, y)
<1> DEFINE a == Drop(s, d)
<1>1. PICK n \in Nat : n = Len(s) /\ DOMAIN s = 1..n
  OBVIOUS
<1>2. DOMAIN a = 1..n - 1 /\ \A i \in 1..n - 1 : a[i] = IF i < d THEN s[i] ELSE s[i + 1]
  BY <1>1 DEF Drop
<1> HIDE DEF a
<1>3. ASSUME NEW x, NEW y, Precedes(a, x, y) PROVE Precedes(s, x, y)
  <2>1. PICK i \in 1..n - 1, j \in 1..n - 1 : i < j /\ a[i] = x /\ a[j] = y
    BY <1>2, <1>3 DEF Precedes
  <2>2. PICK k \in 1..n : k = IF i < d THEN i ELSE i + 1
    BY <2>1
  <2>3. PICK l \in 1..n : l = IF j < d THEN j ELSE j + 1
    BY <2>1
  <2>4. s[k] = x /\ s[l] = y /\ k < l
    BY <1>2, <2>1, <2>2, <2>3
  <2> QED
    BY <1>1, <2>4 DEF Precedes
<1>4. ASSUME NEW x, NEW y, Precedes(s, x, y), x # s[d], y # s[d] PROVE Precedes(a, x, y)
  <2>1. PICK i \in 1..n, j \in 1..n : i < j /\ s[i] = x /\ s[j] = y
    BY <1>1, <1>4 DEF Precedes
  <2>2. i # d /\ j # d /\ d \in 1..n
    BY <1>1, <1>4, <2>1
  <2>3. PICK k \in 1..n - 1 : k = IF i < d THEN i ELSE i - 1
    BY <2>1, <2>2
  <2>4. PICK l \in 1..n - 1 : l = IF j < d THEN j ELSE j - 1
    BY <2>1, <2>2
  <2>5. a[k] = x
    BY <1>2, <2>1, <2>2, <2>3
  <2>6. a[l] = y
    BY <1>2, <2>1, <2>2, <2>4
  <2>7. k < l
    BY <2>1, <2>2, <2>3, <2>4
  <2> QED
    BY <1>2, <2>5, <2>6, <2>7 DEF Precedes
<1> QED
  BY <1>3, <1>4 DEF a

LEMMA GoodNone ==
  ASSUME HashAssumption
  PROVE  Good(NoChains, << >>)
<1>1. PICK v : v = NoChains
  OBVIOUS
<1>2. PICK none : none = [x \in Elems |-> NULL]
  OBVIOUS
<1>3. << >> \in Seq(Buckets) /\ Len(<< >>) = 0 /\ 1..0 = {} /\ << >> \in Seq(Nat) /\ DOMAIN << >> = {}
  OBVIOUS
<1>4. none \in [Elems -> Elems \cup {NULL}]
  BY <1>2
<1>5. v = [head |-> NULL, tail |-> NULL, next |-> none, prev |-> none, buckets |-> << >>,
           num_items |-> 0, ideal_chain_maxlen |-> 0, ineff_expands |-> 0, noexpand |-> 0]
  BY <1>1, <1>2 DEF NoChains
<1>6. v \in Tables
  BY <1>3, <1>4, <1>5 DEF Tables
<1>7. /\ v.head = NULL /\ v.next = none /\ v.prev = none /\ v.buckets = << >>
      /\ v.num_items = 0 /\ v.ideal_chain_maxlen = 0
  BY <1>5
<1>8. Linked(v, << >>)
  BY <1>2, <1>7, LinkedNone
<1>9. Sound(v, << >>)
  <2>1. Filed(v, Image(<< >>))
    BY <1>3, <1>7 DEF Filed
  <2> QED
    BY <1>1, <1>3, <1>6, <1>7, <1>8, <2>1 DEF Sound
<1>10. LastFirst(v, << >>) /\ Sized(v)
  BY <1>3, <1>7 DEF LastFirst, Sized
<1>11. Bounded(v)
  <2>1. PICK f \in Seq(Nat) : f = Allowances(v)
    BY <1>6, AllowancesAre
  <2>2. Len(f) = 0
    BY <1>3, <1>6, <1>7, <2>1, AllowancesAre
  <2>3. Total(f) = 0
    <3>1. PICK F : F[0] = 0 /\ Total(f) = F[Len(f)]
      BY TotalIs
    <3> QED
      BY <2>2, <3>1
  <2>4. 0 <= Thresh
    BY DEF HashAssumption
  <2> QED
    BY <1>3, <1>7, <2>1, <2>3, <2>4 DEF Bounded
<1> QED
  BY <1>1, <1>9, <1>10, <1>11 DEF Good

(* What is known of v before e is put in its bucket. *)
Based(v, s, e) ==
  /\ v \in Tables /\ Linked(v, Append(s, e)) /\ Filed(v, Image(s))
  /\ Len(v.buckets) # 0 /\ Len(v.buckets) >= InitialBuckets
  /\ v.num_items = Len(s) + 1 /\ v.tail = e
  /\ LastFirst(v, s) /\ Sized(v) /\ Bounded(v)

LEMMA HeadIs ==
  ASSUME HashAssumption, NEW t, NEW s, Linked(t, s)
  PROVE  t.head = NULL <=> s = << >>
<1>1. s \in Seq(Elems) /\ t.head = IF s = << >> THEN NULL ELSE s[1]
  BY DEF Linked
<1>2. s # << >> => s[1] \in Elems
  BY <1>1
<1>3. NULL \notin Elems
  BY DEF HashAssumption
<1> QED
  BY <1>1, <1>2, <1>3

(* The fields that Bounded looks at. *)
LEMMA BoundedSame ==
  ASSUME NEW t, Bounded(t), NEW u, u.buckets = t.buckets, u.noexpand = t.noexpand,
         u.ideal_chain_maxlen = t.ideal_chain_maxlen
  PROVE  Bounded(u)
<1>1. Allowances(u) = Allowances(t)
  BY DEF Allowances
<1> QED
  BY <1>1 DEF Bounded, Within

LEMMA BasedFirst ==
  ASSUME HashAssumption, NEW e \in Elems,
         NEW v, v = [MakeChains(e) EXCEPT !.num_items = @ + 1]
  PROVE  Based(v, << >>, e)
<1>1. PICK m : m = MakeChains(e)
  OBVIOUS
<1>2. /\ m \in Tables /\ Linked(m, <<e>>) /\ Filed(m, {}) /\ Bounded(m)
      /\ Len(m.buckets) = InitialBuckets /\ Len(m.buckets) # 0
      /\ m.num_items = 0 /\ m.tail = e
      /\ \A i \in 1..Len(m.buckets) : m.buckets[i] = EmptyChain
  BY <1>1, MakeTable
<1>10. PICK k \in Nat : k = 1
  OBVIOUS
<1>3. v = [m EXCEPT !.num_items = k]
  BY <1>1, <1>2, <1>10 DEF Tables
<1>4. /\ v \in Tables /\ v.head = m.head /\ v.tail = m.tail /\ v.next = m.next /\ v.prev = m.prev
      /\ v.buckets = m.buckets /\ v.num_items = k /\ v.noexpand = m.noexpand
      /\ v.ideal_chain_maxlen = m.ideal_chain_maxlen
  <2>1. m \in Tables
    BY <1>2
  <2> QED
    BY <1>3, <2>1 DEF Tables
<1>5. Append(<< >>, e) = <<e>> /\ Image(<< >>) = {} /\ Len(<< >>) = 0
  BY DEF Image
<1>6. Linked(v, <<e>>) /\ Filed(v, {}) /\ Bounded(v)
  BY <1>2, <1>4, LinkedSame, FiledSame, BoundedSame
<1>7. LastFirst(v, << >>)
  <2>1. EmptyChain.chain = << >> /\ \A x, y : ~ Precedes(<< >>, x, y)
    BY DEF EmptyChain, Precedes
  <2> QED
    BY <1>2, <1>4, <2>1 DEF LastFirst
<1>8. Sized(v)
  <2>1. EmptyChain.expand_mult = 0
    BY DEF EmptyChain
  <2>2. Cardinality(Elems) \in Nat
    BY FS_CardinalityType DEF HashAssumption
  <2> QED
    BY <1>2, <1>4, <2>1, <2>2 DEF Sized
<1>9. InitialBuckets \in Nat
  BY DEF HashAssumption
<1>11. PICK s : s = << >>
  OBVIOUS
<1>12. Linked(v, Append(s, e)) /\ Filed(v, Image(s)) /\ LastFirst(v, s) /\ v.num_items = Len(s) + 1
  <2>1. Linked(v, Append(s, e))
    BY <1>5, <1>6, <1>11, Zenon
  <2>2. Filed(v, Image(s))
    BY <1>5, <1>6, <1>11, Zenon
  <2>3. LastFirst(v, s)
    BY <1>7, <1>11, Zenon
  <2>4. v.num_items = Len(s) + 1
    BY <1>4, <1>5, <1>10, <1>11
  <2> QED
    BY <2>1, <2>2, <2>3, <2>4
<1>13. Based(v, s, e)
  BY <1>2, <1>4, <1>6, <1>8, <1>9, <1>12 DEF Based
<1> QED
  BY <1>11, <1>13

LEMMA BasedNext ==
  ASSUME HashAssumption, NEW t, NEW s, Good(t, s), s # << >>, NEW e \in Elems \ Image(s),
         NEW v, v = [[t EXCEPT !.next[t.tail] = e, !.prev[e] = t.tail, !.tail = e]
                       EXCEPT !.num_items = @ + 1]
  PROVE  Based(v, s, e)
<1>1. /\ t \in Tables /\ Linked(t, s) /\ Filed(t, Image(s)) /\ t.num_items = Len(s)
      /\ Len(t.buckets) # 0 /\ t.tail = s[Len(s)] /\ Len(t.buckets) >= InitialBuckets
      /\ LastFirst(t, s) /\ Sized(t) /\ Bounded(t) /\ s \in Seq(Elems)
  BY DEF Good, Sound, Linked
<1>2. PICK l \in Elems : l = t.tail /\ l = s[Len(s)]
  BY <1>1
<1>3. PICK nx : nx = [t.next EXCEPT ![l] = e]
  OBVIOUS
<1>4. PICK pv : pv = [t.prev EXCEPT ![e] = l]
  OBVIOUS
<1>5. /\ t.next \in [Elems -> Elems \cup {NULL}] /\ t.prev \in [Elems -> Elems \cup {NULL}]
  BY <1>1 DEF Tables
<1>6. nx \in [Elems -> Elems \cup {NULL}] /\ pv \in [Elems -> Elems \cup {NULL}]
  BY <1>3, <1>4, <1>5
<1>7. PICK k \in Nat : k = t.num_items + 1
  BY <1>1 DEF Tables
<1>8. v = [t EXCEPT !.next = nx, !.prev = pv, !.tail = e, !.num_items = k]
  BY <1>1, <1>2, <1>3, <1>4, <1>7 DEF Tables
<1>9. v \in Tables
  BY <1>1, <1>6, <1>8, ZenonT(30) DEF Tables
<1>10. /\ v.head = t.head /\ v.tail = e /\ v.next = nx /\ v.prev = pv
       /\ v.buckets = t.buckets /\ v.num_items = k /\ v.noexpand = t.noexpand
       /\ v.ideal_chain_maxlen = t.ideal_chain_maxlen
  BY <1>1, <1>8 DEF Tables
<1>11. Linked(v, Append(s, e))
  BY <1>1, <1>2, <1>3, <1>4, <1>10, LinkedAppend, ZenonT(30)
<1>12. Filed(v, Image(s)) /\ Bounded(v)
  BY <1>1, <1>10, FiledSame, BoundedSame
<1>13. LastFirst(v, s) /\ Sized(v)
  BY <1>1, <1>10 DEF LastFirst, Sized
<1> QED
  BY <1>1, <1>7, <1>9, <1>10, <1>11, <1>12, <1>13 DEF Based

LEMMA AddBased ==
  ASSUME HashAssumption, NEW t, NEW a, Threads(t, a), NEW s, Good(a, s), NEW e \in Elems \ Image(s)
  PROVE  \E w, v : /\ Based(v, s, e) /\ Threads(w, v)
                   /\ HASH_ADD_KEYPTR(t, e) = HASH_ADD_TO_BKT(w, e)
<1>1. Linked(a, s) /\ t \in Memory /\ a \in Tables /\ Alike(t, a)
  BY ThreadsIs DEF Good, Sound
<1>2. t.head = NULL <=> s = << >>
  BY <1>1, HeadIs DEF Alike
<1>3. CASE s = << >>
  <2>1. PICK m, k : m = HASH_MAKE_TABLE(e) /\ k = MakeChains(e)
    OBVIOUS
  <2>2. PICK w, v : w = [m EXCEPT !.num_items = @ + 1] /\ v = [k EXCEPT !.num_items = @ + 1]
    OBVIOUS
  <2>3. Based(v, s, e)
    BY <1>3, <2>1, <2>2, BasedFirst
  <2>4. Threads(m, k) /\ m \in Memory /\ k \in Tables /\ Alike(m, k)
    <3>1. MakeChains(e) \in Tables
      BY MakeTable
    <3> QED
      BY <2>1, <3>1, MakeThreads, ThreadsIs
  <2>5. PICK j \in Nat : j = m.num_items + 1 /\ j = k.num_items + 1
    BY <2>4 DEF Memory, Alike
  <2>6. w = [m EXCEPT !.num_items = j] /\ v = [k EXCEPT !.num_items = j]
    BY <2>2, <2>4, <2>5 DEF Memory, Tables
  <2>7. /\ w \in Memory /\ w.buckets = m.buckets /\ w.hh_next = m.hh_next /\ w.hh_prev = m.hh_prev
    BY <2>4, <2>6 DEF Memory
  <2>8. v \in Tables /\ v.buckets = k.buckets
    BY <2>4, <2>6 DEF Tables
  <2>9. Alike(w, v)
    BY <2>4, <2>6 DEF Memory, Tables, Alike
  <2>10. Threads(w, v)
    BY <2>4, <2>7, <2>8, <2>9, ThreadsSame
  <2>11. HASH_ADD_KEYPTR(t, e) = HASH_ADD_TO_BKT(w, e)
    BY <1>2, <1>3, <2>1, <2>2 DEF HASH_ADD_KEYPTR
  <2> QED
    BY <2>3, <2>10, <2>11
<1>4. CASE s # << >>
  <2>1. PICK w, v : /\ w = [[t EXCEPT !.next[t.tail] = e, !.prev[e] = t.tail, !.tail = e]
                              EXCEPT !.num_items = @ + 1]
                    /\ v = [[a EXCEPT !.next[a.tail] = e, !.prev[e] = a.tail, !.tail = e]
                              EXCEPT !.num_items = @ + 1]
    OBVIOUS
  <2>2. Based(v, s, e)
    BY <1>4, <2>1, BasedNext
  <2>3. HASH_ADD_KEYPTR(t, e) = HASH_ADD_TO_BKT(w, e)
    BY <1>2, <1>4, <2>1 DEF HASH_ADD_KEYPTR
  <2>4. PICK l, nx, pv : /\ l = t.tail /\ nx = [t.next EXCEPT ![l] = e]
                         /\ pv = [t.prev EXCEPT ![e] = l]
    OBVIOUS
  <2>5. PICK j \in Nat : j = t.num_items + 1
    BY <1>1 DEF Memory
  <2>6. w = [t EXCEPT !.next = nx, !.prev = pv, !.tail = e, !.num_items = j]
    BY <1>1, <2>1, <2>4, <2>5 DEF Memory
  <2>7. v = [a EXCEPT !.next = nx, !.prev = pv, !.tail = e, !.num_items = j]
    BY <1>1, <2>1, <2>4, <2>5 DEF Tables, Alike
  <2>8. v \in Tables /\ v.buckets = a.buckets
    BY <1>1, <2>2, <2>7 DEF Based, Tables
  <2>9. /\ v.head = a.head /\ v.tail = e /\ v.next = nx /\ v.prev = pv /\ v.num_items = j
        /\ v.ideal_chain_maxlen = a.ideal_chain_maxlen /\ v.noexpand = a.noexpand
    BY <1>1, <2>7 DEF Tables
  <2>10. nx \in Pointers /\ pv \in Pointers
    <3>1. v.next \in Pointers /\ v.prev \in Pointers
      BY <2>8 DEF Tables, Pointers
    <3> QED
      BY <2>9, <3>1
  <2>11. /\ w \in Memory /\ w.buckets = t.buckets /\ w.hh_next = t.hh_next /\ w.hh_prev = t.hh_prev
         /\ w.head = t.head /\ w.tail = e /\ w.next = nx /\ w.prev = pv /\ w.num_items = j
         /\ w.ideal_chain_maxlen = t.ideal_chain_maxlen /\ w.noexpand = t.noexpand
    BY <1>1, <2>6, <2>10 DEF Memory
  <2>12. Alike(w, v)
    BY <1>1, <2>9, <2>11 DEF Alike
  <2>13. Threads(w, v)
    BY <2>8, <2>11, <2>12, ThreadsSame
  <2> QED
    BY <2>2, <2>3, <2>13
<1> QED
  BY <1>3, <1>4

LEMMA PutLastFirst ==
  ASSUME NEW v \in Tables, NEW s \in Seq(Elems), LastFirst(v, s), Filed(v, Image(s)),
         NEW e \in Elems, NEW p, PutIn(v, e, p)
  PROVE  LastFirst(p, Append(s, e))
<1>1. Len(p.buckets) = Len(v.buckets)
  BY DEF PutIn
<1>2. SUFFICES ASSUME Len(v.buckets) = InitialBuckets,
                      NEW i \in 1..Len(v.buckets), NEW x \in Elems, NEW y \in Elems,
                      Precedes(p.buckets[i].chain, x, y), Key[x] = Key[y]
               PROVE  Precedes(Append(s, e), y, x)
  BY <1>1 DEF LastFirst
<1>3. v.buckets[i] \in Buckets
  BY DEF Tables
<1>4. PICK c \in Seq(Elems) : c = v.buckets[i].chain
  BY <1>3 DEF Buckets
<1>5. Precedes(c, x, y) => Precedes(s, y, x)
  BY <1>2, <1>4 DEF LastFirst
<1>6. Precedes(s, y, x) => Precedes(Append(s, e), y, x)
  BY PrecedesAppend
<1>7. CASE i = BktOf(e, v)
  <2>1. p.buckets[i].chain = <<e>> \o c
    BY <1>4, <1>7 DEF PutIn
  <2>2. Precedes(<<e>> \o c, x, y)
    BY <1>2, <2>1
  <2>3. (x = e /\ y \in Image(c)) \/ Precedes(c, x, y)
    BY <2>2, PrecedesCons
  <2>4. CASE x = e /\ y \in Image(c)
    <3>1. FiledAt(v, Image(s), i)
      BY DEF Filed
    <3>2. y \in Image(s)
      BY <1>4, <2>4, <3>1 DEF FiledAt
    <3>3. Precedes(Append(s, e), y, e)
      BY <3>2, PrecedesAppend
    <3> QED
      BY <2>4, <3>3
  <2> QED
    BY <1>5, <1>6, <2>3, <2>4
<1>8. CASE i # BktOf(e, v)
  <2>1. p.buckets[i].chain = c
    BY <1>4, <1>8 DEF PutIn
  <2> QED
    BY <1>2, <1>5, <1>6, <2>1
<1> QED
  BY <1>7, <1>8

LEMMA ExpandedSized ==
  ASSUME HashAssumption, NEW p, NEW u, Expanded(p, u), NEW P \in SUBSET Elems, Filed(u, P)
  PROVE  Sized(u)
<1>1. u \in Tables
  BY DEF Expanded
<1>2. ASSUME NEW i \in 1..Len(u.buckets) PROVE u.buckets[i].expand_mult <= Cardinality(Elems)
  <2>1. u.buckets[i] \in Buckets
    BY <1>1 DEF Tables
  <2>2. PICK ch \in Seq(Elems), k \in Nat : ch = u.buckets[i].chain /\ k = u.buckets[i].count
    BY <2>1 DEF Buckets
  <2>3. Distinct(ch) /\ k = Len(ch)
    <3>1. FiledAt(u, P, i)
      BY DEF Filed
    <3> QED
      BY <2>2, <3>1 DEF FiledAt
  <2>4. k <= Cardinality(Elems) /\ Cardinality(Elems) \in Nat
    <3>1. Len(ch) \in 0..Cardinality(Elems) /\ Cardinality(Elems) \in Nat
      BY <2>3, DistinctShort
    <3> QED
      BY <2>3, <3>1
  <2>5. PICK c \in Nat \ {0} : c = u.ideal_chain_maxlen
    <3>1. u.ideal_chain_maxlen \in Nat
      BY <1>1 DEF Tables
    <3>2. u.ideal_chain_maxlen # 0
      BY DEF Expanded
    <3> QED
      BY <3>1, <3>2
  <2>6. u.buckets[i].expand_mult = IF k > c THEN k \div c ELSE 0
    BY <2>2, <2>5 DEF Expanded
  <2>7. k \div c <= k
    <3>1. PICK q \in Nat, r \in 0..c - 1 : q = k \div c /\ r = k % c /\ k = c * q + r
      BY ModIs
    <3>2. c * q >= q
      <4>1. PICK d \in Nat : d = c - 1
        OBVIOUS
      <4>2. c * q = d * q + q /\ d * q >= 0
        BY <4>1
      <4> QED
        BY <4>2
    <3>3. q <= k
      BY <3>1, <3>2
    <3> QED
      BY <3>1, <3>3
  <2>8. k \div c \in Int
    OBVIOUS
  <2>9. PICK q \in Int : q = k \div c
    BY <2>8
  <2> QED
    BY <2>4, <2>6, <2>7, <2>9
<1> QED
  BY <1>2 DEF Sized

LEMMA AddGood ==
  ASSUME HashAssumption, NEW t, NEW a0, Threads(t, a0), NEW s, Good(a0, s), NEW e \in Elems \ Image(s)
  PROVE  \E u : Threads(HASH_ADD_KEYPTR(t, e), u) /\ Good(u, Append(s, e))
<1>1. PICK w, v : /\ Based(v, s, e) /\ Threads(w, v)
                  /\ HASH_ADD_KEYPTR(t, e) = HASH_ADD_TO_BKT(w, e)
  BY AddBased
<1>3. s \in Seq(Elems) /\ Distinct(s)
  BY DEF Good, Sound, Linked
<1>4. /\ v \in Tables /\ Linked(v, Append(s, e)) /\ Filed(v, Image(s))
      /\ Len(v.buckets) # 0 /\ Len(v.buckets) >= InitialBuckets
      /\ v.num_items = Len(s) + 1 /\ v.tail = e
      /\ LastFirst(v, s) /\ Sized(v) /\ Bounded(v)
  BY <1>1 DEF Based
<1>5. s # << >> => v.num_items # 0
  BY <1>3, <1>4
<1>6. PICK u : /\ Threads(HASH_ADD_TO_BKT(w, e), u)
               /\ u \in Tables /\ Linked(u, Append(s, e)) /\ Filed(u, Image(Append(s, e)))
               /\ Len(u.buckets) # 0 /\ u.num_items = v.num_items /\ u.tail = v.tail
               /\ \E p : PutIn(v, e, p) /\ Filed(p, Image(Append(s, e))) /\ Grown(p, e, u)
  BY <1>1, <1>3, <1>4, <1>5, AddSound
<1>7. PICK p : PutIn(v, e, p) /\ Filed(p, Image(Append(s, e))) /\ Grown(p, e, u)
  BY <1>6
<1>8. PICK a : a = Append(s, e)
  OBVIOUS
<1>9. /\ a \in Seq(Elems) /\ Len(a) = Len(s) + 1 /\ a[Len(a)] = e
      /\ Distinct(a) /\ Image(a) = Image(s) \cup {e} /\ a # << >>
  <2>1. /\ Append(s, e) \in Seq(Elems) /\ Len(Append(s, e)) = Len(s) + 1
        /\ Append(s, e)[Len(s) + 1] = e
        /\ Distinct(Append(s, e)) /\ Image(Append(s, e)) = Image(s) \cup {e}
    BY <1>3, AppendIs
  <2>2. a # << >>
    BY <1>3, <1>8
  <2> QED
    BY <1>8, <2>1, <2>2
<1>10. Sound(u, a)
  <2>1. u.num_items = Len(a)
    BY <1>4, <1>6, <1>9
  <2>2. Linked(u, a) /\ Filed(u, Image(a))
    BY <1>6, <1>8
  <2> QED
    BY <1>6, <1>9, <2>1, <2>2 DEF Sound
<1>11. PICK n \in Nat \ {0}, b \in Nat \ {0} : n = Len(v.buckets) /\ b = InitialBuckets /\ n >= b
  <2>1. Len(v.buckets) \in Nat
    BY <1>4, CountsAre
  <2> QED
    BY <1>4, <2>1 DEF HashAssumption
<1>12. /\ p \in Tables /\ Len(p.buckets) = n /\ p.num_items = Len(a)
  <2>1. p \in Tables /\ Len(p.buckets) = Len(v.buckets) /\ p.num_items = v.num_items
    BY <1>7 DEF PutIn
  <2> QED
    BY <1>4, <1>9, <1>11, <2>1
<1>13. PICK P \in SUBSET Elems : P = Image(a)
  <2>1. Image(a) \subseteq Elems
    BY <1>9, ImageIn
  <2> QED
    BY <2>1
<1>14. Filed(p, P) /\ Filed(u, P)
  BY <1>6, <1>7, <1>8, <1>13
<1>15. CASE Full(p, e)
  <2>1. Expanded(p, u)
    BY <1>7, <1>15 DEF Grown
  <2>2. Len(u.buckets) = 2 * n
    BY <1>12, <2>1 DEF Expanded
  <2>3. Len(u.buckets) >= InitialBuckets /\ Len(u.buckets) # InitialBuckets
    BY <1>11, <2>2
  <2>4. LastFirst(u, a)
    BY <2>3 DEF LastFirst
  <2>5. Sized(u)
    BY <1>14, <2>1, ExpandedSized
  <2>6. p.num_items = Cardinality(P)
    BY <1>9, <1>12, <1>13, DistinctCount
  <2>7. Bounded(u)
    BY <1>4, <1>7, <1>14, <2>1, <2>6, BoundedGrown
  <2> QED
    BY <1>1, <1>4, <1>6, <1>8, <1>9, <1>10, <2>3, <2>4, <2>5, <2>7 DEF Good
<1>16. CASE ~ Full(p, e)
  <2>1. u = p
    BY <1>7, <1>16 DEF Grown
  <2>2. Len(u.buckets) >= InitialBuckets
    BY <1>11, <1>12, <2>1
  <2>3. LastFirst(u, a)
    BY <1>3, <1>4, <1>7, <1>8, <2>1, PutLastFirst
  <2>4. Sized(u)
    <3>1. \A i \in 1..Len(v.buckets) : u.buckets[i].expand_mult = v.buckets[i].expand_mult
      BY <1>7, <2>1 DEF PutIn
    <3>2. Len(u.buckets) = Len(v.buckets)
      BY <1>11, <1>12, <2>1
    <3> QED
      BY <1>4, <3>1, <3>2 DEF Sized
  <2>5. Bounded(u)
    <3>1. /\ Len(u.buckets) = Len(v.buckets) /\ u.noexpand = v.noexpand
          /\ u.ideal_chain_maxlen = v.ideal_chain_maxlen
      BY <1>7, <2>1 DEF PutIn
    <3>2. CASE u.noexpand = 1
      BY <3>2 DEF Bounded
    <3>3. CASE u.noexpand # 1
      <4>1. ASSUME NEW i \in 1..Len(v.buckets)
            PROVE  /\ u.buckets[i].expand_mult = v.buckets[i].expand_mult
                   /\ \/ u.buckets[i].count <= v.buckets[i].count
                      \/ u.buckets[i].count < Limit(u.buckets[i])
        <5>1. u.buckets[i].expand_mult = v.buckets[i].expand_mult
          BY <1>7, <2>1 DEF PutIn
        <5>2. u.buckets[i] \in Buckets /\ v.buckets[i] \in Buckets
          BY <1>4, <1>12, <2>1, <3>1 DEF Tables
        <5>3. PICK x \in Nat, k \in Nat : x = u.buckets[i].count /\ k = u.buckets[i].expand_mult
          BY <5>2 DEF Buckets
        <5>4. CASE i = BktOf(e, v)
          <6>1. BktOf(e, u) = i
            BY <1>7, <2>1, <5>4 DEF PutIn
          <6>2. ~ (x >= Limit(u.buckets[i]))
            BY <1>16, <2>1, <3>3, <5>3, <6>1 DEF Full
          <6>3. Limit(u.buckets[i]) \in Int
            <7>1. Thresh \in Int /\ (k + 1) * Thresh \in Int
              BY DEF HashAssumption
            <7> QED
              BY <5>3, <7>1 DEF Limit
          <6>4. x < Limit(u.buckets[i])
            <7>1. PICK l \in Int : l = Limit(u.buckets[i])
              BY <6>3
            <7> QED
              BY <6>2, <7>1
          <6> QED
            BY <5>1, <5>3, <6>4
        <5>5. CASE i # BktOf(e, v)
          <6>1. u.buckets[i].count = v.buckets[i].count
            BY <1>7, <2>1, <5>5 DEF PutIn
          <6> QED
            BY <5>1, <5>3, <6>1
        <5> QED
          BY <5>4, <5>5
      <4> QED
        BY <1>4, <1>6, <3>1, <4>1, BoundedLess
    <3> QED
      BY <3>2, <3>3
  <2> QED
    BY <1>1, <1>4, <1>6, <1>8, <1>9, <1>10, <2>2, <2>3, <2>4, <2>5 DEF Good
<1> QED
  BY <1>15, <1>16

-----------------------------------------------------------------------------
(* Finding. *)
LEMMA FindIs ==
  ASSUME HashAssumption, NEW t0, NEW t, Threads(t0, t), NEW s, Sound(t, s), NEW e0 \in Elems,
         NEW f, f = HASH_FIND(t0, Key[e0])
  PROVE  /\ f = NULL <=> {e \in Image(s) : Key[e] = Key[e0]} = {}
         /\ f # NULL => /\ f \in Image(s) /\ Key[f] = Key[e0]
                        /\ \A e \in Image(s) : Key[e] = Key[e0] =>
                             e = f \/ Precedes(t.buckets[BktOf(e0, t)].chain, f, e)
<1> DEFINE b == BktOf(e0, t)
           chain == t.buckets[b].chain
           same == {i \in DOMAIN chain : Key[chain[i]] = Key[e0]}
<1>1. /\ t \in Tables /\ Linked(t, s) /\ Filed(t, Image(s)) /\ s \in Seq(Elems)
      /\ s # << >> => Len(t.buckets) # 0
  BY DEF Sound, Linked
<1>2. t.head = NULL <=> s = << >>
  BY <1>1, HeadIs
<1>3. f = IF t.head = NULL THEN NULL
          ELSE IF same = {} THEN NULL ELSE chain[CHOOSE i \in same : \A j \in same : i <= j]
  <2>1. t0.head = t.head /\ BktOf(e0, t0) = b
    BY ThreadsBkt DEF Threads, Alike
  <2>2. CASE t.head = NULL
    BY <2>1, <2>2 DEF HASH_FIND
  <2>3. CASE t.head # NULL
    <3>1. ChainOf(t0, b) = chain
      <4>1. Len(t.buckets) \in Nat
        BY <1>1, CountsAre
      <4>2. b \in 1..Len(t.buckets)
        BY <1>1, <1>2, <2>3, <4>1, BktIs
      <4> QED
        BY <1>1, <4>2, ChainIs
    <3>2. f = LET c == ChainOf(t0, BktOf(e0, t0))
                  m == {i \in DOMAIN c : Key[c[i]] = Key[e0]}
              IN IF m = {} THEN NULL ELSE c[CHOOSE i \in m : \A j \in m : i <= j]
      BY <2>1, <2>3 DEF HASH_FIND, BktOf
    <3> QED
      BY <2>1, <2>3, <3>1, <3>2
  <2> QED
    BY <2>2, <2>3
<1>4. NULL \notin Elems
  BY DEF HashAssumption
<1>5. CASE s = << >>
  <2>1. f = NULL
    BY <1>2, <1>3, <1>5, Zenon
  <2>2. Image(s) = {}
    BY <1>5 DEF Image
  <2> QED
    BY <2>1, <2>2
<1>6. CASE s # << >>
  <2>1. b \in 1..Len(t.buckets)
    <3>1. Len(t.buckets) \in Nat
      BY <1>1, CountsAre
    <3> QED
      BY <1>1, <1>6, <3>1, BktIs
  <2>2. chain \in Seq(Elems) /\ Image(chain) = {e \in Image(s) : BktOf(e, t) = b}
    <3>1. t.buckets[b] \in Buckets
      BY <1>1, <2>1 DEF Tables
    <3>2. FiledAt(t, Image(s), b)
      BY <1>1, <2>1 DEF Filed
    <3> QED
      BY <3>1, <3>2 DEF FiledAt, Buckets
  <2>3. ASSUME NEW e \in Image(s), Key[e] = Key[e0]
        PROVE  \E i \in same : chain[i] = e
    <3>1. BktOf(e, t) = b
      BY <2>3 DEF BktOf
    <3>2. e \in Image(chain)
      BY <2>2, <3>1
    <3> QED
      BY <2>3, <3>2 DEF Image
  <2>4. \A i \in same : chain[i] \in Image(s) /\ Key[chain[i]] = Key[e0]
    <3>1. \A i \in DOMAIN chain : chain[i] \in Image(chain)
      BY DEF Image
    <3> QED
      BY <2>2, <3>1
  <2>5. same \subseteq Nat
    BY <2>2
  <2>6. CASE same = {}
    BY <1>3, <2>3, <2>6
  <2>7. CASE same # {}
    <3> DEFINE i == CHOOSE i \in same : \A j \in same : i <= j
    <3>1. i \in same /\ \A j \in same : i <= j
      <4>1. \E k \in same : \A j \in same : k <= j
        <5> HIDE DEF same
        <5> QED
          BY <2>5, <2>7, Least
      <4> HIDE DEF same
      <4> QED
        BY <4>1
    <3>2. f = chain[i]
      BY <1>2, <1>3, <1>6, <2>7
    <3> HIDE DEF i
    <3>3. f \in Image(s) /\ Key[f] = Key[e0]
      BY <2>4, <3>1, <3>2
    <3>4. f # NULL
      BY <1>1, <1>4, <3>3, ImageIn
    <3>5. ASSUME NEW e \in Image(s), Key[e] = Key[e0], e # f
          PROVE  Precedes(chain, f, e)
      <4>1. PICK j \in same : chain[j] = e
        BY <2>3, <3>5
      <4>2. i <= j /\ i # j /\ i \in Nat /\ j \in Nat
        BY <2>5, <3>1, <3>2, <3>5, <4>1
      <4>3. i < j /\ i \in DOMAIN chain /\ j \in DOMAIN chain
        BY <3>1, <4>1, <4>2
      <4> HIDE DEF chain
      <4> QED
        BY <3>2, <4>1, <4>3 DEF Precedes
    <3>6. {e \in Image(s) : Key[e] = Key[e0]} # {}
      BY <3>3
    <3> QED
      BY <3>3, <3>4, <3>5, <3>6
  <2> QED
    BY <2>6, <2>7
<1> QED
  BY <1>5, <1>6

-----------------------------------------------------------------------------
(* Deleting: the chain of e is led past it. *)
LEMMA ChainedDrop ==
  ASSUME HashAssumption, NEW c \in Seq(Elems), Distinct(c), NEW i \in 1..Len(c),
         NEW h, NEW nx, NEW pv, Chained(h, nx, pv, c), NEW e, e = c[i],
         NEW h2, h2 = (IF h = e THEN nx[e] ELSE h),
         NEW nx2, nx2 = Past(nx, pv[e], e), NEW pv2, pv2 = Past(pv, nx[e], e)
  PROVE  Chained(h2, nx2, pv2, Drop(c, i))
<1> DEFINE a == Drop(c, i)
<1>1. PICK n \in Nat : n = Len(c) /\ DOMAIN c = 1..n /\ i \in 1..n
  OBVIOUS
<1>2. /\ a \in Seq(Elems) /\ Len(a) = n - 1
      /\ \A k \in 1..n - 1 : a[k] = IF k < i THEN c[k] ELSE c[k + 1]
  <2>1. a \in Seq(Elems) /\ Len(a) = n - 1
    BY <1>1, DropIs
  <2>2. \A k \in 1..n - 1 : a[k] = IF k < i THEN c[k] ELSE c[k + 1]
    BY <1>1 DEF Drop
  <2> QED
    BY <2>1, <2>2
<1> HIDE DEF a
<1>3. /\ \A k \in 1..n : c[k] \in Elems /\ c[k] # NULL
      /\ \A j, k \in 1..n : c[j] = c[k] => j = k
  <2>1. \A k \in 1..n : c[k] \in Elems
    BY <1>1
  <2>2. NULL \notin Elems
    BY DEF HashAssumption
  <2>3. \A j, k \in 1..n : c[j] = c[k] => j = k
    BY <1>1 DEF Distinct
  <2> QED
    BY <2>1, <2>2, <2>3
<1>4. /\ h = IF c = << >> THEN NULL ELSE c[1]
      /\ \A k \in 1..n : /\ nx[c[k]] = IF k + 1 \in 1..n THEN c[k + 1] ELSE NULL
                         /\ pv[c[k]] = IF k = 1 THEN NULL ELSE c[k - 1]
  BY <1>1 DEF Chained
<1>5. PICK before, after : /\ before = pv[e] /\ after = nx[e]
                           /\ before = (IF i = 1 THEN NULL ELSE c[i - 1])
                           /\ after = (IF i + 1 \in 1..n THEN c[i + 1] ELSE NULL)
  BY <1>1, <1>4
<1>6. \A x \in Elems : /\ nx2[x] = IF x = before THEN after ELSE IF x = e THEN NULL ELSE nx[x]
                       /\ pv2[x] = IF x = after THEN before ELSE IF x = e THEN NULL ELSE pv[x]
  BY <1>5 DEF Past
<1>7. a = << >> <=> n = 1
  BY <1>1, <1>2
<1>8. h = c[1] /\ 1 \in 1..n
  BY <1>1, <1>4
<1>9. h2 = IF a = << >> THEN NULL ELSE a[1]
  <2>1. CASE i = 1
    <3>1. h2 = after
      BY <1>5, <1>8, <2>1
    <3>2. CASE n = 1
      <4>1. i + 1 \notin 1..n
        BY <2>1, <3>2
      <4> QED
        BY <1>5, <1>7, <3>1, <3>2, <4>1
    <3>3. CASE n # 1
      <4>1. i + 1 \in 1..n /\ 1 \in 1..n - 1 /\ ~ (1 < i) /\ i + 1 = 1 + 1
        BY <1>1, <2>1, <3>3
      <4>2. a[1] = c[1 + 1]
        BY <1>2, <4>1
      <4> QED
        BY <1>5, <1>7, <3>1, <3>3, <4>1, <4>2
    <3> QED
      BY <3>2, <3>3
  <2>2. CASE i # 1
    <3>1. 1 \in 1..n - 1 /\ 1 < i /\ n # 1
      BY <1>1, <2>2
    <3>2. a[1] = c[1]
      BY <1>2, <3>1
    <3>3. h # e
      BY <1>1, <1>3, <1>8, <2>2
    <3> QED
      BY <1>7, <1>8, <3>1, <3>2, <3>3
  <2> QED
    BY <2>1, <2>2
<1>10. ASSUME NEW k \in 1..n - 1
       PROVE  /\ nx2[a[k]] = IF k + 1 \in 1..n - 1 THEN a[k + 1] ELSE NULL
              /\ pv2[a[k]] = IF k = 1 THEN NULL ELSE a[k - 1]
  <2>1. CASE k < i
    <3>1. k \in 1..n /\ a[k] = c[k] /\ c[k] \in Elems /\ c[k] # e
      BY <1>1, <1>2, <1>3, <2>1
    <3>2. c[k] # after
      BY <1>1, <1>3, <1>5, <2>1, <3>1
    <3>3. pv2[a[k]] = pv[c[k]]
      BY <1>6, <3>1, <3>2
    <3>4. k # 1 => a[k - 1] = c[k - 1]
      <4>1. k # 1 => k - 1 \in 1..n - 1 /\ k - 1 < i
        BY <1>1, <2>1
      <4> QED
        BY <1>2, <4>1
    <3>5. pv2[a[k]] = IF k = 1 THEN NULL ELSE a[k - 1]
      BY <1>4, <3>1, <3>3, <3>4
    <3>6. CASE k = i - 1
      <4>1. i - 1 \in 1..n /\ i # 1
        BY <1>1, <3>6
      <4>2. before = c[k]
        BY <1>5, <3>6, <4>1
      <4>3. nx2[a[k]] = after
        BY <1>6, <3>1, <4>2
      <4>4. k + 1 = i /\ (i \in 1..n - 1 <=> i + 1 \in 1..n) /\ ~ (i < i)
        BY <1>1, <3>6
      <4>5. i \in 1..n - 1 => a[i] = c[i + 1]
        BY <1>2, <4>4
      <4> QED
        BY <1>5, <3>5, <4>3, <4>4, <4>5
    <3>7. CASE k # i - 1
      <4>1. c[k] # before
        <5>1. i # 1 => i - 1 \in 1..n
          BY <1>1
        <5> QED
          BY <1>3, <1>5, <3>1, <3>7, <5>1
      <4>2. nx2[a[k]] = nx[c[k]]
        BY <1>6, <3>1, <4>1
      <4>3. k + 1 \in 1..n /\ k + 1 \in 1..n - 1 /\ k + 1 < i
        BY <1>1, <2>1, <3>7
      <4>4. a[k + 1] = c[k + 1]
        BY <1>2, <4>3
      <4> QED
        BY <1>4, <3>1, <3>5, <4>2, <4>3, <4>4
    <3> QED
      BY <3>6, <3>7
  <2>2. CASE ~ (k < i)
    <3>1. PICK m \in 1..n : m = k + 1 /\ m # i /\ k = m - 1 /\ m # 1
      BY <1>1, <2>2
    <3>2. a[k] = c[m] /\ c[m] \in Elems /\ c[m] # e
      BY <1>1, <1>2, <1>3, <2>2, <3>1
    <3>3. c[m] # before
      <4>1. i # 1 => i - 1 \in 1..n /\ i - 1 # m
        BY <1>1, <2>2, <3>1
      <4> QED
        BY <1>3, <1>5, <4>1
    <3>4. nx2[a[k]] = nx[c[m]]
      BY <1>6, <3>2, <3>3
    <3>5. (m + 1 \in 1..n <=> k + 1 \in 1..n - 1) /\ ~ (k + 1 < i) /\ k + 1 + 1 = m + 1
      BY <1>1, <2>2, <3>1
    <3>6. k + 1 \in 1..n - 1 => a[k + 1] = c[m + 1]
      BY <1>2, <3>5
    <3>7. nx2[a[k]] = IF k + 1 \in 1..n - 1 THEN a[k + 1] ELSE NULL
      BY <1>4, <3>4, <3>5, <3>6
    <3>8. CASE k = i
      <4>1. i + 1 \in 1..n /\ m = i + 1
        BY <3>1, <3>8
      <4>2. after = c[m]
        BY <1>5, <4>1
      <4>3. pv2[a[k]] = before
        BY <1>6, <3>2, <4>2
      <4>4. i # 1 => i - 1 \in 1..n - 1 /\ i - 1 < i
        BY <1>1
      <4>5. i # 1 => a[i - 1] = c[i - 1]
        BY <1>2, <4>4
      <4> QED
        BY <1>5, <3>7, <3>8, <4>3, <4>5
    <3>9. CASE k # i
      <4>1. c[m] # after
        BY <1>3, <1>5, <3>1, <3>2, <3>9
      <4>2. pv2[a[k]] = c[m - 1]
        BY <1>4, <1>6, <3>1, <3>2, <4>1
      <4>3. k - 1 \in 1..n - 1 /\ ~ (k - 1 < i) /\ k - 1 + 1 = m - 1 /\ k # 1
        BY <1>1, <2>2, <3>1, <3>9
      <4>4. a[k - 1] = c[m - 1]
        BY <1>2, <4>3
      <4> QED
        BY <3>7, <4>2, <4>3, <4>4
    <3> QED
      BY <3>8, <3>9
  <2> QED
    BY <2>1, <2>2
<1>11. Chained(h2, nx2, pv2, a)
  BY <1>2, <1>9, <1>10 DEF Chained
<1> QED
  BY <1>11 DEF a

Unchain(b, e) ==
  LET at == CHOOSE i \in DOMAIN b.chain : b.chain[i] = e
  IN [b EXCEPT !.chain = [i \in 1..Len(@) - 1 |-> IF i < at THEN @[i] ELSE @[i + 1]],
               !.count = @ - 1]

Deleted(t, e) ==
  LET before == t.prev[e] after == t.next[e]
  IN IF before = NULL /\ after = NULL THEN NoChains
     ELSE [t EXCEPT !.head = IF before = NULL THEN after ELSE @,
                    !.tail = IF e = t.tail THEN before ELSE @,
                    !.next = Past(t.next, before, e), !.prev = Past(t.prev, after, e),
                    !.buckets[BktOf(e, t)] = Unchain(@, e),
                    !.num_items = @ - 1]

LEMMA UnchainIs ==
  ASSUME NEW b \in Buckets, Distinct(b.chain), NEW i \in 1..Len(b.chain),
         b.count = Len(b.chain), NEW c, c = Unchain(b, b.chain[i])
  PROVE  /\ c \in Buckets /\ c.chain = Drop(b.chain, i) /\ c.count = b.count - 1
         /\ c.expand_mult = b.expand_mult
<1>1. PICK s \in Seq(Elems), n \in Nat \ {0} : s = b.chain /\ n = Len(s) /\ DOMAIN s = 1..n
  <2>1. b.chain \in Seq(Elems)
    BY DEF Buckets
  <2> QED
    BY <2>1
<1>2. (CHOOSE k \in 1..n : s[k] = s[i]) = i
  BY <1>1 DEF Distinct
<1>3. PICK d : d = Drop(s, i)
  OBVIOUS
<1>4. c = [b EXCEPT !.chain = d, !.count = n - 1]
  <2>1. c = [b EXCEPT !.chain = [k \in 1..Len(@) - 1 |-> IF k < i THEN @[k] ELSE @[k + 1]],
                      !.count = @ - 1]
    BY <1>1, <1>2, ZenonT(30) DEF Unchain
  <2> QED
    BY <1>1, <1>3, <2>1 DEF Drop, Buckets
<1>5. d \in Seq(Elems)
  <2>1. Distinct(s) /\ i \in 1..Len(s)
    BY <1>1
  <2>2. Drop(s, i) \in Seq(Elems)
    BY <2>1, DropIs
  <2> QED
    BY <1>3, <2>2
<1>6. PICK m \in Nat : m = n - 1
  BY <1>1, SMTT(30)
<1>7. c = [b EXCEPT !.chain = d, !.count = m]
  BY <1>4, <1>6
<1>8. c \in Buckets /\ c.chain = d /\ c.count = m /\ c.expand_mult = b.expand_mult
  BY <1>5, <1>7 DEF Buckets
<1> QED
  BY <1>1, <1>3, <1>6, <1>8

(* The buckets without an element. *)
Lessened(t, u) ==
  \A i \in 1..Len(t.buckets) :
    /\ u.buckets[i].expand_mult = t.buckets[i].expand_mult
    /\ u.buckets[i].count <= t.buckets[i].count
    /\ \A x, y : Precedes(u.buckets[i].chain, x, y) => Precedes(t.buckets[i].chain, x, y)

LEMMA UnchainedFiled ==
  ASSUME HashAssumption, NEW t \in Tables, NEW P \in SUBSET Elems, Filed(t, P),
         Len(t.buckets) # 0, NEW e \in P,
         NEW u, u.buckets = [t.buckets EXCEPT ![BktOf(e, t)] = Unchain(@, e)]
  PROVE  /\ u.buckets \in Seq(Buckets) /\ Len(u.buckets) = Len(t.buckets)
         /\ Filed(u, P \ {e}) /\ Lessened(t, u)
<1>1. PICK n \in Nat \ {0} : n = Len(t.buckets) /\ t.buckets \in [1..n -> Buckets]
  <2>1. t.buckets \in Seq(Buckets)
    BY DEF Tables
  <2> QED
    BY <2>1
<1>2. PICK k \in 1..n : k = BktOf(e, t)
  BY <1>1, BktIs
<1>3. PICK b \in Buckets : b = t.buckets[k]
  BY <1>1
<1>4. PICK s \in Seq(Elems) : s = b.chain
  BY DEF Buckets
<1>5. Distinct(s) /\ Image(s) = {x \in P : BktOf(x, t) = k} /\ b.count = Len(s)
  <2>1. FiledAt(t, P, k)
    BY <1>1 DEF Filed
  <2> QED
    BY <1>3, <1>4, <2>1 DEF FiledAt
<1>6. PICK i \in 1..Len(s) : s[i] = e
  <2>1. e \in Image(s)
    BY <1>2, <1>5
  <2> QED
    BY <2>1 DEF Image
<1>7. PICK c : c = Unchain(b, e)
  OBVIOUS
<1>8. /\ c \in Buckets /\ c.chain = Drop(s, i) /\ c.count = b.count - 1
      /\ c.expand_mult = b.expand_mult
  <2>1. Distinct(b.chain) /\ i \in 1..Len(b.chain) /\ b.count = Len(b.chain) /\ c = Unchain(b, b.chain[i])
    BY <1>4, <1>5, <1>6, <1>7
  <2>2. /\ c \in Buckets /\ c.chain = Drop(b.chain, i) /\ c.count = b.count - 1
        /\ c.expand_mult = b.expand_mult
    BY <2>1, UnchainIs
  <2> QED
    BY <1>4, <2>2
<1>9. u.buckets = [t.buckets EXCEPT ![k] = c]
  BY <1>1, <1>2, <1>3, <1>7
<1>10. u.buckets \in [1..n -> Buckets] /\ \A j \in 1..n : u.buckets[j] = IF j = k THEN c ELSE t.buckets[j]
  BY <1>1, <1>8, <1>9
<1>11. u.buckets \in Seq(Buckets) /\ Len(u.buckets) = n
  BY <1>10, SeqFrom
<1>12. \A x : BktOf(x, u) = BktOf(x, t)
  BY <1>1, <1>11 DEF BktOf, HASH_TO_BKT
<1>13. /\ Len(Drop(s, i)) = Len(s) - 1 /\ Distinct(Drop(s, i)) /\ Image(Drop(s, i)) = Image(s) \ {e}
  BY <1>5, <1>6, DropIs
<1>14. ASSUME NEW j \in 1..n PROVE FiledAt(u, P \ {e}, j)
  <2>1. CASE j = k
    <3>1. u.buckets[j] = c
      BY <1>10, <2>1
    <3>2. {x \in P \ {e} : BktOf(x, u) = j} = Image(s) \ {e}
      BY <1>5, <1>12, <2>1
    <3> QED
      BY <1>5, <1>8, <1>13, <3>1, <3>2 DEF FiledAt
  <2>2. CASE j # k
    <3>1. u.buckets[j] = t.buckets[j]
      BY <1>10, <2>2
    <3>2. {x \in P \ {e} : BktOf(x, u) = j} = {x \in P : BktOf(x, t) = j}
      BY <1>2, <1>12, <2>2
    <3>3. FiledAt(t, P, j)
      BY <1>1 DEF Filed
    <3> QED
      BY <3>1, <3>2, <3>3 DEF FiledAt
  <2> QED
    BY <2>1, <2>2
<1>15. ASSUME NEW j \in 1..n
       PROVE  /\ u.buckets[j].expand_mult = t.buckets[j].expand_mult
              /\ u.buckets[j].count <= t.buckets[j].count
              /\ \A x, y : Precedes(u.buckets[j].chain, x, y) => Precedes(t.buckets[j].chain, x, y)
  <2>1. CASE j = k
    <3>1. u.buckets[j] = c /\ t.buckets[j] = b
      BY <1>3, <1>10, <2>1
    <3>2. b.count \in Nat
      BY DEF Buckets
    <3>3. \A x, y : Precedes(Drop(s, i), x, y) => Precedes(s, x, y)
      BY PrecedesDrop
    <3>4. c.count <= b.count
      BY <1>8, <3>2
    <3> QED
      BY <1>4, <1>8, <3>1, <3>3, <3>4
  <2>2. CASE j # k
    <3>1. u.buckets[j] = t.buckets[j] /\ t.buckets[j] \in Buckets
      BY <1>1, <1>10, <2>2
    <3>2. t.buckets[j].count \in Nat
      BY <3>1 DEF Buckets
    <3>3. t.buckets[j].count <= t.buckets[j].count
      BY <3>2
    <3> QED
      BY <3>1, <3>3
  <2> QED
    BY <2>1, <2>2
<1>16. Filed(u, P \ {e})
  BY <1>11, <1>14 DEF Filed
<1> QED
  BY <1>1, <1>11, <1>15, <1>16 DEF Lessened

LEMMA DeleteGood ==
  ASSUME HashAssumption, NEW t, NEW s, Good(t, s), NEW d \in 1..Len(s)
  PROVE  Good(Deleted(t, s[d]), Drop(s, d))
<1>1. /\ t \in Tables /\ Linked(t, s) /\ Filed(t, Image(s)) /\ t.num_items = Len(s)
      /\ s # << >> => t.tail = s[Len(s)] /\ Len(t.buckets) >= InitialBuckets
      /\ s # << >> => Len(t.buckets) # 0
      /\ LastFirst(t, s) /\ Sized(t) /\ Bounded(t)
      /\ s \in Seq(Elems) /\ Distinct(s) /\ t.next = Links(s, 1) /\ t.prev = Links(s, -1)
  BY DEF Good, Sound, Linked
<1>2. PICK n \in Nat \ {0} : n = Len(s) /\ DOMAIN s = 1..n /\ s # << >>
  BY <1>1
<1>3. PICK e \in Elems : e = s[d] /\ e \in Image(s)
  BY <1>1, <1>2 DEF Image
<1>4. PICK before, after : before = t.prev[e] /\ after = t.next[e]
  OBVIOUS
<1>5. PICK u : u = Deleted(t, e)
  OBVIOUS
<1>6. PICK r : r = Drop(s, d)
  OBVIOUS
<1>7. /\ r \in Seq(Elems) /\ Len(r) = n - 1 /\ Distinct(r) /\ Image(r) = Image(s) \ {e}
  BY <1>1, <1>2, <1>3, <1>6, DropIs
<1>8. CASE n = 1
  <2>1. d = 1
    BY <1>2, <1>8
  <2>2. after = NULL
    <3>1. Links(s, 1)[s[d]] = IF d + 1 \in 1..Len(s) THEN s[d + 1] ELSE NULL
      BY <1>1, LinksIs
    <3>2. d + 1 \notin 1..Len(s)
      BY <1>2, <1>8, <2>1
    <3> QED
      BY <1>1, <1>3, <1>4, <3>1, <3>2
  <2>3. before = NULL
    <3>1. PICK m \in Int : m = -1
      OBVIOUS
    <3>2. Links(s, m)[s[d]] = IF d + m \in 1..Len(s) THEN s[d + m] ELSE NULL
      BY <1>1, LinksIs
    <3>3. d + m \notin 1..Len(s)
      BY <1>2, <1>8, <2>1, <3>1
    <3> QED
      BY <1>1, <1>3, <1>4, <3>1, <3>2, <3>3
  <2>4. u = NoChains
    BY <1>4, <1>5, <2>2, <2>3 DEF Deleted
  <2>5. r = << >>
    BY <1>7, <1>8
  <2>6. Good(u, r)
    BY <2>4, <2>5, GoodNone, Zenon
  <2> QED
    BY <1>3, <1>5, <1>6, <2>6
<1>9. CASE n # 1
  <2>1. PICK nx : nx = [x \in Elems |-> IF x = before THEN after
                                        ELSE IF x = e THEN NULL ELSE t.next[x]]
    OBVIOUS
  <2>2. PICK pv : pv = [x \in Elems |-> IF x = after THEN before
                                        ELSE IF x = e THEN NULL ELSE t.prev[x]]
    OBVIOUS
  <2>3. PICK hd : hd = IF before = NULL THEN after ELSE t.head
    OBVIOUS
  <2>4. PICK tl : tl = IF e = t.tail THEN before ELSE t.tail
    OBVIOUS
  <2>5. PICK bs : bs = [t.buckets EXCEPT ![BktOf(e, t)] = Unchain(@, e)]
    OBVIOUS
  <2>6. PICK m \in Nat : m = n - 1
    OBVIOUS
  <2>7. PICK w : w = [head |-> hd, next |-> nx, prev |-> pv, buckets |-> bs]
    OBVIOUS
  <2>8. w.head = hd /\ w.next = nx /\ w.prev = pv /\ w.buckets = bs
    BY <2>7
  <2>9. /\ Linked(w, r) /\ (before = NULL <=> d = 1) /\ (after = NULL <=> d = n)
        /\ (d # 1 => before = s[d - 1])
    <3>1. Len(s) # 1 /\ Cut(t, s[d], before, after, w)
      BY <1>2, <1>3, <1>4, <1>9, <2>1, <2>2, <2>3, <2>8 DEF Cut
    <3>2. Linked(w, Drop(s, d)) /\ Ends(s, d, before, after)
      <4>1. Linked(t, s)
        BY <1>1
      <4> QED
        BY <3>1, <4>1, LinkedDrop
    <3> QED
      BY <1>2, <1>6, <3>2 DEF Ends
  <2>10. ~ (before = NULL /\ after = NULL)
    BY <1>9, <2>9
  <2>11. u = [t EXCEPT !.head = hd, !.tail = tl, !.next = nx, !.prev = pv, !.buckets = bs,
                       !.num_items = m]
    <3>1. u = [t EXCEPT !.head = IF before = NULL THEN after ELSE @,
                    !.tail = IF e = t.tail THEN before ELSE @,
                    !.next = Past(t.next, before, e), !.prev = Past(t.prev, after, e),
                    !.buckets[BktOf(e, t)] = Unchain(@, e),
                    !.num_items = @ - 1]
      BY <1>4, <1>5, <2>10 DEF Deleted
    <3>2. nx = Past(t.next, before, e) /\ pv = Past(t.prev, after, e)
      BY <1>4, <2>1, <2>2 DEF Past
    <3>3. u = [t EXCEPT !.head = hd, !.tail = tl, !.next = nx, !.prev = pv,
                    !.buckets[BktOf(e, t)] = Unchain(@, e),
                    !.num_items = @ - 1]
      BY <1>1, <2>3, <2>4, <3>1, <3>2 DEF Tables
    <3> QED
      BY <1>1, <1>2, <2>5, <2>6, <3>3 DEF Tables
  <2>12. PICK P \in SUBSET Elems : P = Image(s)
    BY <1>1, ImageIn
  <2>13. /\ bs \in Seq(Buckets) /\ Len(bs) = Len(t.buckets)
         /\ Filed(w, Image(r))
         /\ \A i \in 1..Len(t.buckets) :
              /\ bs[i].expand_mult = t.buckets[i].expand_mult
              /\ bs[i].count <= t.buckets[i].count
              /\ \A x, y : Precedes(bs[i].chain, x, y) => Precedes(t.buckets[i].chain, x, y)
    <3>1. Filed(t, P) /\ Len(t.buckets) # 0 /\ e \in P
      BY <1>1, <1>2, <1>3, <2>12
    <3>2. w.buckets = [t.buckets EXCEPT ![BktOf(e, t)] = Unchain(@, e)]
      BY <2>5, <2>8
    <3>3. /\ w.buckets \in Seq(Buckets) /\ Len(w.buckets) = Len(t.buckets)
          /\ Filed(w, P \ {e}) /\ Lessened(t, w)
      <4>1. t \in Tables
        BY <1>1
      <4> QED
        BY <3>1, <3>2, <4>1, UnchainedFiled
    <3> QED
      BY <1>7, <2>8, <2>12, <3>3 DEF Lessened
  <2>14. tl = r[Len(r)] /\ tl \in Elems \cup {NULL} /\ r # << >>
    <3>1. Len(r) = m /\ m \in 1..n - 1
      BY <1>2, <1>7, <1>9, <2>6
    <3>2. r[m] = IF m < d THEN s[m] ELSE s[m + 1]
      BY <1>2, <1>6, <3>1 DEF Drop
    <3>3. t.tail = s[n] /\ (e = s[n] <=> d = n)
      BY <1>1, <1>2, <1>3 DEF Distinct
    <3>4. tl = r[m]
      <4>1. CASE d = n
        BY <1>9, <2>4, <2>6, <2>9, <3>2, <3>3, <4>1
      <4>2. CASE d # n
        <5>1. ~ (m < d) /\ m + 1 = n
          BY <1>2, <2>6, <4>2
        <5> QED
          BY <2>4, <3>2, <3>3, <4>2, <5>1
      <4> QED
        BY <4>1, <4>2
    <3>5. r[m] \in Elems
      BY <1>7, <3>1
    <3>6. r # << >>
      BY <1>7, <3>1
    <3> QED
      BY <3>1, <3>4, <3>5, <3>6
  <2>15. nx \in [Elems -> Elems \cup {NULL}] /\ pv \in [Elems -> Elems \cup {NULL}]
         /\ hd \in Elems \cup {NULL}
    <3>1. t.next \in [Elems -> Elems \cup {NULL}] /\ t.prev \in [Elems -> Elems \cup {NULL}]
      BY <1>1 DEF Tables
    <3>2. t.head \in Elems \cup {NULL}
      BY <1>1 DEF Tables
    <3>3. before \in Elems \cup {NULL} /\ after \in Elems \cup {NULL}
      BY <1>4, <3>1
    <3> QED
      BY <2>1, <2>2, <2>3, <3>1, <3>2, <3>3
  <2>16. u \in Tables
    BY <1>1, <2>11, <2>13, <2>14, <2>15 DEF Tables
  <2>17. /\ u.head = hd /\ u.tail = tl /\ u.next = nx /\ u.prev = pv /\ u.buckets = bs
         /\ u.num_items = m /\ u.noexpand = t.noexpand
         /\ u.ideal_chain_maxlen = t.ideal_chain_maxlen
    BY <1>1, <2>11 DEF Tables
  <2>18. Linked(u, r) /\ Filed(u, Image(r))
    BY <2>8, <2>9, <2>13, <2>17, LinkedSame, FiledSame
  <2>19. Sound(u, r) /\ Len(u.buckets) = Len(t.buckets) /\ Len(t.buckets) >= InitialBuckets
    <3>1. Len(t.buckets) # 0 /\ Len(t.buckets) >= InitialBuckets
      BY <1>1, <1>2
    <3> QED
      BY <1>7, <2>6, <2>13, <2>14, <2>16, <2>17, <2>18, <3>1 DEF Sound
  <2>20. LastFirst(u, r)
    <3>1. SUFFICES ASSUME Len(t.buckets) = InitialBuckets,
                          NEW i \in 1..Len(t.buckets), NEW x \in Elems, NEW y \in Elems,
                          Precedes(bs[i].chain, x, y), Key[x] = Key[y]
                   PROVE  Precedes(r, y, x)
      BY <2>17, <2>19 DEF LastFirst
    <3>2. Precedes(s, y, x)
      BY <1>1, <2>13, <3>1 DEF LastFirst
    <3>3. x \in Image(r) /\ y \in Image(r)
      <4>1. x \in Image(bs[i].chain) /\ y \in Image(bs[i].chain)
        BY <3>1 DEF Precedes, Image
      <4>2. FiledAt(w, Image(r), i)
        BY <2>8, <2>13 DEF Filed
      <4> QED
        BY <2>8, <4>1, <4>2 DEF FiledAt
    <3>4. x # s[d] /\ y # s[d]
      BY <1>3, <1>7, <3>3
    <3> QED
      BY <1>1, <1>6, <3>2, <3>4, PrecedesDrop
  <2>21. Sized(u)
    BY <1>1, <2>13, <2>17, <2>19 DEF Sized
  <2>22. Bounded(u)
    <3>1. /\ Len(u.buckets) = Len(t.buckets) /\ u.noexpand = t.noexpand
          /\ u.ideal_chain_maxlen = t.ideal_chain_maxlen
          /\ \A i \in 1..Len(t.buckets) :
               /\ u.buckets[i].expand_mult = t.buckets[i].expand_mult
               /\ \/ u.buckets[i].count <= t.buckets[i].count
                  \/ u.buckets[i].count < Limit(u.buckets[i])
      BY <2>13, <2>17, <2>19
    <3> QED
      BY <1>1, <2>16, <3>1, BoundedLess
  <2>23. Good(u, r)
    BY <2>14, <2>17, <2>19, <2>20, <2>21, <2>22 DEF Good
  <2> QED
    BY <1>3, <1>5, <1>6, <2>23
<1> QED
  BY <1>8, <1>9


(* The same of the pointers: only the bucket of e is another, and only      *)
(* elements of its chain lead elsewhere.                                    *)
Unthreads(t, a, e, k, hn, hp, bs, cs) ==
  /\ k = BktOf(e, a)
  /\ hn = Past(t.hh_next, t.hh_prev[e], e) /\ hp = Past(t.hh_prev, t.hh_next[e], e)
  /\ bs = [t.buckets EXCEPT ![k] = Shorter(@, e, t.hh_next[e])]
  /\ cs = [a.buckets EXCEPT ![k] = Unchain(@, e)]

LEMMA UnthreadedAt ==
  ASSUME HashAssumption, NEW t, NEW a, Threads(t, a), NEW P \in SUBSET Elems, Filed(a, P),
         Len(a.buckets) # 0, NEW e \in P, NEW k, NEW hn, NEW hp, NEW bs, NEW cs,
         Unthreads(t, a, e, k, hn, hp, bs, cs)
  PROVE  /\ bs \in Seq(Heads) /\ Len(bs) = Len(a.buckets) /\ hn \in Pointers /\ hp \in Pointers
         /\ \A i \in 1..Len(a.buckets) :
              /\ bs[i].count = cs[i].count /\ bs[i].expand_mult = cs[i].expand_mult
              /\ Chained(bs[i].hh_head, hn, hp, cs[i].chain)
<1>1. PICK n \in Nat \ {0} : /\ n = Len(a.buckets) /\ n = Len(t.buckets)
                             /\ a.buckets \in [1..n -> Buckets] /\ t.buckets \in [1..n -> Heads]
  BY ThreadsIs
<1>2. t.hh_next \in Pointers /\ t.hh_prev \in Pointers /\ e \in Elems
  BY ThreadsIs DEF Memory
<1>0. /\ k = BktOf(e, a)
      /\ hn = Past(t.hh_next, t.hh_prev[e], e) /\ hp = Past(t.hh_prev, t.hh_next[e], e)
      /\ bs = [t.buckets EXCEPT ![k] = Shorter(@, e, t.hh_next[e])]
      /\ cs = [a.buckets EXCEPT ![k] = Unchain(@, e)]
  BY DEF Unthreads
<1>3. PICK before, after : /\ before = t.hh_prev[e] /\ after = t.hh_next[e]
                           /\ before \in Elems \cup {NULL} /\ after \in Elems \cup {NULL}
  BY <1>2 DEF Pointers
<1>4. k \in 1..n
  BY <1>0, <1>1, <1>2, BktIs
<1>5. PICK b \in Buckets, h \in Heads : b = a.buckets[k] /\ h = t.buckets[k]
  BY <1>1, <1>4
<1>6. PICK c \in Seq(Elems) : c = b.chain
  BY DEF Buckets
<1>7. Distinct(c) /\ Image(c) = {x \in P : BktOf(x, a) = k} /\ b.count = Len(c)
  <2>1. FiledAt(a, P, k)
    BY <1>1, <1>4 DEF Filed
  <2> QED
    BY <1>5, <1>6, <2>1 DEF FiledAt
<1>8. PICK i \in 1..Len(c) : c[i] = e
  <2>1. e \in Image(c)
    BY <1>0, <1>7
  <2> QED
    BY <2>1 DEF Image
<1>9. h.count = b.count /\ h.expand_mult = b.expand_mult /\ Chained(h.hh_head, t.hh_next, t.hh_prev, c)
  <2>1. ThreadedAt(t, a, k)
    BY <1>1, <1>4, ThreadsIs
  <2> QED
    BY <1>5, <1>6, <2>1 DEF ThreadedAt
<1>10. PICK m \in Nat : m = Len(c) - 1
  <2>1. PICK l \in Nat : l = Len(c) /\ i \in 1..l
    BY <1>8
  <2> QED
    BY <2>1
<1>11. PICK g : g = IF h.hh_head = e THEN after ELSE h.hh_head
  OBVIOUS
<1>12. PICK s : s = Shorter(h, e, after)
  OBVIOUS
<1>13. s = [h EXCEPT !.hh_head = g, !.count = m]
  BY <1>7, <1>9, <1>10, <1>11, <1>12 DEF Shorter
<1>14. g \in Elems \cup {NULL}
  BY <1>3, <1>11 DEF Heads
<1>15. s \in Heads /\ s.hh_head = g /\ s.count = m /\ s.expand_mult = h.expand_mult
  BY <1>13, <1>14 DEF Heads
<1>16. PICK d : d = Unchain(b, e)
  OBVIOUS
<1>17. d.chain = Drop(c, i) /\ d.count = m /\ d.expand_mult = b.expand_mult
  <2>1. Distinct(b.chain) /\ i \in 1..Len(b.chain) /\ b.count = Len(b.chain) /\ d = Unchain(b, b.chain[i])
    BY <1>6, <1>7, <1>8, <1>16
  <2>2. d.chain = Drop(b.chain, i) /\ d.count = b.count - 1 /\ d.expand_mult = b.expand_mult
    BY <2>1, UnchainIs
  <2> QED
    BY <1>6, <1>7, <1>10, <2>2
<1>18. bs \in [1..n -> Heads] /\ \A j \in 1..n : bs[j] = IF j = k THEN s ELSE t.buckets[j]
  <2>1. bs = [t.buckets EXCEPT ![k] = s]
    BY <1>0, <1>1, <1>3, <1>4, <1>5, <1>12
  <2> QED
    BY <1>1, <1>15, <2>1
<1>19. \A j \in 1..n : cs[j] = IF j = k THEN d ELSE a.buckets[j]
  BY <1>0, <1>1, <1>4, <1>5, <1>16
<1>20. bs \in Seq(Heads) /\ Len(bs) = n
  BY <1>18, SeqFrom
<1>21. hn \in Pointers /\ hp \in Pointers
  BY <1>0, <1>2, <1>3 DEF Past, Pointers
<1>22. Chained(g, hn, hp, Drop(c, i))
  <2>1. g = (IF h.hh_head = e THEN t.hh_next[e] ELSE h.hh_head)
    BY <1>3, <1>11
  <2>2. PICK h0, nx, pv : h0 = h.hh_head /\ nx = t.hh_next /\ pv = t.hh_prev
    OBVIOUS
  <2>3. /\ Chained(h0, nx, pv, c) /\ g = (IF h0 = e THEN nx[e] ELSE h0)
        /\ hn = Past(nx, pv[e], e) /\ hp = Past(pv, nx[e], e)
    BY <1>0, <1>9, <2>1, <2>2
  <2> QED
    BY <1>7, <1>8, <2>3, ChainedDrop
<1>23. ASSUME NEW j \in 1..n, j # k
       PROVE  Chained(t.buckets[j].hh_head, hn, hp, a.buckets[j].chain)
  <2>1. PICK o \in Seq(Elems) : o = a.buckets[j].chain
    BY <1>1 DEF Buckets
  <2>2. Image(o) = {x \in P : BktOf(x, a) = j}
    <3>1. FiledAt(a, P, j)
      BY <1>1 DEF Filed
    <3> QED
      BY <2>1, <3>1 DEF FiledAt
  <2>3. ThreadedAt(t, a, j)
    BY <1>1, ThreadsIs
  <2>4. before \in Image(c) \cup {NULL} /\ after \in Image(c) \cup {NULL}
    <3>1. PICK l \in Nat : l = Len(c) /\ DOMAIN c = 1..l /\ i \in 1..l
      BY <1>6, <1>8
    <3>2. /\ after = IF i + 1 \in 1..l THEN c[i + 1] ELSE NULL
          /\ before = IF i = 1 THEN NULL ELSE c[i - 1]
      BY <1>3, <1>8, <1>9, <3>1 DEF Chained
    <3>3. i # 1 => i - 1 \in 1..l
      BY <3>1
    <3> QED
      BY <3>1, <3>2, <3>3 DEF Image
  <2>5. ASSUME NEW x \in Image(o) PROVE hn[x] = t.hh_next[x] /\ hp[x] = t.hh_prev[x]
    <3>1. x \in Elems /\ x \notin Image(c) /\ x # e
      BY <1>0, <1>7, <1>23, <2>2, <2>5
    <3>2. x # NULL
      BY <3>1 DEF HashAssumption
    <3>3. x # before /\ x # after
      BY <2>4, <3>1, <3>2
    <3> QED
      BY <1>0, <1>3, <3>1, <3>3 DEF Past
  <2>6. PICK h0 : h0 = t.buckets[j].hh_head
    OBVIOUS
  <2>7. Chained(h0, t.hh_next, t.hh_prev, o)
    BY <2>1, <2>3, <2>6 DEF ThreadedAt
  <2>8. PICK nx, pv : nx = t.hh_next /\ pv = t.hh_prev
    OBVIOUS
  <2>9. Chained(h0, nx, pv, o) /\ \A x \in Image(o) : hn[x] = nx[x] /\ hp[x] = pv[x]
    BY <2>5, <2>7, <2>8
  <2>10. Chained(h0, hn, hp, o)
    BY <2>9, ChainedElse
  <2> QED
    BY <2>1, <2>6, <2>10
<1>24. ASSUME NEW j \in 1..n
       PROVE  /\ bs[j].count = cs[j].count /\ bs[j].expand_mult = cs[j].expand_mult
              /\ Chained(bs[j].hh_head, hn, hp, cs[j].chain)
  <2>1. CASE j = k
    <3>1. bs[j] = s /\ cs[j] = d
      BY <1>18, <1>19, <2>1
    <3> QED
      BY <1>9, <1>15, <1>17, <1>22, <3>1
  <2>2. CASE j # k
    <3>1. bs[j] = t.buckets[j] /\ cs[j] = a.buckets[j]
      BY <1>18, <1>19, <2>2
    <3>2. ThreadedAt(t, a, j)
      BY <1>1, ThreadsIs
    <3> QED
      BY <1>23, <2>2, <3>1, <3>2 DEF ThreadedAt
  <2> QED
    BY <2>1, <2>2
<1> QED
  BY <1>1, <1>20, <1>21, <1>24

LEMMA DeleteIs ==
  ASSUME HashAssumption, NEW t, NEW a, Threads(t, a), NEW s, Good(a, s), NEW d \in 1..Len(s),
         NEW u, u = HASH_DELETE(t, s[d])
  PROVE  IF Len(s) = 1 THEN u = NoTable ELSE Threads(u, Deleted(a, s[d]))
<1>1. /\ a \in Tables /\ Filed(a, Image(s)) /\ a.num_items = Len(s) /\ s # << >>
      /\ Len(a.buckets) # 0 /\ s \in Seq(Elems) /\ Distinct(s)
      /\ a.next = Links(s, 1) /\ a.prev = Links(s, -1)
  <2>1. /\ a \in Tables /\ Filed(a, Image(s)) /\ a.num_items = Len(s)
        /\ (s # << >> => Len(a.buckets) # 0) /\ Linked(a, s)
    BY DEF Good, Sound
  <2>2. s \in Seq(Elems) /\ Distinct(s) /\ a.next = Links(s, 1) /\ a.prev = Links(s, -1)
    BY <2>1 DEF Linked
  <2>3. s # << >>
    BY <2>2
  <2> QED
    BY <2>1, <2>2, <2>3
<1>2. t \in Memory /\ Alike(t, a)
  BY ThreadsIs
<1>3. PICK n \in Nat \ {0} : n = Len(s) /\ DOMAIN s = 1..n /\ d \in 1..n
  BY <1>1
<1>4. PICK e \in Elems : e = s[d] /\ e \in Image(s)
  BY <1>1, <1>3 DEF Image
<1>5. PICK before, after : /\ before = t.prev[e] /\ after = t.next[e]
                           /\ before = a.prev[e] /\ after = a.next[e]
  BY <1>2 DEF Alike
<1>6. (before = NULL /\ after = NULL) <=> n = 1
  <2>1. PICK m \in Int : m = -1
    OBVIOUS
  <2>2. /\ after = IF d + 1 \in 1..n THEN s[d + 1] ELSE NULL
        /\ before = IF d + m \in 1..n THEN s[d + m] ELSE NULL
    <3>1. /\ Links(s, 1)[s[d]] = IF d + 1 \in 1..Len(s) THEN s[d + 1] ELSE NULL
          /\ Links(s, m)[s[d]] = IF d + m \in 1..Len(s) THEN s[d + m] ELSE NULL
      <4>1. \A i \in 1..Len(s) :
              Links(s, 1)[s[i]] = IF i + 1 \in 1..Len(s) THEN s[i + 1] ELSE NULL
        BY <1>1, LinksIs
      <4>2. \A i \in 1..Len(s) :
              Links(s, m)[s[i]] = IF i + m \in 1..Len(s) THEN s[i + m] ELSE NULL
        BY <1>1, LinksIs
      <4> QED
        BY <4>1, <4>2
    <3> QED
      BY <1>1, <1>3, <1>4, <1>5, <2>1, <3>1
  <2>3. \A i \in 1..n : s[i] \in Elems
    BY <1>1, <1>3
  <2>4. NULL \notin Elems
    BY DEF HashAssumption
  <2>5. (d + 1 \notin 1..n /\ d + m \notin 1..n) <=> n = 1
    BY <1>3, <2>1
  <2> QED
    BY <2>2, <2>3, <2>4, <2>5
<1>7. CASE n = 1
  <2>1. u = NoTable
    BY <1>4, <1>5, <1>6, <1>7 DEF HASH_DELETE
  <2> QED
    BY <1>3, <1>7, <2>1
<1>8. CASE n # 1
  <2>1. PICK w : w = Deleted(a, e)
    OBVIOUS
  <2>2. w \in Tables
    <3>1. Good(Deleted(a, s[d]), Drop(s, d))
      BY DeleteGood
    <3>2. Good(w, Drop(s, d))
      BY <1>4, <2>1, <3>1
    <3> QED
      BY <3>2 DEF Good, Sound
  <2>3. PICK nx, pv, hd, tl, m :
          /\ nx = Past(t.next, before, e) /\ pv = Past(t.prev, after, e)
          /\ hd = (IF before = NULL THEN after ELSE t.head)
          /\ tl = (IF e = t.tail THEN before ELSE t.tail) /\ m = n - 1
    OBVIOUS
  <2>4. PICK k, hn, hp, bs, cs :
          /\ k = BktOf(e, a) /\ hn = Past(t.hh_next, t.hh_prev[e], e)
          /\ hp = Past(t.hh_prev, t.hh_next[e], e)
          /\ bs = [t.buckets EXCEPT ![k] = Shorter(@, e, t.hh_next[e])]
          /\ cs = [a.buckets EXCEPT ![k] = Unchain(@, e)]
    OBVIOUS
  <2>5. /\ bs \in Seq(Heads) /\ Len(bs) = Len(a.buckets) /\ hn \in Pointers /\ hp \in Pointers
        /\ \A i \in 1..Len(a.buckets) :
              /\ bs[i].count = cs[i].count /\ bs[i].expand_mult = cs[i].expand_mult
              /\ Chained(bs[i].hh_head, hn, hp, cs[i].chain)
    <3>1. PICK P \in SUBSET Elems : P = Image(s)
      BY <1>1, ImageIn
    <3>2. Filed(a, P) /\ e \in P
      BY <1>1, <1>4, <3>1
    <3>3. Unthreads(t, a, e, k, hn, hp, bs, cs)
      BY <2>4 DEF Unthreads
    <3> QED
      BY <1>1, <3>2, <3>3, UnthreadedAt
  <2>6. u = [t EXCEPT !.hh_next = hn, !.hh_prev = hp, !.buckets = bs, !.head = hd, !.tail = tl,
                      !.next = nx, !.prev = pv, !.num_items = m]
    <3>1. PICK v : v = HASH_DEL_IN_BKT(t, e)
      OBVIOUS
    <3>2. BktOf(e, t) = k
      BY <2>4, ThreadsBkt
    <3>3. v = [t EXCEPT !.hh_next = hn, !.hh_prev = hp, !.buckets[k] = Shorter(@, e, t.hh_next[e])]
      BY <2>4, <3>1, <3>2 DEF HASH_DEL_IN_BKT
    <3>4. v = [t EXCEPT !.hh_next = hn, !.hh_prev = hp, !.buckets = bs]
      BY <1>2, <2>4, <3>3 DEF Memory
    <3>5. v.head = t.head /\ v.tail = t.tail /\ v.num_items = n
      BY <1>1, <1>2, <1>3, <3>4 DEF Memory, Alike
    <3>6. u = [v EXCEPT !.head = IF before = NULL THEN after ELSE @,
                        !.tail = IF e = t.tail THEN before ELSE @,
                        !.next = Past(t.next, before, e), !.prev = Past(t.prev, after, e),
                        !.num_items = @ - 1]
      BY <1>4, <1>5, <1>6, <1>8, <3>1 DEF HASH_DELETE
    <3>7. u = [v EXCEPT !.head = hd, !.tail = tl, !.next = nx, !.prev = pv, !.num_items = m]
      BY <2>3, <3>5, <3>6
    <3> QED
      BY <3>4, <3>7
  <2>7. w = [a EXCEPT !.head = hd, !.tail = tl, !.next = nx, !.prev = pv, !.buckets = cs,
                      !.num_items = m]
    <3>1. /\ a.head = t.head /\ a.tail = t.tail /\ a.num_items = n
          /\ a.next = t.next /\ a.prev = t.prev
      BY <1>1, <1>2, <1>3 DEF Alike
    <3>2. w = [a EXCEPT !.head = IF before = NULL THEN after ELSE @,
                        !.tail = IF e = a.tail THEN before ELSE @,
                        !.next = Past(a.next, before, e), !.prev = Past(a.prev, after, e),
                        !.buckets[BktOf(e, a)] = Unchain(@, e), !.num_items = @ - 1]
      BY <1>5, <1>6, <1>8, <2>1 DEF Deleted
    <3>3. w = [a EXCEPT !.head = hd, !.tail = tl, !.next = nx, !.prev = pv,
                        !.buckets[k] = Unchain(@, e), !.num_items = m]
      BY <1>1, <2>3, <2>4, <3>1, <3>2 DEF Tables
    <3> QED
      BY <1>1, <2>4, <3>3 DEF Tables
  <2>8. /\ w.head = hd /\ w.tail = tl /\ w.next = nx /\ w.prev = pv /\ w.buckets = cs
        /\ w.num_items = m /\ w.ideal_chain_maxlen = a.ideal_chain_maxlen
        /\ w.noexpand = a.noexpand
    BY <1>1, <2>7 DEF Tables
  <2>9. /\ hd \in Elems \cup {NULL} /\ tl \in Elems \cup {NULL} /\ nx \in Pointers /\ pv \in Pointers
        /\ m \in Nat
    BY <2>2, <2>8 DEF Tables, Pointers
  <2>10. u \in Memory
    BY <1>2, <2>5, <2>6, <2>9 DEF Memory
  <2>11. /\ u.head = hd /\ u.tail = tl /\ u.next = nx /\ u.prev = pv /\ u.buckets = bs
         /\ u.hh_next = hn /\ u.hh_prev = hp
         /\ u.num_items = m /\ u.ideal_chain_maxlen = t.ideal_chain_maxlen
         /\ u.noexpand = t.noexpand
    BY <1>2, <2>6 DEF Memory
  <2>12. Alike(u, w)
    BY <1>2, <2>8, <2>11 DEF Alike
  <2>13. Len(w.buckets) = Len(a.buckets)
    <3>1. PICK l \in Nat : l = Len(a.buckets) /\ a.buckets \in [1..l -> Buckets]
      BY ThreadsIs
    <3>2. DOMAIN cs = 1..l
      BY <2>4, <3>1
    <3>3. cs \in Seq(Buckets)
      BY <2>2, <2>8 DEF Tables
    <3> QED
      BY <2>8, <3>1, <3>2, <3>3
  <2>14. Len(u.buckets) = Len(w.buckets) /\ \A i \in 1..Len(w.buckets) : ThreadedAt(u, w, i)
    BY <2>5, <2>8, <2>11, <2>13 DEF ThreadedAt
  <2>15. Threads(u, w)
    BY <2>2, <2>10, <2>12, <2>14 DEF Threads
  <2> QED
    BY <1>3, <1>4, <1>8, <2>1, <2>15
<1> QED
  BY <1>7, <1>8

-----------------------------------------------------------------------------
(* Sorting the order of a table leaves its buckets alone. *)
SortedOf(s, r) ==
  /\ r \in Seq(Elems) /\ Distinct(r) /\ Image(r) = Image(s) /\ Len(r) = Len(s)
  /\ \A i, j \in 1..Len(r) :
       i < j => \/ Key[r[i]] < Key[r[j]]
                \/ Key[r[i]] = Key[r[j]] /\ Precedes(s, r[i], r[j])

LEMMA SortGood ==
  ASSUME HashAssumption, NEW t, NEW s, Good(t, s), NEW r, r = MergeSort(s), SortedOf(s, r)
  PROVE  Good(HASH_SORT(t), r)
<1>1. /\ t \in Tables /\ Linked(t, s) /\ Filed(t, Image(s)) /\ t.num_items = Len(s)
      /\ s # << >> => t.tail = s[Len(s)] /\ Len(t.buckets) >= InitialBuckets
      /\ s # << >> => Len(t.buckets) # 0
      /\ LastFirst(t, s) /\ Sized(t) /\ Bounded(t) /\ s \in Seq(Elems) /\ Distinct(s)
  BY DEF Good, Sound, Linked
<1>2. /\ r \in Seq(Elems) /\ Distinct(r) /\ Image(r) = Image(s) /\ Len(r) = Len(s)
  BY DEF SortedOf
<1>3. AppOrder(t) = s
  BY <1>1, OrderIs
<1>4. t.head = NULL <=> s = << >>
  BY <1>1, HeadIs
<1>5. PICK u : u = HASH_SORT(t)
  OBVIOUS
<1>6. CASE s = << >>
  <2>1. u = t
    BY <1>4, <1>5, <1>6 DEF HASH_SORT
  <2>2. r = s
    BY <1>2, <1>6
  <2> QED
    BY <1>5, <2>1, <2>2
<1>7. CASE s # << >>
  <2>1. PICK n \in Nat \ {0} : n = Len(r) /\ n = Len(s) /\ DOMAIN r = 1..n /\ DOMAIN s = 1..n
    BY <1>1, <1>2, <1>7
  <2>2. PICK hd \in Elems, tl \in Elems : hd = r[1] /\ tl = r[n]
    BY <1>2, <2>1
  <2>3. PICK nx : nx = Links(r, 1)
    OBVIOUS
  <2>4. PICK pv : pv = Links(r, -1)
    OBVIOUS
  <2>5. u = [t EXCEPT !.head = hd, !.tail = tl, !.next = nx, !.prev = pv]
    BY <1>3, <1>4, <1>5, <1>7, <2>1, <2>2, <2>3, <2>4 DEF HASH_SORT
  <2>6. nx \in [Elems -> Elems \cup {NULL}] /\ pv \in [Elems -> Elems \cup {NULL}]
    <3>1. \A d \in Int : Links(r, d) \in [Elems -> Elems \cup {NULL}]
      BY <1>2, LinksIs
    <3>2. 1 \in Int /\ -1 \in Int
      OBVIOUS
    <3> QED
      BY <2>3, <2>4, <3>1, <3>2
  <2>7. u \in Tables
    BY <1>1, <2>5, <2>6 DEF Tables
  <2>8. /\ u.head = hd /\ u.tail = tl /\ u.next = nx /\ u.prev = pv
        /\ u.buckets = t.buckets /\ u.num_items = t.num_items /\ u.noexpand = t.noexpand
        /\ u.ideal_chain_maxlen = t.ideal_chain_maxlen
    BY <1>1, <2>5 DEF Tables
  <2>9. Linked(u, r)
    <3>1. r # << >>
      BY <2>1
    <3> QED
      BY <1>2, <2>2, <2>3, <2>4, <2>8, <3>1 DEF Linked
  <2>10. Filed(u, Image(r)) /\ Bounded(u)
    BY <1>1, <1>2, <2>8, FiledSame, BoundedSame
  <2>11. r # << >> /\ u.num_items = Len(r) /\ u.tail = r[Len(r)] /\ Len(u.buckets) # 0
         /\ Len(u.buckets) >= InitialBuckets
    BY <1>1, <1>7, <2>1, <2>2, <2>8
  <2>12. Sized(u)
    BY <1>1, <2>8 DEF Sized
  <2>13. LastFirst(u, r)
    <3>1. SUFFICES ASSUME Len(t.buckets) = InitialBuckets,
                          NEW i \in 1..Len(t.buckets), NEW x \in Elems, NEW y \in Elems,
                          Precedes(t.buckets[i].chain, x, y), Key[x] = Key[y]
                   PROVE  Precedes(r, y, x)
      BY <2>8 DEF LastFirst
    <3>2. Precedes(s, y, x)
      BY <1>1, <3>1 DEF LastFirst
    <3>3. PICK a \in 1..n, b \in 1..n : a < b /\ s[a] = y /\ s[b] = x
      BY <2>1, <3>2 DEF Precedes
    <3>4. x \in Image(r) /\ y \in Image(r)
      BY <1>2, <2>1, <3>3 DEF Image
    <3>5. PICK k \in 1..n, l \in 1..n : r[k] = x /\ r[l] = y
      BY <2>1, <3>4 DEF Image
    <3>6. x # y
      BY <1>1, <2>1, <3>3 DEF Distinct
    <3>7. ~ (k < l)
      <4>1. SUFFICES ASSUME k < l PROVE FALSE
        OBVIOUS
      <4>2. Precedes(s, x, y)
        <5>1. Key[x] < Key[y] \/ (Key[x] = Key[y] /\ Precedes(s, x, y))
          BY <2>1, <3>5, <4>1 DEF SortedOf
        <5>2. Key[x] \in Int /\ Key[y] \in Int
          BY DEF HashAssumption
        <5> QED
          BY <3>1, <5>1, <5>2
      <4>3. PICK c \in 1..n, d \in 1..n : c < d /\ s[c] = x /\ s[d] = y
        BY <2>1, <4>2 DEF Precedes
      <4>4. c = b /\ d = a
        BY <1>1, <2>1, <3>3, <4>3, SMTT(30) DEF Distinct
      <4> QED
        BY <3>3, <4>3, <4>4
    <3>8. l < k
      BY <3>5, <3>6, <3>7
    <3> QED
      BY <2>1, <3>5, <3>8 DEF Precedes
  <2>14. Good(u, r)
    BY <2>7, <2>9, <2>10, <2>11, <2>12, <2>13 DEF Good, Sound
  <2> QED
    BY <1>5, <2>14
<1> QED
  BY <1>6, <1>7

LEMMA SortThreads ==
  ASSUME HashAssumption, NEW t, NEW a, Threads(t, a), NEW s, Good(a, s),
         NEW r, r = MergeSort(s), SortedOf(s, r)
  PROVE  Threads(HASH_SORT(t), HASH_SORT(a))
<1>1. t \in Memory /\ a \in Tables /\ Alike(t, a)
  BY ThreadsIs
<1>2. Linked(a, s) /\ s \in Seq(Elems)
  BY DEF Good, Sound, Linked
<1>3. AppOrder(a) = s /\ AppOrder(t) = s /\ (a.head = NULL <=> s = << >>) /\ t.head = a.head
  <2>1. AppOrder(a) = s
    BY <1>2, OrderIs
  <2>2. a.head = NULL <=> s = << >>
    BY <1>2, HeadIs
  <2> QED
    BY <1>1, <2>1, <2>2 DEF AppOrder, Alike
<1>4. PICK u, w : u = HASH_SORT(t) /\ w = HASH_SORT(a)
  OBVIOUS
<1>5. CASE s = << >>
  BY <1>3, <1>4, <1>5 DEF HASH_SORT
<1>6. CASE s # << >>
  <2>1. PICK nx, pv, hd, tl : nx = Links(r, 1) /\ pv = Links(r, -1) /\ hd = r[1] /\ tl = r[Len(r)]
    OBVIOUS
  <2>2. /\ u = [t EXCEPT !.head = hd, !.tail = tl, !.next = nx, !.prev = pv]
        /\ w = [a EXCEPT !.head = hd, !.tail = tl, !.next = nx, !.prev = pv]
    BY <1>3, <1>4, <1>6, <2>1 DEF HASH_SORT
  <2>3. w \in Tables
    <3>1. Good(w, r)
      BY <1>4, SortGood
    <3> QED
      BY <3>1 DEF Good, Sound
  <2>4. /\ w.head = hd /\ w.tail = tl /\ w.next = nx /\ w.prev = pv /\ w.buckets = a.buckets
        /\ w.num_items = a.num_items /\ w.ideal_chain_maxlen = a.ideal_chain_maxlen
        /\ w.noexpand = a.noexpand
    BY <1>1, <2>2 DEF Tables
  <2>5. hd \in Elems \cup {NULL} /\ tl \in Elems \cup {NULL} /\ nx \in Pointers /\ pv \in Pointers
    BY <2>3, <2>4 DEF Tables, Pointers
  <2>6. u \in Memory
    BY <1>1, <2>2, <2>5 DEF Memory
  <2>7. /\ u.head = hd /\ u.tail = tl /\ u.next = nx /\ u.prev = pv /\ u.buckets = t.buckets
        /\ u.hh_next = t.hh_next /\ u.hh_prev = t.hh_prev
        /\ u.num_items = t.num_items /\ u.ideal_chain_maxlen = t.ideal_chain_maxlen
        /\ u.noexpand = t.noexpand
    BY <1>1, <2>2 DEF Memory
  <2>8. Alike(u, w)
    BY <1>1, <2>4, <2>7 DEF Alike
  <2>9. Threads(u, w)
    BY <2>3, <2>4, <2>6, <2>7, <2>8, ThreadsSame
  <2> QED
    BY <1>4, <2>9
<1> QED
  BY <1>5, <1>6

-----------------------------------------------------------------------------
(* The table in memory holds the list s. *)
TableOf(t, s) == \E a : Threads(t, a) /\ Good(a, s) /\ (s = << >> => t = NoTable)

HashInv == \E s : TableOf(table, s)

LEMMA TableIs ==
  ASSUME HashAssumption, NEW t, NEW s, TableOf(t, s)
  PROVE  /\ t \in Memory /\ Linked(t, s) /\ s \in Seq(Elems) /\ Distinct(s)
         /\ (t.head = NULL <=> s = << >>) /\ (s = << >> => t = NoTable)
<1>1. PICK a : Threads(t, a) /\ Good(a, s) /\ (s = << >> => t = NoTable)
  BY DEF TableOf
<1>2. t \in Memory /\ Alike(t, a) /\ Linked(a, s)
  BY <1>1, ThreadsIs DEF Good, Sound
<1>3. Linked(t, s)
  BY <1>2, LinkedSame DEF Alike
<1>4. t.head = NULL <=> s = << >>
  BY <1>3, HeadIs
<1> QED
  BY <1>1, <1>2, <1>3, <1>4 DEF Linked

LEMMA NoneTable ==
  ASSUME HashAssumption
  PROVE  TableOf(NoTable, << >>)
<1>1. PICK t, a, s : t = NoTable /\ a = NoChains /\ s = << >>
  OBVIOUS
<1>2. Threads(t, a) /\ Good(a, s)
  BY <1>1, NoneThreads, GoodNone, Zenon
<1>3. TableOf(t, s)
  BY <1>1, <1>2 DEF TableOf
<1> QED
  BY <1>1, <1>3

LEMMA AddTable ==
  ASSUME HashAssumption, NEW t, NEW s, TableOf(t, s), NEW e \in Elems \ Image(s)
  PROVE  TableOf(HASH_ADD_KEYPTR(t, e), Append(s, e))
<1>1. PICK a : Threads(t, a) /\ Good(a, s)
  BY DEF TableOf
<1>2. PICK u : Threads(HASH_ADD_KEYPTR(t, e), u) /\ Good(u, Append(s, e))
  BY <1>1, AddGood
<1>3. s \in Seq(Elems)
  BY TableIs
<1>4. Append(s, e) # << >>
  <2>1. Len(Append(s, e)) = Len(s) + 1 /\ Len(s) \in Nat
    BY <1>3
  <2> QED
    BY <2>1
<1> QED
  BY <1>2, <1>4 DEF TableOf

LEMMA DeleteTable ==
  ASSUME HashAssumption, NEW t, NEW s, TableOf(t, s), NEW d \in 1..Len(s)
  PROVE  TableOf(HASH_DELETE(t, s[d]), Drop(s, d))
<1>1. PICK a : Threads(t, a) /\ Good(a, s)
  BY DEF TableOf
<1>2. s \in Seq(Elems) /\ Distinct(s)
  BY TableIs
<1>3. PICK r, u, w : r = Drop(s, d) /\ u = HASH_DELETE(t, s[d]) /\ w = Deleted(a, s[d])
  OBVIOUS
<1>4. IF Len(s) = 1 THEN u = NoTable ELSE Threads(u, w)
  BY <1>1, <1>3, DeleteIs
<1>5. Good(w, r)
  BY <1>1, <1>3, DeleteGood
<1>6. r = << >> <=> Len(s) = 1
  <2>1. r \in Seq(Elems) /\ Len(r) = Len(s) - 1
    BY <1>2, <1>3, DropIs
  <2>2. Len(s) \in Nat
    BY <1>2
  <2> QED
    BY <2>1, <2>2
<1>7. CASE Len(s) = 1
  <2>1. u = NoTable /\ r = << >>
    BY <1>4, <1>6, <1>7
  <2>2. TableOf(u, r)
    BY <2>1, NoneTable, Zenon
  <2> QED
    BY <1>3, <2>2
<1>8. CASE Len(s) # 1
  <2>1. TableOf(u, r)
    BY <1>4, <1>5, <1>6, <1>8 DEF TableOf
  <2> QED
    BY <1>3, <2>1
<1> QED
  BY <1>7, <1>8

LEMMA SortTable ==
  ASSUME HashAssumption, NEW t, NEW s, TableOf(t, s), NEW r, r = MergeSort(s), SortedOf(s, r)
  PROVE  TableOf(HASH_SORT(t), r)
<1>1. PICK a : Threads(t, a) /\ Good(a, s)
  BY DEF TableOf
<1>2. Threads(HASH_SORT(t), HASH_SORT(a)) /\ Good(HASH_SORT(a), r)
  BY <1>1, SortThreads, SortGood
<1>3. r = << >> => HASH_SORT(t) = NoTable
  <2>1. s \in Seq(Elems) /\ (t.head = NULL <=> s = << >>) /\ (s = << >> => t = NoTable)
    BY TableIs
  <2>2. r = << >> => s = << >>
    BY <2>1 DEF SortedOf
  <2>3. s = << >> => HASH_SORT(t) = t
    BY <2>1 DEF HASH_SORT
  <2> QED
    BY <2>1, <2>2, <2>3
<1> QED
  BY <1>2, <1>3 DEF TableOf

-----------------------------------------------------------------------------
(* HASH_FREE deletes an element at a time until there is none.              *)
LEMMA FreeGood ==
  ASSUME HashAssumption, HashInv, Free
  PROVE  table' = NoTable
<1> DEFINE N == Cardinality(Elems)
           A == [k \in 0..N |-> {t \in Memory : \E s : TableOf(t, s) /\ Len(s) <= N - k}]
           One(t) == IF t.head = NULL THEN t ELSE HASH_DELETE(t, t.head)
           Frees(f) == f = [k \in 0..N |->
                              IF k = 0 THEN table
                              ELSE LET b == f[k - 1] IN IF b.head = NULL THEN b ELSE HASH_DELETE(b, b.head)]
           step == [x \in (1..N) \X Memory |-> One(x[2])]
           f == CHOOSE g : Frees(g)
<1>1. N \in Nat
  BY FS_CardinalityType DEF HashAssumption
<1>2. \A k \in 0..N : A[k] = {t \in Memory : \E s : TableOf(t, s) /\ Len(s) <= N - k}
  OBVIOUS
<1>3. table \in A[0]
  <2>1. PICK s : TableOf(table, s)
    BY DEF HashInv
  <2>2. table \in Memory /\ s \in Seq(Elems) /\ Distinct(s)
    BY <2>1, TableIs
  <2>3. Len(s) <= N - 0
    BY <1>1, <2>2, DistinctShort
  <2> HIDE DEF A, N
  <2> QED
    BY <1>1, <1>2, <2>1, <2>2, <2>3
<1>4. \A t : One(t) = IF t.head = NULL THEN t ELSE HASH_DELETE(t, t.head)
  OBVIOUS
<1>5. \A k \in 1..N, t \in Memory : step[<<k, t>>] = One(t)
  OBVIOUS
<1>6. table' = f[N]
  BY DEF Free
<1> HIDE DEF N, A, One, step
<1>7. ASSUME NEW k \in 1..N, NEW t \in A[k - 1] PROVE One(t) \in A[k] /\ t \in Memory
  <2>1. k - 1 \in 0..N /\ k \in 0..N
    BY <1>1
  <2>2. PICK s : TableOf(t, s) /\ Len(s) <= N - (k - 1)
    BY <1>2, <2>1
  <2>3. t \in Memory /\ Linked(t, s) /\ s \in Seq(Elems) /\ Distinct(s)
    BY <2>2, TableIs
  <2>4. t.head = NULL <=> s = << >>
    BY <2>3, HeadIs
  <2>5. CASE s = << >>
    <3>1. One(t) = t
      BY <1>4, <2>4, <2>5
    <3>2. Len(s) <= N - k
      BY <1>1, <2>5
    <3> QED
      BY <1>2, <2>1, <2>2, <2>3, <3>1, <3>2
  <2>6. CASE s # << >>
    <3>1. PICK d \in 1..Len(s) : d = 1
      BY <2>3, <2>6
    <3>2. t.head = s[d]
      BY <2>3, <2>6, <3>1 DEF Linked
    <3>3. PICK u : u = HASH_DELETE(t, s[d])
      OBVIOUS
    <3>4. PICK r : r = Drop(s, d)
      OBVIOUS
    <3>5. TableOf(u, r)
      BY <2>2, <3>3, <3>4, DeleteTable
    <3>6. u \in Memory
      BY <3>5, TableIs
    <3>7. Len(r) <= N - k
      <4>1. Len(r) = Len(s) - 1
        BY <2>3, <3>4, DropIs
      <4>2. Len(s) \in Nat
        BY <2>3
      <4> QED
        BY <1>1, <2>2, <4>1, <4>2
    <3>8. One(t) = u
      BY <1>4, <2>4, <2>6, <3>2, <3>3
    <3> QED
      BY <1>2, <2>1, <2>3, <3>5, <3>6, <3>7, <3>8
  <2> QED
    BY <2>5, <2>6
<1>8. PICK g : Stages(g, N, A, table, step)
  <2>1. \A k \in 0..N : A[k] \subseteq Memory
    BY <1>2
  <2>2. \A k \in 1..N : \A t \in A[k - 1] : step[<<k, t>>] \in A[k]
    BY <1>5, <1>7
  <2> QED
    BY <1>1, <1>3, <2>1, <2>2, StagesExist
<1>9. Frees(g)
  <2>1. /\ g = [k \in 0..N |-> g[k]] /\ g[0] = table /\ (\A k \in 0..N : g[k] \in A[k])
        /\ \A k \in 1..N : g[k] = step[<<k, g[k - 1]>>]
    BY <1>8 DEF Stages
  <2>2. ASSUME NEW k \in 0..N
        PROVE  g[k] = IF k = 0 THEN table
                      ELSE LET b == g[k - 1] IN IF b.head = NULL THEN b ELSE HASH_DELETE(b, b.head)
    <3>1. CASE k # 0
      <4>1. k \in 1..N /\ k - 1 \in 0..N
        BY <1>1, <3>1
      <4>2. g[k - 1] \in Memory
        BY <1>2, <2>1, <4>1
      <4>3. g[k] = One(g[k - 1])
        BY <1>5, <2>1, <4>1, <4>2
      <4> QED
        BY <1>4, <3>1, <4>3
    <3> QED
      BY <2>1, <3>1
  <2>3. g = [k \in 0..N |-> g[k]]
    BY <2>1
  <2> QED
    BY <2>2, <2>3
<1>10. Frees(f)
  <2> HIDE DEF Frees
  <2> QED
    BY <1>9
<1> HIDE DEF f
<1>11. f[0] = table /\ \A k \in 1..N : f[k] = One(f[k - 1])
  <2>1. f[0] = table
    BY <1>1, <1>10
  <2>2. ASSUME NEW k \in 1..N PROVE f[k] = One(f[k - 1])
    <3>1. k \in 0..N /\ k # 0
      BY <1>1
    <3>2. f[k] = IF f[k - 1].head = NULL THEN f[k - 1] ELSE HASH_DELETE(f[k - 1], f[k - 1].head)
      BY <1>10, <3>1
    <3> QED
      BY <1>4, <3>2
  <2> QED
    BY <2>1, <2>2
<1> HIDE DEF Frees
<1>12. f[N] \in A[N]
  <2>1. f[0] \in A[0]
    BY <1>3, <1>11
  <2>2. \A k \in 1..N : f[k - 1] \in A[k - 1] => f[k] \in A[k]
    BY <1>7, <1>11
  <2> QED
    BY <1>1, <2>1, <2>2, StagesKept
<1>13. PICK s : TableOf(f[N], s) /\ Len(s) <= N - N
  <2>1. N \in 0..N
    BY <1>1
  <2> QED
    BY <1>2, <1>12, <2>1
<1>14. s = << >>
  <2>1. s \in Seq(Elems)
    BY <1>13, TableIs
  <2>2. Len(s) = 0
    BY <1>1, <1>13, <2>1
  <2> QED
    BY <2>1, <2>2
<1>15. f[N] = NoTable
  BY <1>13, <1>14, TableIs
<1> QED
  BY <1>6, <1>15

-----------------------------------------------------------------------------
(* HASH_SORT.  A list l with the elements of s has sorted runs of w         *)
(* elements when two elements of one run are in ascending order, equal keys *)
(* as in s, and two elements of different runs stand as they do in s.  A    *)
(* pass makes of sorted runs of w sorted runs of 2 * w.                     *)
Less(s, x, y) == Key[x] < Key[y] \/ (Key[x] = Key[y] /\ Precedes(s, x, y))

Multiple(b, w) == \E c \in Nat : b = c * w

Same(i, j, w) == \E c \in Nat : c * w < i /\ j <= (c + 1) * w

RunsSorted(s, l, w) ==
  \A i, j \in 1..Len(l) :
    i < j => IF Same(i, j, w) THEN Less(s, l[i], l[j]) ELSE Precedes(s, l[i], l[j])

Perm(s, l) == l \in Seq(Elems) /\ Distinct(l) /\ Image(l) = Image(s) /\ Len(l) = Len(s)

LEMMA Apart ==
  ASSUME NEW w \in Nat \ {0}, NEW b \in Nat, Multiple(b, w),
         NEW i \in Nat, NEW j \in Nat, i <= b, b < j
  PROVE  ~ Same(i, j, w)
<1>1. PICK c \in Nat : b = c * w
  BY DEF Multiple
<1>2. SUFFICES ASSUME NEW d \in Nat, d * w < i, j <= (d + 1) * w PROVE FALSE
  BY DEF Same
<1>3. d * w < c * w
  <2>1. PICK x \in Int, y \in Int : x = d * w /\ y = c * w
    OBVIOUS
  <2> QED
    BY <1>1, <1>2, <2>1
<1>4. d < c
  BY <1>3, Cancel
<1>5. PICK e \in Nat : e = c - (d + 1)
  BY <1>4
<1>6. c * w = (d + 1) * w + e * w /\ e * w >= 0
  BY <1>5
<1>7. PICK x \in Int, y \in Int, z \in Int : x = (d + 1) * w /\ y = c * w /\ z = e * w
  OBVIOUS
<1> QED
  BY <1>1, <1>2, <1>6, <1>7

LEMMA Together ==
  ASSUME NEW w \in Nat \ {0}, NEW b \in Nat, Multiple(b, w),
         NEW i \in Nat, NEW j \in Nat, b < i, j <= b + w
  PROVE  Same(i, j, w)
<1>1. PICK c \in Nat : b = c * w
  BY DEF Multiple
<1>2. (c + 1) * w = b + w
  BY <1>1
<1>3. c * w < i /\ j <= (c + 1) * w
  <2>1. PICK x \in Int, y \in Int : x = c * w /\ y = (c + 1) * w
    OBVIOUS
  <2> QED
    BY <1>1, <1>2, <2>1
<1> QED
  BY <1>3 DEF Same

LEMMA Multiples ==
  ASSUME NEW w \in Nat \ {0}, NEW b \in Nat, Multiple(b, 2 * w)
  PROVE  Multiple(b, w) /\ Multiple(b + w, w) /\ Multiple(b + 2 * w, 2 * w)
<1>1. PICK c \in Nat : b = c * (2 * w)
  BY DEF Multiple
<1>2. b = (2 * c) * w /\ b + w = (2 * c + 1) * w /\ b + 2 * w = (c + 1) * (2 * w)
  BY <1>1
<1>3. 2 * c \in Nat /\ 2 * c + 1 \in Nat /\ c + 1 \in Nat
  OBVIOUS
<1>4. Multiple(b, w)
  BY <1>2, <1>3 DEF Multiple
<1>5. Multiple(b + w, w)
  BY <1>2, <1>3 DEF Multiple
<1>6. Multiple(b + 2 * w, 2 * w)
  BY <1>2, <1>3 DEF Multiple
<1> QED
  BY <1>4, <1>5, <1>6

LEMMA PrecedesTrans ==
  ASSUME NEW s \in Seq(Elems), Distinct(s), NEW x, NEW y, NEW z,
         Precedes(s, x, y), Precedes(s, y, z)
  PROVE  Precedes(s, x, z)
<1>1. PICK n \in Nat : n = Len(s) /\ DOMAIN s = 1..n
  OBVIOUS
<1>2. PICK i \in 1..n, j \in 1..n : i < j /\ s[i] = x /\ s[j] = y
  BY <1>1 DEF Precedes
<1>3. PICK k \in 1..n, l \in 1..n : k < l /\ s[k] = y /\ s[l] = z
  BY <1>1 DEF Precedes
<1>4. j = k
  BY <1>1, <1>2, <1>3 DEF Distinct
<1>5. i < l
  BY <1>2, <1>3, <1>4
<1> QED
  BY <1>1, <1>2, <1>3, <1>5 DEF Precedes

LEMMA LessTrans ==
  ASSUME HashAssumption, NEW s \in Seq(Elems), Distinct(s),
         NEW x \in Elems, NEW y \in Elems, NEW z \in Elems, Less(s, x, y), Less(s, y, z)
  PROVE  Less(s, x, z)
<1>1. PICK a \in Int, b \in Int, c \in Int : a = Key[x] /\ b = Key[y] /\ c = Key[z]
  BY DEF HashAssumption
<1>2. a < b \/ (a = b /\ Precedes(s, x, y))
  BY <1>1 DEF Less
<1>3. b < c \/ (b = c /\ Precedes(s, y, z))
  BY <1>1 DEF Less
<1>4. CASE a < c
  BY <1>1, <1>4 DEF Less
<1>5. CASE ~ (a < c)
  <2>1. a = b /\ b = c /\ Precedes(s, x, y) /\ Precedes(s, y, z)
    BY <1>2, <1>3, <1>5
  <2>2. Precedes(s, x, z)
    BY <2>1, PrecedesTrans
  <2> QED
    BY <1>1, <2>1, <2>2 DEF Less
<1> QED
  BY <1>4, <1>5

(* list has the elements of l up to base, of any order that is right, and   *)
(* behind them those of the indices in used.                                *)
Gather(s, l, w, base, list, used) ==
  /\ list \in Seq(Elems) /\ Distinct(list) /\ base <= Len(list)
  /\ Image(list) = {l[j] : j \in (1..base) \cup used}
  /\ \A i \in 1..base : \E j \in 1..base : list[i] = l[j]
  /\ \A i \in base + 1..Len(list) : \E j \in used : list[i] = l[j]
  /\ RunsSorted(s, list, 2 * w)

LEMMA GatherMore ==
  ASSUME NEW s, NEW l, Perm(s, l), NEW w \in Nat \ {0}, RunsSorted(s, l, w),
         NEW base \in Nat, Multiple(base, 2 * w), NEW list, NEW used \in SUBSET (1..Len(l)),
         Gather(s, l, w, base, list, used), Len(list) < base + 2 * w,
         \A j \in used : j > base,
         NEW t \in (1..Len(l)) \ used, t > base,
         \A j \in used : Less(s, l[j], l[t])
  PROVE  Gather(s, l, w, base, Append(list, l[t]), used \cup {t})
<1>1. /\ l \in Seq(Elems) /\ Distinct(l) /\ DOMAIN l = 1..Len(l)
      /\ \A i, j \in 1..Len(l) : l[i] = l[j] => i = j
      /\ \A i \in 1..Len(l) : l[i] \in Elems
  <2>1. l \in Seq(Elems) /\ Distinct(l)
    BY DEF Perm
  <2> QED
    BY <2>1 DEF Distinct
<1>2. /\ list \in Seq(Elems) /\ Distinct(list) /\ base <= Len(list)
      /\ Image(list) = {l[j] : j \in (1..base) \cup used}
      /\ \A i \in 1..base : \E j \in 1..base : list[i] = l[j]
      /\ \A i \in base + 1..Len(list) : \E j \in used : list[i] = l[j]
      /\ RunsSorted(s, list, 2 * w)
  BY DEF Gather
<1>3. base <= Len(l) /\ \A i \in 1..base : i \in 1..Len(l)
  BY <1>1
<1>4. PICK x \in Elems : x = l[t]
  BY <1>1
<1>5. x \notin Image(list)
  <2>1. SUFFICES ASSUME NEW j \in (1..base) \cup used, l[j] = x PROVE FALSE
    BY <1>2
  <2>2. j \in 1..Len(l)
    BY <1>3
  <2>3. j = t
    BY <1>1, <1>4, <2>1, <2>2
  <2> QED
    BY <2>3
<1>6. PICK a : a = Append(list, x)
  OBVIOUS
<1>7. PICK k \in Nat : k = Len(list)
  BY <1>2
<1>8. /\ a \in Seq(Elems) /\ Len(a) = k + 1 /\ (\A i \in 1..k : a[i] = list[i]) /\ a[k + 1] = x
      /\ Distinct(a) /\ Image(a) = Image(list) \cup {x}
  <2>1. list \in Seq(Elems) /\ Distinct(list) /\ x \in Elems \ Image(list)
    BY <1>2, <1>5
  <2>2. /\ Append(list, x) \in Seq(Elems) /\ Len(Append(list, x)) = Len(list) + 1
        /\ \A i \in 1..Len(list) : Append(list, x)[i] = list[i]
        /\ Append(list, x)[Len(list) + 1] = x
        /\ Distinct(Append(list, x)) /\ Image(Append(list, x)) = Image(list) \cup {x}
    BY <2>1, AppendIs
  <2> QED
    BY <1>6, <1>7, <2>2
<1>9. \A i \in 1..k + 1 : i \in 1..k \/ i = k + 1
  OBVIOUS
<1>10. Image(a) = {l[j] : j \in (1..base) \cup (used \cup {t})}
  <2>1. PICK B : B = (1..base) \cup used
    OBVIOUS
  <2>2. (1..base) \cup (used \cup {t}) = B \cup {t}
    BY <2>1
  <2>3. Image(a) = {l[j] : j \in B} \cup {l[t]}
    BY <1>2, <1>4, <1>8, <2>1
  <2>4. {l[j] : j \in B \cup {t}} = {l[j] : j \in B} \cup {l[t]}
    OBVIOUS
  <2> QED
    BY <2>2, <2>3, <2>4
<1>11. \A i \in 1..base : \E j \in 1..base : a[i] = l[j]
  <2>1. \A i \in 1..base : i \in 1..k
    BY <1>2, <1>7
  <2> QED
    BY <1>2, <1>8, <2>1
<1>12. ASSUME NEW i \in base + 1..k + 1 PROVE \E j \in used \cup {t} : a[i] = l[j]
  <2>1. CASE i = k + 1
    BY <1>4, <1>8, <2>1
  <2>2. CASE i # k + 1
    <3>1. i \in 1..k /\ i \in base + 1..Len(list)
      BY <1>7, <2>2
    <3> QED
      BY <1>2, <1>8, <3>1
  <2> QED
    BY <2>1, <2>2
<1>13. RunsSorted(s, a, 2 * w)
  <2>1. SUFFICES ASSUME NEW i \in 1..k + 1, NEW j \in 1..k + 1, i < j
                 PROVE  IF Same(i, j, 2 * w) THEN Less(s, a[i], a[j]) ELSE Precedes(s, a[i], a[j])
    BY <1>8 DEF RunsSorted
  <2>2. PICK W \in Nat \ {0} : W = 2 * w
    OBVIOUS
  <2>3. i \in 1..k
    BY <2>1
  <2>4. CASE j # k + 1
    <3>1. j \in 1..k
      BY <2>4
    <3>2. IF Same(i, j, W) THEN Less(s, list[i], list[j]) ELSE Precedes(s, list[i], list[j])
      BY <1>2, <1>7, <2>1, <2>2, <2>3, <3>1 DEF RunsSorted
    <3> QED
      BY <1>8, <2>2, <2>3, <3>1, <3>2
  <2>5. CASE j = k + 1 /\ i <= base
    <3>1. ~ Same(i, j, W)
      <4>1. Multiple(base, W) /\ i \in Nat /\ j \in Nat /\ i <= base /\ base < j
        BY <1>2, <1>7, <2>2, <2>5, SMTT(30)
      <4> QED
        BY <4>1, Apart
    <3>2. PICK m \in 1..base : list[i] = l[m]
      BY <1>2, <2>5
    <3>3. ~ Same(m, t, w)
      <4>1. Multiple(base, w)
        BY Multiples
      <4>2. m \in Nat /\ t \in Nat /\ m <= base /\ base < t
        OBVIOUS
      <4> QED
        BY <4>1, <4>2, Apart
    <3>4. Precedes(s, l[m], l[t])
      <4>1. m \in 1..Len(l) /\ m < t
        BY <1>3
      <4> QED
        BY <3>3, <4>1 DEF RunsSorted
    <3> QED
      BY <1>4, <1>8, <2>2, <2>3, <2>5, <3>1, <3>2, <3>4
  <2>6. CASE j = k + 1 /\ ~ (i <= base)
    <3>1. Same(i, j, W)
      <4>1. Multiple(base, W) /\ i \in Nat /\ j \in Nat /\ base < i /\ j <= base + W
        BY <1>7, <2>2, <2>6
      <4> QED
        BY <4>1, Together
    <3>2. PICK m \in used : list[i] = l[m]
      <4>1. i \in base + 1..Len(list)
        BY <1>7, <2>3, <2>6
      <4> QED
        BY <1>2, <4>1
    <3>3. Less(s, l[m], l[t])
      OBVIOUS
    <3> QED
      BY <1>4, <1>8, <2>2, <2>3, <2>6, <3>1, <3>2, <3>3
  <2> QED
    BY <2>4, <2>5, <2>6
<1>14. Gather(s, l, w, base, a, used \cup {t})
  <2>1. base <= Len(a)
    BY <1>2, <1>7, <1>8
  <2>2. \A i \in base + 1..Len(a) : \E j \in used \cup {t} : a[i] = l[j]
    BY <1>8, <1>12
  <2> QED
    BY <1>8, <1>10, <1>11, <1>13, <2>1, <2>2 DEF Gather
<1> QED
  BY <1>4, <1>6, <1>14

(* The pair of runs behind base: the first one ends at end1, the second at  *)
(* end2.                                                                    *)
Frame(l, w, base, end1, end2) ==
  /\ base \in Nat /\ Multiple(base, 2 * w) /\ base <= Len(l)
  /\ end1 = IF base + w <= Len(l) THEN base + w ELSE Len(l)
  /\ end2 = IF base + 2 * w <= Len(l) THEN base + 2 * w ELSE Len(l)

LEMMA FrameIs ==
  ASSUME NEW s, NEW l, Perm(s, l), NEW w \in Nat \ {0}, RunsSorted(s, l, w),
         NEW base, NEW end1, NEW end2, Frame(l, w, base, end1, end2)
  PROVE  /\ base \in Nat /\ end1 \in Nat /\ end2 \in Nat
         /\ base <= end1 /\ end1 <= end2 /\ end2 <= Len(l) /\ end2 <= base + 2 * w
         /\ end2 <= end1 + w
         /\ \A i, j \in base + 1..end1 : i < j => Less(s, l[i], l[j])
         /\ \A i, j \in end1 + 1..end2 : i < j => Less(s, l[i], l[j])
         /\ \A i \in base + 1..end1, j \in end1 + 1..end2 : Precedes(s, l[i], l[j])
<1>1. PICK N \in Nat : N = Len(l)
  BY DEF Perm
<1>2. /\ base \in Nat /\ Multiple(base, 2 * w) /\ base <= N
      /\ end1 = IF base + w <= N THEN base + w ELSE N
      /\ end2 = IF base + 2 * w <= N THEN base + 2 * w ELSE N
  BY <1>1 DEF Frame
<1>3. /\ end1 \in Nat /\ end2 \in Nat /\ base <= end1 /\ end1 <= end2 /\ end2 <= N
      /\ end2 <= base + 2 * w /\ end2 <= end1 + w /\ end1 <= base + w
      /\ end1 # end2 => end1 = base + w
  BY <1>2
<1>4. Multiple(base, w) /\ Multiple(base + w, w)
  BY <1>2, Multiples
<1>5. ASSUME NEW i \in base + 1..end1, NEW j \in base + 1..end1, i < j PROVE Less(s, l[i], l[j])
  <2>1. i \in 1..N /\ j \in 1..N /\ i \in Nat /\ j \in Nat /\ base < i /\ j <= base + w
    BY <1>2, <1>3
  <2>2. Same(i, j, w)
    BY <1>2, <1>4, <2>1, Together
  <2> QED
    BY <1>1, <1>5, <2>1, <2>2 DEF RunsSorted
<1>6. ASSUME NEW i \in end1 + 1..end2, NEW j \in end1 + 1..end2, i < j PROVE Less(s, l[i], l[j])
  <2>1. PICK b \in Nat : b = base + w /\ b = end1
    BY <1>2, <1>3
  <2>2. i \in 1..N /\ j \in 1..N /\ i \in Nat /\ j \in Nat /\ b < i /\ j <= b + w
    BY <1>2, <1>3, <2>1
  <2>3. Same(i, j, w)
    <3>1. Multiple(b, w)
      BY <1>4, <2>1
    <3> QED
      BY <2>2, <3>1, Together
  <2> QED
    BY <1>1, <1>6, <2>2, <2>3 DEF RunsSorted
<1>7. ASSUME NEW i \in base + 1..end1, NEW j \in end1 + 1..end2 PROVE Precedes(s, l[i], l[j])
  <2>1. PICK b \in Nat : b = base + w /\ b = end1
    BY <1>2, <1>3
  <2>2. i \in 1..N /\ j \in 1..N /\ i \in Nat /\ j \in Nat /\ i <= b /\ b < j /\ i < j
    BY <1>2, <1>3, <2>1
  <2>3. ~ Same(i, j, w)
    <3>1. Multiple(b, w)
      BY <1>4, <2>1
    <3> QED
      BY <2>2, <3>1, Apart
  <2> QED
    BY <1>1, <2>2, <2>3 DEF RunsSorted
<1> QED
  BY <1>1, <1>2, <1>3, <1>5, <1>6, <1>7

Merges == [list : Seq(Elems), p : Int, psize : Int, q : Int, qsize : Int]

Used(m, base, end1) == (base + 1..m.p - 1) \cup (end1 + 1..m.q - 1)

Left(m, end1, end2) == (m.p..end1) \cup (m.q..end2)

(* What is true before and after every turn of the merge. *)
TurnInv(s, l, w, m, base, end1, end2) ==
  /\ Frame(l, w, base, end1, end2) /\ m \in Merges
  /\ m.p \in base + 1..end1 + 1 /\ m.psize = end1 + 1 - m.p
  /\ m.q \in end1 + 1..end2 + 1 /\ m.qsize = end1 + w + 1 - m.q
  /\ Len(m.list) = m.p - 1 + (m.q - 1 - end1)
  /\ Gather(s, l, w, base, m.list, Used(m, base, end1))
  /\ \A a \in Used(m, base, end1), b \in Left(m, end1, end2) : Less(s, l[a], l[b])

Done(l, m) == m.psize = 0 /\ (m.qsize = 0 \/ m.q > Len(l))

(* The turn takes t, the least of those that are left. *)
Takes(s, l, m, end1, end2, t) ==
  /\ \A b \in Left(m, end1, end2) \ {t} : Less(s, l[t], l[b])
  /\ \/ /\ t = m.p /\ m.p <= end1
        /\ Merge(l, m) = [m EXCEPT !.list = Append(@, l[t]), !.p = @ + 1, !.psize = @ - 1]
     \/ /\ t = m.q /\ m.q <= end2
        /\ Merge(l, m) = [m EXCEPT !.list = Append(@, l[t]), !.q = @ + 1, !.qsize = @ - 1]

LEMMA LeastLeft ==
  ASSUME HashAssumption, NEW s \in Seq(Elems), Distinct(s), NEW l, Perm(s, l),
         NEW w \in Nat \ {0}, RunsSorted(s, l, w),
         NEW m, NEW base \in Nat, NEW end1 \in Nat, NEW end2 \in Nat,
         TurnInv(s, l, w, m, base, end1, end2), ~ Done(l, m)
  PROVE  \E t \in Left(m, end1, end2) : Takes(s, l, m, end1, end2, t)
<1>1. PICK N \in Nat : N = Len(l) /\ \A i \in 1..N : l[i] \in Elems
  BY DEF Perm
<1>0. Frame(l, w, base, end1, end2)
  BY DEF TurnInv
<1>2. /\ base <= end1 /\ end1 <= end2 /\ end2 <= N /\ end2 <= base + 2 * w
      /\ end2 <= end1 + w
  BY <1>0, <1>1, FrameIs
<1>13. \A i, j \in base + 1..end1 : i < j => Less(s, l[i], l[j])
  BY <1>0, FrameIs
<1>14. \A i, j \in end1 + 1..end2 : i < j => Less(s, l[i], l[j])
  BY <1>0, FrameIs
<1>15. \A i \in base + 1..end1, j \in end1 + 1..end2 : Precedes(s, l[i], l[j])
  BY <1>0, FrameIs
<1>16. /\ m.p \in base + 1..end1 + 1 /\ m.q \in end1 + 1..end2 + 1
       /\ m.psize = end1 + 1 - m.p /\ m.qsize = end1 + w + 1 - m.q
  BY DEF TurnInv
<1>17. m.p \in Int /\ m.q \in Int /\ m.psize \in Int /\ m.qsize \in Int
  BY DEF TurnInv, Merges
<1>18. PICK p \in Int, q \in Int, ps \in Int, qs \in Int :
         p = m.p /\ q = m.q /\ ps = m.psize /\ qs = m.qsize
  BY <1>17
<1>3. /\ base + 1 <= p /\ p <= end1 + 1 /\ end1 + 1 <= q /\ q <= end2 + 1
      /\ ps = end1 + 1 - p /\ qs = end1 + w + 1 - q
  BY <1>16, <1>18
<1>4. Left(m, end1, end2) = (p..end1) \cup (q..end2)
  BY <1>18 DEF Left
<1>5. ps = 0 <=> ~ (p <= end1)
  BY <1>2, <1>3
<1>6. ps > 0 <=> p <= end1
  BY <1>2, <1>3
<1>7. (qs = 0 \/ q > N) <=> ~ (q <= end2)
  <2>1. end2 = N \/ end2 = end1 + w
    <3>1. /\ end1 = IF base + w <= N THEN base + w ELSE N
          /\ end2 = IF base + 2 * w <= N THEN base + 2 * w ELSE N
      BY <1>1 DEF TurnInv, Frame
    <3> QED
      BY <1>2, <3>1
  <2> QED
    BY <1>2, <1>3, <2>1
<1>8. p <= end1 \/ q <= end2
  BY <1>1, <1>18, <1>5, <1>7 DEF Done
<1>9. Merge(l, m) = IF p <= end1 /\ (~ (q <= end2) \/ Key[l[p]] <= Key[l[q]])
                    THEN [m EXCEPT !.list = Append(@, l[p]), !.p = @ + 1, !.psize = @ - 1]
                    ELSE [m EXCEPT !.list = Append(@, l[q]), !.q = @ + 1, !.qsize = @ - 1]
  BY <1>1, <1>18, <1>6, <1>7 DEF Merge
<1>10. \A i \in 1..N : Key[l[i]] \in Int
  BY <1>1 DEF HashAssumption
<1>11. CASE p <= end1 /\ (~ (q <= end2) \/ Key[l[p]] <= Key[l[q]])
  <2>1. p \in base + 1..end1 /\ p \in 1..N
    BY <1>2, <1>3, <1>11
  <2>2. ASSUME NEW b \in (p..end1) \cup (q..end2), b # p PROVE Less(s, l[p], l[b])
    <3>1. CASE b \in p..end1
      <4>1. b \in base + 1..end1 /\ p < b
        BY <1>3, <2>2, <3>1
      <4> QED
        BY <1>13, <2>1, <4>1
    <3>2. CASE b \in q..end2
      <4>1. b \in end1 + 1..end2 /\ q \in end1 + 1..end2 /\ q <= end2 /\ q \in 1..N /\ b \in 1..N
        BY <1>2, <1>3, <3>2
      <4>2. Precedes(s, l[p], l[q])
        BY <1>15, <2>1, <4>1
      <4>3. Key[l[p]] < Key[l[q]] \/ Key[l[p]] = Key[l[q]]
        BY <1>10, <1>11, <2>1, <4>1
      <4>4. Less(s, l[p], l[q])
        BY <4>2, <4>3 DEF Less
      <4>5. CASE b = q
        BY <4>4, <4>5
      <4>6. CASE b # q
        <5>1. q < b
          BY <3>2, <4>6
        <5>2. Less(s, l[q], l[b])
          BY <1>14, <4>1, <5>1
        <5>3. l[p] \in Elems /\ l[q] \in Elems /\ l[b] \in Elems
          BY <1>1, <2>1, <4>1
        <5> QED
          BY <4>4, <5>2, <5>3, LessTrans
      <4> QED
        BY <4>5, <4>6
    <3> QED
      BY <2>2, <3>1, <3>2
  <2>3. Merge(l, m) = [m EXCEPT !.list = Append(@, l[p]), !.p = @ + 1, !.psize = @ - 1]
    BY <1>9, <1>11
  <2>4. p \in (p..end1) \cup (q..end2)
    BY <1>2, <1>11
  <2> QED
    <3>1. Takes(s, l, m, end1, end2, p)
      BY <1>18, <1>4, <1>11, <2>2, <2>3 DEF Takes
    <3> QED
      BY <1>4, <2>4, <3>1
<1>12. CASE ~ (p <= end1 /\ (~ (q <= end2) \/ Key[l[p]] <= Key[l[q]]))
  <2>1. q <= end2 /\ q \in end1 + 1..end2 /\ q \in 1..N
    BY <1>2, <1>3, <1>8, <1>12
  <2>2. ASSUME NEW b \in (p..end1) \cup (q..end2), b # q PROVE Less(s, l[q], l[b])
    <3>1. CASE b \in q..end2
      <4>1. b \in end1 + 1..end2 /\ q < b
        BY <1>3, <2>2, <3>1
      <4> QED
        BY <1>14, <2>1, <4>1
    <3>2. CASE b \in p..end1
      <4>1. /\ b \in base + 1..end1 /\ p \in base + 1..end1 /\ p <= end1 /\ p \in 1..N /\ b \in 1..N
        BY <1>2, <1>3, <3>2
      <4>2. ~ (Key[l[p]] <= Key[l[q]])
        BY <1>12, <4>1
      <4>3. Key[l[q]] < Key[l[p]]
        <5>1. PICK x \in Int, y \in Int : x = Key[l[p]] /\ y = Key[l[q]]
          BY <1>10, <2>1, <4>1
        <5> QED
          BY <4>2, <5>1
      <4>4. Less(s, l[q], l[p])
        BY <4>3 DEF Less
      <4>5. CASE b = p
        BY <4>4, <4>5
      <4>6. CASE b # p
        <5>1. p < b
          BY <3>2, <4>6
        <5>2. Less(s, l[p], l[b])
          BY <1>13, <4>1, <5>1
        <5>3. l[p] \in Elems /\ l[q] \in Elems /\ l[b] \in Elems
          BY <1>1, <2>1, <4>1
        <5> QED
          BY <4>4, <5>2, <5>3, LessTrans
      <4> QED
        BY <4>5, <4>6
    <3> QED
      BY <2>2, <3>1, <3>2
  <2>3. Merge(l, m) = [m EXCEPT !.list = Append(@, l[q]), !.q = @ + 1, !.qsize = @ - 1]
    BY <1>9, <1>12
  <2>4. q \in (p..end1) \cup (q..end2)
    BY <1>2, <1>3, <2>1
  <2> QED
    <3>1. Takes(s, l, m, end1, end2, q)
      BY <1>18, <1>4, <2>1, <2>2, <2>3 DEF Takes
    <3> QED
      BY <1>4, <2>4, <3>1
<1> QED
  BY <1>11, <1>12

(* A turn takes the least of what is left. *)
LEMMA MergeTakes ==
  ASSUME HashAssumption, NEW s \in Seq(Elems), Distinct(s), NEW l, Perm(s, l),
         NEW w \in Nat \ {0}, RunsSorted(s, l, w),
         NEW m, NEW base \in Nat, NEW end1 \in Nat, NEW end2 \in Nat,
         TurnInv(s, l, w, m, base, end1, end2), ~ Done(l, m)
  PROVE  /\ TurnInv(s, l, w, Merge(l, m), base, end1, end2)
         /\ Len(Merge(l, m).list) = Len(m.list) + 1
<1>1. PICK N \in Nat : N = Len(l) /\ \A i \in 1..N : l[i] \in Elems
  BY DEF Perm
<1>2. Frame(l, w, base, end1, end2) /\ m \in Merges
  BY DEF TurnInv
<1>3. /\ base <= end1 /\ end1 <= end2 /\ end2 <= N /\ end2 <= base + 2 * w
  BY <1>1, <1>2, FrameIs
<1>4. /\ m.p \in base + 1..end1 + 1 /\ m.q \in end1 + 1..end2 + 1
      /\ m.psize = end1 + 1 - m.p /\ m.qsize = end1 + w + 1 - m.q
      /\ Len(m.list) = m.p - 1 + (m.q - 1 - end1)
  BY DEF TurnInv
<1>5. m.p \in Int /\ m.q \in Int /\ m.psize \in Int /\ m.qsize \in Int
  BY <1>2 DEF Merges
<1>6. PICK p \in Int, q \in Int, ps \in Int, qs \in Int :
        p = m.p /\ q = m.q /\ ps = m.psize /\ qs = m.qsize
  BY <1>5
<1>27. /\ base + 1 <= p /\ p <= end1 + 1 /\ end1 + 1 <= q /\ q <= end2 + 1
       /\ ps = end1 + 1 - p /\ qs = end1 + w + 1 - q
  BY <1>4, <1>6
<1>7. PICK U : U = Used(m, base, end1)
  OBVIOUS
<1>8. PICK V : V = Left(m, end1, end2)
  OBVIOUS
<1>9. U = (base + 1..p - 1) \cup (end1 + 1..q - 1) /\ V = (p..end1) \cup (q..end2)
  BY <1>6, <1>7, <1>8 DEF Used, Left
<1>10. PICK ls \in Seq(Elems) : ls = m.list
  BY <1>2 DEF Merges
<1>11. Gather(s, l, w, base, ls, U)
  BY <1>7, <1>10 DEF TurnInv
<1>12. \A a \in U, b \in V : Less(s, l[a], l[b])
  BY <1>7, <1>8 DEF TurnInv
<1>28. PICK t \in Left(m, end1, end2) : Takes(s, l, m, end1, end2, t)
  BY LeastLeft
<1>29. t \in V
  BY <1>8
<1>13. /\ \A b \in V \ {t} : Less(s, l[t], l[b])
       /\ \/ /\ t = m.p /\ m.p <= end1
               /\ Merge(l, m) = [m EXCEPT !.list = Append(@, l[t]), !.p = @ + 1, !.psize = @ - 1]
            \/ /\ t = m.q /\ m.q <= end2
               /\ Merge(l, m) = [m EXCEPT !.list = Append(@, l[t]), !.q = @ + 1, !.qsize = @ - 1]
  BY <1>8, <1>28 DEF Takes
<1>14. U \in SUBSET (1..Len(l)) /\ t \in (1..Len(l)) \ U /\ t > base /\ \A j \in U : j > base
  <2>1. t \in (p..end1) \cup (q..end2)
    BY <1>9, <1>29
  <2>2. t \in 1..N /\ t > base /\ t \notin (base + 1..p - 1) \cup (end1 + 1..q - 1)
    BY <1>3, <1>27, <2>1
  <2>3. \A j \in (base + 1..p - 1) \cup (end1 + 1..q - 1) : j \in 1..N /\ j > base
    BY <1>3, <1>27
  <2> QED
    BY <1>1, <1>9, <2>2, <2>3
<1>15. PICK L \in Nat : L = Len(ls)
  OBVIOUS
<1>16. L = p - 1 + (q - 1 - end1)
  BY <1>4, <1>6, <1>10, <1>15
<1>17. Len(ls) < base + 2 * w
  <2>1. p <= end1 \/ q <= end2
    BY <1>3, <1>9, <1>29
  <2> QED
    BY <1>3, <1>27, <1>15, <1>16, <2>1
<1>18. base \in Nat /\ Multiple(base, 2 * w)
  BY <1>2 DEF Frame
<1>19. PICK U2 : U2 = U \cup {t}
  OBVIOUS
<1>20. PICK ap : ap = Append(ls, l[t])
  OBVIOUS
<1>21. Gather(s, l, w, base, ap, U2)
  <2>1. \A j \in U : Less(s, l[j], l[t])
    BY <1>12, <1>29
  <2>2. Gather(s, l, w, base, Append(ls, l[t]), U \cup {t})
    BY <1>11, <1>14, <1>17, <1>18, <2>1, GatherMore
  <2> QED
    BY <1>19, <1>20, <2>2
<1>22. ap \in Seq(Elems) /\ Len(ap) = L + 1
  <2>1. l[t] \in Elems
    BY <1>1, <1>14
  <2> QED
    BY <1>15, <1>20, <2>1
<1>23. ASSUME NEW a \in U2, NEW b \in V \ {t} PROVE Less(s, l[a], l[b])
  BY <1>12, <1>13, <1>19
<1>24. PICK u : u = Merge(l, m)
  OBVIOUS
<1>25. CASE t = p /\ p <= end1 /\ u = [m EXCEPT !.list = Append(@, l[t]), !.p = @ + 1, !.psize = @ - 1]
  <2>1. u = [list |-> ap, p |-> p + 1, psize |-> ps - 1, q |-> q, qsize |-> qs]
    BY <1>2, <1>6, <1>10, <1>20, <1>25 DEF Merges
  <2>2. u.list = ap /\ u.p = p + 1 /\ u.psize = ps - 1 /\ u.q = q /\ u.qsize = qs
    BY <2>1
  <2>3. u \in Merges
    <3>1. p + 1 \in Int /\ ps - 1 \in Int
      OBVIOUS
    <3> QED
      BY <1>22, <2>1, <3>1 DEF Merges
  <2>4. Used(u, base, end1) = U2
    <3>1. base + 1 <= p
      BY <1>27
    <3>2. base + 1..p = (base + 1..p - 1) \cup {p}
      BY <3>1
    <3>3. Used(u, base, end1) = (base + 1..p + 1 - 1) \cup (end1 + 1..q - 1)
      BY <2>2 DEF Used
    <3>4. p + 1 - 1 = p
      OBVIOUS
    <3> QED
      BY <1>9, <1>19, <1>25, <3>2, <3>3, <3>4
  <2>5. Left(u, end1, end2) = V \ {t}
    <3>1. p <= end1 /\ end1 + 1 <= q
      BY <1>25, <1>27
    <3>2. p..end1 = (p + 1..end1) \cup {p}
      BY <3>1
    <3>3. p \notin p + 1..end1 /\ p \notin q..end2
      BY <3>1
    <3>4. Left(u, end1, end2) = (p + 1..end1) \cup (q..end2)
      BY <2>2 DEF Left
    <3> QED
      BY <1>9, <1>25, <3>2, <3>3, <3>4
  <2>6. /\ u.p \in base + 1..end1 + 1 /\ u.psize = end1 + 1 - u.p
        /\ u.q \in end1 + 1..end2 + 1 /\ u.qsize = end1 + w + 1 - u.q
        /\ Len(u.list) = u.p - 1 + (u.q - 1 - end1)
    <3>1. p <= end1
      BY <1>25
    <3>2. base + 1 <= p + 1 /\ p + 1 <= end1 + 1 /\ ps - 1 = end1 + 1 - (p + 1)
      BY <1>27, <3>1
    <3>3. end1 + 1 <= q /\ q <= end2 + 1 /\ qs = end1 + w + 1 - (q)
      BY <1>27, <3>1
    <3>4. Len(ap) = p + 1 - 1 + (q - 1 - end1)
      BY <1>16, <1>22
    <3>5. p + 1 \in base + 1..end1 + 1 /\ q \in end1 + 1..end2 + 1
      BY <3>2, <3>3
    <3> QED
      BY <2>2, <3>2, <3>3, <3>4, <3>5
  <2>7. Gather(s, l, w, base, u.list, Used(u, base, end1))
    BY <1>21, <2>2, <2>4
  <2>8. \A a \in Used(u, base, end1), b \in Left(u, end1, end2) : Less(s, l[a], l[b])
    BY <1>23, <2>4, <2>5
  <2>9. TurnInv(s, l, w, u, base, end1, end2)
    BY <1>2, <2>3, <2>6, <2>7, <2>8 DEF TurnInv
  <2>10. Len(u.list) = Len(m.list) + 1
    BY <1>10, <1>15, <1>22, <2>2
  <2> QED
    BY <1>24, <2>9, <2>10
<1>26. CASE t = q /\ q <= end2 /\ u = [m EXCEPT !.list = Append(@, l[t]), !.q = @ + 1, !.qsize = @ - 1]
  <2>1. u = [list |-> ap, p |-> p, psize |-> ps, q |-> q + 1, qsize |-> qs - 1]
    BY <1>2, <1>6, <1>10, <1>20, <1>26 DEF Merges
  <2>2. u.list = ap /\ u.p = p /\ u.psize = ps /\ u.q = q + 1 /\ u.qsize = qs - 1
    BY <2>1
  <2>3. u \in Merges
    <3>1. q + 1 \in Int /\ qs - 1 \in Int
      OBVIOUS
    <3> QED
      BY <1>22, <2>1, <3>1 DEF Merges
  <2>4. Used(u, base, end1) = U2
    <3>1. end1 + 1 <= q
      BY <1>27
    <3>2. end1 + 1..q = (end1 + 1..q - 1) \cup {q}
      BY <3>1
    <3>3. Used(u, base, end1) = (base + 1..p - 1) \cup (end1 + 1..q + 1 - 1)
      BY <2>2 DEF Used
    <3>4. q + 1 - 1 = q
      OBVIOUS
    <3> QED
      BY <1>9, <1>19, <1>26, <3>2, <3>3, <3>4
  <2>5. Left(u, end1, end2) = V \ {t}
    <3>1. q <= end2 /\ end1 + 1 <= q
      BY <1>26, <1>27
    <3>2. q..end2 = (q + 1..end2) \cup {q}
      BY <3>1
    <3>3. q \notin q + 1..end2 /\ q \notin p..end1
      BY <3>1
    <3>4. Left(u, end1, end2) = (p..end1) \cup (q + 1..end2)
      BY <2>2 DEF Left
    <3> QED
      BY <1>9, <1>26, <3>2, <3>3, <3>4
  <2>6. /\ u.p \in base + 1..end1 + 1 /\ u.psize = end1 + 1 - u.p
        /\ u.q \in end1 + 1..end2 + 1 /\ u.qsize = end1 + w + 1 - u.q
        /\ Len(u.list) = u.p - 1 + (u.q - 1 - end1)
    <3>1. q <= end2
      BY <1>26
    <3>2. base + 1 <= p /\ p <= end1 + 1 /\ ps = end1 + 1 - (p)
      BY <1>27, <3>1
    <3>3. end1 + 1 <= q + 1 /\ q + 1 <= end2 + 1 /\ qs - 1 = end1 + w + 1 - (q + 1)
      BY <1>27, <3>1
    <3>4. Len(ap) = p - 1 + (q + 1 - 1 - end1)
      BY <1>16, <1>22
    <3>5. p \in base + 1..end1 + 1 /\ q + 1 \in end1 + 1..end2 + 1
      BY <3>2, <3>3
    <3> QED
      BY <2>2, <3>2, <3>3, <3>4, <3>5
  <2>7. Gather(s, l, w, base, u.list, Used(u, base, end1))
    BY <1>21, <2>2, <2>4
  <2>8. \A a \in Used(u, base, end1), b \in Left(u, end1, end2) : Less(s, l[a], l[b])
    BY <1>23, <2>4, <2>5
  <2>9. TurnInv(s, l, w, u, base, end1, end2)
    BY <1>2, <2>3, <2>6, <2>7, <2>8 DEF TurnInv
  <2>10. Len(u.list) = Len(m.list) + 1
    BY <1>10, <1>15, <1>22, <2>2
  <2> QED
    BY <1>24, <2>9, <2>10
<1> QED
  BY <1>6, <1>13, <1>24, <1>25, <1>26

Turning(s, l, w) ==
  {m \in Merges : \E base, end1, end2 \in Nat : TurnInv(s, l, w, m, base, end1, end2)}

Turn(l, w, m) == Merge(l, IF Done(l, m) THEN RunsAt(l, w, m.q, m.list) ELSE m)

(* The runs that stand behind base. *)
LEMMA PairStarts ==
  ASSUME NEW s, NEW l, Perm(s, l), NEW w \in Nat \ {0},
         NEW base \in Nat, Multiple(base, 2 * w), base <= Len(l), NEW list,
         Gather(s, l, w, base, list, {}), Len(list) = base, NEW q, q = base + 1
  PROVE  \E end1, end2 \in Nat : TurnInv(s, l, w, RunsAt(l, w, q, list), base, end1, end2)
<1>1. PICK N \in Nat : N = Len(l)
  BY DEF Perm
<1>2. PICK end1 \in Nat, end2 \in Nat :
        /\ end1 = IF base + w <= N THEN base + w ELSE N
        /\ end2 = IF base + 2 * w <= N THEN base + 2 * w ELSE N
  OBVIOUS
<1>3. base <= end1 /\ end1 <= end2
  BY <1>1, <1>2
<1>4. PICK m : m = RunsAt(l, w, q, list)
  OBVIOUS
<1>5. m = [list |-> list, p |-> base + 1, psize |-> end1 - base, q |-> end1 + 1, qsize |-> w]
  <2>1. (IF w <= N - q + 1 THEN w ELSE N - q + 1) = end1 - base
    BY <1>1, <1>2
  <2>2. q + (end1 - base) = end1 + 1
    BY <1>2
  <2> QED
    BY <1>1, <1>4, <2>1, <2>2 DEF RunsAt
<1>6. m.list = list /\ m.p = base + 1 /\ m.psize = end1 - base /\ m.q = end1 + 1 /\ m.qsize = w
  BY <1>5
<1>7. m \in Merges
  <2>1. list \in Seq(Elems)
    BY DEF Gather
  <2> QED
    BY <1>2, <1>5, <2>1 DEF Merges
<1>8. /\ m.p \in base + 1..end1 + 1 /\ m.psize = end1 + 1 - m.p
      /\ m.q \in end1 + 1..end2 + 1 /\ m.qsize = end1 + w + 1 - m.q
      /\ Len(m.list) = m.p - 1 + (m.q - 1 - end1)
  BY <1>2, <1>3, <1>6
<1>9. Used(m, base, end1) = {}
  BY <1>2, <1>6 DEF Used
<1>10. Frame(l, w, base, end1, end2)
  BY <1>1, <1>2 DEF Frame
<1>11. Gather(s, l, w, base, m.list, Used(m, base, end1))
  BY <1>6, <1>9
<1>12. TurnInv(s, l, w, m, base, end1, end2)
  BY <1>7, <1>8, <1>9, <1>10, <1>11 DEF TurnInv
<1> QED
  BY <1>4, <1>12

LEMMA TurnTaken ==
  ASSUME HashAssumption, NEW s \in Seq(Elems), Distinct(s), NEW l, Perm(s, l),
         NEW w \in Nat \ {0}, RunsSorted(s, l, w),
         NEW m \in Turning(s, l, w), Len(m.list) < Len(l)
  PROVE  Turn(l, w, m) \in Turning(s, l, w) /\ Len(Turn(l, w, m).list) = Len(m.list) + 1
<1>1. PICK base \in Nat, end1 \in Nat, end2 \in Nat : TurnInv(s, l, w, m, base, end1, end2)
  BY DEF Turning
<1>2. PICK n : n = IF Done(l, m) THEN RunsAt(l, w, m.q, m.list) ELSE m
  OBVIOUS
<1>3. n.list = m.list /\ ~ Done(l, n)
      /\ \E b, e1, e2 \in Nat : TurnInv(s, l, w, n, b, e1, e2)
  <2>1. CASE ~ Done(l, m)
    BY <1>1, <1>2, <2>1
  <2>2. CASE Done(l, m)
    <3>1. PICK N \in Nat : N = Len(l)
      BY DEF Perm
    <3>2. Frame(l, w, base, end1, end2)
      BY <1>1 DEF TurnInv
    <3>3. /\ base <= end1 /\ end1 <= end2 /\ end2 <= N
      BY <3>1, <3>2, FrameIs
    <3>4. /\ m.p \in base + 1..end1 + 1 /\ m.q \in end1 + 1..end2 + 1
          /\ m.psize = end1 + 1 - m.p /\ m.qsize = end1 + w + 1 - m.q
          /\ Len(m.list) = m.p - 1 + (m.q - 1 - end1)
      BY <1>1 DEF TurnInv
    <3>5. /\ Multiple(base, 2 * w) /\ base <= N
          /\ end1 = IF base + w <= N THEN base + w ELSE N
          /\ end2 = IF base + 2 * w <= N THEN base + 2 * w ELSE N
      BY <3>1, <3>2 DEF Frame
    <3>6. m.psize = 0 /\ (m.qsize = 0 \/ m.q > N)
      BY <2>2, <3>1 DEF Done
    <3>7. m.p = end1 + 1 /\ m.q = end2 + 1
      <4>1. m.p \in Int /\ m.q \in Int /\ m.psize \in Int /\ m.qsize \in Int
        BY <1>1 DEF TurnInv, Merges
      <4>2. PICK p \in Int, q \in Int, ps \in Int, qs \in Int :
              p = m.p /\ q = m.q /\ ps = m.psize /\ qs = m.qsize
        BY <4>1
      <4>3. /\ p <= end1 + 1 /\ end1 + 1 <= q /\ q <= end2 + 1
            /\ ps = end1 + 1 - p /\ qs = end1 + w + 1 - q
        BY <3>4, <4>2
      <4>4. ps = 0 /\ (qs = 0 \/ q > N)
        BY <3>6, <4>2
      <4>5. end2 <= end1 + w
        BY <3>5
      <4>6. p = end1 + 1 /\ q = end2 + 1
        BY <3>3, <4>3, <4>4, <4>5
      <4> QED
        BY <4>2, <4>6
    <3>8. Len(m.list) = end2 /\ end2 < N
      BY <3>1, <3>3, <3>4, <3>7
    <3>9. end2 = base + 2 * w
      BY <3>5, <3>8
    <3>10. Multiple(end2, 2 * w)
      BY <3>5, <3>9, Multiples
    <3>11. Gather(s, l, w, base, m.list, Used(m, base, end1))
      BY <1>1 DEF TurnInv
    <3>12. Used(m, base, end1) = base + 1..end2
      BY <3>3, <3>7 DEF Used
    <3>13. PICK ls : ls = m.list
      OBVIOUS
    <3>14. Gather(s, l, w, end2, ls, {})
      <4>1. /\ ls \in Seq(Elems) /\ Distinct(ls)
            /\ Image(ls) = {l[j] : j \in (1..base) \cup (base + 1..end2)}
            /\ \A i \in 1..base : \E j \in 1..base : ls[i] = l[j]
            /\ \A i \in base + 1..Len(ls) : \E j \in base + 1..end2 : ls[i] = l[j]
            /\ RunsSorted(s, ls, 2 * w)
        BY <3>11, <3>12, <3>13 DEF Gather
      <4>2. (1..base) \cup (base + 1..end2) = (1..end2) \cup {}
        BY <3>3
      <4>3. Image(ls) = {l[j] : j \in (1..end2) \cup {}}
        BY <4>1, <4>2
      <4>4. ASSUME NEW i \in 1..end2 PROVE \E j \in 1..end2 : ls[i] = l[j]
        <5>1. CASE i \in 1..base
          BY <3>3, <4>1, <5>1
        <5>2. CASE i \notin 1..base
          <6>1. i \in base + 1..Len(ls)
            BY <3>3, <3>8, <3>13, <5>2
          <6> QED
            BY <3>3, <4>1, <6>1
        <5> QED
          BY <5>1, <5>2
      <4>5. end2 + 1..Len(ls) = {}
        BY <3>3, <3>8, <3>13
      <4>6. end2 <= Len(ls)
        BY <3>3, <3>8, <3>13
      <4>7. \A i \in end2 + 1..Len(ls) : \E j \in {} : ls[i] = l[j]
        BY <4>5
      <4>8. \A i \in 1..end2 : \E j \in 1..end2 : ls[i] = l[j]
        BY <4>4
      <4>9. ls \in Seq(Elems) /\ Distinct(ls) /\ RunsSorted(s, ls, 2 * w)
        BY <4>1
      <4> QED
        BY <4>3, <4>6, <4>7, <4>8, <4>9 DEF Gather
    <3>15. PICK e1 \in Nat, e2 \in Nat : TurnInv(s, l, w, RunsAt(l, w, m.q, ls), end2, e1, e2)
      <4>1. end2 <= Len(l) /\ Len(ls) = end2
        BY <3>1, <3>3, <3>8, <3>13
      <4> QED
        BY <3>3, <3>7, <3>10, <3>14, <4>1, PairStarts
    <3>16. n = RunsAt(l, w, m.q, ls)
      BY <1>2, <2>2, <3>13
    <3>17. n.list = m.list
      BY <3>13, <3>16 DEF RunsAt
    <3>18. n.psize # 0
      <4>1. n.psize = IF w <= N - m.q + 1 THEN w ELSE N - m.q + 1
        BY <3>1, <3>16 DEF RunsAt
      <4> QED
        BY <3>3, <3>7, <3>8, <4>1
    <3> QED
      BY <3>15, <3>16, <3>17, <3>18 DEF Done
  <2> QED
    BY <2>1, <2>2
<1>4. PICK b \in Nat, e1 \in Nat, e2 \in Nat : TurnInv(s, l, w, n, b, e1, e2)
  BY <1>3
<1>5. TurnInv(s, l, w, Merge(l, n), b, e1, e2) /\ Len(Merge(l, n).list) = Len(n.list) + 1
  BY <1>3, <1>4, MergeTakes, SMTT(30)
<1>6. Merge(l, n) \in Merges
  BY <1>5 DEF TurnInv
<1>7. Merge(l, n) \in Turning(s, l, w)
  BY <1>5, <1>6 DEF Turning
<1>8. Turn(l, w, m) = Merge(l, n)
  BY <1>2 DEF Turn
<1> QED
  BY <1>3, <1>5, <1>7, <1>8

(* The last turn leaves a list of sorted runs. *)
LEMMA LastTurn ==
  ASSUME NEW s, NEW l, Perm(s, l), NEW w \in Nat \ {0}, RunsSorted(s, l, w),
         NEW m \in Turning(s, l, w), Len(m.list) = Len(l)
  PROVE  Perm(s, m.list) /\ RunsSorted(s, m.list, 2 * w)
<1>1. PICK base \in Nat, end1 \in Nat, end2 \in Nat : TurnInv(s, l, w, m, base, end1, end2)
  BY DEF Turning
<1>2. PICK N \in Nat : N = Len(l) /\ DOMAIN l = 1..N
  BY DEF Perm
<1>3. Frame(l, w, base, end1, end2)
  BY <1>1 DEF TurnInv
<1>4. /\ base <= end1 /\ end1 <= end2 /\ end2 <= N
  BY <1>2, <1>3, FrameIs
<1>5. /\ m.p \in base + 1..end1 + 1 /\ m.q \in end1 + 1..end2 + 1
      /\ Len(m.list) = m.p - 1 + (m.q - 1 - end1)
  BY <1>1 DEF TurnInv
<1>6. m.p = end1 + 1 /\ m.q = N + 1
  <2>1. m.p \in Int /\ m.q \in Int
    BY <1>1 DEF TurnInv, Merges
  <2>2. PICK p \in Int, q \in Int : p = m.p /\ q = m.q
    BY <2>1
  <2>3. p <= end1 + 1 /\ q <= end2 + 1 /\ N = p - 1 + (q - 1 - end1)
    BY <1>2, <1>5, <2>2
  <2>4. end2 <= N
    BY <1>4
  <2>5. p = end1 + 1 /\ q = N + 1
    BY <2>3, <2>4
  <2> QED
    BY <2>2, <2>5
<1>7. Gather(s, l, w, base, m.list, Used(m, base, end1))
  BY <1>1 DEF TurnInv
<1>8. (1..base) \cup Used(m, base, end1) = 1..N
  BY <1>4, <1>6 DEF Used
<1>9. Image(m.list) = {l[j] : j \in 1..N}
  BY <1>7, <1>8 DEF Gather
<1>10. Image(m.list) = Image(s)
  BY <1>2, <1>9 DEF Image, Perm
<1>11. Len(m.list) = Len(s)
  BY DEF Perm
<1> QED
  BY <1>7, <1>10, <1>11 DEF Perm, Gather

(* A pass of HASH_SORT. *)
LEMMA MergeRunsIs ==
  ASSUME HashAssumption, NEW s \in Seq(Elems), Distinct(s), NEW l, Perm(s, l),
         NEW w \in Nat \ {0}, RunsSorted(s, l, w)
  PROVE  Perm(s, MergeRuns(l, w)) /\ RunsSorted(s, MergeRuns(l, w), 2 * w)
<1> DEFINE N == Len(l)
           S == Turning(s, l, w)
           m0 == RunsAt(l, w, 1, << >>)
           Turns(f) == f = [k \in 0..N |->
             IF k = 0 THEN m0
             ELSE LET m == f[k - 1]
                  IN Merge(l, IF m.psize = 0 /\ (m.qsize = 0 \/ m.q > Len(l))
                              THEN RunsAt(l, w, m.q, m.list) ELSE m)]
           step == [x \in (1..N) \X S |-> IF Len(x[2].list) < N THEN Turn(l, w, x[2]) ELSE x[2]]
           f == CHOOSE g : Turns(g)
<1>1. N \in Nat
  BY DEF Perm
<1>2. MergeRuns(l, w) = f[N].list
  BY DEF MergeRuns
<1>3. m0 \in S /\ Len(m0.list) = 0
  <2>1. PICK b \in Nat : b = 0
    OBVIOUS
  <2>2. Multiple(b, 2 * w)
    <3>1. b = 0 * (2 * w) /\ 0 \in Nat
      BY <2>1
    <3> QED
      BY <3>1 DEF Multiple
  <2>3. b <= Len(l) /\ Len(<< >>) = b /\ 1 = b + 1
    BY <1>1, <2>1
  <2>4. Gather(s, l, w, b, << >>, {})
    <3>1. << >> \in Seq(Elems) /\ Distinct(<< >>) /\ Image(<< >>) = {} /\ Len(<< >>) = 0
      BY DEF Distinct, Image
    <3>2. (1..b) \cup {} = {} /\ b + 1..0 = {} /\ 1..b = {} /\ 1..0 = {} /\ b <= 0
      BY <2>1
    <3>3. RunsSorted(s, << >>, 2 * w)
      BY <3>1, <3>2 DEF RunsSorted
    <3> QED
      BY <3>1, <3>2, <3>3 DEF Gather
  <2>5. PICK e1 \in Nat, e2 \in Nat : TurnInv(s, l, w, RunsAt(l, w, 1, << >>), b, e1, e2)
    <3>1. PICK o : o = << >>
      OBVIOUS
    <3>2. PICK q : q = 1
      OBVIOUS
    <3>3. \E e1, e2 \in Nat : TurnInv(s, l, w, RunsAt(l, w, q, o), b, e1, e2)
      <4>1. Gather(s, l, w, b, o, {}) /\ Len(o) = b /\ q = b + 1
        BY <2>3, <2>4, <3>1, <3>2
      <4> QED
        BY <2>2, <2>3, <4>1, PairStarts
    <3> QED
      BY <3>1, <3>2, <3>3
  <2>6. m0 \in Merges
    BY <2>5 DEF TurnInv
  <2>7. m0.list = << >>
    BY DEF RunsAt
  <2> HIDE DEF m0
  <2> QED
    BY <2>3, <2>5, <2>6, <2>7 DEF Turning, m0
<1>4. ASSUME NEW m \in S, Len(m.list) < N
      PROVE  Turn(l, w, m) \in S /\ Len(Turn(l, w, m).list) = Len(m.list) + 1
  BY <1>4, TurnTaken
<1>5. \A m : Turn(l, w, m) = Merge(l, IF m.psize = 0 /\ (m.qsize = 0 \/ m.q > Len(l))
                                     THEN RunsAt(l, w, m.q, m.list) ELSE m)
  BY DEF Turn, Done
<1>6. \A m \in S : Len(m.list) = N => Perm(s, m.list) /\ RunsSorted(s, m.list, 2 * w)
  BY LastTurn
<1>16. \A m \in S : Len(m.list) \in Nat
  BY DEF Turning, Merges
<1> HIDE DEF N, S, m0
<1>7. step \in [(1..N) \X S -> S]
  <2>1. \A x \in (1..N) \X S : x[2] \in S
    OBVIOUS
  <2> QED
    BY <1>4, <2>1
<1>8. \A k \in 1..N, m \in S : Len(m.list) < N => step[<<k, m>>] = Turn(l, w, m)
  OBVIOUS
<1> HIDE DEF step
<1>9. PICK g : Steps(g, N, S, m0, step)
  BY <1>1, <1>3, <1>7, StepsExist
<1>10. g \in [0..N -> S] /\ g[0] = m0 /\ \A k \in 1..N : g[k] = step[<<k, g[k - 1]>>]
  BY <1>9 DEF Steps
<1>11. \A k \in 0..N : Len(g[k].list) = k
  <2> DEFINE T == {k \in 0..N : Len(g[k].list) = k}
  <2>1. 0 \in T
    BY <1>1, <1>3, <1>10
  <2>2. ASSUME NEW k \in 0..N - 1, k \in T PROVE k + 1 \in T
    <3>1. k + 1 \in 1..N /\ k + 1 - 1 = k /\ k \in 0..N /\ k < N /\ k + 1 \in 0..N
      BY <1>1
    <3>2. g[k] \in S /\ Len(g[k].list) = k
      BY <1>10, <2>2, <3>1
    <3>5. g[k + 1] = step[<<k + 1, g[k]>>]
      BY <1>10, <3>1
    <3>3. g[k + 1] = Turn(l, w, g[k])
      BY <1>8, <3>1, <3>2, <3>5
    <3>4. Len(g[k + 1].list) = k + 1
      BY <1>4, <3>1, <3>2, <3>3
    <3> QED
      BY <3>1, <3>4
  <2> HIDE DEF T
  <2>3. \A k \in 0..N : k \in T
    BY <1>1, <2>1, <2>2, UpTo
  <2> QED
    BY <2>3 DEF T
<1>12. Turns(g)
  <2>1. ASSUME NEW k \in 0..N
        PROVE  g[k] = IF k = 0 THEN m0
                      ELSE LET m == g[k - 1]
                           IN Merge(l, IF m.psize = 0 /\ (m.qsize = 0 \/ m.q > Len(l))
                                       THEN RunsAt(l, w, m.q, m.list) ELSE m)
    <3>1. CASE k # 0
      <4>1. k \in 1..N /\ k - 1 \in 0..N /\ k - 1 < N
        BY <1>1, <3>1
      <4>2. g[k - 1] \in S /\ Len(g[k - 1].list) < N
        BY <1>10, <1>11, <4>1
      <4>3. g[k] = Turn(l, w, g[k - 1])
        BY <1>8, <1>10, <4>1, <4>2
      <4> QED
        BY <1>5, <3>1, <4>3
    <3> QED
      BY <1>10, <3>1
  <2>2. g = [k \in 0..N |-> g[k]]
    BY <1>10
  <2> QED
    BY <2>1, <2>2
<1>13. Turns(f)
  <2> HIDE DEF Turns
  <2> QED
    BY <1>12
<1> HIDE DEF f
<1>14. f[0] = m0 /\ \A k \in 1..N : f[k] = Turn(l, w, f[k - 1])
  <2>1. f[0] = m0
    BY <1>1, <1>13
  <2>2. ASSUME NEW k \in 1..N PROVE f[k] = Turn(l, w, f[k - 1])
    <3>1. k \in 0..N /\ k # 0
      BY <1>1
    <3>2. f[k] = LET m == f[k - 1]
                 IN Merge(l, IF m.psize = 0 /\ (m.qsize = 0 \/ m.q > Len(l))
                             THEN RunsAt(l, w, m.q, m.list) ELSE m)
      BY <1>13, <3>1
    <3> QED
      BY <1>5, <3>2
  <2> QED
    BY <2>1, <2>2
<1> HIDE DEF Turns
<1>15. f[N] \in S /\ Len(f[N].list) = N
  <2> DEFINE T == {k \in 0..N : f[k] \in S /\ Len(f[k].list) = k}
  <2>1. 0 \in T
    BY <1>1, <1>3, <1>14
  <2>2. ASSUME NEW k \in 0..N - 1, k \in T PROVE k + 1 \in T
    <3>1. k + 1 \in 1..N /\ k + 1 - 1 = k /\ k \in 0..N /\ k < N /\ k + 1 \in 0..N
      BY <1>1
    <3>2. f[k] \in S /\ Len(f[k].list) = k
      BY <2>2
    <3>3. f[k + 1] = Turn(l, w, f[k])
      BY <1>14, <3>1
    <3>4. f[k + 1] \in S /\ Len(f[k + 1].list) = k + 1
      BY <1>4, <3>1, <3>2, <3>3
    <3> QED
      BY <3>1, <3>4
  <2> HIDE DEF T
  <2>3. \A k \in 0..N : k \in T
    BY <1>1, <2>1, <2>2, UpTo
  <2>4. N \in T
    BY <1>1, <2>3
  <2> QED
    BY <2>4 DEF T
<1> QED
  BY <1>2, <1>6, <1>15

(* The passes of HASH_SORT. *)
LEMMA MergeSortIs ==
  ASSUME HashAssumption, NEW s \in Seq(Elems), Distinct(s)
  PROVE  SortedOf(s, MergeSort(s))
<1> DEFINE N == Len(s)
           S == {b \in [list : Seq(Elems), insize : Nat \ {0}] :
                   Perm(s, b.list) /\ RunsSorted(s, b.list, b.insize)}
           b0 == [list |-> s, insize |-> 1]
           Pass(b) == IF b.insize >= Len(s) THEN b
                      ELSE [list |-> MergeRuns(b.list, b.insize), insize |-> 2 * b.insize]
           Passes(f) == f = [k \in 0..N |->
             IF k = 0 THEN b0
             ELSE LET b == f[k - 1]
                  IN IF b.insize >= Len(s) THEN b
                     ELSE [list |-> MergeRuns(b.list, b.insize), insize |-> 2 * b.insize]]
           step == [x \in (1..N) \X S |-> Pass(x[2])]
           f == CHOOSE g : Passes(g)
<1>1. N \in Nat
  OBVIOUS
<1>2. MergeSort(s) = f[N].list
  BY DEF MergeSort
<1>3. b0 \in S /\ b0.insize = 1
  <2>1. Perm(s, s)
    BY DEF Perm
  <2>2. RunsSorted(s, s, 1)
    <3>1. SUFFICES ASSUME NEW i \in 1..N, NEW j \in 1..N, i < j
                   PROVE  IF Same(i, j, 1) THEN Less(s, s[i], s[j]) ELSE Precedes(s, s[i], s[j])
      BY DEF RunsSorted
    <3>2. ~ Same(i, j, 1)
      <4>1. SUFFICES ASSUME NEW c \in Nat, c * 1 < i, j <= (c + 1) * 1 PROVE FALSE
        BY DEF Same
      <4> QED
        BY <3>1, <4>1
    <3>3. Precedes(s, s[i], s[j])
      <4>1. i \in DOMAIN s /\ j \in DOMAIN s
        OBVIOUS
      <4> QED
        BY <3>1, <4>1 DEF Precedes
    <3> QED
      BY <3>2, <3>3
  <2>3. b0 \in [list : Seq(Elems), insize : Nat \ {0}] /\ b0.list = s /\ b0.insize = 1
    OBVIOUS
  <2> HIDE DEF b0
  <2> QED
    BY <2>1, <2>2, <2>3
<1>4. ASSUME NEW b \in S
      PROVE  /\ Pass(b) \in S /\ b.insize \in Nat \ {0} /\ Pass(b).insize \in Nat \ {0}
             /\ Pass(b).insize >= N \/ Pass(b).insize > b.insize
  <2>1. /\ b \in [list : Seq(Elems), insize : Nat \ {0}]
        /\ Perm(s, b.list) /\ RunsSorted(s, b.list, b.insize)
    OBVIOUS
  <2>2. PICK l \in Seq(Elems), w \in Nat \ {0} : l = b.list /\ w = b.insize
    BY <2>1
  <2>3. CASE w >= Len(s)
    <3>1. Pass(b) = b
      BY <2>2, <2>3
    <3> HIDE DEF S, Pass
    <3> QED
      BY <2>2, <2>3, <3>1
  <2>4. CASE ~ (w >= Len(s))
    <3>1. PICK r : r = MergeRuns(l, w)
      OBVIOUS
    <3>2. Perm(s, r) /\ RunsSorted(s, r, 2 * w)
      <4>1. Perm(s, l) /\ RunsSorted(s, l, w)
        BY <2>1, <2>2
      <4> QED
        BY <3>1, <4>1, MergeRunsIs
    <3>3. Pass(b) = [list |-> r, insize |-> 2 * w]
      BY <2>2, <2>4, <3>1
    <3>4. r \in Seq(Elems) /\ 2 * w \in Nat \ {0}
      BY <3>2 DEF Perm
    <3>5. Pass(b).list = r /\ Pass(b).insize = 2 * w
      BY <3>3
    <3>6. Pass(b) \in [list : Seq(Elems), insize : Nat \ {0}]
      BY <3>3, <3>4
    <3> HIDE DEF Pass
    <3>7. Pass(b) \in S
      BY <3>2, <3>5, <3>6
    <3>8. 2 * w > w
      OBVIOUS
    <3> QED
      BY <2>2, <3>4, <3>5, <3>7, <3>8
  <2> QED
    BY <2>3, <2>4
<1>5. \A b : Pass(b) = IF b.insize >= Len(s) THEN b
                       ELSE [list |-> MergeRuns(b.list, b.insize), insize |-> 2 * b.insize]
  OBVIOUS
<1>6. ASSUME NEW b \in S, b.insize >= N PROVE SortedOf(s, b.list)
  <2>1. PICK l, w : l = b.list /\ w = b.insize
    OBVIOUS
  <2>2. Perm(s, l) /\ RunsSorted(s, l, w) /\ w \in Nat \ {0} /\ w >= N
    BY <1>6, <2>1
  <2>3. l \in Seq(Elems) /\ Distinct(l) /\ Image(l) = Image(s) /\ Len(l) = N
    BY <2>2 DEF Perm
  <2>4. ASSUME NEW i \in 1..N, NEW j \in 1..N, i < j PROVE Less(s, l[i], l[j])
    <3>1. 0 * w < i /\ j <= (0 + 1) * w /\ 0 \in Nat
      BY <2>2
    <3>2. Same(i, j, w)
      BY <3>1 DEF Same
    <3> QED
      BY <2>2, <2>3, <2>4, <3>2 DEF RunsSorted
  <2>5. SortedOf(s, l)
    BY <2>3, <2>4 DEF SortedOf, Less
  <2> QED
    BY <2>1, <2>5
<1> HIDE DEF N, S, b0, Pass
<1>7. step \in [(1..N) \X S -> S]
  <2>1. \A x \in (1..N) \X S : x[2] \in S
    OBVIOUS
  <2> QED
    BY <1>4, <2>1
<1>8. \A k \in 1..N, b \in S : step[<<k, b>>] = Pass(b)
  OBVIOUS
<1> HIDE DEF step
<1>9. PICK g : Steps(g, N, S, b0, step)
  BY <1>1, <1>3, <1>7, StepsExist
<1>10. g \in [0..N -> S] /\ g[0] = b0 /\ \A k \in 1..N : g[k] = step[<<k, g[k - 1]>>]
  BY <1>9 DEF Steps
<1>11. Passes(g)
  <2>1. ASSUME NEW k \in 0..N
        PROVE  g[k] = IF k = 0 THEN b0
                      ELSE LET b == g[k - 1]
                           IN IF b.insize >= Len(s) THEN b
                              ELSE [list |-> MergeRuns(b.list, b.insize), insize |-> 2 * b.insize]
    <3>1. CASE k # 0
      <4>1. k \in 1..N /\ k - 1 \in 0..N
        BY <1>1, <3>1
      <4>2. g[k] = Pass(g[k - 1])
        BY <1>8, <1>10, <4>1
      <4> QED
        BY <1>5, <3>1, <4>2
    <3> QED
      BY <1>10, <3>1
  <2>2. g = [k \in 0..N |-> g[k]]
    BY <1>10
  <2> QED
    BY <2>1, <2>2
<1>12. Passes(f)
  <2> HIDE DEF Passes
  <2> QED
    BY <1>11
<1> HIDE DEF f
<1>13. f[0] = b0 /\ \A k \in 1..N : f[k] = Pass(f[k - 1])
  <2>1. f[0] = b0
    BY <1>1, <1>12
  <2>2. ASSUME NEW k \in 1..N PROVE f[k] = Pass(f[k - 1])
    <3>1. k \in 0..N /\ k # 0
      BY <1>1
    <3>2. f[k] = LET b == f[k - 1]
                 IN IF b.insize >= Len(s) THEN b
                    ELSE [list |-> MergeRuns(b.list, b.insize), insize |-> 2 * b.insize]
      BY <1>12, <3>1
    <3> QED
      BY <1>5, <3>2
  <2> QED
    BY <2>1, <2>2
<1> HIDE DEF Passes
<1>14. f[N] \in S /\ f[N].insize >= N
  <2> DEFINE T == {k \in 0..N : f[k] \in S /\ (f[k].insize > k \/ f[k].insize >= N)}
  <2>1. 0 \in T
    BY <1>1, <1>3, <1>13
  <2>2. ASSUME NEW k \in 0..N - 1, k \in T PROVE k + 1 \in T
    <3>1. k + 1 \in 1..N /\ k + 1 - 1 = k /\ k + 1 \in 0..N
      BY <1>1
    <3>2. f[k] \in S /\ (f[k].insize > k \/ f[k].insize >= N)
      BY <2>2
    <3>3. PICK b \in S : b = f[k]
      BY <3>2
    <3>4. f[k + 1] = Pass(b)
      BY <1>13, <3>1, <3>3
    <3>5. PICK x \in Nat, y \in Nat : x = b.insize /\ y = Pass(b).insize
      BY <1>4
    <3>6. Pass(b) \in S /\ (y >= N \/ y > x)
      BY <1>4, <3>5
    <3>7. y > k + 1 \/ y >= N
      BY <1>1, <3>1, <3>2, <3>3, <3>5, <3>6
    <3> QED
      BY <3>1, <3>4, <3>5, <3>6, <3>7
  <2> HIDE DEF T
  <2>3. \A k \in 0..N : k \in T
    BY <1>1, <2>1, <2>2, UpTo
  <2>4. N \in T
    BY <1>1, <2>3
  <2>5. f[N] \in S /\ (f[N].insize > N \/ f[N].insize >= N)
    BY <2>4 DEF T
  <2>6. f[N].insize \in Nat
    BY <1>4, <2>5
  <2> QED
    BY <1>1, <2>5, <2>6
<1> QED
  BY <1>2, <1>6, <1>14

LEMMA HashInvInit ==
  ASSUME HashAssumption, HInit
  PROVE  HashInv
<1>1. TableOf(NoTable, << >>)
  BY NoneTable
<1>2. PICK s : s = << >>
  OBVIOUS
<1>3. TableOf(table, s)
  BY <1>1, <1>2 DEF HInit
<1> QED
  BY <1>3 DEF HashInv

LEMMA HashInvNext ==
  ASSUME HashAssumption, HashInv, [HNext]_table
  PROVE  HashInv'
<1>1. PICK s : TableOf(table, s)
  BY DEF HashInv
<1>2. Linked(table, s)
  BY <1>1, TableIs
<1>3. AppOrder(table) = s /\ InTable(table) = Image(s)
  BY <1>2, OrderIs
<1>4. s \in Seq(Elems) /\ Distinct(s) /\ (table.head = NULL <=> s = << >>)
  <2>1. s \in Seq(Elems) /\ Distinct(s)
    BY <1>2 DEF Linked
  <2>2. table.head = NULL <=> s = << >>
    BY <1>2, HeadIs
  <2> QED
    BY <2>1, <2>2
<1>5. ASSUME NEW t, NEW r, TableOf(t, r), table' = t PROVE HashInv'
  BY <1>5 DEF HashInv
<1>6. ASSUME NEW e \in Elems, Add(e) PROVE HashInv'
  <2>1. e \in Elems \ Image(s) /\ table' = HASH_ADD_KEYPTR(table, e)
    BY <1>3, <1>6 DEF Add
  <2>2. TableOf(HASH_ADD_KEYPTR(table, e), Append(s, e))
    BY <1>1, <2>1, AddTable
  <2> QED
    BY <1>5, <2>1, <2>2
<1>7. ASSUME NEW e \in Elems, AddUnique(e) PROVE HashInv'
  <2>1. e \in Elems \ Image(s)
    BY <1>3, <1>7 DEF AddUnique
  <2>2. table' = HASH_ADD_KEYPTR(table, e) \/ table' = table
    BY <1>7 DEF AddUnique
  <2>3. TableOf(HASH_ADD_KEYPTR(table, e), Append(s, e))
    BY <1>1, <2>1, AddTable
  <2> QED
    BY <1>1, <1>5, <2>2, <2>3
<1>8. ASSUME NEW e \in Elems, FindDelete(Key[e]) PROVE HashInv'
  <2>1. PICK f : f = HASH_FIND(table, Key[e])
    OBVIOUS
  <2>2. f # NULL /\ table' = HASH_DELETE(table, f)
    BY <1>8, <2>1 DEF FindDelete
  <2>3. f \in Image(s)
    <3>1. PICK a : Threads(table, a) /\ Sound(a, s)
      BY <1>1 DEF TableOf, Good
    <3> QED
      BY <2>1, <2>2, <3>1, FindIs
  <2>4. PICK d \in 1..Len(s) : s[d] = f
    BY <1>4, <2>3 DEF Image
  <2>5. TableOf(HASH_DELETE(table, s[d]), Drop(s, d))
    BY <1>1, DeleteTable
  <2> QED
    BY <1>5, <2>2, <2>4, <2>5
<1>9. ASSUME Sort PROVE HashInv'
  <2>1. PICK r : r = MergeSort(s)
    OBVIOUS
  <2>2. SortedOf(s, r)
    BY <1>4, <2>1, MergeSortIs
  <2>3. TableOf(HASH_SORT(table), r)
    BY <1>1, <2>1, <2>2, SortTable
  <2>4. table' = HASH_SORT(table)
    BY <1>9 DEF Sort
  <2> QED
    BY <1>5, <2>3, <2>4
<1>10. ASSUME Clear PROVE HashInv'
  <2>1. table' = NoTable
    BY <1>10 DEF Clear
  <2> QED
    BY <1>5, <2>1, NoneTable
<1>11. ASSUME Free PROVE HashInv'
  <2>1. table' = NoTable
    BY <1>11, FreeGood
  <2> QED
    BY <1>5, <2>1, NoneTable
<1>12. ASSUME UNCHANGED table PROVE HashInv'
  BY <1>1, <1>5, <1>12
<1> QED
  BY <1>6, <1>7, <1>8, <1>9, <1>10, <1>11, <1>12 DEF HNext

(* In every state there is one list of the elements in application order to *)
(* which the pointers, the buckets and the counters all fit.                *)
THEOREM HashInvariant == HashAssumption => (HSpec => []HashInv)
<1>1. ASSUME HashAssumption PROVE HSpec => []HashInv
  <2>1. HInit => HashInv
    BY <1>1, HashInvInit
  <2>2. HashInv /\ [HNext]_table => HashInv'
    BY <1>1, HashInvNext
  <2> QED
    BY <2>1, <2>2, PTL DEF HSpec
<1> QED
  BY <1>1

-----------------------------------------------------------------------------
(* Every operation leaves pointers to elements or NULL, and counts of the   *)
(* elements and of the chains that are no greater than their number.        *)
THEOREM HashTyped == HashAssumption => (HSpec => []HTypeOK)
<1> SUFFICES ASSUME HashAssumption PROVE HSpec => []HTypeOK
  OBVIOUS
<1>1. HashInv => HTypeOK
  <2> SUFFICES ASSUME HashInv PROVE HTypeOK
    OBVIOUS
  <2>1. PICK s, a : Threads(table, a) /\ Good(a, s)
    BY DEF HashInv, TableOf
  <2>2. /\ a \in Tables /\ s \in Seq(Elems) /\ Distinct(s) /\ a.num_items = Len(s)
        /\ Filed(a, Image(s)) /\ Sized(a)
    BY <2>1 DEF Good, Sound, Linked
  <2>3. PICK c \in Nat : c = Cardinality(Elems)
    BY FS_CardinalityType DEF HashAssumption
  <2>4. \A u \in Seq(Elems) : Distinct(u) => Len(u) \in 0..c
    <3>1. IsFiniteSet(Elems)
      BY DEF HashAssumption
    <3>2. ASSUME NEW u \in Seq(Elems), Distinct(u) PROVE Len(u) <= c
      BY <2>3, <3>1, <3>2, DistinctShort
    <3> QED
      BY <2>3, <3>2
  <2>5. table \in Memory /\ Alike(table, a)
    BY <2>1, ThreadsIs
  <2>6. PICK n \in Nat : /\ n = Len(a.buckets) /\ n = Len(table.buckets)
                         /\ a.buckets \in [1..n -> Buckets] /\ table.buckets \in [1..n -> Heads]
    BY <2>1, ThreadsIs
  <2>7. ASSUME NEW i \in DOMAIN table.buckets
        PROVE  /\ table.buckets[i].hh_head \in Elems \cup {NULL}
               /\ table.buckets[i].count \in 0..c
               /\ table.buckets[i].expand_mult \in 0..c
    <3>1. i \in 1..n
      BY <2>6
    <3>2. PICK b, h : b = a.buckets[i] /\ h = table.buckets[i]
      OBVIOUS
    <3>3. h.hh_head \in Elems \cup {NULL} /\ b.chain \in Seq(Elems) /\ b.expand_mult \in Nat
      BY <2>6, <3>1, <3>2 DEF Buckets, Heads
    <3>4. h.count = b.count /\ h.expand_mult = b.expand_mult
      <4>1. ThreadedAt(table, a, i)
        BY <2>1, <2>6, <3>1, ThreadsIs
      <4> QED
        BY <3>2, <4>1 DEF ThreadedAt
    <3>5. Distinct(b.chain) /\ b.count = Len(b.chain)
      BY <2>2, <2>6, <3>1, <3>2 DEF Filed, FiledAt
    <3>6. b.count \in 0..c
      BY <2>4, <3>3, <3>5
    <3>7. b.expand_mult <= c
      BY <2>2, <2>3, <2>6, <3>1, <3>2 DEF Sized
    <3> QED
      BY <2>3, <3>2, <3>3, <3>4, <3>6, <3>7
  <2>8. table.num_items \in 0..c
    BY <2>2, <2>4, <2>5 DEF Alike
  <2>9. /\ table.head \in Elems \cup {NULL} /\ table.tail \in Elems \cup {NULL}
        /\ table.next \in Pointers /\ table.prev \in Pointers
        /\ table.hh_next \in Pointers /\ table.hh_prev \in Pointers
        /\ table.nonideal_items \in Nat /\ table.noexpand \in {0, 1}
    BY <2>5 DEF Memory
  <2> QED
    BY <2>3, <2>7, <2>8, <2>9 DEF HTypeOK, Pointers
<1> QED
  BY <1>1, HashInvariant, PTL

(* HASH_FREE leaves no table, as HASH_CLEAR does: every delete of the head  *)
(* takes one element out, and the last one the table.                       *)
THEOREM FreeEmpties == HashAssumption => (HSpec => [][Free => table' = NoTable]_table)
<1> SUFFICES ASSUME HashAssumption PROVE HSpec => [][Free => table' = NoTable]_table
  OBVIOUS
<1>1. HashInv /\ [HNext]_table => [Free => table' = NoTable]_table
  BY FreeGood
<1> QED
  BY <1>1, HashInvariant, PTL DEF HSpec

(* A find returns an element with its key exactly if there is one, and      *)
(* until the first doubling the one that was added last.                    *)
THEOREM FindsItsKey == HashAssumption => (HSpec => []FindsRight)
<1> SUFFICES ASSUME HashAssumption PROVE HSpec => []FindsRight
  OBVIOUS
<1>1. HashInv => FindsRight
  <2> SUFFICES ASSUME HashInv PROVE FindsRight
    OBVIOUS
  <2>1. PICK s, a : Threads(table, a) /\ Good(a, s)
    BY DEF HashInv, TableOf
  <2>2. Sound(a, s) /\ Linked(a, s) /\ LastFirst(a, s) /\ a \in Tables
        /\ s \in Seq(Elems) /\ Distinct(s) /\ (s # << >> => Len(a.buckets) # 0)
        /\ Len(a.buckets) = Len(table.buckets)
    BY <2>1, ThreadsIs DEF Good, Sound, Linked
  <2>3. AppOrder(table) = s /\ InTable(table) = Image(s)
    BY <2>1, <2>2, FsckIs
  <2>4. ASSUME NEW e0 \in Elems, NEW f, f = HASH_FIND(table, Key[e0])
        PROVE  /\ f = NULL <=> {e \in Image(s) : Key[e] = Key[e0]} = {}
               /\ f # NULL => f \in {e \in Image(s) : Key[e] = Key[e0]}
               /\ f # NULL /\ Len(table.buckets) = InitialBuckets =>
                    \A e \in {e \in Image(s) : Key[e] = Key[e0]} : ~ Precedes(s, f, e)
    <3>1. /\ f = NULL <=> {e \in Image(s) : Key[e] = Key[e0]} = {}
          /\ f # NULL => /\ f \in Image(s) /\ Key[f] = Key[e0]
                         /\ \A e \in Image(s) : Key[e] = Key[e0] =>
                              e = f \/ Precedes(a.buckets[BktOf(e0, a)].chain, f, e)
      BY <2>1, <2>2, <2>4, FindIs
    <3>2. ASSUME f # NULL, Len(table.buckets) = InitialBuckets,
                 NEW e \in Image(s), Key[e] = Key[e0], Precedes(s, f, e)
          PROVE  FALSE
      <4>1. PICK n \in Nat : n = Len(s) /\ DOMAIN s = 1..n
        BY <2>2
      <4>2. PICK x \in 1..n, y \in 1..n : x < y /\ s[x] = f /\ s[y] = e
        BY <3>2, <4>1 DEF Precedes
      <4>3. e # f
        BY <2>2, <4>1, <4>2 DEF Distinct
      <4>4. PICK i : i = BktOf(e0, a)
        OBVIOUS
      <4>5. i \in 1..Len(a.buckets)
        <5>1. a.buckets \in Seq(Buckets)
          BY <2>2 DEF Tables
        <5>2. s # << >>
          BY <4>1, <4>2
        <5>3. Len(a.buckets) \in Nat \ {0}
          BY <2>2, <5>1, <5>2
        <5> QED
          BY <4>4, <5>3, BktIs
      <4>6. Precedes(a.buckets[i].chain, f, e)
        BY <3>1, <3>2, <4>3, <4>4
      <4>7. f \in Elems /\ e \in Elems /\ Key[f] = Key[e]
        <5>1. Image(s) \subseteq Elems
          BY <2>2, ImageIn
        <5> QED
          BY <3>1, <3>2, <5>1
      <4>8. Precedes(s, e, f)
        BY <2>2, <3>2, <4>5, <4>6, <4>7 DEF LastFirst
      <4>9. PICK c \in 1..n, d \in 1..n : c < d /\ s[c] = e /\ s[d] = f
        BY <4>1, <4>8 DEF Precedes
      <4>10. c = y /\ d = x
        BY <2>2, <4>1, <4>2, <4>9 DEF Distinct
      <4> QED
        BY <4>2, <4>9, <4>10
    <3> QED
      BY <3>1, <3>2
  <2> QED
    BY <2>3, <2>4 DEF FindsRight
<1> QED
  BY <1>1, HashInvariant, PTL

(* Until expansion is given up no chain is longer than its bucket's limit    *)
(* or the ideal of the last doubling.                                       *)
THEOREM BoundsChains == HashAssumption => (HSpec => []ChainsBounded)
<1> SUFFICES ASSUME HashAssumption PROVE HSpec => []ChainsBounded
  OBVIOUS
<1>1. HashInv => ChainsBounded
  <2> SUFFICES ASSUME HashInv, table.noexpand = 0, NEW i \in DOMAIN table.buckets
      PROVE  \/ table.buckets[i].count < (table.buckets[i].expand_mult + 1) * Thresh
             \/ table.buckets[i].count <= table.ideal_chain_maxlen
    BY DEF ChainsBounded
  <2>1. PICK s, a : Threads(table, a) /\ Good(a, s)
    BY DEF HashInv, TableOf
  <2>2. /\ Bounded(a) /\ a.noexpand = 0
        /\ a.ideal_chain_maxlen = table.ideal_chain_maxlen
    BY <2>1, ThreadsIs DEF Good, Alike
  <2>3. i \in 1..Len(a.buckets)
    BY <2>1, ThreadsIs
  <2>4. Within(a, a.buckets[i])
    BY <2>2, <2>3 DEF Bounded
  <2>5. ThreadedAt(table, a, i)
    BY <2>1, <2>3, ThreadsIs
  <2> QED
    BY <2>2, <2>4, <2>5 DEF Within, Limit, ThreadedAt
<1> QED
  BY <1>1, HashInvariant, PTL

(* HASH_SORT sorts, keeps equal keys in their order, loses nothing and      *)
(* leaves a table that passes HASH_FSCK.                                    *)
THEOREM SortIsStable == HashAssumption => (HSpec => []SortsStably)
<1> SUFFICES ASSUME HashAssumption PROVE HSpec => []SortsStably
  OBVIOUS
<1>1. HashInv => SortsStably
  <2> SUFFICES ASSUME HashInv PROVE SortsStably
    OBVIOUS
  <2>1. PICK s : TableOf(table, s)
    BY DEF HashInv
  <2>2. \A t, l : TableOf(t, l) => HASH_FSCK(t) /\ AppOrder(t) = l /\ InTable(t) = Image(l)
    BY FsckIs DEF TableOf, Good
  <2>3. AppOrder(table) = s /\ InTable(table) = Image(s)
    BY <2>1, <2>2
  <2>4. s \in Seq(Elems) /\ Distinct(s)
    BY <2>1, TableIs
  <2>5. PICK r : r = MergeSort(s)
    OBVIOUS
  <2>6. SortedOf(s, r)
    BY <2>4, <2>5, MergeSortIs
  <2>7. PICK t : t = HASH_SORT(table)
    OBVIOUS
  <2>8. TableOf(t, r)
    BY <2>1, <2>5, <2>6, <2>7, SortTable
  <2>9. HASH_FSCK(t) /\ AppOrder(t) = r /\ InTable(t) = Image(r)
    BY <2>2, <2>8
  <2>10. Image(r) = Image(s) /\ DOMAIN r = 1..Len(r)
    BY <2>6 DEF SortedOf
  <2>11. \A i, j \in DOMAIN r :
           i < j => \/ Key[r[i]] < Key[r[j]]
                    \/ Key[r[i]] = Key[r[j]] /\ Precedes(s, r[i], r[j])
    BY <2>6, <2>10 DEF SortedOf
  <2>12. InTable(t) = InTable(table) /\ HASH_FSCK(t)
    BY <2>3, <2>9, <2>10
  <2> QED
    BY <2>3, <2>7, <2>9, <2>11, <2>12 DEF SortsStably
<1> QED
  BY <1>1, HashInvariant, PTL

-----------------------------------------------------------------------------
(* HASH_SELECT.  d has the new table, with the elements P, and the last of  *)
(* them in application order.                                               *)
Picked(d, P) ==
  \E a, s : /\ Threads(d.dst, a) /\ Sound(a, s) /\ Image(s) = P
            /\ s # << >> => d.last = s[Len(s)]

Selections(P) == {d \in [dst : Memory, last : Elems \cup {NULL}] : Picked(d, P)}

(* What HASH_ADD_TO_BKT needs of the table v to which e has been linked.     *)
Ready(v, s, e) ==
  /\ v \in Tables /\ Linked(v, Append(s, e)) /\ Filed(v, Image(s))
  /\ Len(v.buckets) # 0 /\ v.num_items = Len(s)

LEMMA SelectedNext ==
  ASSUME HashAssumption, NEW t, NEW s, Sound(t, s), s # << >>, NEW e \in Elems \ Image(s),
         NEW l, l = s[Len(s)], NEW v, v = [t EXCEPT !.next[l] = e, !.prev[e] = l]
  PROVE  Ready(v, s, e)
<1>1. /\ t \in Tables /\ Linked(t, s) /\ Filed(t, Image(s)) /\ t.num_items = Len(s)
      /\ Len(t.buckets) # 0 /\ s \in Seq(Elems)
  BY DEF Sound, Linked
<1>2. l \in Elems
  BY <1>1
<1>3. PICK nx : nx = [t.next EXCEPT ![l] = e]
  OBVIOUS
<1>4. PICK pv : pv = [t.prev EXCEPT ![e] = l]
  OBVIOUS
<1>5. /\ t.next \in [Elems -> Elems \cup {NULL}] /\ t.prev \in [Elems -> Elems \cup {NULL}]
  BY <1>1 DEF Tables
<1>6. nx \in [Elems -> Elems \cup {NULL}] /\ pv \in [Elems -> Elems \cup {NULL}]
  BY <1>2, <1>3, <1>4, <1>5
<1>7. v = [t EXCEPT !.next = nx, !.prev = pv]
  BY <1>1, <1>3, <1>4 DEF Tables
<1>8. v \in Tables
  BY <1>1, <1>6, <1>7 DEF Tables
<1>9. /\ v.head = t.head /\ v.next = nx /\ v.prev = pv
      /\ v.buckets = t.buckets /\ v.num_items = t.num_items
  BY <1>1, <1>7 DEF Tables
<1>10. Linked(v, Append(s, e))
  BY <1>1, <1>3, <1>4, <1>9, LinkedAppend
<1>11. Filed(v, Image(s))
  BY <1>1, <1>9, FiledSame
<1> QED
  BY <1>1, <1>8, <1>9, <1>10, <1>11 DEF Ready

LEMMA SelectOneIs ==
  ASSUME HashAssumption, NEW P, NEW d \in Selections(P), NEW e \in Elems \ P
  PROVE  SelectOne(d, e) \in Selections(P \cup {e})
<1>1. d \in [dst : Memory, last : Elems \cup {NULL}] /\ Picked(d, P)
  BY DEF Selections
<1>2. PICK t, l : t = d.dst /\ l = d.last
  OBVIOUS
<1>3. PICK a, s : Threads(t, a) /\ Sound(a, s) /\ Image(s) = P /\ (s # << >> => l = s[Len(s)])
  BY <1>1, <1>2 DEF Picked
<1>4. /\ a \in Tables /\ Linked(a, s) /\ s \in Seq(Elems) /\ Distinct(s)
      /\ t \in Memory /\ Alike(t, a) /\ (t.head = NULL <=> s = << >>)
  <2>1. a \in Tables /\ Linked(a, s)
    BY <1>3 DEF Sound
  <2>2. t \in Memory /\ Alike(t, a)
    BY <1>3, ThreadsIs
  <2>3. a.head = NULL <=> s = << >>
    BY <2>1, HeadIs
  <2> QED
    BY <2>1, <2>2, <2>3 DEF Linked, Alike
<1>5. PICK v : v = IF t.head = NULL THEN HASH_MAKE_TABLE(e)
                   ELSE [t EXCEPT !.next[l] = e, !.prev[e] = l]
  OBVIOUS
<1>6. PICK w : /\ Threads(v, w)
               /\ w \in Tables /\ Linked(w, Append(s, e)) /\ Filed(w, Image(s))
               /\ Len(w.buckets) # 0 /\ w.num_items = Len(s)
  <2>1. CASE s = << >>
    <3>1. v = HASH_MAKE_TABLE(e)
      BY <1>4, <1>5, <2>1
    <3>2. PICK w : w = MakeChains(e)
      OBVIOUS
    <3>3. /\ w \in Tables /\ Linked(w, <<e>>) /\ Filed(w, {})
          /\ Len(w.buckets) # 0 /\ w.num_items = 0
      BY <3>2, MakeTable
    <3>4. Threads(v, w)
      BY <3>1, <3>2, <3>3, MakeThreads
    <3>5. Append(s, e) = <<e>> /\ Image(s) = {} /\ Len(s) = 0
      BY <2>1 DEF Image
    <3> QED
      BY <3>3, <3>4, <3>5
  <2>2. CASE s # << >>
    <3>1. v = [t EXCEPT !.next[l] = e, !.prev[e] = l]
      BY <1>4, <1>5, <2>2
    <3>2. e \in Elems \ Image(s) /\ l = s[Len(s)]
      BY <1>3, <2>2
    <3>3. PICK w : w = [a EXCEPT !.next[l] = e, !.prev[e] = l]
      OBVIOUS
    <3>4. Ready(w, s, e)
      <4>1. Sound(a, s)
        BY <1>3
      <4> QED
        BY <2>2, <3>2, <3>3, <4>1, SelectedNext
    <3>5. PICK nx, pv : nx = [t.next EXCEPT ![l] = e] /\ pv = [t.prev EXCEPT ![e] = l]
      OBVIOUS
    <3>6. v = [t EXCEPT !.next = nx, !.prev = pv] /\ w = [a EXCEPT !.next = nx, !.prev = pv]
      <4>1. v = [t EXCEPT !.next = nx, !.prev = pv]
        BY <1>4, <3>1, <3>5 DEF Memory
      <4>2. a.next = t.next /\ a.prev = t.prev
        BY <1>4 DEF Alike
      <4>3. w = [a EXCEPT !.next = nx, !.prev = pv]
        BY <1>4, <3>3, <3>5, <4>2 DEF Tables
      <4> QED
        BY <4>1, <4>3
    <3>7. /\ w \in Tables /\ w.next = nx /\ w.prev = pv /\ w.head = a.head /\ w.tail = a.tail
          /\ w.buckets = a.buckets /\ w.num_items = a.num_items
          /\ w.ideal_chain_maxlen = a.ideal_chain_maxlen /\ w.noexpand = a.noexpand
      BY <1>4, <3>4, <3>6 DEF Tables, Ready
    <3>8. nx \in Pointers /\ pv \in Pointers
      BY <3>7 DEF Tables, Pointers
    <3>9. v \in Memory
      BY <1>4, <3>6, <3>8 DEF Memory
    <3>10. /\ v.next = nx /\ v.prev = pv /\ v.head = t.head /\ v.tail = t.tail
           /\ v.buckets = t.buckets /\ v.hh_next = t.hh_next /\ v.hh_prev = t.hh_prev
           /\ v.num_items = t.num_items
           /\ v.ideal_chain_maxlen = t.ideal_chain_maxlen /\ v.noexpand = t.noexpand
      BY <1>4, <3>6 DEF Memory
    <3>11. Alike(v, w)
      BY <1>4, <3>7, <3>10 DEF Alike
    <3>12. Threads(v, w)
      BY <1>3, <3>7, <3>9, <3>10, <3>11, ThreadsSame
    <3> QED
      BY <3>4, <3>12 DEF Ready
  <2> QED
    BY <2>1, <2>2
<1>7. PICK x : x = HASH_ADD_TO_BKT(v, e)
  OBVIOUS
<1>8. PICK b : b = Append(s, e)
  OBVIOUS
<1>9. PICK u : /\ Threads(x, u) /\ u \in Tables /\ Linked(u, b) /\ Filed(u, Image(b))
               /\ Len(u.buckets) # 0 /\ u.num_items = Len(s)
  <2>1. e \in Elems \ Image(s)
    BY <1>3
  <2>2. s # << >> => w.num_items # 0
    BY <1>4, <1>6
  <2>3. \E u : /\ Threads(HASH_ADD_TO_BKT(v, e), u)
               /\ u \in Tables /\ Linked(u, Append(s, e)) /\ Filed(u, Image(Append(s, e)))
               /\ Len(u.buckets) # 0 /\ u.num_items = w.num_items
    BY <1>4, <1>6, <2>1, <2>2, AddSound
  <2> QED
    BY <1>6, <1>7, <1>8, <2>3
<1>10. PICK n \in Nat : n = Len(s) + 1 /\ n = Len(b)
  BY <1>4, <1>8
<1>11. PICK r, q : r = [x EXCEPT !.num_items = n] /\ q = [u EXCEPT !.num_items = n]
  OBVIOUS
<1>12. x \in Memory /\ Alike(x, u)
  BY <1>9, ThreadsIs
<1>13. /\ r \in Memory /\ r.head = x.head /\ r.tail = x.tail /\ r.next = x.next /\ r.prev = x.prev
       /\ r.buckets = x.buckets /\ r.hh_next = x.hh_next /\ r.hh_prev = x.hh_prev
       /\ r.num_items = n /\ r.ideal_chain_maxlen = x.ideal_chain_maxlen
       /\ r.noexpand = x.noexpand
  BY <1>11, <1>12 DEF Memory
<1>14. /\ q \in Tables /\ q.head = u.head /\ q.tail = u.tail /\ q.next = u.next /\ q.prev = u.prev
       /\ q.buckets = u.buckets /\ q.num_items = n
       /\ q.ideal_chain_maxlen = u.ideal_chain_maxlen /\ q.noexpand = u.noexpand
  BY <1>9, <1>11 DEF Tables
<1>15. Threads(r, q)
  <2>1. Alike(r, q)
    BY <1>12, <1>13, <1>14 DEF Alike
  <2> QED
    BY <1>9, <1>13, <1>14, <2>1, ThreadsSame
<1>16. b # << >> /\ b[Len(b)] = e /\ Image(b) = P \cup {e}
  <2>1. s \in Seq(Elems) /\ Distinct(s) /\ e \in Elems \ Image(s)
    BY <1>3, <1>4
  <2>2. /\ Len(Append(s, e)) = Len(s) + 1 /\ Append(s, e)[Len(s) + 1] = e
        /\ Image(Append(s, e)) = Image(s) \cup {e}
    BY <2>1, AppendIs
  <2>3. Len(s) \in Nat
    BY <1>4
  <2> QED
    BY <1>3, <1>8, <1>10, <2>2, <2>3
<1>17. Sound(q, b)
  <2>1. Linked(q, b)
    BY <1>9, <1>14, LinkedSame
  <2>2. Filed(q, Image(b))
    BY <1>9, <1>14, FiledSame
  <2> QED
    BY <1>9, <1>10, <1>14, <1>16, <2>1, <2>2 DEF Sound
<1>18. SelectOne(d, e) = [dst |-> r, last |-> e]
  <2>1. SelectOne(d, e) = [dst |-> [x EXCEPT !.num_items = @ + 1], last |-> e]
    BY <1>2, <1>5, <1>7 DEF SelectOne
  <2>2. x.num_items + 1 = n
    BY <1>9, <1>10, <1>12 DEF Alike
  <2>3. [x EXCEPT !.num_items = @ + 1] = r
    BY <1>11, <2>2
  <2> QED
    BY <2>1, <2>3
<1>19. PICK d2 : d2 = SelectOne(d, e)
  OBVIOUS
<1>20. d2.dst = r /\ d2.last = e /\ d2 \in [dst : Memory, last : Elems \cup {NULL}]
  BY <1>13, <1>18, <1>19
<1>21. Picked(d2, P \cup {e})
  BY <1>15, <1>16, <1>17, <1>20 DEF Picked
<1> QED
  BY <1>19, <1>20, <1>21 DEF Selections

LEMMA SelectFromIs ==
  ASSUME HashAssumption, NEW P, NEW d \in Selections(P), NEW chain \in Seq(Elems),
         Distinct(chain), Image(chain) \cap P = {}
  PROVE  SelectFrom(chain, d) \in Selections(P \cup (Picks \cap Image(chain)))
<1> DEFINE N == Len(chain)
           One(k, x) == IF chain[k] \in Picks THEN SelectOne(x, chain[k]) ELSE x
           Selects(f) == f = [k \in 0..Len(chain) |->
             IF k = 0 THEN d
             ELSE IF chain[k] \in Picks THEN SelectOne(f[k - 1], chain[k]) ELSE f[k - 1]]
           U == [dst : Memory, last : Elems \cup {NULL}]
           Q(k) == P \cup (Picks \cap {chain[j] : j \in 1..k})
           A == [k \in 0..N |-> Selections(Q(k))]
           step == [x \in (1..N) \X U |-> One(x[1], x[2])]
           f == CHOOSE g : Selects(g)
<1>1. N \in Nat /\ \A k \in 1..N : chain[k] \in Elems
  OBVIOUS
<1>2. SelectFrom(chain, d) = f[N]
  BY DEF SelectFrom
<1>3. \A k \in 0..N : A[k] = Selections(Q(k)) /\ A[k] \subseteq U
  BY DEF Selections
<1>4. ASSUME NEW k \in 1..N, NEW x \in A[k - 1] PROVE One(k, x) \in A[k] /\ x \in U
  <2>1. k - 1 \in 0..N /\ k \in 0..N
    BY <1>1
  <2>2. x \in Selections(Q(k - 1)) /\ x \in U
    BY <1>3, <1>4, <2>1
  <2>3. 1..k = (1..k - 1) \cup {k} /\ k \notin 1..k - 1
    BY <1>1
  <2>4. {chain[j] : j \in 1..k} = {chain[j] : j \in 1..k - 1} \cup {chain[k]}
    BY <2>3
  <2>5. CASE chain[k] \in Picks
    <3>1. chain[k] \notin Q(k - 1)
      <4>1. chain[k] \notin {chain[j] : j \in 1..k - 1}
        <5>1. SUFFICES ASSUME NEW j \in 1..k - 1, chain[j] = chain[k] PROVE FALSE
          OBVIOUS
        <5>2. j \in DOMAIN chain /\ k \in DOMAIN chain /\ j # k
          BY <1>1, <2>3
        <5> QED
          BY <5>1, <5>2 DEF Distinct
      <4>2. chain[k] \in Image(chain)
        BY DEF Image
      <4> QED
        BY <4>1, <4>2
    <3>2. Q(k) = Q(k - 1) \cup {chain[k]}
      BY <2>4, <2>5
    <3>3. PICK R : R = Q(k - 1)
      OBVIOUS
    <3>4. SelectOne(x, chain[k]) \in Selections(R \cup {chain[k]})
      <4>1. x \in Selections(R) /\ chain[k] \in Elems \ R
        BY <1>1, <2>2, <3>1, <3>3
      <4> QED
        BY <4>1, SelectOneIs
    <3>5. One(k, x) = SelectOne(x, chain[k])
      BY <2>5
    <3> HIDE DEF One, Q
    <3> QED
      BY <1>3, <2>1, <2>2, <3>2, <3>3, <3>4, <3>5
  <2>6. CASE chain[k] \notin Picks
    <3>1. Q(k) = Q(k - 1)
      BY <2>4, <2>6
    <3>2. One(k, x) = x
      BY <2>6
    <3> HIDE DEF One, Q
    <3> QED
      BY <1>3, <2>1, <2>2, <3>1, <3>2
  <2> QED
    BY <2>5, <2>6
<1>5. \A k \in 1..N, x \in U : step[<<k, x>>] = One(k, x)
  OBVIOUS
<1>6. \A k, x : One(k, x) = IF chain[k] \in Picks THEN SelectOne(x, chain[k]) ELSE x
  OBVIOUS
<1>7. d \in A[0]
  <2>1. Q(0) = P
    OBVIOUS
  <2> HIDE DEF Q
  <2> QED
    BY <1>1, <1>3, <2>1
<1>8. Q(N) = P \cup (Picks \cap Image(chain))
  <2>1. {chain[j] : j \in 1..N} = Image(chain)
    BY DEF Image
  <2> QED
    BY <2>1
<1> HIDE DEF U, A, Q, One, step, N
<1>9. \A k \in 1..N : \A x \in A[k - 1] : step[<<k, x>>] \in A[k]
  BY <1>4, <1>5
<1>10. PICK g : Stages(g, N, A, d, step)
  <2>1. \A k \in 0..N : A[k] \subseteq U
    BY <1>3
  <2> QED
    BY <1>1, <1>7, <1>9, <2>1, StagesExist
<1>11. /\ g = [k \in 0..N |-> g[k]] /\ g[0] = d /\ (\A k \in 0..N : g[k] \in A[k])
       /\ \A k \in 1..N : g[k] = step[<<k, g[k - 1]>>]
  BY <1>10 DEF Stages
<1>12. Selects(g)
  <2>1. ASSUME NEW k \in 0..N
        PROVE  g[k] = IF k = 0 THEN d
                      ELSE IF chain[k] \in Picks THEN SelectOne(g[k - 1], chain[k]) ELSE g[k - 1]
    <3>1. CASE k # 0
      <4>1. k \in 1..N /\ k - 1 \in 0..N
        BY <1>1, <3>1
      <4>2. g[k - 1] \in U
        BY <1>3, <1>11, <4>1
      <4>3. g[k] = One(k, g[k - 1])
        BY <1>5, <1>11, <4>1, <4>2
      <4> QED
        BY <1>6, <3>1, <4>3
    <3> QED
      BY <1>11, <3>1
  <2>2. g = [k \in 0..N |-> g[k]]
    BY <1>11
  <2> QED
    BY <2>1, <2>2 DEF N
<1>13. Selects(f)
  <2> HIDE DEF Selects
  <2> QED
    BY <1>12
<1> HIDE DEF f
<1>14. f[0] = d /\ \A k \in 1..N : f[k] = One(k, f[k - 1])
  <2>1. f[0] = d
    BY <1>1, <1>13 DEF N
  <2>2. ASSUME NEW k \in 1..N PROVE f[k] = One(k, f[k - 1])
    <3>1. k \in 0..Len(chain) /\ k # 0
      BY <1>1 DEF N
    <3>2. f[k] = IF chain[k] \in Picks THEN SelectOne(f[k - 1], chain[k]) ELSE f[k - 1]
      BY <1>13, <3>1
    <3> QED
      BY <1>6, <3>2
  <2> QED
    BY <2>1, <2>2
<1> HIDE DEF Selects
<1>15. f[N] \in A[N]
  <2>1. f[0] \in A[0]
    BY <1>7, <1>14
  <2>2. \A k \in 1..N : f[k - 1] \in A[k - 1] => f[k] \in A[k]
    BY <1>4, <1>14
  <2> QED
    BY <1>1, <2>1, <2>2, StagesKept
<1>16. N \in 0..N
  BY <1>1
<1> QED
  BY <1>2, <1>3, <1>8, <1>15, <1>16

LEMMA SelectIs ==
  ASSUME HashAssumption, NEW src, NEW a, Threads(src, a), NEW s, Sound(a, s)
  PROVE  \E t, r : Threads(HASH_SELECT(src), t) /\ Sound(t, r) /\ Image(r) = Image(s) \cap Picks
<1> DEFINE N == Len(src.buckets)
           P == Image(s)
           d0 == [dst |-> NoTable, last |-> NULL]
           One(k, x) == SelectFrom(ChainOf(src, k), x)
           Selects(f) == f = [i \in 0..Len(src.buckets) |->
             IF i = 0 THEN d0 ELSE SelectFrom(ChainOf(src, i), f[i - 1])]
           U == [dst : Memory, last : Elems \cup {NULL}]
           Q(k) == Picks \cap {e \in P : BktOf(e, a) \in 1..k}
           A == [k \in 0..N |-> Selections(Q(k))]
           step == [x \in (1..N) \X U |-> One(x[1], x[2])]
           f == CHOOSE g : Selects(g)
<1>1. /\ Filed(a, P) /\ (s # << >> => N # 0) /\ s \in Seq(Elems)
      /\ N \in Nat /\ N = Len(a.buckets) /\ \A i \in 1..N : a.buckets[i] \in Buckets
  <2>1. Linked(a, s) /\ Filed(a, P) /\ (s # << >> => Len(a.buckets) # 0)
    BY DEF Sound
  <2>2. N \in Nat /\ N = Len(a.buckets) /\ \A i \in 1..N : a.buckets[i] \in Buckets
    BY ThreadsIs
  <2> QED
    BY <2>1, <2>2 DEF Linked
<1>2. HASH_SELECT(src) = f[N].dst
  BY DEF HASH_SELECT
<1>3. \A k \in 0..N : A[k] = Selections(Q(k)) /\ A[k] \subseteq U
  BY DEF Selections
<1>4. ASSUME NEW k \in 1..N, NEW x \in A[k - 1] PROVE One(k, x) \in A[k] /\ x \in U
  <2>1. k - 1 \in 0..N /\ k \in 0..N
    BY <1>1
  <2>2. x \in Selections(Q(k - 1)) /\ x \in U
    BY <1>3, <1>4, <2>1
  <2>3. 1..k = (1..k - 1) \cup {k} /\ k \notin 1..k - 1
    BY <1>1
  <2>4. PICK c : c = ChainOf(src, k)
    OBVIOUS
  <2>5. c \in Seq(Elems) /\ Distinct(c) /\ Image(c) = {e \in P : BktOf(e, a) = k}
    <3>1. a.buckets[k] \in Buckets
      BY <1>1
    <3>2. FiledAt(a, P, k)
      BY <1>1 DEF Filed
    <3>3. c = a.buckets[k].chain
      BY <1>1, <2>4, ChainIs
    <3> QED
      BY <3>1, <3>2, <3>3 DEF Buckets, FiledAt
  <2>6. Image(c) \cap Q(k - 1) = {}
    BY <2>3, <2>5
  <2>7. Q(k) = Q(k - 1) \cup (Picks \cap Image(c))
    BY <2>3, <2>5
  <2>8. PICK R : R = Q(k - 1)
    OBVIOUS
  <2>9. SelectFrom(c, x) \in Selections(R \cup (Picks \cap Image(c)))
    <3>1. x \in Selections(R) /\ Image(c) \cap R = {}
      BY <2>2, <2>6, <2>8
    <3> QED
      BY <2>5, <3>1, SelectFromIs
  <2>10. One(k, x) = SelectFrom(c, x)
    BY <2>4
  <2> HIDE DEF One, Q
  <2> QED
    BY <1>3, <2>1, <2>2, <2>7, <2>8, <2>9, <2>10
<1>5. \A k \in 1..N, x \in U : step[<<k, x>>] = One(k, x)
  OBVIOUS
<1>6. \A k, x : One(k, x) = SelectFrom(ChainOf(src, k), x)
  OBVIOUS
<1>7. d0 \in A[0]
  <2>1. Q(0) = {}
    OBVIOUS
  <2>2. Threads(NoTable, NoChains) /\ Sound(NoChains, << >>) /\ NoTable \in Memory
    BY GoodNone, NoneThreads DEF Good
  <2>3. d0.dst = NoTable /\ Image(<< >>) = {}
    BY DEF Image
  <2>4. Picked(d0, {})
    <3> HIDE DEF d0
    <3>1. PICK o, n : o = << >> /\ n = NoChains
      OBVIOUS
    <3>2. /\ Threads(d0.dst, n) /\ Sound(n, o) /\ Image(o) = {}
          /\ (o # << >> => d0.last = o[Len(o)])
      BY <2>2, <2>3, <3>1
    <3> QED
      BY <3>2 DEF Picked
  <2>5. d0 \in [dst : Memory, last : Elems \cup {NULL}]
    BY <2>2
  <2>6. d0 \in Selections({})
    BY <2>4, <2>5 DEF Selections
  <2> HIDE DEF Q, d0
  <2> QED
    BY <1>1, <1>3, <2>1, <2>6
<1>8. Q(N) = P \cap Picks
  <2>1. ASSUME NEW e \in P PROVE BktOf(e, a) \in 1..N
    <3>1. e \in Elems /\ s # << >>
      BY <1>1, <2>1 DEF Image
    <3> QED
      BY <1>1, <3>1, BktIs
  <2> QED
    BY <2>1
<1> HIDE DEF U, A, Q, One, step, N, P, d0
<1>9. \A k \in 1..N : \A x \in A[k - 1] : step[<<k, x>>] \in A[k]
  BY <1>4, <1>5
<1>10. PICK g : Stages(g, N, A, d0, step)
  <2>1. \A k \in 0..N : A[k] \subseteq U
    BY <1>3
  <2> QED
    BY <1>1, <1>7, <1>9, <2>1, StagesExist
<1>11. /\ g = [k \in 0..N |-> g[k]] /\ g[0] = d0 /\ (\A k \in 0..N : g[k] \in A[k])
       /\ \A k \in 1..N : g[k] = step[<<k, g[k - 1]>>]
  BY <1>10 DEF Stages
<1>12. Selects(g)
  <2>1. ASSUME NEW k \in 0..N
        PROVE  g[k] = IF k = 0 THEN d0 ELSE SelectFrom(ChainOf(src, k), g[k - 1])
    <3>1. CASE k # 0
      <4>1. k \in 1..N /\ k - 1 \in 0..N
        BY <1>1, <3>1
      <4>2. g[k - 1] \in U
        BY <1>3, <1>11, <4>1
      <4>3. g[k] = One(k, g[k - 1])
        BY <1>5, <1>11, <4>1, <4>2
      <4> QED
        BY <1>6, <3>1, <4>3
    <3> QED
      BY <1>11, <3>1
  <2>2. g = [k \in 0..N |-> g[k]]
    BY <1>11
  <2> QED
    BY <2>1, <2>2 DEF N
<1>13. Selects(f)
  <2> HIDE DEF Selects
  <2> QED
    BY <1>12
<1> HIDE DEF f
<1>14. f[0] = d0 /\ \A k \in 1..N : f[k] = One(k, f[k - 1])
  <2>1. f[0] = d0
    BY <1>1, <1>13 DEF N
  <2>2. ASSUME NEW k \in 1..N PROVE f[k] = One(k, f[k - 1])
    <3>1. k \in 0..Len(src.buckets) /\ k # 0
      BY <1>1 DEF N
    <3>2. f[k] = SelectFrom(ChainOf(src, k), f[k - 1])
      BY <1>13, <3>1
    <3> QED
      BY <1>6, <3>2
  <2> QED
    BY <2>1, <2>2
<1> HIDE DEF Selects
<1>15. f[N] \in A[N]
  <2>1. f[0] \in A[0]
    BY <1>7, <1>14
  <2>2. \A k \in 1..N : f[k - 1] \in A[k - 1] => f[k] \in A[k]
    BY <1>4, <1>14
  <2> QED
    BY <1>1, <2>1, <2>2, StagesKept
<1>16. f[N] \in Selections(P \cap Picks)
  <2>1. N \in 0..N
    BY <1>1
  <2> QED
    BY <1>3, <1>8, <1>15, <2>1
<1>17. PICK t, r : Threads(f[N].dst, t) /\ Sound(t, r) /\ Image(r) = P \cap Picks
  BY <1>16 DEF Selections, Picked
<1> QED
  BY <1>2, <1>17 DEF P

(* What HASH_FSCK tests is true of the table in every state and of what     *)
(* HASH_SELECT makes of it, which has the elements that were to be picked.  *)
THEOREM PassesFsck == HashAssumption => (HSpec => []Fscked)
<1> SUFFICES ASSUME HashAssumption PROVE HSpec => []Fscked
  OBVIOUS
<1>1. HashInv => Fscked
  <2> SUFFICES ASSUME HashInv PROVE Fscked
    OBVIOUS
  <2>1. PICK a, s : Threads(table, a) /\ Sound(a, s)
    BY DEF HashInv, TableOf, Good
  <2>2. HASH_FSCK(table) /\ InTable(table) = Image(s)
    BY <2>1, FsckIs
  <2>3. PICK u, t, r : /\ u = HASH_SELECT(table) /\ Threads(u, t) /\ Sound(t, r)
                       /\ Image(r) = Image(s) \cap Picks
    BY <2>1, SelectIs
  <2>4. HASH_FSCK(u) /\ InTable(u) = Image(r)
    BY <2>3, FsckIs
  <2> QED
    BY <2>2, <2>3, <2>4 DEF Fscked
<1> QED
  BY <1>1, HashInvariant, PTL

=============================================================================
