-------------------------- MODULE CamelCaserProofs --------------------------
(***************************************************************************)
(* Proofs about CamelCaser, for texts of any length.                       *)
(***************************************************************************)
EXTENDS CamelCaser, Induction, FiniteSetTheorems

(* The characters of s up to n that are no spaces. *)
Kept(s, n) == {i \in 1 .. n : ~isspace(s[i])}

(* What Camel says of character i, in terms of the whole text. *)
FirstWord(s, i) ==
  \A j \in 1 .. i : ~isspace(s[j]) => \A k \in j .. i : ~isspace(s[k])
Leads(s, i) ==
  \A j \in 1 .. i - 1 : ~isspace(s[j]) => isNum(s[j]) \/ \E k \in j .. i - 1 : isspace(s[k])
Letter(s, i) == IF ~FirstWord(s, i) /\ Leads(s, i) THEN ToUpper(s[i]) ELSE ToLower(s[i])

(* The camelCase of the first n characters, letter by letter. *)
CamelTo(s, n, out) ==
  /\ out \in Seq(Char) /\ Len(out) = Cardinality(Kept(s, n))
  /\ \A k \in 1 .. Len(out) :
       \E i \in Kept(s, n) : Cardinality(Kept(s, i)) = k /\ out[k] = Letter(s, i)

-----------------------------------------------------------------------------
(* Counting what is kept. *)

LEMMA CharCases ==
  ASSUME NEW c \in Char
  PROVE  /\ ToLower(c) \in Char /\ ToUpper(c) \in Char
         /\ isspace(c) \in BOOLEAN /\ isNum(c) \in BOOLEAN
         /\ isspace(c) => ~isNum(c)
BY DEF Char, ToLower, ToUpper, isspace, isNum, isCap

LEMMA KeptFinite ==
  ASSUME NEW s, NEW n \in Nat
  PROVE  IsFiniteSet(Kept(s, n)) /\ Cardinality(Kept(s, n)) \in Nat /\ Kept(s, n) \subseteq 1 .. n
<1>1. IsFiniteSet(1 .. n)
  BY FS_Interval
<1>2. Kept(s, n) \subseteq 1 .. n
  BY DEF Kept
<1> QED
  BY <1>1, <1>2, FS_Subset, FS_CardinalityType

LEMMA KeptNone ==
  ASSUME NEW s, NEW n \in Nat, \A i \in 1 .. n : isspace(s[i])
  PROVE  Cardinality(Kept(s, n)) = 0
<1>1. Kept(s, n) = {}
  BY DEF Kept
<1> QED
  BY <1>1, FS_EmptySet

LEMMA KeptNext ==
  ASSUME NEW s, NEW n \in Nat
  PROVE  Cardinality(Kept(s, n + 1))
           = IF isspace(s[n + 1]) THEN Cardinality(Kept(s, n)) ELSE Cardinality(Kept(s, n)) + 1
<1>1. IsFiniteSet(Kept(s, n)) /\ n + 1 \notin Kept(s, n)
  BY KeptFinite
<1>2. CASE isspace(s[n + 1])
  <2>1. Kept(s, n + 1) = Kept(s, n)
    BY <1>2 DEF Kept
  <2> QED
    BY <1>2, <2>1
<1>3. CASE ~isspace(s[n + 1])
  <2>1. Kept(s, n + 1) = Kept(s, n) \cup {n + 1}
    BY <1>3 DEF Kept
  <2> QED
    BY <1>1, <1>3, <2>1, FS_AddElement
<1> QED
  BY <1>2, <1>3

LEMMA KeptAndSpaces ==
  ASSUME NEW s, NEW n \in Nat
  PROVE  n - getSpaces(s, n) = Cardinality(Kept(s, n)) /\ getSpaces(s, n) \in Nat
<1>1. PICK A, B : A = {i \in 1 .. n : isspace(s[i])} /\ B = Kept(s, n)
  OBVIOUS
<1>2. A \cup B = 1 .. n /\ A \cap B = {} /\ A \subseteq 1 .. n
  BY <1>1 DEF Kept
<1>3. IsFiniteSet(A) /\ IsFiniteSet(B)
  <2>1. IsFiniteSet(1 .. n)
    BY FS_Interval
  <2> QED
    BY <1>2, <2>1, FS_Subset
<1>4. Cardinality(1 .. n) = n
  BY FS_Interval
<1>5. Cardinality({}) = 0
  BY FS_EmptySet
<1>6. Cardinality(A) \in Nat /\ Cardinality(B) \in Nat
  BY <1>3, FS_CardinalityType
<1>7. Cardinality(1 .. n) = Cardinality(A) + Cardinality(B) - Cardinality({})
  BY <1>2, <1>3, FS_Union
<1> QED
  BY <1>1, <1>4, <1>5, <1>6, <1>7 DEF getSpaces

(* A member of a set of numbers is found by its rank. *)
LEMMA NthIs ==
  ASSUME NEW S, IsFiniteSet(S), S \subseteq Nat, NEW i \in S
  PROVE  Nth(S, Cardinality({j \in S : j <= i})) = i
<1>1. ASSUME NEW a \in S, NEW b \in S, a < b
      PROVE  Cardinality({j \in S : j <= a}) # Cardinality({j \in S : j <= b})
  <2>1. PICK A, B : A = {j \in S : j <= a} /\ B = {j \in S : j <= b}
    OBVIOUS
  <2>2. a \in Nat /\ b \in Nat
    OBVIOUS
  <2>3. A \subseteq B /\ b \in B /\ b \notin A /\ B \subseteq S
    <3>1. \A j \in S : j \in Nat
      OBVIOUS
    <3>2. \A j \in S : j <= a => j <= b
      BY <1>1, <2>2, <3>1
    <3>3. b <= b /\ ~ (b <= a)
      BY <1>1, <2>2
    <3> QED
      BY <2>1, <3>2, <3>3
  <2>4. IsFiniteSet(B)
    BY <2>3, FS_Subset
  <2>5. Cardinality(B) = Cardinality(A) => B = A
    BY <2>3, <2>4, FS_Subset
  <2> QED
    BY <2>1, <2>3, <2>5
<1>2. ASSUME NEW a \in S, Cardinality({j \in S : j <= a}) = Cardinality({j \in S : j <= i})
      PROVE  a = i
  <2>1. a \in Nat /\ i \in Nat
    OBVIOUS
  <2>2. ~ (a < i) /\ ~ (i < a)
    BY <1>1, <1>2
  <2> QED
    BY <2>1, <2>2
<1> QED
  BY <1>2 DEF Nth

-----------------------------------------------------------------------------
(* What is written letter by letter is the camelCase of the sentence.      *)

LEMMA LettersSame ==
  ASSUME NEW s, NEW t, NEW i \in Nat, \A j \in 1 .. i : t[j] = s[j]
  PROVE  /\ Kept(t, i) = Kept(s, i)
         /\ FirstWord(t, i) <=> FirstWord(s, i)
         /\ Leads(t, i) <=> Leads(s, i)
<1>1. Kept(t, i) = Kept(s, i)
  BY DEF Kept
<1>2. \A j \in 1 .. i : \A k \in j .. i : k \in 1 .. i
  OBVIOUS
<1>3. FirstWord(t, i) <=> FirstWord(s, i)
  BY <1>2 DEF FirstWord
<1>4. \A j \in 1 .. i - 1 : j \in 1 .. i
  OBVIOUS
<1>5. Leads(t, i) <=> Leads(s, i)
  BY <1>2, <1>4 DEF Leads
<1> QED
  BY <1>1, <1>3, <1>5

(* The letter that Camel gives for character i of t. *)
LEMMA CamelIs ==
  ASSUME NEW t \in Seq(Char), NEW out, CamelTo(t, Len(t), out)
  PROVE  Camel(t) = out
<1> DEFINE kept == {i \in DOMAIN t : ~isspace(t[i])}
           first(i) == \A j \in kept : j <= i => \A k \in j .. i : ~isspace(t[k])
           leads(i) == \A j \in kept : j < i => isNum(t[j]) \/ \E k \in j .. i - 1 : isspace(t[k])
           at(i) == IF ~first(i) /\ leads(i) THEN ToUpper(t[i]) ELSE ToLower(t[i])
<1>1. Camel(t) = [k \in 1 .. Cardinality(kept) |-> at(Nth(kept, k))]
  BY DEF Camel
<1>2. kept = Kept(t, Len(t)) /\ Len(t) \in Nat
  BY DEF Kept
<1>3. ASSUME NEW i \in kept
      PROVE  at(i) = Letter(t, i)
  <2>1. i \in 1 .. Len(t) /\ i \in Nat
    OBVIOUS
  <2>2. \A j \in Nat : j \in kept /\ j <= i <=> j \in 1 .. i /\ ~isspace(t[j])
    BY <2>1
  <2>3. kept \subseteq Nat
    OBVIOUS
  <2>4. first(i) <=> FirstWord(t, i)
    BY <2>1, <2>2, <2>3 DEF FirstWord
  <2>5. \A j \in Nat : j \in kept /\ j < i <=> j \in 1 .. i - 1 /\ ~isspace(t[j])
    BY <2>1
  <2>6. leads(i) <=> Leads(t, i)
    BY <2>1, <2>3, <2>5 DEF Leads
  <2> QED
    BY <2>4, <2>6 DEF Letter
<1>4. ASSUME NEW i \in kept
      PROVE  Nth(kept, Cardinality(Kept(t, i))) = i
  <2>1. kept \subseteq Nat /\ IsFiniteSet(kept)
    BY <1>2, KeptFinite
  <2>2. Kept(t, i) = {j \in kept : j <= i}
    BY DEF Kept
  <2> HIDE DEF kept
  <2> QED
    BY <2>1, <2>2, NthIs
<1>5. /\ Len(out) = Cardinality(kept) /\ out \in Seq(Char) /\ Len(out) \in Nat
      /\ \A k \in 1 .. Len(out) :
           \E i \in kept : Cardinality(Kept(t, i)) = k /\ out[k] = Letter(t, i)
  <2>1. /\ Len(out) = Cardinality(Kept(t, Len(t))) /\ out \in Seq(Char)
        /\ \A k \in 1 .. Len(out) :
             \E i \in Kept(t, Len(t)) : Cardinality(Kept(t, i)) = k /\ out[k] = Letter(t, i)
    BY DEF CamelTo
  <2> HIDE DEF kept
  <2> QED
    BY <1>2, <2>1
<1> HIDE DEF kept, at
<1>6. ASSUME NEW k \in 1 .. Len(out)
      PROVE  out[k] = at(Nth(kept, k))
  <2>1. PICK i \in kept : Cardinality(Kept(t, i)) = k /\ out[k] = Letter(t, i)
    BY <1>5
  <2> QED
    BY <1>3, <1>4, <2>1
<1>7. out = [k \in 1 .. Len(out) |-> out[k]]
  BY <1>5
<1>8. [k \in 1 .. Len(out) |-> out[k]] = [k \in 1 .. Len(out) |-> at(Nth(kept, k))]
  BY <1>6
<1> QED
  BY <1>1, <1>5, <1>7, <1>8

-----------------------------------------------------------------------------
(* parseStr. *)

(* The first word, from b up to e. *)
LEMMA FirstWordIs ==
  ASSUME NEW s \in Seq(Char), NEW b \in Nat \ {0}, NEW e \in Nat, b <= e, e - 1 <= Len(s),
         \A i \in 1 .. b - 1 : isspace(s[i]), \A i \in b .. e - 1 : ~isspace(s[i])
  PROVE  CamelTo(s, e - 1, [k \in 1 .. e - b |-> ToLower(s[b + k - 1])])
<1>1. PICK out : out = [k \in 1 .. e - b |-> ToLower(s[b + k - 1])]
  OBVIOUS
<1>2. ASSUME NEW k \in 1 .. e - b
      PROVE  /\ b + k - 1 \in b .. e - 1 /\ b + k - 1 \in 1 .. Len(s)
             /\ s[b + k - 1] \in Char
  OBVIOUS
<1>3. out \in Seq(Char) /\ Len(out) = e - b
  <2>1. e - b \in Nat
    OBVIOUS
  <2>2. out \in [1 .. e - b -> Char]
    BY <1>1, <1>2, CharCases
  <2> QED
    BY <2>1, <2>2
<1>4. \A n \in 0 .. e - b : Cardinality(Kept(s, b - 1 + n)) = n
  <2> DEFINE T == {n \in 0 .. e - b : Cardinality(Kept(s, b - 1 + n)) = n}
  <2>1. 0 \in T
    <3>1. b - 1 \in Nat /\ b - 1 + 0 = b - 1
      OBVIOUS
    <3> QED
      BY <3>1, KeptNone
  <2>2. ASSUME NEW n \in 0 .. e - b - 1, n \in T
        PROVE  n + 1 \in T
    <3>1. PICK m \in Nat : m = b - 1 + n
      OBVIOUS
    <3>2. m + 1 = b - 1 + (n + 1) /\ m + 1 \in b .. e - 1 /\ n + 1 \in 0 .. e - b
      BY <3>1
    <3>3. Cardinality(Kept(s, m + 1)) = Cardinality(Kept(s, m)) + 1
      BY <3>2, KeptNext
    <3>4. Cardinality(Kept(s, m)) = n
      BY <2>2, <3>1
    <3> QED
      BY <3>2, <3>3, <3>4
  <2>3. e - b \in Nat
    OBVIOUS
  <2> HIDE DEF T
  <2>4. \A n \in 0 .. e - b : n \in T
    BY <2>1, <2>2, <2>3, UpTo
  <2> QED
    BY <2>4 DEF T
<1>5. ASSUME NEW k \in 1 .. e - b
      PROVE  \E i \in Kept(s, e - 1) : Cardinality(Kept(s, i)) = k /\ out[k] = Letter(s, i)
  <2>1. PICK i \in Nat : i = b + k - 1
    OBVIOUS
  <2>2. i \in b .. e - 1 /\ i \in 1 .. e - 1 /\ i = b - 1 + k /\ k \in 0 .. e - b
    BY <2>1
  <2>3. i \in Kept(s, e - 1)
    BY <2>2 DEF Kept
  <2>4. Cardinality(Kept(s, i)) = k
    BY <1>4, <2>2
  <2>5. FirstWord(s, i)
    <3>1. SUFFICES ASSUME NEW j \in 1 .. i, ~isspace(s[j]), NEW k1 \in j .. i
          PROVE  ~isspace(s[k1])
      BY DEF FirstWord
    <3>2. j \notin 1 .. b - 1
      BY <3>1
    <3>3. k1 \in b .. e - 1
      BY <2>2, <3>2
    <3> QED
      BY <3>3
  <2>6. out[k] = Letter(s, i)
    BY <1>1, <2>1, <2>5 DEF Letter
  <2> QED
    BY <2>3, <2>4, <2>6
<1>6. Cardinality(Kept(s, e - 1)) = e - b
  <2>1. e - b \in 0 .. e - b /\ b - 1 + (e - b) = e - 1
    OBVIOUS
  <2> QED
    BY <1>4, <2>1
<1>7. CamelTo(s, e - 1, out)
  BY <1>3, <1>5, <1>6 DEF CamelTo
<1> QED
  BY <1>1, <1>7

(* A space changes nothing. *)
LEMMA SpaceKept ==
  ASSUME NEW s, NEW n \in Nat, isspace(s[n + 1]), NEW out, CamelTo(s, n, out)
  PROVE  CamelTo(s, n + 1, out)
<1>1. Kept(s, n + 1) = Kept(s, n)
  <2>1. \A i \in 1 .. n + 1 : i \in 1 .. n \/ i = n + 1
    OBVIOUS
  <2> QED
    BY <2>1 DEF Kept
<1> QED
  BY <1>1 DEF CamelTo

(* A letter is added. *)
LEMMA LetterAdded ==
  ASSUME NEW s, NEW n \in Nat, s[n + 1] \in Char, ~isspace(s[n + 1]), NEW out, CamelTo(s, n, out)
  PROVE  CamelTo(s, n + 1, Append(out, Letter(s, n + 1)))
<1>1. PICK r, c : r = Append(out, c) /\ c = Letter(s, n + 1)
  OBVIOUS
<1>2. c \in Char
  BY <1>1, CharCases DEF Letter
<1>3. /\ out \in Seq(Char) /\ Len(out) = Cardinality(Kept(s, n))
      /\ \A k \in 1 .. Len(out) :
           \E i \in Kept(s, n) : Cardinality(Kept(s, i)) = k /\ out[k] = Letter(s, i)
  BY DEF CamelTo
<1>4. /\ r \in Seq(Char) /\ Len(r) = Len(out) + 1 /\ Len(out) \in Nat
      /\ r[Len(out) + 1] = c /\ \A k \in 1 .. Len(out) : r[k] = out[k]
  BY <1>1, <1>2, <1>3
<1>5. Cardinality(Kept(s, n + 1)) = Cardinality(Kept(s, n)) + 1
  BY KeptNext
<1>6. Kept(s, n) \subseteq Kept(s, n + 1) /\ n + 1 \in Kept(s, n + 1)
  <2>1. 1 .. n \subseteq 1 .. n + 1 /\ n + 1 \in 1 .. n + 1
    OBVIOUS
  <2> QED
    BY <2>1 DEF Kept
<1>7. ASSUME NEW k \in 1 .. Len(r)
      PROVE  \E i \in Kept(s, n + 1) : Cardinality(Kept(s, i)) = k /\ r[k] = Letter(s, i)
  <2>1. k \in 1 .. Len(out) \/ k = Len(out) + 1
    BY <1>4
  <2>2. CASE k \in 1 .. Len(out)
    BY <1>3, <1>4, <1>6, <2>2
  <2>3. CASE k = Len(out) + 1
    BY <1>1, <1>3, <1>4, <1>5, <1>6, <2>3
  <2> QED
    BY <2>1, <2>2, <2>3
<1>8. CamelTo(s, n + 1, r)
  BY <1>3, <1>4, <1>5, <1>7 DEF CamelTo
<1> QED
  BY <1>1, <1>8

(* What LaterWords makes of the next character, when the first word is     *)
(* over.                                                                   *)
Waits(s, n, acc) ==
  /\ CamelTo(s, n, acc.out)
  /\ acc.prev <=> Leads(s, n + 1)

Acc == [out : Seq(Char), prev : BOOLEAN]

LEMMA LaterTyped ==
  ASSUME NEW acc \in Acc, NEW c \in Char
  PROVE  LaterWords(acc, c) \in Acc
<1>1. PICK o \in Seq(Char), p \in BOOLEAN : acc = [out |-> o, prev |-> p]
  BY DEF Acc
<1>2. CASE isspace(c)
  <2>1. LaterWords(acc, c) = [out |-> o, prev |-> TRUE]
    BY <1>1, <1>2 DEF LaterWords
  <2> QED
    BY <2>1 DEF Acc
<1>3. CASE ~isspace(c)
  <2>1. Append(o, IF p THEN ToUpper(c) ELSE ToLower(c)) \in Seq(Char)
    BY CharCases
  <2>2. (p /\ isNum(c)) \in BOOLEAN
    OBVIOUS
  <2>3. LaterWords(acc, c) = [out |-> Append(o, IF p THEN ToUpper(c) ELSE ToLower(c)),
                              prev |-> p /\ isNum(c)]
    BY <1>1, <1>3 DEF LaterWords
  <2> QED
    BY <2>1, <2>2, <2>3 DEF Acc
<1> QED
  BY <1>2, <1>3

LEMMA LaterIs ==
  ASSUME NEW s \in Seq(Char), NEW b \in Nat \ {0}, NEW e \in Nat, b < e,
         ~isspace(s[b]), isspace(s[e]),
         NEW n \in Nat, e <= n, n + 1 \in DOMAIN s, NEW acc \in Acc, Waits(s, n, acc)
  PROVE  Waits(s, n + 1, LaterWords(acc, s[n + 1]))
<1>1. PICK c \in Char : c = s[n + 1]
  OBVIOUS
<1>2. PICK o \in Seq(Char), p \in BOOLEAN : acc = [out |-> o, prev |-> p]
  BY DEF Acc
<1>3. CamelTo(s, n, o) /\ (p <=> Leads(s, n + 1))
  BY <1>2 DEF Waits
<1>4. ~FirstWord(s, n + 1)
  <2>1. b \in 1 .. n + 1 /\ e \in b .. n + 1
    OBVIOUS
  <2> QED
    BY <2>1 DEF FirstWord
<1>5. CASE isspace(c)
  <2>1. Leads(s, n + 1 + 1)
    <3>1. \A j \in 1 .. n + 1 + 1 - 1 : n + 1 \in j .. n + 1 + 1 - 1
      OBVIOUS
    <3> QED
      BY <1>1, <1>5, <3>1 DEF Leads
  <2>2. LaterWords(acc, c) = [out |-> o, prev |-> TRUE]
    BY <1>2, <1>5 DEF LaterWords
  <2>3. CamelTo(s, n + 1, o)
    BY <1>1, <1>3, <1>5, SpaceKept
  <2> QED
    BY <1>1, <2>1, <2>2, <2>3 DEF Waits
<1>6. CASE ~isspace(c)
  <2>1. LaterWords(acc, c) = [out |-> Append(o, IF p THEN ToUpper(c) ELSE ToLower(c)),
                              prev |-> p /\ isNum(c)]
    BY <1>2, <1>6 DEF LaterWords
  <2>2. Letter(s, n + 1) = IF p THEN ToUpper(c) ELSE ToLower(c)
    BY <1>1, <1>3, <1>4 DEF Letter
  <2>3. CamelTo(s, n + 1, Append(o, IF p THEN ToUpper(c) ELSE ToLower(c)))
    BY <1>1, <1>3, <1>6, <2>2, LetterAdded
  <2>4. (p /\ isNum(c)) <=> Leads(s, n + 1 + 1)
    <3>1. \A j \in 1 .. n : \A k \in j .. n + 1 : k \in j .. n \/ k = n + 1
      OBVIOUS
    <3>2. \A j \in 1 .. n + 1 : j \in 1 .. n \/ j = n + 1
      OBVIOUS
    <3>3. n + 1 + 1 - 1 = n + 1 /\ n + 1 - 1 = n /\ n + 1 \in 1 .. n + 1 /\ 1 .. n \subseteq 1 .. n + 1
      OBVIOUS
    <3>4. \A j \in 1 .. n : j .. n \subseteq j .. n + 1
      OBVIOUS
    <3>5. \A k \in n + 1 .. n + 1 : k = n + 1
      OBVIOUS
    <3>6. ASSUME p, isNum(c), NEW j \in 1 .. n + 1, ~isspace(s[j])
          PROVE  isNum(s[j]) \/ \E k \in j .. n + 1 : isspace(s[k])
      BY <1>1, <1>3, <3>2, <3>3, <3>4, <3>6 DEF Leads
    <3>7. ASSUME \A j \in 1 .. n + 1 : ~isspace(s[j]) =>
                   isNum(s[j]) \/ \E k \in j .. n + 1 : isspace(s[k])
          PROVE  p /\ isNum(c)
      <4>1. isNum(c)
        BY <1>1, <1>6, <3>3, <3>5, <3>7
      <4>2. ASSUME NEW j \in 1 .. n, ~isspace(s[j])
            PROVE  isNum(s[j]) \/ \E k \in j .. n : isspace(s[k])
        <5>1. isNum(s[j]) \/ \E k \in j .. n + 1 : isspace(s[k])
          BY <3>3, <3>7, <4>2
        <5> QED
          BY <1>1, <1>6, <3>1, <5>1
      <4> QED
        BY <1>3, <3>3, <4>1, <4>2 DEF Leads
    <3> QED
      BY <3>3, <3>6, <3>7 DEF Leads
  <2>5. /\ LaterWords(acc, c).out = Append(o, IF p THEN ToUpper(c) ELSE ToLower(c))
        /\ LaterWords(acc, c).prev = (p /\ isNum(c))
    BY <2>1
  <2> QED
    BY <1>1, <2>3, <2>4, <2>5 DEF Waits
<1> QED
  BY <1>5, <1>6

-----------------------------------------------------------------------------
(* The accumulator of Written exists and goes letter by letter. *)
Accs(acc, s, e, first) ==
  acc = [i \in e .. Len(s) |-> IF i = e THEN first ELSE LaterWords(acc[i - 1], s[i])]

LEMMA AccExists ==
  ASSUME NEW s \in Seq(Char), NEW e \in 1 .. Len(s), NEW first \in Acc
  PROVE  \E acc : Accs(acc, s, e, first)
<1> DEFINE N == Len(s) - e
           step == [x \in Nat \X Acc |-> IF x[1] \in 0 .. N - 1
                                         THEN LaterWords(x[2], s[e + x[1] + 1]) ELSE x[2]]
<1>1. N \in Nat
  OBVIOUS
<1>2. step \in [Nat \X Acc -> Acc]
  <2>1. ASSUME NEW x \in Nat \X Acc
        PROVE  (IF x[1] \in 0 .. N - 1 THEN LaterWords(x[2], s[e + x[1] + 1]) ELSE x[2]) \in Acc
    <3>1. x[1] \in Nat /\ x[2] \in Acc
      OBVIOUS
    <3>2. ASSUME x[1] \in 0 .. N - 1 PROVE s[e + x[1] + 1] \in Char
      BY <3>1, <3>2
    <3> QED
      BY <3>1, <3>2, LaterTyped
  <2> QED
    BY <2>1
<1> HIDE DEF step
<1>3. PICK g : Runs(g, N, Acc, first, step)
  <2> HIDE DEF N
  <2> QED
    BY <1>1, <1>2, RunExists
<1>4. g[0] = first /\ \A n \in 0 .. N - 1 : g[n + 1] = step[<<n, g[n]>>]
  BY <1>3 DEF Runs
<1>5. \A n \in 0 .. N : g[n] \in Acc
  BY <1>3 DEF Runs
<1>6. ASSUME NEW n \in 0 .. N - 1
      PROVE  g[n + 1] = LaterWords(g[n], s[e + n + 1])
  <2>1. <<n, g[n]>> \in Nat \X Acc /\ n \in 0 .. N
    BY <1>5
  <2>2. step[<<n, g[n]>>] = LaterWords(g[n], s[e + n + 1])
    BY <2>1 DEF step
  <2> QED
    BY <1>4, <2>2
<1> DEFINE acc == [i \in e .. Len(s) |-> g[i - e]]
<1>7. ASSUME NEW i \in e .. Len(s)
      PROVE  acc[i] = IF i = e THEN first ELSE LaterWords(acc[i - 1], s[i])
  <2>1. CASE i = e
    <3>1. i - e = 0
      BY <2>1
    <3> QED
      BY <1>4, <2>1, <3>1
  <2>2. CASE i # e
    <3>1. PICK n \in 0 .. N - 1 : n = i - 1 - e /\ n + 1 = i - e /\ e + n + 1 = i /\ i - 1 \in e .. Len(s)
      BY <2>2
    <3>2. acc[i] = g[n + 1] /\ acc[i - 1] = g[n]
      BY <3>1
    <3> QED
      BY <1>6, <2>2, <3>1, <3>2
  <2> QED
    BY <2>1, <2>2
<1>8. acc = [i \in e .. Len(s) |-> IF i = e THEN first ELSE LaterWords(acc[i - 1], s[i])]
  <2>1. acc = [i \in e .. Len(s) |-> acc[i]]
    OBVIOUS
  <2> HIDE DEF acc
  <2> QED
    BY <1>7, <2>1
<1> HIDE DEF acc
<1>9. Accs(acc, s, e, first)
  BY <1>8 DEF Accs
<1> QED
  BY <1>9

-----------------------------------------------------------------------------
(* What parseStr returns for a sentence that the mark at n + 1 ends.       *)
LEMMA FirstOfIs ==
  ASSUME NEW S, S \subseteq Nat, S # {}
  PROVE  FirstOf(S) \in S /\ \A j \in S : FirstOf(S) <= j
<1>1. \E i \in S : \A j \in S : i <= j
  BY Least
<1> QED
  BY <1>1 DEF FirstOf

LEMMA WrittenIs ==
  ASSUME NEW s \in Seq(Char), NEW n \in Nat, n + 1 <= Len(s),
         ispunct(s[n + 1]), \A i \in 1 .. n : ~ispunct(s[i])
  PROVE  CamelTo(s, n, Written(s, n))
<1>1. PICK b : b = FirstOf({i \in DOMAIN s : ~isspace(s[i])})
  OBVIOUS
<1>2. ~isspace(s[n + 1]) /\ n + 1 \in DOMAIN s
  BY DEF isspace, ispunct
<1>3. /\ b \in Nat \ {0} /\ b <= n + 1 /\ ~isspace(s[b])
      /\ \A i \in 1 .. b - 1 : isspace(s[i])
  <2>1. PICK S : S = {i \in DOMAIN s : ~isspace(s[i])}
    OBVIOUS
  <2>2. S \subseteq Nat \ {0} /\ S \subseteq DOMAIN s /\ n + 1 \in S
    BY <1>2, <2>1
  <2>3. b \in S /\ \A j \in S : b <= j
    BY <1>1, <2>1, <2>2, FirstOfIs
  <2>4. ASSUME NEW i \in 1 .. b - 1 PROVE isspace(s[i])
    <3>1. b \in Nat /\ b <= n + 1
      BY <2>2, <2>3
    <3>2. i \in DOMAIN s /\ ~ (b <= i)
      BY <3>1
    <3> QED
      BY <2>1, <2>3, <3>2
  <2> QED
    BY <2>1, <2>2, <2>3, <2>4
<1>4. PICK e : e = FirstOf({i \in b .. Len(s) : isspace(s[i]) \/ ispunct(s[i])})
  OBVIOUS
<1>5. /\ e \in Nat /\ b <= e /\ e <= n + 1
      /\ isspace(s[e]) \/ ispunct(s[e])
      /\ \A i \in b .. e - 1 : ~isspace(s[i])
  <2>1. PICK S : S = {i \in b .. Len(s) : isspace(s[i]) \/ ispunct(s[i])}
    OBVIOUS
  <2>2. S \subseteq Nat /\ S \subseteq b .. Len(s) /\ n + 1 \in S
    BY <1>3, <2>1
  <2>3. e \in S /\ \A j \in S : e <= j
    BY <1>4, <2>1, <2>2, FirstOfIs
  <2>4. ASSUME NEW i \in b .. e - 1 PROVE ~isspace(s[i])
    <3>1. e \in Nat /\ e <= n + 1
      BY <2>2, <2>3
    <3>2. i \in b .. Len(s) /\ ~ (e <= i)
      BY <1>3, <3>1
    <3> QED
      BY <2>1, <2>3, <3>2
  <2> QED
    BY <2>1, <2>2, <2>3, <2>4
<1>6. PICK first : first = [out |-> [k \in 1 .. e - b |-> ToLower(s[b + k - 1])], prev |-> TRUE]
  OBVIOUS
<1>7. CamelTo(s, e - 1, first.out)
  <2>1. e - 1 <= Len(s)
    BY <1>5
  <2>2. CamelTo(s, e - 1, [k \in 1 .. e - b |-> ToLower(s[b + k - 1])])
    BY <1>3, <1>5, <2>1, FirstWordIs
  <2>3. first.out = [k \in 1 .. e - b |-> ToLower(s[b + k - 1])]
    BY <1>6
  <2> QED
    BY <2>2, <2>3
<1>8. first \in Acc
  BY <1>6, <1>7 DEF Acc, CamelTo
<1>9. PICK acc : /\ Accs(acc, s, e, first)
                 /\ Written(s, n) = acc[IF e < n THEN n ELSE e].out
  <2>1. PICK x : x = CHOOSE acc : acc = [i \in e .. Len(s) |->
                                   IF i = e THEN first ELSE LaterWords(acc[i - 1], s[i])]
    OBVIOUS
  <2>2. Written(s, n) = x[IF e < n THEN n ELSE e].out
    BY <1>1, <1>4, <1>6, <2>1 DEF Written
  <2>3. \E acc : acc = [i \in e .. Len(s) |->
                         IF i = e THEN first ELSE LaterWords(acc[i - 1], s[i])]
    <3>1. e \in 1 .. Len(s)
      BY <1>3, <1>5
    <3> QED
      BY <1>8, <3>1, AccExists DEF Accs
  <2>4. Accs(x, s, e, first)
    BY <2>1, <2>3 DEF Accs
  <2> QED
    BY <2>2, <2>4
<1>10. CASE e = n + 1
  <2>1. acc[e] = first
    BY <1>3, <1>5, <1>9, <1>10 DEF Accs
  <2>2. (IF e < n THEN n ELSE e) = e /\ e - 1 = n
    BY <1>10
  <2> QED
    BY <1>7, <1>9, <2>1, <2>2
<1>11. CASE e # n + 1
  <2>1. e \in 1 .. n /\ isspace(s[e]) /\ b < e
    <3>1. e \in 1 .. n
      BY <1>3, <1>5, <1>11
    <3>2. isspace(s[e])
      BY <1>5, <3>1
    <3>3. b # e
      BY <1>3, <3>2
    <3> QED
      BY <1>3, <1>5, <3>1, <3>2, <3>3
  <2>2. acc[e] = first /\ \A i \in e + 1 .. n : acc[i] = LaterWords(acc[i - 1], s[i])
    <3>1. e \in e .. Len(s) /\ e + 1 .. n \subseteq e .. Len(s) /\ \A i \in e + 1 .. n : i # e
      BY <2>1
    <3> QED
      BY <1>9, <3>1 DEF Accs
  <2> DEFINE T == {m \in 0 .. n - e : acc[e + m] \in Acc /\ Waits(s, e + m, acc[e + m])}
  <2>3. 0 \in T
    <3>1. CamelTo(s, e, first.out)
      <4>1. e - 1 \in Nat /\ e - 1 + 1 = e
        BY <2>1
      <4> QED
        BY <1>7, <2>1, <4>1, SpaceKept
    <3>2. Leads(s, e + 1)
      <4>1. \A j \in 1 .. e + 1 - 1 : e \in j .. e + 1 - 1
        BY <2>1
      <4> QED
        BY <2>1, <4>1 DEF Leads
    <3>3. Waits(s, e, first)
      BY <1>6, <3>1, <3>2 DEF Waits
    <3>4. e + 0 = e /\ 0 \in 0 .. n - e
      BY <2>1
    <3> QED
      BY <1>8, <2>2, <3>3, <3>4
  <2>4. ASSUME NEW m \in 0 .. n - e - 1, m \in T
        PROVE  m + 1 \in T
    <3>1. PICK k \in Nat : k = e + m
      BY <2>1
    <3>2. /\ k + 1 = e + (m + 1) /\ k + 1 \in e + 1 .. n /\ k + 1 - 1 = k /\ e <= k
          /\ m + 1 \in 0 .. n - e /\ k + 1 \in DOMAIN s
      BY <2>1, <3>1
    <3>3. acc[k] \in Acc /\ Waits(s, k, acc[k])
      BY <2>4, <3>1
    <3>4. acc[k + 1] = LaterWords(acc[k], s[k + 1])
      BY <2>2, <3>2
    <3>5. Waits(s, k + 1, acc[k + 1])
      BY <1>3, <1>5, <2>1, <3>2, <3>3, <3>4, LaterIs
    <3>6. acc[k + 1] \in Acc
      <4>1. s[k + 1] \in Char
        BY <3>2
      <4> QED
        BY <3>3, <3>4, <4>1, LaterTyped
    <3> QED
      BY <3>2, <3>5, <3>6
  <2>5. n - e \in Nat /\ e + (n - e) = n /\ n - e \in 0 .. n - e
    BY <2>1
  <2> HIDE DEF T
  <2>6. n - e \in T
    <3>1. \A m \in 0 .. n - e : m \in T
      BY <2>3, <2>4, <2>5, UpTo
    <3> QED
      BY <2>5, <3>1
  <2>7. Waits(s, n, acc[n])
    BY <2>5, <2>6 DEF T
  <2>8. (IF e < n THEN n ELSE e) = n
    BY <2>1
  <2> QED
    BY <1>9, <2>7, <2>8 DEF Waits
<1> QED
  BY <1>10, <1>11

LEMMA ParseIs ==
  ASSUME NEW s \in Seq(Char), NEW n \in Nat, n + 1 <= Len(s),
         ispunct(s[n + 1]), \A i \in 1 .. n : ~ispunct(s[i])
  PROVE  /\ parseStr(s, n).out = Camel(SubSeq(s, 1, n))
         /\ parseStr(s, n).size = Len(parseStr(s, n).out) + 1
         /\ parseStr(s, n).out \in Seq(Char)
<1>1. PICK out : out = Written(s, n)
  OBVIOUS
<1>2. CamelTo(s, n, out)
  BY <1>1, WrittenIs
<1>3. PICK t : t = SubSeq(s, 1, n)
  OBVIOUS
<1>4. t \in Seq(Char) /\ Len(t) = n /\ \A j \in 1 .. n : t[j] = s[j]
  BY <1>3
<1>5. \A i \in 1 .. n : Kept(t, i) = Kept(s, i) /\ Letter(t, i) = Letter(s, i)
  <2>1. SUFFICES ASSUME NEW i \in 1 .. n
        PROVE  Kept(t, i) = Kept(s, i) /\ Letter(t, i) = Letter(s, i)
    OBVIOUS
  <2>2. i \in Nat /\ \A j \in 1 .. i : t[j] = s[j]
    BY <1>4
  <2>3. /\ Kept(t, i) = Kept(s, i)
        /\ FirstWord(t, i) <=> FirstWord(s, i)
        /\ Leads(t, i) <=> Leads(s, i)
    BY <2>2, LettersSame
  <2> QED
    BY <1>4, <2>3 DEF Letter
<1>6. Kept(t, n) = Kept(s, n) /\ Kept(s, n) \subseteq 1 .. n
  BY <1>4 DEF Kept
<1>7. CamelTo(t, Len(t), out)
  BY <1>2, <1>4, <1>5, <1>6 DEF CamelTo
<1>8. Camel(t) = out
  BY <1>4, <1>7, CamelIs
<1>9. n - getSpaces(s, n) = Cardinality(Kept(s, n))
  BY KeptAndSpaces
<1> QED
  BY <1>1, <1>2, <1>3, <1>8, <1>9 DEF parseStr, CamelTo

-----------------------------------------------------------------------------
(* The marks up to n. *)
Behind(n) == {i \in Puncts(text) : i <= n}

(* What has been returned so far is the camelCase of the sentences that    *)
(* getSentences has come to, each in a buffer with room for one byte more. *)
CamelInv ==
  /\ text \in Seq(Char) /\ stage \in {"start", "sentences", "done"}
  /\ count \in 0 .. Len(text)
  /\ count # 0 => count \in Puncts(text)
  /\ capacity \in 0 .. Len(text) + 1
  /\ stage # "start" => capacity = findPunct(text) + 1
  /\ ret \in Seq([size : Nat, out : Seq(Char)])
  /\ Len(ret) = Cardinality(Behind(count))
  /\ \A k \in 1 .. Len(ret) :
       /\ ret[k].out = Camel(SentenceOf(text, k))
       /\ ret[k].size = Len(ret[k].out) + 1
  /\ stage = "done" => Ahead = {}

LEMMA PunctsFinite ==
  ASSUME NEW s \in Seq(Char)
  PROVE  /\ Puncts(s) \subseteq 1 .. Len(s) /\ Puncts(s) \subseteq Nat \ {0}
         /\ IsFiniteSet(Puncts(s)) /\ findPunct(s) \in 0 .. Len(s)
<1>1. Puncts(s) \subseteq 1 .. Len(s) /\ Puncts(s) \subseteq Nat \ {0}
  BY DEF Puncts
<1>2. Len(s) \in Nat
  OBVIOUS
<1>3. IsFiniteSet(1 .. Len(s)) /\ Cardinality(1 .. Len(s)) = Len(s)
  BY <1>2, FS_Interval, SMTT(30)
<1>4. IsFiniteSet(Puncts(s)) /\ Cardinality(Puncts(s)) <= Len(s)
  BY <1>1, <1>3, FS_Subset
<1>5. Cardinality(Puncts(s)) \in Nat
  BY <1>4, FS_CardinalityType
<1> QED
  BY <1>1, <1>2, <1>4, <1>5 DEF findPunct

LEMMA BehindFinite ==
  ASSUME text \in Seq(Char), NEW n \in Nat
  PROVE  /\ IsFiniteSet(Behind(n)) /\ Cardinality(Behind(n)) <= findPunct(text)
         /\ Cardinality(Behind(n)) \in Nat
         /\ Cardinality(Behind(n)) = 0 => Behind(n) = {}
<1>1. Behind(n) \subseteq Puncts(text) /\ IsFiniteSet(Puncts(text))
  BY PunctsFinite DEF Behind
<1>2. IsFiniteSet(Behind(n)) /\ Cardinality(Behind(n)) <= Cardinality(Puncts(text))
  BY <1>1, FS_Subset
<1>3. Cardinality(Behind(n)) = 0 => Behind(n) = {}
  BY <1>2, FS_EmptySet
<1> QED
  BY <1>2, <1>3, FS_CardinalityType DEF findPunct

LEMMA RestOfRest ==
  ASSUME NEW t \in Seq(Char), NEW c \in Nat, NEW i \in Nat, c < i, i <= Len(t)
  PROVE  SubSeq(SubSeq(t, c + 1, Len(t)), 1, i - c - 1) = SubSeq(t, c + 1, i - 1)
<1>1. PICK n \in Nat, N \in Nat : n = i - c - 1 /\ N = Len(t)
  <2>1. i - c - 1 \in Nat
    OBVIOUS
  <2>2. Len(t) \in Nat
    OBVIOUS
  <2> QED
    BY <2>1, <2>2
<1>2. PICK s, a, b : /\ s = SubSeq(t, c + 1, N)
                     /\ a = SubSeq(s, 1, n) /\ b = SubSeq(t, c + 1, i - 1)
  OBVIOUS
<1>3. Len(s) = N - c /\ s \in Seq(Char) /\ \A k \in 1 .. N - c : s[k] = t[k + c]
  BY <1>1, <1>2
<1>4. n <= N - c
  BY <1>1
<1>5. Len(a) = n /\ a \in Seq(Char) /\ \A k \in 1 .. n : a[k] = s[k]
  BY <1>2, <1>3, <1>4
<1>6. Len(b) = n /\ b \in Seq(Char) /\ \A k \in 1 .. n : b[k] = t[k + c]
  BY <1>1, <1>2
<1>7. a = [k \in 1 .. n |-> a[k]] /\ b = [k \in 1 .. n |-> b[k]]
  BY <1>5, <1>6
<1>8. \A k \in 1 .. n : a[k] = b[k]
  <2>1. \A k \in 1 .. n : k \in 1 .. N - c
    BY <1>4
  <2> QED
    BY <1>3, <1>5, <1>6, <2>1
<1>9. [k \in 1 .. n |-> a[k]] = [k \in 1 .. n |-> b[k]]
  BY <1>8
<1>10. a = b
  BY <1>7, <1>9
<1> QED
  BY <1>1, <1>2, <1>10

LEMMA SentenceStep ==
  ASSUME CamelInv, Sentence
  PROVE  CamelInv'
<1>1. PICK i : i = FirstOf(Ahead)
  OBVIOUS
<1>2. /\ text \in Seq(Char) /\ count \in 0 .. Len(text) /\ count \in Nat
      /\ count # 0 => count \in Puncts(text)
  BY DEF CamelInv
<1>3. /\ i \in Puncts(text) /\ i \in Nat \ {0} /\ i <= Len(text) /\ count < i
      /\ \A j \in Puncts(text) : count < j => i <= j
  <2>1. Ahead \subseteq Nat /\ Ahead # {} /\ Ahead = {j \in Puncts(text) : count < j}
    BY <1>2, PunctsFinite DEF Ahead, Sentence
  <2>2. i \in Ahead /\ \A j \in Ahead : i <= j
    BY <1>1, <2>1, FirstOfIs
  <2> QED
    BY <1>2, <2>1, <2>2, PunctsFinite
<1>4. PICK s, n, r, k : /\ s = SubSeq(text, count + 1, Len(text)) /\ n = i - count - 1
                        /\ r = parseStr(s, n) /\ k = Len(ret) + 1
  OBVIOUS
<1>5. /\ s \in Seq(Char) /\ n \in Nat /\ n + 1 <= Len(s)
      /\ \A j \in 1 .. n + 1 : s[j] = text[count + j]
  BY <1>2, <1>3, <1>4
<1>6. ispunct(s[n + 1]) /\ \A j \in 1 .. n : ~ispunct(s[j])
  <2>1. s[n + 1] = text[i]
    <3>1. n + 1 \in 1 .. n + 1 /\ count + (n + 1) = i
      BY <1>2, <1>3, <1>4, <1>5
    <3> QED
      BY <1>5, <3>1
  <2>2. ASSUME NEW j \in 1 .. n PROVE ~ispunct(s[j])
    <3>1. /\ j \in 1 .. n + 1 /\ count + j \in DOMAIN text /\ count < count + j
          /\ ~ (i <= count + j)
      BY <1>2, <1>3, <1>4, <1>5
    <3> QED
      BY <1>3, <1>5, <3>1 DEF Puncts
  <2> QED
    BY <1>3, <2>1, <2>2 DEF Puncts
<1>7. /\ r.out = Camel(SubSeq(s, 1, n)) /\ r.size = Len(r.out) + 1 /\ r.out \in Seq(Char)
      /\ r \in [size : Nat, out : Seq(Char)]
  <2>1. /\ r.out = Camel(SubSeq(s, 1, n)) /\ r.size = Len(r.out) + 1 /\ r.out \in Seq(Char)
    BY <1>4, <1>5, <1>6, ParseIs
  <2>2. PICK z, o : r = [size |-> z, out |-> o]
    BY <1>4 DEF parseStr
  <2>3. o \in Seq(Char) /\ z = Len(o) + 1
    BY <2>1, <2>2
  <2> QED
    BY <2>1, <2>2, <2>3
<1>8. SubSeq(s, 1, n) = SubSeq(text, count + 1, i - 1)
  BY <1>2, <1>3, <1>4, RestOfRest
<1>9. Len(ret) \in Nat /\ Len(ret) = Cardinality(Behind(count)) /\ k \in Nat
      /\ ret \in Seq([size : Nat, out : Seq(Char)])
  BY <1>4 DEF CamelInv
<1>10. Behind(i) = Behind(count) \cup {i} /\ i \notin Behind(count)
  <2>1. Puncts(text) \subseteq Nat
    BY <1>2, PunctsFinite
  <2>2. \A j \in Puncts(text) : j <= i <=> j <= count \/ j = i
    BY <1>2, <1>3, <2>1
  <2>3. ~ (i <= count)
    BY <1>2, <1>3
  <2> QED
    BY <1>3, <2>2, <2>3 DEF Behind
<1>11. Cardinality(Behind(i)) = k
  <2>1. IsFiniteSet(Behind(count))
    BY <1>2, BehindFinite
  <2>2. Cardinality(Behind(count) \cup {i}) = Cardinality(Behind(count)) + 1
    BY <1>10, <2>1, FS_AddElement
  <2>3. k = Len(ret) + 1
    BY <1>4
  <2> QED
    BY <1>9, <1>10, <2>2, <2>3
<1>12. Nth(Puncts(text), k) = i /\ (count # 0 => Nth(Puncts(text), k - 1) = count)
  <2>1. IsFiniteSet(Puncts(text)) /\ Puncts(text) \subseteq Nat
    BY <1>2, PunctsFinite
  <2>2. Nth(Puncts(text), Cardinality(Behind(i))) = i
    BY <1>3, <2>1, NthIs DEF Behind
  <2>3. count # 0 => Nth(Puncts(text), Cardinality(Behind(count))) = count
    BY <1>2, <2>1, NthIs DEF Behind
  <2>4. k - 1 = Cardinality(Behind(count))
    BY <1>4, <1>9
  <2> QED
    BY <1>11, <2>2, <2>3, <2>4
<1>13. k = 1 <=> count = 0
  <2>1. ASSUME count = 0 PROVE k = 1
    <3>1. Behind(count) = {}
      <4>1. \A j \in Puncts(text) : j \in Nat \ {0}
        BY <1>2, PunctsFinite
      <4>2. \A j \in Puncts(text) : ~ (j <= 0)
        BY <4>1
      <4> QED
        BY <2>1, <4>2 DEF Behind
    <3> QED
      BY <1>4, <1>9, <3>1, FS_EmptySet
  <2>2. ASSUME k = 1 PROVE count = 0
    <3>1. Behind(count) = {}
      BY <1>2, <1>4, <1>9, <2>2, BehindFinite, SMTT(30)
    <3>2. count <= count
      BY <1>2
    <3> QED
      BY <1>2, <3>1, <3>2 DEF Behind
  <2> QED
    BY <2>1, <2>2
<1>14. SentenceOf(text, k) = SubSeq(s, 1, n)
  <2>1. (IF k = 1 THEN 1 ELSE 1 + Nth(Puncts(text), k - 1)) = count + 1
    <3>1. CASE count = 0
      BY <1>13, <3>1
    <3>2. CASE count # 0
      BY <1>2, <1>12, <1>13, <3>2
    <3> QED
      BY <3>1, <3>2
  <2> QED
    BY <1>8, <1>12, <2>1 DEF SentenceOf
<1>15. /\ ret' = Append(ret, r) /\ count' = i
       /\ UNCHANGED <<text, stage, capacity>> /\ stage = "sentences"
  BY <1>1, <1>4 DEF Sentence
<1>16. /\ ret' \in Seq([size : Nat, out : Seq(Char)]) /\ Len(ret') = k
       /\ ret'[k] = r /\ \A j \in 1 .. Len(ret) : ret'[j] = ret[j]
  BY <1>4, <1>7, <1>9, <1>15
<1>17. ASSUME NEW j \in 1 .. k
       PROVE  ret'[j].out = Camel(SentenceOf(text, j)) /\ ret'[j].size = Len(ret'[j].out) + 1
  <2>1. j = k \/ j \in 1 .. Len(ret)
    BY <1>4, <1>9
  <2>2. CASE j = k
    BY <1>7, <1>14, <1>16, <2>2
  <2>3. CASE j \in 1 .. Len(ret)
    <3>1. ret[j].out = Camel(SentenceOf(text, j)) /\ ret[j].size = Len(ret[j].out) + 1
      BY <2>3 DEF CamelInv
    <3> QED
      BY <1>16, <2>3, <3>1
  <2> QED
    BY <2>1, <2>2, <2>3
<1>18. Behind(count)' = Behind(i)
  BY <1>15 DEF Behind
<1>19. stage' # "done" /\ stage' # "start" /\ capacity' = findPunct(text') + 1
  BY <1>15 DEF CamelInv
<1>20. capacity' \in 0 .. Len(text') + 1
  BY <1>15 DEF CamelInv
<1>21. count' \in 0 .. Len(text') /\ count' \in Puncts(text')
  BY <1>2, <1>3, <1>15
<1>22. \A j \in 1 .. Len(ret') :
         /\ ret'[j].out = Camel(SentenceOf(text', j))
         /\ ret'[j].size = Len(ret'[j].out) + 1
  BY <1>15, <1>16, <1>17
<1> QED
  BY <1>2, <1>11, <1>15, <1>16, <1>18, <1>19, <1>20, <1>21, <1>22 DEF CamelInv

-----------------------------------------------------------------------------
LEMMA InitCamelInv == ASSUME TextsAssumption, CInit PROVE CamelInv
<1>1. text \in Seq(Char) /\ stage = "start" /\ count = 0 /\ capacity = 0 /\ ret = << >>
  BY DEF TextsAssumption, CInit
<1>2. Len(text) \in Nat
  BY <1>1
<1>3. Behind(count) = {}
  <2>1. \A j \in Puncts(text) : j \in Nat \ {0}
    BY <1>1, PunctsFinite
  <2>2. \A j \in Puncts(text) : ~ (j <= 0)
    BY <2>1
  <2> QED
    BY <1>1, <2>2 DEF Behind
<1>4. Len(ret) = Cardinality(Behind(count))
  BY <1>1, <1>3, FS_EmptySet
<1>5. ret \in Seq([size : Nat, out : Seq(Char)]) /\ 1 .. Len(ret) = {}
  BY <1>1
<1> QED
  BY <1>1, <1>2, <1>4, <1>5 DEF CamelInv

LEMMA NextCamelInv == ASSUME CamelInv, [CNext]_cvars PROVE CamelInv'
<1>1. CASE camel_caser
  <2>1. /\ UNCHANGED <<text, count, ret>> /\ stage' = "sentences"
        /\ capacity' = findPunct(text) + 1
    BY <1>1 DEF camel_caser
  <2>2. Behind(count)' = Behind(count)
    BY <2>1 DEF Behind
  <2>3. capacity' \in 0 .. Len(text) + 1
    <3>1. findPunct(text) \in 0 .. Len(text) /\ Len(text) \in Nat
      BY PunctsFinite DEF CamelInv
    <3> QED
      BY <2>1, <3>1
  <2> QED
    BY <2>1, <2>2, <2>3 DEF CamelInv
<1>2. CASE Sentence
  BY <1>2, SentenceStep
<1>3. CASE LastSentence
  <2>1. /\ UNCHANGED <<text, count, capacity, ret>> /\ stage' = "done"
        /\ Ahead = {} /\ stage = "sentences"
    BY <1>3 DEF LastSentence
  <2>2. Behind(count)' = Behind(count) /\ Ahead' = Ahead
    BY <2>1 DEF Behind, Ahead
  <2> QED
    BY <2>1, <2>2 DEF CamelInv
<1>4. CASE UNCHANGED cvars
  <2>1. UNCHANGED <<text, stage, count, capacity, ret>>
    BY <1>4 DEF cvars
  <2>2. Behind(count)' = Behind(count) /\ Ahead' = Ahead
    BY <2>1 DEF Behind, Ahead
  <2> QED
    BY <2>1, <2>2 DEF CamelInv
<1> QED
  BY <1>1, <1>2, <1>3, <1>4 DEF CNext, camelCaser

LEMMA CamelInvariance == TextsAssumption => (CSpec => []CamelInv)
<1> SUFFICES ASSUME TextsAssumption PROVE CSpec => []CamelInv
  OBVIOUS
<1>1. CInit => CamelInv
  BY InitCamelInv
<1>2. CamelInv /\ [CNext]_cvars => CamelInv'
  BY NextCamelInv
<1> QED
  BY <1>1, <1>2, PTL DEF CSpec

-----------------------------------------------------------------------------
(* camel_caser keeps the types of what it returns. *)
THEOREM CamelTyped == TextsAssumption => (CSpec => []CTypeOK)
<1> SUFFICES ASSUME TextsAssumption PROVE CSpec => []CTypeOK
  OBVIOUS
<1>1. CamelInv => CTypeOK
  <2> SUFFICES ASSUME CamelInv PROVE CTypeOK
    OBVIOUS
  <2>1. ASSUME NEW k \in DOMAIN ret PROVE ret[k].size \in Nat /\ ret[k].out \in Seq(Char)
    <3>1. PICK E : E = [size : Nat, out : Seq(Char)]
      OBVIOUS
    <3>2. ret \in Seq(E)
      BY <3>1 DEF CamelInv
    <3>3. ret[k] \in E
      BY <3>2
    <3> QED
      BY <3>1, <3>3
  <2> QED
    BY <2>1 DEF CamelInv, CTypeOK
<1> QED
  BY <1>1, CamelInvariance, PTL

(* Whatever the text, camel_caser writes no byte behind a string's buffer  *)
(* and no pointer behind the array of them.                                *)
THEOREM BuffersSuffice == TextsAssumption => (CSpec => []WritesFit)
<1> SUFFICES ASSUME TextsAssumption PROVE CSpec => []WritesFit
  OBVIOUS
<1>1. CamelInv => WritesFit
  <2> SUFFICES ASSUME CamelInv PROVE WritesFit
    OBVIOUS
  <2>1. ret \in Seq([size : Nat, out : Seq(Char)]) /\ text \in Seq(Char) /\ count \in Nat
    BY DEF CamelInv
  <2>2. ASSUME NEW k \in DOMAIN ret PROVE Len(ret[k].out) + 1 <= ret[k].size
    <3>1. k \in 1 .. Len(ret)
      BY <2>1
    <3>2. PICK E : E = [size : Nat, out : Seq(Char)]
      OBVIOUS
    <3>3. ret \in Seq(E)
      BY <2>1, <3>2
    <3>4. ret[k] \in E
      BY <3>3
    <3>5. ret[k].size = Len(ret[k].out) + 1 /\ ret[k].size \in Nat
      BY <3>1, <3>2, <3>4 DEF CamelInv
    <3> QED
      BY <3>5
  <2>3. stage # "start" => Len(ret) + 1 <= capacity
    <3>1. /\ Len(ret) \in Nat /\ Len(ret) <= findPunct(text)
          /\ findPunct(text) \in 0 .. Len(text) /\ Len(text) \in Nat
      BY <2>1, BehindFinite, PunctsFinite DEF CamelInv
    <3>2. stage # "start" => capacity = findPunct(text) + 1
      BY DEF CamelInv
    <3> QED
      BY <3>1, <3>2
  <2> QED
    BY <2>2, <2>3 DEF WritesFit
<1> QED
  BY <1>1, CamelInvariance, PTL

(* What is equal character by character passes the test. *)
LEMMA EqualsItself ==
  ASSUME NEW out, NEW N \in Nat, out \in [1 .. N -> Seq(Char)]
  PROVE  equal(out, out) = {1}
<1>1. ASSUME NEW i \in DOMAIN out PROVE strCompare(out[i], out[i]) = {1}
  <2>1. out[i] \in Seq(Char)
    OBVIOUS
  <2>2. Len(out[i]) \in Nat
    BY <2>1
  <2> QED
    BY <2>2 DEF strCompare
<1>2. equal(out, out) = {r \in {0, 1} : \/ r = 1 /\ \A i \in DOMAIN out : 1 \in strCompare(out[i], out[i])
                                        \/ r = 0 /\ \E i \in DOMAIN out : 0 \in strCompare(out[i], out[i])}
  BY DEF equal
<1>3. \A i \in DOMAIN out : 1 \in strCompare(out[i], out[i]) /\ 0 \notin strCompare(out[i], out[i])
  BY <1>1
<1> QED
  BY <1>2, <1>3

(* The program's own test passes on every text: camel_caser returns the    *)
(* camelCase of every sentence, in order.                                  *)
THEOREM TestPasses == TextsAssumption => (CSpec => []CamelRight)
<1> SUFFICES ASSUME TextsAssumption PROVE CSpec => []CamelRight
  OBVIOUS
<1>1. CamelInv => CamelRight
  <2> SUFFICES ASSUME CamelInv, stage = "done"
      PROVE  equal([k \in DOMAIN ret |-> ret[k].out], Solution(text)) = {1}
    BY DEF CamelRight
  <2>1. PICK E : E = [size : Nat, out : Seq(Char)]
    OBVIOUS
  <2>2. /\ ret \in Seq(E) /\ text \in Seq(Char) /\ count \in Nat
        /\ Ahead = {} /\ Len(ret) = Cardinality(Behind(count))
    BY <2>1 DEF CamelInv
  <2>3. PICK out : out = [k \in DOMAIN ret |-> ret[k].out]
    OBVIOUS
  <2>4. Len(ret) \in Nat /\ DOMAIN ret = 1 .. Len(ret)
    BY <2>2
  <2>5. \A k \in DOMAIN ret : out[k] \in Seq(Char)
    <3>1. \A k \in DOMAIN ret : ret[k] \in E
      BY <2>2
    <3> QED
      BY <2>1, <2>3, <3>1
  <2>6. Len(ret) = findPunct(text)
    <3>1. \A j \in Puncts(text) : j \in Nat
      BY <2>2, PunctsFinite
    <3>2. \A j \in Puncts(text) : j <= count
      BY <2>2, <3>1 DEF Ahead
    <3>3. Behind(count) = Puncts(text)
      BY <3>2 DEF Behind
    <3> QED
      BY <2>2, <3>3 DEF findPunct
  <2>7. out = Solution(text)
    <3>1. \A k \in 1 .. Len(ret) : out[k] = Camel(SentenceOf(text, k))
      BY <2>3, <2>4 DEF CamelInv
    <3>2. out = [k \in 1 .. Len(ret) |-> out[k]]
      BY <2>3, <2>4
    <3>3. [k \in 1 .. Len(ret) |-> out[k]] = [k \in 1 .. Len(ret) |-> Camel(SentenceOf(text, k))]
      BY <3>1
    <3> QED
      BY <2>6, <3>2, <3>3 DEF Solution
  <2>8. out \in [1 .. Len(ret) -> Seq(Char)]
    BY <2>3, <2>4, <2>5
  <2>9. equal(out, out) = {1}
    BY <2>4, <2>8, EqualsItself
  <2> QED
    BY <2>3, <2>7, <2>9
<1> QED
  BY <1>1, CamelInvariance, PTL

=============================================================================
