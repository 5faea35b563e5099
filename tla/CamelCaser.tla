----------------------------- MODULE CamelCaser -----------------------------
(***************************************************************************)
(* testCamel_sol.c, a program to debug: camel_caser turns every sentence   *)
(* of a text into a camelCase string of its own.  testCamel.c is the same  *)
(* program with two of its buffers one too short.                          *)
(***************************************************************************)
EXTENDS Integers, Sequences, FiniteSets

CONSTANT Texts   \* the inputs, sequences of characters

(* One character of every class that the code tells apart. *)
Char == {" ", ".", "A", "a", "1"}

(* What the program is given are strings of these.                         *)
TextsAssumption == Texts \subseteq Seq(Char)

VARIABLES
  text,      \* the input
  stage,     \* "start", "sentences", "done"
  count,     \* the characters up to the sentence that is next
  capacity,  \* the pointers output_s has room for
  ret        \* the sentences so far: the bytes allocated, what was written

cvars == <<text, stage, count, capacity, ret>>

-----------------------------------------------------------------------------
isspace(c) == c = " "
ispunct(c) == c = "."
isCap(c) == c = "A"
isNum(c) == c = "1"
ToLower(c) == IF isCap(c) THEN "a" ELSE c
ToUpper(c) == IF isCap(c) \/ isNum(c) THEN c ELSE "A"

FirstOf(S) == CHOOSE i \in S : \A j \in S : i <= j

Puncts(s) == {i \in DOMAIN s : ispunct(s[i])}

findPunct(s) == Cardinality(Puncts(s))

getSpaces(s, n) == Cardinality({i \in 1..n : isspace(s[i])})

(* Slip: a digit ends the wait for a letter.                               *)
LaterWordsAtDigit(acc, c) ==
  IF isspace(c) THEN [acc EXCEPT !.prev = TRUE]
  ELSE [out |-> Append(acc.out, IF acc.prev THEN ToUpper(c) ELSE ToLower(c)), prev |-> FALSE]

(* A character behind the first word; prev is set from a space to the      *)
(* first letter.                                                           *)
LaterWords(acc, c) ==
  IF isspace(c) THEN [acc EXCEPT !.prev = TRUE]
  ELSE [out |-> Append(acc.out, IF acc.prev THEN ToUpper(c) ELSE ToLower(c)),
        prev |-> acc.prev /\ isNum(c)]

(* The first word goes up to a space or the mark at length + 1.            *)
Written(s, length) ==
  LET begin == FirstOf({i \in DOMAIN s : ~isspace(s[i])})
      end == FirstOf({i \in begin..Len(s) : isspace(s[i]) \/ ispunct(s[i])})
      acc[i \in end..Len(s)] ==
        IF i = end THEN [out |-> [k \in 1..end - begin |-> ToLower(s[begin + k - 1])], prev |-> TRUE]
        ELSE LaterWords(acc[i - 1], s[i])
  IN acc[IF end < length THEN length ELSE end].out

(* Slip: no byte for the '\0' (testCamel.c).                               *)
parseStrShort(s, length) ==
  [size |-> length - getSpaces(s, length), out |-> Written(s, length)]

parseStr(s, length) ==
  [size |-> length - getSpaces(s, length) + 1, out |-> Written(s, length)]

-----------------------------------------------------------------------------
CInit ==
  /\ text \in Texts
  /\ stage = "start" /\ count = 0 /\ capacity = 0 /\ ret = << >>

camel_caser ==
  /\ stage = "start"
  /\ capacity' = findPunct(text) + 1
  /\ stage' = "sentences"
  /\ UNCHANGED <<text, count, ret>>

(* The marks that getSentences has not come to. *)
Ahead == {i \in Puncts(text) : count < i}

(* getSentences, up to the next mark. *)
Sentence ==
  /\ stage = "sentences" /\ Ahead # {}
  /\ LET i == FirstOf(Ahead)
     IN /\ ret' = Append(ret, parseStr(SubSeq(text, count + 1, Len(text)), i - count - 1))
        /\ count' = i
  /\ UNCHANGED <<text, stage, capacity>>

(* No mark is left: what follows the last one is dropped. *)
LastSentence ==
  /\ stage = "sentences" /\ Ahead = {}
  /\ stage' = "done"
  /\ UNCHANGED <<text, count, capacity, ret>>

camelCaser == camel_caser \/ Sentence \/ LastSentence

CNext == camelCaser \/ (stage = "done" /\ UNCHANGED cvars)

CSpec == CInit /\ [][CNext]_cvars

-----------------------------------------------------------------------------
(* The results strCompare may give; it reads on behind the end of b when b *)
(* is a shorter beginning of a.                                            *)
strCompare(a, b) ==
  IF \E i \in DOMAIN a \cap DOMAIN b : a[i] # b[i] THEN {0}
  ELSE IF Len(b) < Len(a) THEN {0, 1}
  ELSE {IF Len(b) = Len(a) THEN 1 ELSE 0}

(* The results equal may give for an output and the solution.              *)
equal(out, sol) ==
  IF Len(out) # Len(sol) THEN {0}
  ELSE {r \in {0, 1} : \/ r = 1 /\ \A i \in DOMAIN sol : 1 \in strCompare(sol[i], out[i])
                       \/ r = 0 /\ \E i \in DOMAIN sol : 0 \in strCompare(sol[i], out[i])}

(* The k-th smallest of a set of numbers. *)
Nth(S, k) == CHOOSE i \in S : Cardinality({j \in S : j <= i}) = k

(* What camelCase is: the letters and digits of the sentence in order, a   *)
(* letter capital exactly if its word is not the first and has only digits *)
(* before it.                                                              *)
Camel(s) ==
  LET kept == {i \in DOMAIN s : ~isspace(s[i])}
      first(i) == \A j \in kept : j <= i => \A k \in j..i : ~isspace(s[k])
      leads(i) == \A j \in kept : j < i => isNum(s[j]) \/ \E k \in j..i - 1 : isspace(s[k])
      at(i) == IF ~first(i) /\ leads(i) THEN ToUpper(s[i]) ELSE ToLower(s[i])
  IN [k \in 1..Cardinality(kept) |-> at(Nth(kept, k))]

(* The sentences of a text: what its marks end. *)
SentenceOf(s, k) ==
  SubSeq(s, IF k = 1 THEN 1 ELSE 1 + Nth(Puncts(s), k - 1), Nth(Puncts(s), k) - 1)

Solution(s) == [k \in 1..findPunct(s) |-> Camel(SentenceOf(s, k))]

CTypeOK ==
  /\ text \in Seq(Char) /\ stage \in {"start", "sentences", "done"}
  /\ count \in 0..Len(text) /\ capacity \in 0..Len(text) + 1
  /\ \A k \in DOMAIN ret : ret[k].size \in Nat /\ ret[k].out \in Seq(Char)

(* Every string and the '\0' behind it stay within what was allocated for  *)
(* them, and so do the strings' pointers and the NULL behind them.         *)
WritesFit ==
  /\ \A k \in DOMAIN ret : Len(ret[k].out) + 1 <= ret[k].size
  /\ stage # "start" => Len(ret) + 1 <= capacity

(* The test of the program passes on every text: what camel_caser returns  *)
(* is equal to the camelCase of the sentences, by the test's own equal.    *)
CamelRight ==
  stage = "done" => equal([k \in DOMAIN ret |-> ret[k].out], Solution(text)) = {1}
=============================================================================
