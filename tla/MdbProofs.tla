----------------------------- MODULE MdbProofs -----------------------------
(***************************************************************************)
(* Proofs about Mdb, for every program, every set of symbols and every     *)
(* width of the key that HASH_FIND_INT compares.                           *)
(***************************************************************************)
EXTENDS Mdb, SequenceTheorems, TLAPS

(* A text and a table of the right types. *)
Typed(t, tab) ==
  /\ t \in [Addr -> Byte]
  /\ tab \in Seq(Entry)
  /\ \A i \in DOMAIN tab : DOMAIN tab[i].opc = Word(tab[i].addr)

(* The command loop looks at the tracee only when it is stopped. *)
Held == dbg = "prompt" => child = "held"

TypeInv == TypeOK /\ Held

(* TextShowsTable and UndoneInOrder, of a text and a table in between.     *)
At(tab, x) == {a \in {tab[i].addr : i \in DOMAIN tab} : x \in Word(a)}
Shows(t, tab) ==
  \A x \in Addr :
    t[x] = IF At(tab, x) = {} THEN "orig" ELSE IF x \in At(tab, x) THEN "int3" ELSE "zero"

Older(tab, i) == {j \in DOMAIN tab : j > i /\ tab[j].addr = tab[i].addr}
Undone(tab) ==
  \A i \in DOMAIN tab : \A x \in Word(tab[i].addr) :
    tab[i].opc[x] = IF Older(tab, i) = {} THEN "orig" ELSE BrkWord(tab[i].addr)[x]

MInv ==
  /\ TypeInv
  /\ ~doubled => (child # "killed" => Shows(text, brptab)) /\ Undone(brptab)

-----------------------------------------------------------------------------
(* What the operators on words and tables return. *)

LEMMA SymbolFacts ==
  /\ \A a \in Symbols : a \in Nat /\ a \in Addr /\ a \in Word(a)
  /\ \A a : Word(a) \subseteq Addr
BY SymbolsAssumption, ProgramAssumption DEF Word

(* A byte is in the word of one symbol at most. *)
LEMMA OneWord ==
  ASSUME Spaced, NEW a \in Symbols, NEW b \in Symbols,
         NEW x \in Word(a), x \in Word(b)
  PROVE  a = b
BY SymbolFacts, ProgramAssumption DEF Spaced, Word

LEMMA BrkWordType == \A a : BrkWord(a) \in [Word(a) -> Byte]
BY DEF BrkWord, Byte

LEMMA PeekType ==
  ASSUME NEW t \in [Addr -> Byte], NEW a
  PROVE  PeekWord(t, a) \in [Word(a) -> Byte]
BY DEF PeekWord, Byte, Word

LEMMA PokeType ==
  ASSUME NEW t \in [Addr -> Byte], NEW a, NEW w \in [Word(a) -> Byte]
  PROVE  PokeWord(t, a, w) \in [Addr -> Byte]
BY DEF PokeWord, Word

LEMMA EntryType ==
  ASSUME NEW a \in Symbols, NEW w \in [Word(a) -> Byte]
  PROVE  [addr |-> a, opc |-> w] \in Entry
BY DEF Entry

LEMMA EntryFacts ==
  ASSUME NEW t, NEW tab, Typed(t, tab), NEW i \in DOMAIN tab
  PROVE  /\ tab[i] \in Entry
         /\ tab[i].addr \in Symbols
         /\ tab[i].opc \in [Word(tab[i].addr) -> Byte]
<1>1. tab[i] \in Entry /\ DOMAIN tab[i].opc = Word(tab[i].addr)
  BY DEF Typed
<1>2. tab[i].addr \in Symbols
  BY <1>1 DEF Entry
<1>3. PICK a \in Symbols : tab[i].opc \in [Word(a) -> Byte]
  BY <1>1 DEF Entry
<1> QED BY <1>1, <1>2, <1>3

LEMMA WithoutFacts ==
  ASSUME NEW S, NEW tab \in Seq(S), NEW i \in DOMAIN tab
  PROVE  /\ Without(tab, i) \in Seq(S)
         /\ DOMAIN Without(tab, i) = 1 .. (Len(tab) - 1)
         /\ \A k \in 1 .. (Len(tab) - 1) :
              Without(tab, i)[k] = IF k < i THEN tab[k] ELSE tab[k + 1]
<1> DEFINE l == SubSeq(tab, 1, i - 1)
           r == SubSeq(tab, i + 1, Len(tab))
<1>1. i \in 1 .. Len(tab) /\ Len(tab) \in Nat
  OBVIOUS
<1>2. l \in Seq(S) /\ Len(l) = i - 1 /\ \A k \in 1 .. (i - 1) : l[k] = tab[k]
  BY <1>1, SubSeqProperties
<1>3. /\ r \in Seq(S) /\ Len(r) = Len(tab) - i
      /\ \A k \in 1 .. (Len(tab) - i) : r[k] = tab[i + k]
  <2>1. CASE i = Len(tab)
    BY <1>1, <2>1, SubSeqProperties
  <2>2. CASE i # Len(tab)
    BY <1>1, <2>2, SubSeqProperties
  <2> QED BY <2>1, <2>2
<1> HIDE DEF l, r
<1>4. /\ l \o r \in Seq(S) /\ Len(l \o r) = Len(tab) - 1
      /\ \A k \in 1 .. (Len(tab) - 1) :
           (l \o r)[k] = IF k <= i - 1 THEN l[k] ELSE r[k - (i - 1)]
  BY <1>1, <1>2, <1>3, ConcatProperties, SMTT(30)
<1>5. \A k \in 1 .. (Len(tab) - 1) : (l \o r)[k] = IF k < i THEN tab[k] ELSE tab[k + 1]
  <2> SUFFICES ASSUME NEW k \in 1 .. (Len(tab) - 1)
               PROVE  (l \o r)[k] = IF k < i THEN tab[k] ELSE tab[k + 1]
    OBVIOUS
  <2>1. CASE k < i
    BY <1>1, <1>2, <1>4, <2>1
  <2>2. CASE ~(k < i)
    <3>1. k - (i - 1) \in 1 .. (Len(tab) - i) /\ i + (k - (i - 1)) = k + 1
      BY <1>1, <2>2
    <3>2. r[k - (i - 1)] = tab[k + 1]
      BY <1>3, <3>1
    <3> QED BY <1>1, <1>4, <2>2, <3>2
  <2> QED BY <2>1, <2>2
<1>6. Without(tab, i) = l \o r
  BY DEF Without, l, r
<1> QED BY <1>4, <1>5, <1>6

LEMMA PushFacts ==
  ASSUME NEW S, NEW tab \in Seq(S), NEW e \in S
  PROVE  /\ <<e>> \o tab \in Seq(S)
         /\ DOMAIN (<<e>> \o tab) = 1 .. (Len(tab) + 1)
         /\ (<<e>> \o tab)[1] = e
         /\ \A k \in 1 .. Len(tab) : (<<e>> \o tab)[k + 1] = tab[k]
<1>1. <<e>> \in Seq(S) /\ Len(<<e>>) = 1 /\ <<e>>[1] = e
  OBVIOUS
<1>2. Len(tab) \in Nat
  OBVIOUS
<1> QED BY <1>1, <1>2, ConcatProperties

-----------------------------------------------------------------------------
(* Types. *)

(* What the top of the loop makes of a text and a table. *)
LEMMA LoopTopCases ==
  ASSUME NEW t, NEW tab, Typed(t, tab), LoopTop(t, tab)
  PROVE  \/ text' = t /\ rip' = rip /\ brptab' = tab
         \/ \E i \in DOMAIN tab :
              /\ \A j \in DOMAIN tab : tab[j].addr = tab[i].addr => i <= j
              /\ text' = PokeWord(t, tab[i].addr, tab[i].opc)
              /\ rip' = rip - 1
              /\ brptab' = Without(tab, i)
<1>1. CASE Matching(tab, rip - 1) = {}
  BY <1>1 DEF LoopTop
<1>2. CASE Matching(tab, rip - 1) # {}
  <2>1. PICK i \in Matching(tab, rip - 1) :
          /\ \A j \in Matching(tab, rip - 1) : i <= j
          /\ text' = PokeWord(t, tab[i].addr, tab[i].opc)
          /\ rip' = rip - 1
          /\ brptab' = Without(tab, i)
    BY <1>2 DEF LoopTop
  <2>2. i \in DOMAIN tab
    BY DEF Matching
  <2>3. ASSUME NEW j \in DOMAIN tab, tab[j].addr = tab[i].addr PROVE i <= j
    <3>1. j \in Matching(tab, rip - 1)
      BY <2>3 DEF Matching
    <3> QED BY <2>1, <3>1
  <2> QED BY <2>1, <2>2, <2>3
<1> QED BY <1>1, <1>2

LEMMA LoopTopTyped ==
  ASSUME NEW t, NEW tab, Typed(t, tab), rip \in Int, LoopTop(t, tab)
  PROVE  Typed(text', brptab') /\ rip' \in Int
<1>1. CASE text' = t /\ rip' = rip /\ brptab' = tab
  BY <1>1
<1>2. ASSUME NEW i \in DOMAIN tab,
             text' = PokeWord(t, tab[i].addr, tab[i].opc), rip' = rip - 1,
             brptab' = Without(tab, i)
      PROVE  Typed(text', brptab') /\ rip' \in Int
  <2>1. text' \in [Addr -> Byte]
    BY <1>2, EntryFacts, PokeType DEF Typed
  <2>2. /\ brptab' \in Seq(Entry)
        /\ DOMAIN brptab' = 1 .. (Len(tab) - 1)
        /\ \A k \in 1 .. (Len(tab) - 1) :
             brptab'[k] = IF k < i THEN tab[k] ELSE tab[k + 1]
    BY <1>2, WithoutFacts DEF Typed
  <2>3. tab \in Seq(Entry) /\ DOMAIN tab = 1 .. Len(tab) /\ Len(tab) \in Nat
    BY DEF Typed
  <2>4. \A k \in DOMAIN brptab' : \E j \in DOMAIN tab : brptab'[k] = tab[j]
    BY <2>2, <2>3, SMTT(30)
  <2> QED BY <1>2, <2>1, <2>2, <2>4 DEF Typed
<1> QED BY <1>1, <1>2, LoopTopCases

(* An entry is put in front. *)
LEMMA PushTyped ==
  ASSUME NEW t, NEW tab, Typed(t, tab), NEW a \in Symbols
  PROVE  Typed(PokeWord(t, a, BrkWord(a)),
               <<[addr |-> a, opc |-> PeekWord(t, a)]>> \o tab)
<1> DEFINE e == [addr |-> a, opc |-> PeekWord(t, a)]
<1>1. e \in Entry /\ DOMAIN e.opc = Word(a)
  BY PeekType, EntryType DEF Typed
<1>2. PokeWord(t, a, BrkWord(a)) \in [Addr -> Byte]
  BY PokeType, BrkWordType DEF Typed
<1>3. /\ <<e>> \o tab \in Seq(Entry)
      /\ DOMAIN (<<e>> \o tab) = 1 .. (Len(tab) + 1)
      /\ (<<e>> \o tab)[1] = e
      /\ \A k \in 1 .. Len(tab) : (<<e>> \o tab)[k + 1] = tab[k]
  BY <1>1, PushFacts DEF Typed
<1>4. tab \in Seq(Entry) /\ DOMAIN tab = 1 .. Len(tab) /\ Len(tab) \in Nat
  BY DEF Typed
<1>5. e.addr = a
  OBVIOUS
<1> HIDE DEF e
<1>6. ASSUME NEW k \in DOMAIN (<<e>> \o tab)
      PROVE  DOMAIN (<<e>> \o tab)[k].opc = Word((<<e>> \o tab)[k].addr)
  <2>1. CASE k = 1
    BY <1>1, <1>3, <1>5, <2>1
  <2>2. CASE k # 1
    <3>1. k - 1 \in DOMAIN tab /\ (k - 1) + 1 = k
      BY <1>3, <1>4, <2>2
    <3>2. (<<e>> \o tab)[k] = tab[k - 1]
      BY <1>3, <1>4, <3>1
    <3> QED BY <3>1, <3>2 DEF Typed
  <2> QED BY <2>1, <2>2
<1> QED BY <1>2, <1>3, <1>6 DEF Typed, e

(* The entries in the other order. *)
LEMMA TurnedTyped ==
  ASSUME NEW t, NEW tab, Typed(t, tab)
  PROVE  Typed(t, Turned(tab))
<1>1. tab \in Seq(Entry) /\ DOMAIN tab = 1 .. Len(tab) /\ Len(tab) \in Nat
  BY DEF Typed
<1>2. \A i \in DOMAIN tab : Len(tab) + 1 - i \in DOMAIN tab
  BY <1>1
<1>3. Turned(tab) \in Seq(Entry) /\ DOMAIN Turned(tab) = DOMAIN tab
  <2>1. Turned(tab) \in [1 .. Len(tab) -> Entry]
    BY <1>1, <1>2 DEF Turned
  <2> QED BY <1>1, <2>1
<1>4. \A i \in DOMAIN tab : Turned(tab)[i] = tab[Len(tab) + 1 - i]
  BY DEF Turned
<1> QED BY <1>2, <1>3, <1>4 DEF Typed

(* What "break" makes of the text and the table. *)
Put(a) == <<[addr |-> a, opc |-> PeekWord(text, a)]>> \o brptab
Poked(a) == PokeWord(text, a, BrkWord(a))

LEMMA BreakCases ==
  ASSUME TypeInv, NEW a, Break(a)
  PROVE  /\ UNCHANGED <<child, run, dbg>> /\ dbg = "prompt"
         /\ \/ doubled' = doubled /\ LoopTop(Poked(a), Put(a))
            \/ doubled' = TRUE /\ LoopTop(Poked(a), Turned(Put(a)))
<1>1. PICK double \in BOOLEAN :
        /\ doubled' = (doubled \/ double)
        /\ LoopTop(Poked(a), IF double THEN Turned(Put(a)) ELSE Put(a))
  BY DEF Break, Poked, Put
<1>2. CASE double = TRUE
  <2>1. doubled' = TRUE
    BY <1>1, <1>2
  <2>2. LoopTop(Poked(a), Turned(Put(a)))
    BY <1>1, <1>2
  <2> QED BY <2>1, <2>2 DEF Break
<1>3. CASE double = FALSE
  <2>1. doubled' = doubled
    BY <1>1, <1>3 DEF TypeInv, TypeOK
  <2>2. LoopTop(Poked(a), Put(a))
    BY <1>1, <1>3
  <2> QED BY <2>1, <2>2 DEF Break
<1> QED BY <1>2, <1>3

LEMMA InitTypeInv == Init => TypeInv
<1> SUFFICES ASSUME Init PROVE TypeInv
  OBVIOUS
<1>1. brptab \in Seq(Entry) /\ DOMAIN brptab = {}
  BY DEF Init
<1>2. rip \in Int
  BY ProgramAssumption DEF Init, TraceeInit
<1> QED BY <1>1, <1>2 DEF Init, TraceeInit, TypeInv, TypeOK, Held, Byte, ChildState

LEMMA ChildTypeInv == TypeInv /\ Child => TypeInv'
<1> SUFFICES ASSUME TypeInv, Child PROVE TypeInv'
  OBVIOUS
<1>1. /\ child = "running" /\ dbg # "prompt"
      /\ UNCHANGED <<text, run, dbg, brptab, doubled>>
  BY DEF Child, TraceeStep, Execute, Exit, Trap, Fault, RunWild, TypeInv, Held
<1>2. rip' \in Int /\ child' \in ChildState
  <2>1. Retired \in ChildState
    BY DEF Retired, ChildState
  <2>2. CASE Execute
    BY <2>1, <2>2, ProgramAssumption DEF Execute, Intact
  <2>3. CASE Exit \/ Trap \/ Fault
    BY <2>3 DEF Exit, Trap, Fault, ChildState, TypeInv, TypeOK
  <2>4. CASE RunWild
    BY <2>1, <2>4, ProgramAssumption DEF RunWild, ChildState
  <2> QED BY <2>2, <2>3, <2>4 DEF Child, TraceeStep
<1> QED BY <1>1, <1>2 DEF TypeInv, TypeOK, Held, Word

LEMMA LookTypeInv ==
  ASSUME TypeInv, NEW t, NEW tab, Typed(t, tab), LoopTop(t, tab),
         child' = "held", run' = run, dbg' = "prompt", doubled' \in BOOLEAN
  PROVE  TypeInv'
<1>1. Typed(text', brptab') /\ rip' \in Int
  BY LoopTopTyped DEF TypeInv, TypeOK
<1> QED BY <1>1 DEF Typed, TypeInv, TypeOK, Held, ChildState, Word

LEMMA NextTypeInv == TypeInv /\ [Next]_vars => TypeInv'
<1> SUFFICES ASSUME TypeInv, [Next]_vars PROVE TypeInv'
  OBVIOUS
<1>0. Typed(text, brptab)
  BY DEF TypeInv, TypeOK, Typed
<1>1. CASE Child
  BY <1>1, ChildTypeInv
<1>2. CASE Stop
  BY <1>0, <1>2, LookTypeInv DEF Stop, TypeInv, TypeOK
<1>3. CASE Other
  BY <1>0, <1>3, LookTypeInv DEF Other, TypeInv, TypeOK, Held
<1>4. ASSUME NEW a \in Symbols, Break(a) PROVE TypeInv'
  <2>1. child' = "held" /\ run' = run /\ dbg' = "prompt" /\ doubled' \in BOOLEAN
    BY <1>4, BreakCases DEF TypeInv, TypeOK, Held
  <2>2. Typed(Poked(a), Put(a)) /\ Typed(Poked(a), Turned(Put(a)))
    BY <1>0, PushTyped, TurnedTyped DEF Put, Poked
  <2>3. LoopTop(Poked(a), Put(a)) \/ LoopTop(Poked(a), Turned(Put(a)))
    BY <1>4, BreakCases
  <2> QED BY <2>1, <2>2, <2>3, LookTypeInv
<1>5. ASSUME NEW how \in {"step", "cont"}, Go(how) PROVE TypeInv'
  BY <1>5 DEF Go, Resume, Stopped, TypeInv, TypeOK, Held, ChildState, Word
<1>6. CASE Kill \/ Terminate
  BY <1>6 DEF Kill, Terminate, traceeVars, TypeInv, TypeOK, Held, ChildState, Word
<1>7. CASE UNCHANGED vars
  BY <1>7 DEF vars, traceeVars, TypeInv, TypeOK, Held, Word
<1> QED BY <1>1, <1>2, <1>3, <1>4, <1>5, <1>6, <1>7 DEF Next, User, Terminated

LEMMA SpecTypeInv == Spec => []TypeInv
BY InitTypeInv, NextTypeInv, PTL DEF Spec

(* Every entry of the table is a symbol with a whole word saved for it,    *)
(* whatever the layout and the width of the key.                           *)
THEOREM MdbTyped == Spec => []TypeOK
BY SpecTypeInv, PTL DEF TypeInv

-----------------------------------------------------------------------------
(* The text and the table. *)

(* What a table shows of one symbol's word, when no other word meets it. *)
LEMMA AtWord ==
  ASSUME Spaced, NEW t, NEW tab, Typed(t, tab), NEW a \in Symbols, NEW x \in Word(a)
  PROVE  At(tab, x) = IF \E i \in DOMAIN tab : tab[i].addr = a THEN {a} ELSE {}
<1>1. \A i \in DOMAIN tab : x \in Word(tab[i].addr) => tab[i].addr = a
  BY EntryFacts, OneWord
<1> QED BY <1>1 DEF At

(* Another word is not touched by a write to this one. *)
LEMMA PokeAway ==
  ASSUME NEW t \in [Addr -> Byte], NEW a, NEW w, NEW x \in Addr, x \notin Word(a)
  PROVE  PokeWord(t, a, w)[x] = t[x]
BY DEF PokeWord

LEMMA PokeHere ==
  ASSUME NEW t, NEW a, NEW w, NEW x \in Word(a), Stopped
  PROVE  x \in Addr /\ PokeWord(t, a, w)[x] = w[x]
BY SymbolFacts DEF PokeWord

(* Deleting the newest entry at its address, and putting its word back. *)
LEMMA HitShows ==
  ASSUME Spaced, Stopped, NEW t, NEW tab, Typed(t, tab), Shows(t, tab), Undone(tab),
         NEW i \in DOMAIN tab,
         \A j \in DOMAIN tab : tab[j].addr = tab[i].addr => i <= j
  PROVE  /\ Shows(PokeWord(t, tab[i].addr, tab[i].opc), Without(tab, i))
         /\ Undone(Without(tab, i))
<1> DEFINE a == tab[i].addr
           new == Without(tab, i)
           u == PokeWord(t, a, tab[i].opc)
<1>1. a \in Symbols /\ tab[i].opc \in [Word(a) -> Byte]
  BY EntryFacts
<1>2. tab \in Seq(Entry) /\ DOMAIN tab = 1 .. Len(tab) /\ Len(tab) \in Nat /\ i \in 1 .. Len(tab)
  BY DEF Typed
<1>3. /\ DOMAIN new = 1 .. (Len(tab) - 1)
      /\ \A k \in 1 .. (Len(tab) - 1) : new[k] = IF k < i THEN tab[k] ELSE tab[k + 1]
  BY WithoutFacts DEF Typed
<1> HIDE DEF new
(* The entries that stay: k in the new table is Pos(k) in the old one.     *)
<1> DEFINE Pos(k) == IF k < i THEN k ELSE k + 1
<1>4. \A k \in DOMAIN new : Pos(k) \in DOMAIN tab \ {i} /\ new[k] = tab[Pos(k)]
  BY <1>2, <1>3
<1>5. \A j \in DOMAIN tab \ {i} : \E k \in DOMAIN new : Pos(k) = j
  <2> SUFFICES ASSUME NEW j \in DOMAIN tab \ {i} PROVE \E k \in DOMAIN new : Pos(k) = j
    OBVIOUS
  <2>1. CASE j < i
    BY <1>2, <1>3, <2>1
  <2>2. CASE j > i
    <3>1. j - 1 \in DOMAIN new /\ Pos(j - 1) = j
      BY <1>2, <1>3, <2>2
    <3> QED BY <3>1
  <2> QED BY <1>2, <2>1, <2>2
<1>6. \A k, m \in DOMAIN new : m > k <=> Pos(m) > Pos(k)
  BY <1>2, <1>3
<1> HIDE DEF Pos
<1>7. Undone(new)
  <2> SUFFICES ASSUME NEW k \in DOMAIN new, NEW x \in Word(new[k].addr)
               PROVE  new[k].opc[x] = IF Older(new, k) = {} THEN "orig"
                                      ELSE BrkWord(new[k].addr)[x]
    BY DEF Undone
  <2>1. Pos(k) \in DOMAIN tab \ {i} /\ new[k] = tab[Pos(k)]
    BY <1>4
  <2>2. Older(new, k) = {} <=> Older(tab, Pos(k)) = {}
    <3>1. ASSUME NEW m \in Older(new, k) PROVE Pos(m) \in Older(tab, Pos(k))
      BY <1>4, <1>6, <2>1 DEF Older
    <3>2. ASSUME NEW j \in Older(tab, Pos(k)) PROVE \E m \in DOMAIN new : m \in Older(new, k)
      <4>1. j \in DOMAIN tab /\ j > Pos(k) /\ tab[j].addr = tab[Pos(k)].addr
        BY DEF Older
      <4>2. j # i
        BY <1>2, <2>1, <4>1
      <4>3. PICK m \in DOMAIN new : Pos(m) = j
        BY <1>5, <4>1, <4>2
      <4>4. m \in Older(new, k)
        BY <1>4, <1>6, <2>1, <4>1, <4>3 DEF Older
      <4> QED BY <4>4
    <3> QED BY <3>1, <3>2
  <2> QED BY <2>1, <2>2 DEF Undone
<1>8. Shows(u, new)
  <2> SUFFICES ASSUME NEW x \in Addr
               PROVE  u[x] = IF At(new, x) = {} THEN "orig"
                             ELSE IF x \in At(new, x) THEN "int3" ELSE "zero"
    BY DEF Shows
  <2>1. CASE x \notin Word(a)
    <3>1. u[x] = t[x]
      BY <2>1, PokeAway DEF Typed
    <3>2. At(new, x) = At(tab, x)
      <4>1. ASSUME NEW b \in At(tab, x) PROVE b \in At(new, x)
        <5>1. PICK j \in DOMAIN tab : tab[j].addr = b
          BY DEF At
        <5>2. j # i
          BY <2>1, <4>1, <5>1 DEF At
        <5>3. PICK k \in DOMAIN new : Pos(k) = j
          BY <1>5, <5>2
        <5> QED BY <1>4, <4>1, <5>1, <5>3 DEF At
      <4>2. ASSUME NEW b \in At(new, x) PROVE b \in At(tab, x)
        BY <1>4, <4>2 DEF At
      <4> QED BY <4>1, <4>2
    <3> QED BY <3>1, <3>2 DEF Shows
  <2>2. CASE x \in Word(a)
    <3>1. u[x] = tab[i].opc[x]
      BY <2>2, PokeHere
    <3>2. tab[i].opc[x] = IF Older(tab, i) = {} THEN "orig" ELSE BrkWord(a)[x]
      BY <2>2 DEF Undone
    <3>3. Older(tab, i) = {} <=> ~ \E k \in DOMAIN new : new[k].addr = a
      <4>1. ASSUME NEW j \in Older(tab, i) PROVE \E k \in DOMAIN new : new[k].addr = a
        <5>1. j \in DOMAIN tab /\ j # i /\ tab[j].addr = a
          BY <1>2 DEF Older
        <5>2. PICK k \in DOMAIN new : Pos(k) = j
          BY <1>5, <5>1
        <5> QED BY <1>4, <5>1, <5>2
      <4>2. ASSUME NEW k \in DOMAIN new, new[k].addr = a PROVE Pos(k) \in Older(tab, i)
        <5>1. Pos(k) \in DOMAIN tab \ {i} /\ tab[Pos(k)].addr = a
          BY <1>4, <4>2
        <5>2. i <= Pos(k)
          BY <5>1
        <5> QED BY <1>2, <5>1, <5>2 DEF Older
      <4> QED BY <4>1, <4>2
    <3>4. At(new, x) = IF \E k \in DOMAIN new : new[k].addr = a THEN {a} ELSE {}
      <4>1. \A k \in DOMAIN new : x \in Word(new[k].addr) => new[k].addr = a
        BY <1>1, <1>4, <2>2, EntryFacts, OneWord
      <4> QED BY <2>2, <4>1 DEF At
    <3>5. BrkWord(a)[x] = IF x = a THEN "int3" ELSE "zero"
      BY <2>2 DEF BrkWord
    <3> QED BY <3>1, <3>2, <3>3, <3>4, <3>5
  <2> QED BY <2>1, <2>2
<1> QED BY <1>7, <1>8 DEF new

LEMMA LoopTopShows ==
  ASSUME Spaced, Stopped, NEW t, NEW tab, Typed(t, tab), Shows(t, tab), Undone(tab),
         LoopTop(t, tab)
  PROVE  Shows(text', brptab') /\ Undone(brptab')
<1>1. CASE text' = t /\ brptab' = tab
  BY <1>1
<1>2. ASSUME NEW i \in DOMAIN tab,
             \A j \in DOMAIN tab : tab[j].addr = tab[i].addr => i <= j,
             text' = PokeWord(t, tab[i].addr, tab[i].opc), brptab' = Without(tab, i)
      PROVE  Shows(text', brptab') /\ Undone(brptab')
  BY <1>2, HitShows
<1> QED BY <1>1, <1>2, LoopTopCases

(* A breakpoint set, at a symbol that may have some already. *)
LEMMA PushShows ==
  ASSUME Spaced, Stopped, NEW t, NEW tab, Typed(t, tab), Shows(t, tab), Undone(tab),
         NEW a \in Symbols
  PROVE  LET e == [addr |-> a, opc |-> PeekWord(t, a)]
         IN /\ Shows(PokeWord(t, a, BrkWord(a)), <<e>> \o tab)
            /\ Undone(<<e>> \o tab)
<1> DEFINE e == [addr |-> a, opc |-> PeekWord(t, a)]
           new == <<e>> \o tab
           u == PokeWord(t, a, BrkWord(a))
<1>1. e \in Entry
  BY PeekType, EntryType DEF Typed
<1>2. /\ DOMAIN new = 1 .. (Len(tab) + 1)
      /\ new[1] = e
      /\ \A k \in 1 .. Len(tab) : new[k + 1] = tab[k]
  BY <1>1, PushFacts DEF Typed
<1>3. tab \in Seq(Entry) /\ DOMAIN tab = 1 .. Len(tab) /\ Len(tab) \in Nat
  BY DEF Typed
<1>4. e.addr = a /\ e.opc = PeekWord(t, a)
  OBVIOUS
<1> HIDE DEF e, new
<1>5. \A k \in DOMAIN new \ {1} : k - 1 \in DOMAIN tab /\ new[k] = tab[k - 1]
  <2> SUFFICES ASSUME NEW k \in DOMAIN new \ {1}
               PROVE  k - 1 \in DOMAIN tab /\ new[k] = tab[k - 1]
    OBVIOUS
  <2>1. k - 1 \in 1 .. Len(tab) /\ (k - 1) + 1 = k
    BY <1>2, <1>3
  <2> QED BY <1>2, <1>3, <2>1
<1>6. \A j \in DOMAIN tab : j + 1 \in DOMAIN new \ {1} /\ new[j + 1] = tab[j]
  BY <1>2, <1>3
<1>7. Undone(new)
  <2> SUFFICES ASSUME NEW k \in DOMAIN new, NEW x \in Word(new[k].addr)
               PROVE  new[k].opc[x] = IF Older(new, k) = {} THEN "orig"
                                      ELSE BrkWord(new[k].addr)[x]
    BY DEF Undone
  <2>1. CASE k = 1
    <3>1. new[k].opc[x] = t[x] /\ x \in Word(a) /\ x \in Addr
      BY <1>2, <1>4, <2>1, SymbolFacts DEF PeekWord
    <3>2. At(tab, x) = IF \E i \in DOMAIN tab : tab[i].addr = a THEN {a} ELSE {}
      BY <3>1, AtWord
    <3>3. Older(new, 1) = {} <=> ~ \E i \in DOMAIN tab : tab[i].addr = a
      <4>1. ASSUME NEW j \in Older(new, 1) PROVE \E i \in DOMAIN tab : tab[i].addr = a
        <5>1. j \in DOMAIN new \ {1} /\ new[j].addr = a
          BY <1>2, <1>4 DEF Older
        <5> QED BY <1>5, <5>1
      <4>2. ASSUME NEW i \in DOMAIN tab, tab[i].addr = a PROVE i + 1 \in Older(new, 1)
        <5>1. i + 1 \in DOMAIN new /\ new[i + 1].addr = a /\ i + 1 > 1
          BY <1>3, <1>6, <4>2
        <5> QED BY <1>2, <1>4, <5>1 DEF Older
      <4> QED BY <4>1, <4>2
    <3>4. BrkWord(a)[x] = IF x = a THEN "int3" ELSE "zero"
      BY <3>1 DEF BrkWord
    <3>5. t[x] = IF At(tab, x) = {} THEN "orig"
                 ELSE IF x \in At(tab, x) THEN "int3" ELSE "zero"
      BY <3>1 DEF Shows
    <3> QED BY <1>2, <1>4, <2>1, <3>1, <3>2, <3>3, <3>4, <3>5
  <2>2. CASE k # 1
    <3>1. k - 1 \in DOMAIN tab /\ new[k] = tab[k - 1] /\ (k - 1) + 1 = k
      BY <1>2, <1>3, <1>5, <2>2
    <3>2. Older(new, k) = {} <=> Older(tab, k - 1) = {}
      <4>1. ASSUME NEW j \in Older(new, k) PROVE j - 1 \in Older(tab, k - 1)
        <5>1. j \in DOMAIN new /\ j > k /\ new[j].addr = new[k].addr
          BY DEF Older
        <5>2. j - 1 \in DOMAIN tab /\ new[j] = tab[j - 1] /\ j - 1 > k - 1
          BY <1>2, <1>3, <1>5, <2>2, <5>1
        <5> QED BY <3>1, <5>1, <5>2 DEF Older
      <4>2. ASSUME NEW j \in Older(tab, k - 1) PROVE j + 1 \in Older(new, k)
        <5>1. j \in DOMAIN tab /\ j > k - 1 /\ tab[j].addr = tab[k - 1].addr
          BY DEF Older
        <5>2. j + 1 \in DOMAIN new /\ new[j + 1] = tab[j] /\ j + 1 > k
          BY <1>2, <1>3, <1>6, <5>1
        <5> QED BY <3>1, <5>1, <5>2 DEF Older
      <4> QED BY <4>1, <4>2
    <3> QED BY <3>1, <3>2 DEF Undone
  <2> QED BY <2>1, <2>2
<1>8. Shows(u, new)
  <2> SUFFICES ASSUME NEW x \in Addr
               PROVE  u[x] = IF At(new, x) = {} THEN "orig"
                             ELSE IF x \in At(new, x) THEN "int3" ELSE "zero"
    BY DEF Shows
  <2>1. CASE x \notin Word(a)
    <3>1. u[x] = t[x]
      BY <2>1, PokeAway DEF Typed
    <3>2. At(new, x) = At(tab, x)
      <4>1. ASSUME NEW b \in At(tab, x) PROVE b \in At(new, x)
        BY <1>6, <4>1 DEF At
      <4>2. ASSUME NEW b \in At(new, x) PROVE b \in At(tab, x)
        <5>1. PICK k \in DOMAIN new : new[k].addr = b
          BY DEF At
        <5>2. k # 1 /\ x \in Word(b)
          BY <1>2, <1>4, <2>1, <4>2, <5>1 DEF At
        <5> QED BY <1>5, <5>1, <5>2 DEF At
      <4> QED BY <4>1, <4>2
    <3> QED BY <3>1, <3>2 DEF Shows
  <2>2. CASE x \in Word(a)
    <3>1. u[x] = BrkWord(a)[x] /\ BrkWord(a)[x] = IF x = a THEN "int3" ELSE "zero"
      BY <2>2, PokeHere DEF BrkWord
    <3>2. At(new, x) = {a}
      <4>1. a \in At(new, x)
        BY <1>2, <1>3, <1>4, <2>2 DEF At
      <4>2. ASSUME NEW b \in At(new, x) PROVE b = a
        <5>1. PICK k \in DOMAIN new : new[k].addr = b /\ x \in Word(b)
          BY DEF At
        <5>2. CASE k = 1
          BY <1>2, <1>4, <5>1, <5>2
        <5>3. CASE k # 1
          <6>1. k - 1 \in DOMAIN tab /\ tab[k - 1].addr = b
            BY <1>5, <5>1, <5>3
          <6> QED BY <2>2, <5>1, <6>1, EntryFacts, OneWord
        <5> QED BY <5>2, <5>3
      <4> QED BY <4>1, <4>2
    <3> QED BY <3>1, <3>2
  <2> QED BY <2>1, <2>2
<1> QED BY <1>7, <1>8 DEF new, e

LEMMA InitMInv == Init => MInv
<1> SUFFICES ASSUME Init PROVE MInv
  OBVIOUS
<1>1. DOMAIN brptab = {} /\ text = [x \in Addr |-> "orig"]
  BY DEF Init, TraceeInit
<1> QED BY <1>1, InitTypeInv DEF MInv, Shows, At, Undone

LEMMA LookMInv ==
  ASSUME Spaced, MInv, TypeInv', Stopped, NEW t, NEW tab, Typed(t, tab),
         doubled' = doubled, ~doubled => Shows(t, tab) /\ Undone(tab), LoopTop(t, tab)
  PROVE  MInv'
<1>1. ~doubled => Shows(text', brptab') /\ Undone(brptab')
  BY LoopTopShows
<1> QED BY <1>1 DEF MInv, Shows, At, Undone, Older, BrkWord, Word

LEMMA NextMInv == ASSUME Spaced, MInv, [Next]_vars PROVE MInv'
<1>0. /\ TypeInv /\ TypeInv' /\ Typed(text, brptab)
      /\ dbg = "prompt" => Stopped /\ child = "held"
  BY NextTypeInv DEF MInv, TypeInv, TypeOK, Typed, Held, Stopped
<1>1. CASE Child \/ Terminate \/ Kill \/ Go("step") \/ Go("cont") \/ UNCHANGED vars
  <2>1. /\ UNCHANGED <<text, brptab, doubled>>
        /\ child = "killed" => child' = "killed"
    BY <1>1 DEF Child, TraceeStep, Execute, Exit, Trap, Fault, RunWild, Terminate,
                Kill, Go, Resume, Stopped, vars, traceeVars
  <2>2. ~doubled => Undone(brptab)'
    BY <2>1 DEF MInv, Undone, Older, BrkWord, Word
  <2>3. ASSUME ~doubled, child' # "killed" PROVE Shows(text, brptab)'
    <3>1. Shows(text, brptab)
      BY <2>1, <2>3 DEF MInv
    <3> QED BY <2>1, <3>1 DEF Shows, At, Word
  <2> QED BY <1>0, <2>1, <2>2, <2>3 DEF MInv
<1>2. CASE Stop
  <2>1. Stopped /\ child # "killed" /\ LoopTop(text, brptab) /\ doubled' = doubled
    BY <1>2 DEF Stop, Stopped
  <2> QED BY <1>0, <2>1, LookMInv DEF MInv
<1>3. CASE Other
  <2>1. Stopped /\ child # "killed" /\ LoopTop(text, brptab) /\ doubled' = doubled
    BY <1>0, <1>3 DEF Other
  <2> QED BY <1>0, <2>1, LookMInv DEF MInv
<1>4. ASSUME NEW a \in Symbols, Break(a) PROVE MInv'
  <2>1. Stopped /\ child # "killed"
    BY <1>0, <1>4 DEF Break
  <2>2. CASE doubled' = doubled /\ LoopTop(Poked(a), Put(a))
    <3>1. Typed(Poked(a), Put(a))
      BY <1>0, PushTyped DEF Put, Poked
    <3>2. ASSUME ~doubled PROVE Shows(Poked(a), Put(a)) /\ Undone(Put(a))
      <4>1. Shows(text, brptab) /\ Undone(brptab)
        BY <2>1, <3>2 DEF MInv
      <4> QED BY <1>0, <2>1, <4>1, PushShows DEF Put, Poked
    <3> QED BY <1>0, <2>1, <2>2, <3>1, <3>2, LookMInv
  <2>3. CASE doubled' = TRUE
    BY <1>0, <2>3 DEF MInv
  <2> QED BY <1>0, <1>4, <2>2, <2>3, BreakCases
<1> QED BY <1>1, <1>2, <1>3, <1>4 DEF Next, User, Terminated

LEMMA SpecMInv == ASSUME Spaced PROVE Spec => []MInv
<1>1. MInv /\ [Next]_vars => MInv'
  BY NextMInv
<1> QED BY <1>1, InitMInv, PTL DEF Spec

(* Until the buckets are first doubled (which takes Capacity breakpoints   *)
(* at a time, see DoublesAtCapacity) the text is what the table says,      *)
(* whatever was set, set twice, hit, or taken for a hit by a key that      *)
(* collides (case BREAK and the top of the loop in mdb.c).                 *)
THEOREM MdbTextShowsTable == ASSUME Spaced PROVE Spec => []TextShowsTable
<1>1. MInv => TextShowsTable
  BY DEF MInv, Shows, At, TextShowsTable, Armed
<1> QED BY <1>1, SpecMInv, PTL

(* Until the buckets are first doubled, of the entries at one symbol the   *)
(* oldest alone holds the program's word, and is given back last.          *)
THEOREM MdbUndoneInOrder == ASSUME Spaced PROVE Spec => []UndoneInOrder
<1>1. MInv => UndoneInOrder
  BY DEF MInv, Undone, Older, UndoneInOrder
<1> QED BY <1>1, SpecMInv, PTL

(* With fewer breakpoints than the capacity of a bucket it is never        *)
(* doubled: what the two theorems say then holds for the whole session.    *)
THEOREM DoublesAtCapacity ==
  ASSUME MaxBrkpts < Capacity PROVE Spec => [](~doubled)
<1>1. Init => ~doubled
  BY DEF Init
<1>2. TypeInv /\ ~doubled /\ [Next]_vars => ~doubled'
  <2> SUFFICES ASSUME TypeInv, ~doubled, [Next]_vars PROVE ~doubled'
    OBVIOUS
  <2>1. ASSUME NEW a \in Symbols, Break(a) PROVE ~doubled'
    <3>1. PICK double \in BOOLEAN :
            /\ double => Len(Put(a)) >= Capacity
            /\ doubled' = (doubled \/ double)
      BY <2>1 DEF Break, Put
    <3>2. Len(Put(a)) = Len(brptab) + 1 /\ Len(brptab) < MaxBrkpts /\ Len(brptab) \in Nat
      <4>1. brptab \in Seq(Entry) /\ Len(brptab) < MaxBrkpts
        BY <2>1 DEF Break, TypeInv, TypeOK
      <4>2. Len(<<[addr |-> a, opc |-> PeekWord(text, a)]>>) = 1
        OBVIOUS
      <4> QED BY <4>1, <4>2 DEF Put
    <3>3. Len(brptab) + 1 < Capacity
      BY <3>2, SymbolsAssumption
    <3>4. ~ (Len(Put(a)) >= Capacity)
      BY <3>2, <3>3, SymbolsAssumption
    <3>5. ~double
      BY <3>1, <3>4
    <3> QED BY <3>1, <3>5
  <2> QED BY <2>1 DEF Next, User, Child, Stop, Terminate, Go, Other, Kill, Terminated, vars
<1> QED BY <1>1, <1>2, SpecTypeInv, PTL DEF Spec
=============================================================================
