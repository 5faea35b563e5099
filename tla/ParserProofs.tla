----------------------------- MODULE ParserProofs -----------------------------
(***************************************************************************)
(* What the two parsers of the session make of their inputs.  LineTables   *)
(* is right for every dump: the types, and the two facts about the tables  *)
(* that the ptrace debugger lives on.  Of ValgrindReport, for every text,  *)
(* whole or spoilt: parse makes nothing up, and never spins on a line; and *)
(* for a whole report: all of it is read, and the verdict is the right one.*)
(***************************************************************************)
EXTENDS LineTables, ValgrindReport, Induction

-----------------------------------------------------------------------------
(* The line tables.                                                        *)

(* objectDump is cut out of a well-formed file: no mark is its last line.  *)
DumpOK ==
  /\ objectDump \in Seq(DumpLine)
  /\ \A p \in DOMAIN objectDump :
       objectDump[p].kind = "mark" =>
         p < Len(objectDump) /\ objectDump[p + 1].kind = "instr"
  /\ \A p, q \in DOMAIN objectDump :
       /\ objectDump[p].kind = "instr" /\ objectDump[q].kind = "instr"
       /\ objectDump[p].addr = objectDump[q].addr
       => p = q
  /\ \A p \in 1 .. Len(objectDump) - 1 :
       \E i \in 1 .. Len(file) - 1 :
         file[i] = objectDump[p] /\ file[i + 1] = objectDump[p + 1]

(* The instructions read so far, all different. *)
InstrsRead ==
  /\ \A k \in DOMAIN mainFunct :
       \E p \in DOMAIN objectDump :
         p <= incre /\ objectDump[p].kind = "instr" /\ objectDump[p].addr = mainFunct[k]
  /\ \A k, l \in DOMAIN mainFunct : mainFunct[k] = mainFunct[l] => k = l

(* The marks read so far, each in front of its instruction or just read.   *)
MarkOf(j, p) ==
  /\ p <= incre /\ objectDump[p].kind = "mark" /\ objectDump[p].line = linenumber[j]
  /\ indices[j] < Len(mainFunct) => objectDump[p + 1].addr = mainFunct[indices[j] + 1]
  /\ indices[j] >= Len(mainFunct) => p = incre

MarksRead ==
  /\ Len(indices) = Len(linenumber)
  /\ \A j, k \in DOMAIN indices : j < k => indices[j] < indices[k]
  /\ \A j \in DOMAIN indices : indices[j] <= Len(mainFunct)
  /\ \A j \in DOMAIN indices : \E p \in DOMAIN objectDump : MarkOf(j, p)

(* Every mark has its instruction. *)
AllBlocks == \A j \in DOMAIN indices : indices[j] < Len(mainFunct)

First(j) == mainFunct[indices[j] + 1]

IsBlock(b, j) ==
  b.lineNum = linenumber[j] /\ b.assembly # << >> /\ Head(b.assembly) = First(j)

Assembled ==
  /\ Len(x86_code) <= Len(indices)
  /\ \A i \in DOMAIN x86_code : IsBlock(x86_code[i], i)

(* d blocks are in the tables (or left out), the others still in x86_code. *)
FilledTo(d) ==
  /\ d + Len(x86_code) <= Len(indices)
  /\ \A i \in DOMAIN x86_code : IsBlock(x86_code[i], d + i)
  /\ \A a \in DOMAIN addr_to_line : \E j \in 1 .. d : a = First(j)

Filled == \E d \in Nat : FilledTo(d)

Untouched == line_to_addr = << >> /\ addr_to_line = << >>

IInv ==
  /\ TypeOK /\ file \in Files
  /\ DumpOK /\ InstrsRead /\ MarksRead
  /\ pc = "open" => mainFunct = << >> /\ indices = << >>
  /\ fileloc # "none" \/ pc = "assem" => indices # << >>
  /\ pc \in {"open", "split"} => x86_code = << >>
  /\ pc \in {"open", "split", "assem"} => Untouched
  /\ pc \in {"assem", "fill"} => AllBlocks
  /\ pc = "assem" => Assembled
  /\ pc = "fill" => Filled
  /\ RoundTrip /\ EntriesAreStarts

-----------------------------------------------------------------------------
(* The fields of a dump line. *)
LEMMA LineFields ==
  ASSUME NEW l \in DumpLine
  PROVE  /\ l.kind \in {"label", "blank", "name", "instr", "mark"}
         /\ l.kind = "mark" => l.line \in Nat
         /\ l.kind = "instr" => l.addr \in Nat
BY DEF DumpLine

(* Different blocks start with different instructions. *)
LEMMA FirstsDiffer ==
  ASSUME TypeOK, InstrsRead, MarksRead, AllBlocks,
         NEW j \in DOMAIN indices, NEW k \in DOMAIN indices, First(j) = First(k)
  PROVE  j = k
<1>0. mainFunct \in Seq(Nat) /\ indices \in Seq(Nat)
  BY DEF TypeOK
<1>a. /\ DOMAIN mainFunct = 1 .. Len(mainFunct) /\ DOMAIN indices = 1 .. Len(indices)
      /\ Len(mainFunct) \in Nat /\ Len(indices) \in Nat
      /\ indices[j] \in Nat /\ indices[k] \in Nat
  BY <1>0
<1>1. indices[j] + 1 \in DOMAIN mainFunct /\ indices[k] + 1 \in DOMAIN mainFunct
  BY <1>a DEF AllBlocks
<1>2. indices[j] = indices[k]
  BY <1>a, <1>1 DEF InstrsRead, First
<1> QED
  BY <1>a, <1>2 DEF MarksRead

(* The first instruction of a block stands behind its mark in the file.    *)
LEMMA FirstIsStart ==
  ASSUME TypeOK, DumpOK, MarksRead, AllBlocks, NEW j \in DOMAIN indices
  PROVE  \E i \in 1 .. Len(file) - 1 :
           /\ file[i].kind = "mark" /\ file[i].line = linenumber[j]
           /\ file[i + 1].kind = "instr" /\ file[i + 1].addr = First(j)
<1>1. PICK p \in DOMAIN objectDump : MarkOf(j, p)
  BY DEF MarksRead
<1>2. p < Len(objectDump) /\ objectDump[p + 1].kind = "instr"
  BY <1>1 DEF MarkOf, DumpOK
<1>3. p \in 1 .. Len(objectDump) - 1
  BY <1>2 DEF DumpOK
<1>4. PICK i \in 1 .. Len(file) - 1 :
        file[i] = objectDump[p] /\ file[i + 1] = objectDump[p + 1]
  BY <1>3 DEF DumpOK
<1> QED
  BY <1>1, <1>2, <1>4 DEF MarkOf, AllBlocks, First

(* What getObjDump cuts out. *)
LEMMA CutOK ==
  ASSUME FilesAssumption, file \in Files,
         NEW a \in DOMAIN file, NEW b \in a .. Len(file), IsMain(a, b),
         objectDump' = SubSeq(file, a, b), file' = file
  PROVE  DumpOK'
<1>1. file \in Seq(DumpLine) /\ WellFormed(file)
  BY DEF FilesAssumption
<1>2. PICK n \in Nat :
      /\ a \in Nat /\ b \in Nat /\ n = b - a + 1 /\ DOMAIN file = 1 .. Len(file)
      /\ Len(file) \in Nat /\ b <= Len(file) /\ DOMAIN objectDump' = 1 .. n
      /\ objectDump' \in Seq(DumpLine) /\ Len(objectDump') = n
      /\ \A p \in 1 .. n : objectDump'[p] = file[a + p - 1] /\ a + p - 1 \in DOMAIN file
  <2>1. a \in 1 .. Len(file) /\ b \in a .. Len(file) /\ Len(file) \in Nat
    BY <1>1
  <2>2. b - a + 1 \in Nat
    BY <2>1
  <2> QED
    BY <1>1, <2>1, <2>2, SMTT(30)
<1>3. ASSUME NEW p \in 1 .. n, objectDump'[p].kind = "mark"
      PROVE  p < n /\ objectDump'[p + 1].kind = "instr"
  <2>1. a + p - 1 < Len(file) /\ file[a + p - 1 + 1].kind = "instr"
    <3>1. a + p - 1 \in DOMAIN file /\ file[a + p - 1].kind = "mark"
      BY <1>2, <1>3
    <3> QED
      BY <1>1, <3>1 DEF WellFormed
  <2>2. p # n
    <3>1. SUFFICES ASSUME p = n PROVE FALSE
      OBVIOUS
    <3>2. b < Len(file) /\ file[b + 1].kind = "instr"
      <4>1. a + p - 1 = b
        BY <1>2, <3>1
      <4> QED
        BY <2>1, <4>1
    <3> QED
      BY <3>2 DEF IsMain
  <2>3. p + 1 \in 1 .. n /\ a + (p + 1) - 1 = a + p - 1 + 1
    BY <1>2, <2>2
  <2> QED
    BY <1>2, <2>1, <2>3, SMTT(30)
<1>4. ASSUME NEW p \in 1 .. n, NEW q \in 1 .. n,
             objectDump'[p].kind = "instr", objectDump'[q].kind = "instr",
             objectDump'[p].addr = objectDump'[q].addr
      PROVE  p = q
  <2>1. a + p - 1 = a + q - 1
    BY <1>1, <1>2, <1>4, SMTT(30) DEF WellFormed
  <2> QED
    BY <1>2, <2>1
<1>5. ASSUME NEW p \in 1 .. n - 1
      PROVE  \E i \in 1 .. Len(file) - 1 :
               file[i] = objectDump'[p] /\ file[i + 1] = objectDump'[p + 1]
  <2>0. /\ p \in 1 .. n /\ p + 1 \in 1 .. n
        /\ a + (p + 1) - 1 = a + p - 1 + 1 /\ DOMAIN file = 1 .. Len(file)
        /\ Len(file) \in Nat /\ a \in Nat
    BY <1>1, <1>2
  <2>a. a + p - 1 \in 1 .. Len(file) - 1
    <3>1. p \in Int /\ 1 <= p /\ p <= n - 1 /\ 1 <= a
      BY <1>2
    <3> HIDE DEF DumpOK
    <3> QED
      BY <1>2, <3>1
  <2>1. /\ a + p - 1 \in 1 .. Len(file) - 1
        /\ file[a + p - 1] = objectDump'[p] /\ file[a + p - 1 + 1] = objectDump'[p + 1]
    BY <1>2, <2>0, <2>a
  <2> QED
    BY <2>1
<1> QED
  BY <1>2, <1>3, <1>4, <1>5 DEF DumpOK

-----------------------------------------------------------------------------
LEMMA InitIInv ==
  ASSUME FilesAssumption, Init
  PROVE  IInv
<1>1. TypeOK
  BY DEF Init, TypeOK, FilesAssumption
<1>2. DumpOK /\ InstrsRead /\ MarksRead
  BY DEF Init, DumpOK, InstrsRead, MarksRead
<1> QED
  BY <1>1, <1>2 DEF Init, IInv, Untouched, RoundTrip, EntriesAreStarts

(* The actions that only move pc.                                          *)
LEMMA MoveStep ==
  ASSUME IInv, pc \in {"open", "split", "assem", "fill"},
         pc' \in {"failed", "crashed", "done"},
         UNCHANGED <<input, incre, lists, x86_code, tables>>
  PROVE  IInv'
<1> USE DEF input, lists, tables
<1>1. TypeOK' /\ file' \in Files
  BY DEF IInv, TypeOK
<1>2. DumpOK' /\ InstrsRead' /\ MarksRead'
  BY DEF IInv, DumpOK, InstrsRead, MarksRead, MarkOf
<1>3. RoundTrip' /\ EntriesAreStarts'
  BY DEF IInv, RoundTrip, EntriesAreStarts
<1> QED
  BY <1>1, <1>2, <1>3 DEF IInv

LEMMA GetObjDumpStep ==
  ASSUME FilesAssumption, IInv, getObjDump
  PROVE  IInv'
<1> USE DEF input, lists, tables
<1>1. PICK a \in DOMAIN file : \E b \in a .. Len(file) :
        IsMain(a, b) /\ objectDump' = SubSeq(file, a, b)
  BY DEF getObjDump
<1>2. TypeOK' /\ file' \in Files
  BY DEF IInv, getObjDump, TypeOK
<1>3. DumpOK'
  BY <1>1, CutOK DEF IInv, getObjDump
<1>4. InstrsRead' /\ MarksRead'
  BY DEF IInv, getObjDump, InstrsRead, MarksRead
<1>5. RoundTrip' /\ EntriesAreStarts' /\ Untouched'
  BY DEF IInv, getObjDump, Untouched, RoundTrip, EntriesAreStarts
<1> QED
  BY <1>2, <1>3, <1>4, <1>5 DEF IInv, getObjDump

(* The types that the steps of the loop use. *)
LEMMA LoopTypes ==
  ASSUME IInv, More
  PROVE  /\ incre \in Nat /\ incre + 1 \in DOMAIN objectDump /\ Line \in DumpLine
         /\ DOMAIN objectDump = 1 .. Len(objectDump) /\ Len(objectDump) \in Nat
         /\ mainFunct \in Seq(Nat) /\ Len(mainFunct) \in Nat
         /\ DOMAIN mainFunct = 1 .. Len(mainFunct)
         /\ indices \in Seq(Nat) /\ DOMAIN indices = 1 .. Len(indices) /\ Len(indices) \in Nat
         /\ linenumber \in Seq(Nat) /\ Len(linenumber) = Len(indices)
<1>1. /\ incre \in Nat /\ mainFunct \in Seq(Nat) /\ indices \in Seq(Nat)
      /\ linenumber \in Seq(Nat) /\ Len(indices) = Len(linenumber)
      /\ objectDump \in Seq(DumpLine)
  BY DEF IInv, TypeOK, DumpOK
<1>2. incre < Len(objectDump)
  BY DEF More
<1> QED
  BY <1>1, <1>2 DEF Line

LEMMA SplitInstrStep ==
  ASSUME IInv, SplitInstr
  PROVE  IInv'
<1> USE DEF input, lists, tables
<1>0. More /\ pc = "split" /\ pc' = pc
  BY DEF SplitInstr, More
<1>1. Line \in DumpLine /\ Line.kind = "instr" /\ Line.addr \in Nat
  BY <1>0, LoopTypes, LineFields DEF SplitInstr
<1>2. TypeOK' /\ file' \in Files
  <2>1. mainFunct' \in Seq(Nat) /\ incre' \in Nat
    BY <1>0, <1>1, LoopTypes DEF SplitInstr
  <2> QED
    BY <2>1 DEF IInv, SplitInstr, TypeOK
<1>3. DumpOK'
  BY DEF IInv, SplitInstr, DumpOK
<1> DEFINE n == Len(mainFunct)
<1>4. /\ n \in Nat /\ DOMAIN mainFunct = 1 .. n /\ DOMAIN mainFunct' = 1 .. n + 1
      /\ \A k \in 1 .. n : mainFunct'[k] = mainFunct[k]
      /\ mainFunct'[n + 1] = Line.addr /\ Len(mainFunct') = n + 1
      /\ incre \in Nat /\ incre' = incre + 1 /\ objectDump' = objectDump
      /\ incre + 1 \in DOMAIN objectDump /\ objectDump[incre + 1] = Line
      /\ \A p \in DOMAIN objectDump : p \in Nat
  BY <1>0, <1>1, LoopTypes DEF SplitInstr, Line
<1> HIDE DEF n
<1>5. \A k \in 1 .. n : \E p \in DOMAIN objectDump :
        p <= incre /\ objectDump[p].kind = "instr" /\ objectDump[p].addr = mainFunct[k]
  BY <1>4 DEF IInv, InstrsRead
<1>6. \A k \in 1 .. n : mainFunct[k] # Line.addr
  <2>1. SUFFICES ASSUME NEW k \in 1 .. n, mainFunct[k] = Line.addr PROVE FALSE
    OBVIOUS
  <2>2. PICK p \in DOMAIN objectDump :
          p <= incre /\ objectDump[p].kind = "instr" /\ objectDump[p].addr = mainFunct[k]
    BY <1>5
  <2>3. p = incre + 1
    BY <1>1, <1>4, <2>1, <2>2 DEF IInv, DumpOK
  <2> QED
    BY <1>4, <2>2, <2>3
<1>7. InstrsRead'
  <2>1. \A k \in 1 .. n + 1 : \E p \in DOMAIN objectDump :
          p <= incre + 1 /\ objectDump[p].kind = "instr" /\ objectDump[p].addr = mainFunct'[k]
    <3>1. ASSUME NEW k \in 1 .. n
          PROVE \E p \in DOMAIN objectDump :
            p <= incre + 1 /\ objectDump[p].kind = "instr" /\ objectDump[p].addr = mainFunct'[k]
      <4>1. PICK p \in DOMAIN objectDump :
              p <= incre /\ objectDump[p].kind = "instr" /\ objectDump[p].addr = mainFunct[k]
        BY <1>5
      <4>2. p \in Nat
        BY <1>0, LoopTypes
      <4> QED
        BY <1>4, <4>1, <4>2
    <3> QED
      BY <1>1, <1>4, <3>1
  <2>2. \A k, l \in 1 .. n + 1 : mainFunct'[k] = mainFunct'[l] => k = l
    <3>1. \A k, l \in 1 .. n : mainFunct[k] = mainFunct[l] => k = l
      BY <1>4 DEF IInv, InstrsRead
    <3>2. ASSUME NEW k \in 1 .. n + 1, NEW l \in 1 .. n + 1, mainFunct'[k] = mainFunct'[l]
          PROVE  k = l
      <4>1. (k \in 1 .. n \/ k = n + 1) /\ (l \in 1 .. n \/ l = n + 1)
        BY <1>4
      <4> QED
        BY <1>4, <1>6, <3>1, <3>2, <4>1
    <3> QED
      BY <3>2
  <2> QED
    BY <1>4, <2>1, <2>2 DEF InstrsRead
<1>8. MarksRead'
  <2>1. /\ indices' = indices /\ linenumber' = linenumber /\ DOMAIN indices = 1 .. Len(indices)
        /\ \A j \in DOMAIN indices : indices[j] \in Nat /\ indices[j] <= n
    BY <1>0, LoopTypes DEF SplitInstr, IInv, MarksRead, n
  <2>2. ASSUME NEW j \in DOMAIN indices
        PROVE  \E p \in DOMAIN objectDump : MarkOf(j, p)'
    <3>1. PICK p \in DOMAIN objectDump : MarkOf(j, p)
      BY DEF IInv, MarksRead
    <3>2. p \in Nat /\ p <= incre /\ p <= incre + 1
      BY <1>4, <3>1 DEF MarkOf
    <3>3. CASE indices[j] < n
      <4>1. mainFunct'[indices[j] + 1] = mainFunct[indices[j] + 1]
        BY <1>4, <2>1, <3>3
      <4>2. indices'[j] < Len(mainFunct')
        BY <1>4, <2>1, <3>3
      <4> QED
        BY <1>4, <2>1, <3>1, <3>2, <3>3, <4>1, <4>2 DEF MarkOf, n
    <3>4. CASE indices[j] = n
      <4>1. p = incre
        BY <1>4, <3>1, <3>4 DEF MarkOf, n
      <4> QED
        BY <1>4, <2>1, <3>1, <3>2, <3>4, <4>1 DEF MarkOf, n
    <3> QED
      BY <1>4, <2>1, <3>3, <3>4
  <2> QED
    BY <1>4, <2>1, <2>2 DEF IInv, MarksRead
<1>9. RoundTrip' /\ EntriesAreStarts' /\ Untouched'
  BY <1>0 DEF IInv, SplitInstr, Untouched, RoundTrip, EntriesAreStarts
<1> QED
  BY <1>0, <1>2, <1>3, <1>7, <1>8, <1>9 DEF IInv, SplitInstr

(* The lists of marks have one more; the marks before have their instruction. *)
LEMMA SplitMarkStep ==
  ASSUME IInv, SplitMark
  PROVE  IInv'
<1> USE DEF input, lists, tables
<1>0. More /\ pc = "split" /\ pc' = pc
  BY DEF SplitMark, More
<1>1. Line \in DumpLine /\ Line.kind = "mark" /\ Line.line \in Nat
  BY <1>0, LoopTypes, LineFields DEF SplitMark
<1>2. TypeOK' /\ file' \in Files
  <2>1. /\ indices' \in Seq(Nat) /\ linenumber' \in Seq(Nat) /\ incre' \in Nat
        /\ Len(indices') = Len(linenumber')
    BY <1>0, <1>1, LoopTypes DEF SplitMark
  <2> QED
    BY <2>1 DEF IInv, SplitMark, TypeOK
<1>3. DumpOK'
  BY DEF IInv, SplitMark, DumpOK
<1>4. InstrsRead'
  <2>1. incre \in Nat /\ incre' = incre + 1 /\ objectDump' = objectDump /\ mainFunct' = mainFunct
    BY <1>0, LoopTypes DEF SplitMark
  <2>2. \A p \in DOMAIN objectDump : p <= incre => p <= incre + 1
    BY <1>0, LoopTypes
  <2> QED
    BY <2>1, <2>2 DEF IInv, InstrsRead
<1>a. /\ Len(indices) \in Nat /\ incre + 1 \in Nat
      /\ DOMAIN indices = 1 .. Len(indices) /\ DOMAIN indices' = 1 .. Len(indices) + 1
      /\ \A j \in 1 .. Len(indices) :
           /\ indices'[j] = indices[j] /\ linenumber'[j] = linenumber[j]
           /\ indices[j] \in Nat
      /\ indices'[Len(indices) + 1] = Len(mainFunct)
      /\ linenumber'[Len(indices) + 1] = Line.line
      /\ Len(linenumber') = Len(indices) + 1 /\ Len(indices') = Len(indices) + 1
      /\ Len(mainFunct) \in Nat /\ mainFunct' = mainFunct
      /\ \A p \in DOMAIN objectDump : p \in Nat
  <2>1. /\ indices \in Seq(Nat) /\ linenumber \in Seq(Nat) /\ mainFunct \in Seq(Nat)
        /\ Len(linenumber) = Len(indices) /\ incre \in Nat
        /\ \A p \in DOMAIN objectDump : p \in Nat
    BY <1>0, LoopTypes
  <2>2. /\ indices' = Append(indices, Len(mainFunct))
        /\ linenumber' = Append(linenumber, Line.line) /\ mainFunct' = mainFunct
    BY DEF SplitMark
  <2>3. /\ DOMAIN indices = 1 .. Len(indices) /\ Len(indices) \in Nat
        /\ Len(mainFunct) \in Nat
    BY <2>1
  <2>4. \A j \in 1 .. Len(indices) : /\ indices'[j] = indices[j] /\ indices[j] \in Nat
                                      /\ linenumber'[j] = linenumber[j]
    BY <1>1, <2>1, <2>2, <2>3
  <2>5. /\ DOMAIN indices' = 1 .. Len(indices) + 1
        /\ indices'[Len(indices) + 1] = Len(mainFunct) /\ Len(indices') = Len(indices) + 1
    BY <2>1, <2>2, <2>3
  <2>6. /\ linenumber'[Len(indices) + 1] = Line.line
        /\ Len(linenumber') = Len(indices) + 1
    BY <1>1, <2>1, <2>2, <2>3
  <2> QED
    BY <2>1, <2>2, <2>3, <2>4, <2>5, <2>6
<1>5. PICK m \in Nat, q \in Nat :
      /\ m = Len(indices) /\ q = incre + 1 /\ DOMAIN indices = 1 .. m /\ DOMAIN indices' = 1 .. m + 1
      /\ \A j \in 1 .. m : /\ indices'[j] = indices[j] /\ linenumber'[j] = linenumber[j]
                           /\ indices[j] \in Nat
      /\ indices'[m + 1] = Len(mainFunct) /\ linenumber'[m + 1] = Line.line
      /\ Len(linenumber') = m + 1 /\ Len(indices') = m + 1
      /\ Len(mainFunct) \in Nat /\ mainFunct' = mainFunct
      /\ incre \in Nat /\ incre' = incre + 1 /\ objectDump' = objectDump
      /\ q \in DOMAIN objectDump /\ objectDump[q] = Line
      /\ \A p \in DOMAIN objectDump : p \in Nat
  BY <1>0, <1>1, <1>a, LoopTypes DEF SplitMark, Line
<1>6. \A j \in 1 .. m : indices[j] < Len(mainFunct)
  <2>1. SUFFICES ASSUME NEW j \in 1 .. m, indices[j] >= Len(mainFunct) PROVE FALSE
    BY <1>5
  <2>2. PICK p \in DOMAIN objectDump : MarkOf(j, p)
    BY <1>5 DEF IInv, MarksRead
  <2>3. p = incre /\ objectDump[p].kind = "mark"
    BY <2>1, <2>2 DEF MarkOf
  <2>4. Line.kind = "instr"
    BY <1>5, <2>3 DEF IInv, DumpOK
  <2> QED
    BY <1>1, <2>4
<1>7. MarksRead'
  <2>1. ASSUME NEW j \in 1 .. m
        PROVE  \E p \in DOMAIN objectDump : MarkOf(j, p)'
    <3>1. PICK p \in DOMAIN objectDump : MarkOf(j, p)
      BY <1>5 DEF IInv, MarksRead
    <3>2. p \in Nat /\ p <= incre /\ p <= incre + 1
      BY <1>5, <3>1 DEF MarkOf
    <3> QED
      BY <1>5, <1>6, <3>1, <3>2 DEF MarkOf
  <2>2. MarkOf(m + 1, q)'
    BY <1>1, <1>5 DEF MarkOf
  <2>3. \A j \in 1 .. m + 1 : \E p \in DOMAIN objectDump' : MarkOf(j, p)'
    <3>1. ASSUME NEW j \in 1 .. m + 1
          PROVE  \E p \in DOMAIN objectDump' : MarkOf(j, p)'
      <4>1. j \in 1 .. m \/ j = m + 1
        BY <1>5
      <4> QED
        BY <1>5, <2>1, <2>2, <4>1
    <3> QED
      BY <3>1
  <2>4. \A j, k \in 1 .. m + 1 : j < k => indices'[j] < indices'[k]
    <3>1. \A j, k \in 1 .. m : j < k => indices[j] < indices[k]
      BY <1>5 DEF IInv, MarksRead
    <3>2. ASSUME NEW j \in 1 .. m + 1, NEW k \in 1 .. m + 1, j < k
          PROVE  indices'[j] < indices'[k]
      <4>1. j \in 1 .. m /\ (k \in 1 .. m \/ k = m + 1)
        BY <3>2
      <4> QED
        BY <1>5, <1>6, <3>1, <3>2, <4>1
    <3> QED
      BY <3>2
  <2>5. \A j \in 1 .. m + 1 : indices'[j] <= Len(mainFunct')
    BY <1>5, <1>6
  <2> QED
    BY <1>5, <2>3, <2>4, <2>5 DEF MarksRead
<1>8. RoundTrip' /\ EntriesAreStarts' /\ Untouched'
  BY <1>0 DEF IInv, SplitMark, Untouched, RoundTrip, EntriesAreStarts
<1> QED
  BY <1>0, <1>2, <1>3, <1>4, <1>7, <1>8 DEF IInv, SplitMark

(* The last line of main is no mark, so every mark has its instruction.    *)
LEMMA GetFileLinesStep ==
  ASSUME IInv, getFileLines
  PROVE  IInv'
<1> USE DEF input, lists, tables
<1>1. TypeOK' /\ file' \in Files
  BY DEF IInv, getFileLines, TypeOK
<1>2. DumpOK' /\ InstrsRead' /\ MarksRead'
  BY DEF IInv, getFileLines, DumpOK, InstrsRead, MarksRead, MarkOf
<1>3. AllBlocks
  <2>1. SUFFICES ASSUME NEW j \in DOMAIN indices, indices[j] >= Len(mainFunct) PROVE FALSE
    <3>1. indices \in Seq(Nat) /\ mainFunct \in Seq(Nat)
      BY DEF IInv, TypeOK
    <3> QED
      BY <3>1 DEF AllBlocks
  <2>2. PICK p \in DOMAIN objectDump : MarkOf(j, p)
    BY DEF IInv, MarksRead
  <2>3. p = incre /\ objectDump[p].kind = "mark"
    BY <2>1, <2>2 DEF MarkOf
  <2>4. incre < Len(objectDump)
    BY <2>3 DEF IInv, DumpOK
  <2>5. Len(objectDump) \in Nat /\ incre \in Nat
    BY DEF IInv, DumpOK, TypeOK
  <2> QED
    BY <2>4, <2>5 DEF getFileLines
<1>4. RoundTrip' /\ EntriesAreStarts' /\ Untouched' /\ AllBlocks'
  BY <1>3 DEF IInv, getFileLines, Untouched, RoundTrip, EntriesAreStarts, AllBlocks
<1>5. Assembled'
  BY DEF IInv, TypeOK, getFileLines, Assembled
<1> QED
  BY <1>1, <1>2, <1>4, <1>5 DEF IInv, getFileLines

(* A block of parseAssem starts with the instruction behind its mark.      *)
LEMMA ParseAssemStep ==
  ASSUME IInv, parseAssem
  PROVE  IInv'
<1> USE DEF input, lists, tables
<1> DEFINE i == Len(x86_code) + 1
           a == SubSeq(mainFunct, indices[i] + 1, BlockEnd(i))
           b == [lineNum |-> linenumber[i], assembly |-> a]
<1>1. /\ pc = "assem" /\ pc' \in {"assem", "crashed"}
      /\ i <= Len(indices) /\ x86_code' = Append(x86_code, b)
      /\ UNCHANGED <<input, incre, lists, tables>>
  BY DEF parseAssem
<1>2. /\ mainFunct \in Seq(Nat) /\ indices \in Seq(Nat) /\ linenumber \in Seq(Nat)
      /\ Len(linenumber) = Len(indices) /\ x86_code \in Seq(Block)
      /\ Len(x86_code) \in Nat /\ Len(indices) \in Nat /\ Len(mainFunct) \in Nat
  BY DEF IInv, TypeOK
<1>3. i \in DOMAIN indices /\ indices[i] \in Nat /\ linenumber[i] \in Nat
  BY <1>1, <1>2
<1>4. BlockEnd(i) \in Nat /\ indices[i] < BlockEnd(i) /\ BlockEnd(i) <= Len(mainFunct)
  <2>1. CASE i < Len(indices)
    <3>1. i + 1 \in DOMAIN indices /\ i < i + 1
      BY <1>2, <2>1
    <3>2. indices[i] < indices[i + 1] /\ indices[i + 1] <= Len(mainFunct)
      BY <1>3, <3>1 DEF IInv, MarksRead
    <3> QED
      BY <1>2, <2>1, <3>1, <3>2, SMTT(30) DEF BlockEnd
  <2>2. CASE i = Len(indices)
    BY <1>1, <1>2, <1>3, <2>2 DEF BlockEnd, IInv, AllBlocks
  <2> QED
    BY <1>1, <1>2, <2>1, <2>2
<1> HIDE DEF i
<1>5. a \in Seq(Nat) /\ a # << >> /\ Head(a) = First(i)
  <2>1. a \in Seq(Nat) /\ Len(a) = BlockEnd(i) - indices[i] /\ a[1] = mainFunct[indices[i] + 1]
    <3>1. \A k, l \in Nat : k < l /\ l <= Len(mainFunct) =>
            /\ SubSeq(mainFunct, k + 1, l) \in Seq(Nat)
            /\ Len(SubSeq(mainFunct, k + 1, l)) = l - k
            /\ SubSeq(mainFunct, k + 1, l)[1] = mainFunct[k + 1]
      BY <1>2
    <3> QED
      BY <1>3, <1>4, <3>1
  <2>2. Len(a) > 0
    BY <1>3, <1>4, <2>1
  <2> HIDE DEF a
  <2> QED
    BY <2>1, <2>2 DEF First
<1> HIDE DEF a
<1>6. b \in Block /\ IsBlock(b, i)
  BY <1>3, <1>5 DEF Block, IsBlock
<1> HIDE DEF b
<1>7. TypeOK' /\ file' \in Files
  <2>1. x86_code' \in Seq(Block)
    BY <1>1, <1>2, <1>6
  <2> QED
    BY <1>1, <2>1 DEF IInv, TypeOK
<1>8. DumpOK' /\ InstrsRead' /\ MarksRead' /\ AllBlocks'
  BY <1>1, SMTT(30) DEF IInv, DumpOK, InstrsRead, MarksRead, MarkOf, AllBlocks
<1>9. Assembled'
  <2>1. /\ DOMAIN x86_code' = 1 .. i /\ Len(x86_code') = i /\ x86_code'[i] = b
        /\ DOMAIN x86_code = 1 .. i - 1
        /\ \A k \in 1 .. i - 1 : x86_code'[k] = x86_code[k]
    BY <1>1, <1>2, <1>6 DEF i
  <2>2. i \in Nat
    BY <1>2 DEF i
  <2>3. \A k \in 1 .. i : IsBlock(x86_code'[k], k)
    <3>1. ASSUME NEW k \in 1 .. i PROVE IsBlock(x86_code'[k], k)
      <4>1. k \in 1 .. i - 1 \/ k = i
        BY <2>2
      <4> QED
        BY <1>1, <1>6, <2>1, <4>1 DEF IInv, Assembled
    <3> QED
      BY <3>1
  <2>4. \A k \in 1 .. i : IsBlock(x86_code[k], k)'
    BY <1>1, <2>3 DEF IsBlock, First
  <2> QED
    BY <1>1, <2>1, <2>4 DEF Assembled
<1>10. RoundTrip' /\ EntriesAreStarts' /\ Untouched'
  BY <1>1 DEF IInv, Untouched, RoundTrip, EntriesAreStarts
<1> QED
  BY <1>1, <1>7, <1>8, <1>9, <1>10 DEF IInv

LEMMA EraseMainStep ==
  ASSUME IInv, EraseMain
  PROVE  IInv'
<1> USE DEF input, lists, tables
<1>0. /\ x86_code \in Seq(Block) /\ x86_code # << >> /\ x86_code' = Tail(x86_code)
      /\ Len(x86_code) = Len(indices)
  <2>1. indices \in Seq(Nat) /\ indices # << >>
    BY DEF IInv, TypeOK, EraseMain
  <2> QED
    BY <2>1 DEF IInv, TypeOK, EraseMain
<1>1. TypeOK' /\ file' \in Files
  <2>1. x86_code' \in Seq(Block)
    BY <1>0
  <2> QED
    BY <2>1 DEF IInv, EraseMain, TypeOK
<1>2. DumpOK' /\ InstrsRead' /\ MarksRead' /\ AllBlocks'
  BY DEF IInv, EraseMain, DumpOK, InstrsRead, MarksRead, MarkOf, AllBlocks
<1>3. RoundTrip' /\ EntriesAreStarts'
  BY DEF IInv, EraseMain, RoundTrip, EntriesAreStarts
<1>4. FilledTo(1)'
  <2>1. /\ Len(x86_code') = Len(indices') - 1 /\ DOMAIN x86_code' = 1 .. Len(indices') - 1
        /\ \A i \in DOMAIN x86_code' : x86_code'[i] = x86_code[1 + i] /\ 1 + i \in DOMAIN x86_code
        /\ Len(indices') \in Nat
    BY <1>0 DEF EraseMain
  <2>2. \A i \in DOMAIN x86_code' : IsBlock(x86_code'[i], 1 + i)
    BY <2>1 DEF IInv, EraseMain, Assembled
  <2>3. \A i \in DOMAIN x86_code' : IsBlock(x86_code[i], 1 + i)'
    BY <2>2 DEF IsBlock, First, EraseMain
  <2>4. DOMAIN addr_to_line' = {}
    BY DEF IInv, EraseMain, Untouched
  <2> QED
    BY <2>1, <2>3, <2>4 DEF FilledTo
<1>5. Filled'
  BY <1>4 DEF Filled
<1> QED
  BY <1>1, <1>2, <1>3, <1>5 DEF IInv, EraseMain

(* A block goes to the tables under an address that no block before has.   *)
LEMMA FillMapsStep ==
  ASSUME IInv, fillMaps
  PROVE  IInv'
<1> USE DEF input, lists, tables
<1> DEFINE dumped == Head(x86_code)
           addr == Head(dumped.assembly)
<1>0. PICK d \in Nat : FilledTo(d)
  BY DEF IInv, fillMaps, Filled
<1>1. /\ pc = "fill" /\ pc' = "fill" /\ x86_code # << >> /\ x86_code' = Tail(x86_code)
      /\ line_to_addr' = PutNew(line_to_addr, dumped.lineNum, addr)
      /\ addr_to_line' = Put(addr_to_line, addr, dumped.lineNum)
      /\ UNCHANGED <<input, incre, lists>>
  BY DEF fillMaps
<1>2. /\ x86_code \in Seq(Block) /\ Len(x86_code) \in Nat /\ Len(x86_code) > 0
      /\ 1 \in DOMAIN x86_code /\ dumped = x86_code[1] /\ dumped \in Block
      /\ indices \in Seq(Nat) /\ Len(indices) \in Nat /\ DOMAIN indices = 1 .. Len(indices)
  BY <1>1 DEF IInv, TypeOK
<1> HIDE DEF dumped
<1>3. d + 1 \in DOMAIN indices /\ addr = First(d + 1) /\ dumped.lineNum = linenumber[d + 1]
  BY <1>0, <1>2 DEF FilledTo, IsBlock
<1>4. addr \in Nat /\ dumped.lineNum \in Nat
  <2>1. dumped.assembly # << >>
    BY <1>0, <1>2 DEF FilledTo, IsBlock
  <2>2. dumped.assembly \in Seq(Nat) /\ dumped.lineNum \in Nat
    BY <1>2 DEF Block
  <2> QED
    BY <2>1, <2>2
<1> HIDE DEF addr
<1>5. addr \notin DOMAIN addr_to_line
  <2>1. SUFFICES ASSUME NEW j \in 1 .. d, addr = First(j) PROVE FALSE
    BY <1>0 DEF FilledTo
  <2>2. j \in DOMAIN indices /\ j # d + 1
    BY <1>2, <1>3
  <2> QED
    BY <1>1, <1>3, <2>1, <2>2, FirstsDiffer DEF IInv
<1>6. /\ line_to_addr \in [DOMAIN line_to_addr -> Nat] /\ DOMAIN line_to_addr \subseteq Nat
      /\ addr_to_line \in [DOMAIN addr_to_line -> Nat] /\ DOMAIN addr_to_line \subseteq Nat
  BY DEF IInv, TypeOK
<1>7. TypeOK' /\ file' \in Files
  <2>1. x86_code' \in Seq(Block)
    BY <1>1, <1>2
  <2>2. addr_to_line' \in [DOMAIN addr_to_line' -> Nat] /\ DOMAIN addr_to_line' \subseteq Nat
    BY <1>1, <1>4, <1>6 DEF Put
  <2>3. line_to_addr' \in [DOMAIN line_to_addr' -> Nat] /\ DOMAIN line_to_addr' \subseteq Nat
    BY <1>1, <1>4, <1>6 DEF Put, PutNew
  <2> QED
    BY <1>1, <2>1, <2>2, <2>3 DEF IInv, TypeOK
<1>8. DumpOK' /\ InstrsRead' /\ MarksRead' /\ AllBlocks'
  BY <1>1 DEF IInv, DumpOK, InstrsRead, MarksRead, MarkOf, AllBlocks
<1>9. RoundTrip'
  <2>1. SUFFICES ASSUME NEW n \in DOMAIN line_to_addr'
                 PROVE  /\ line_to_addr'[n] \in DOMAIN addr_to_line'
                        /\ addr_to_line'[line_to_addr'[n]] = n
    BY DEF RoundTrip
  <2>2. CASE n \in DOMAIN line_to_addr
    <3>1. line_to_addr'[n] = line_to_addr[n]
      <4>1. CASE dumped.lineNum \in DOMAIN line_to_addr
        BY <1>1, <4>1 DEF PutNew
      <4>2. CASE dumped.lineNum \notin DOMAIN line_to_addr
        BY <1>1, <2>2, <4>2 DEF PutNew, Put
      <4> QED
        BY <4>1, <4>2
    <3>2. line_to_addr[n] \in DOMAIN addr_to_line /\ addr_to_line[line_to_addr[n]] = n
      BY <2>2 DEF IInv, RoundTrip
    <3> QED
      BY <1>1, <1>5, <3>1, <3>2 DEF Put
  <2>3. CASE n \notin DOMAIN line_to_addr
    <3>1. n = dumped.lineNum /\ line_to_addr'[n] = addr
      BY <1>1, <2>1, <2>3 DEF PutNew, Put
    <3> QED
      BY <1>1, <3>1 DEF Put
  <2> QED
    BY <2>2, <2>3
<1>10. EntriesAreStarts'
  <2>1. PICK i \in 1 .. Len(file) - 1 :
          /\ file[i].kind = "mark" /\ file[i].line = dumped.lineNum
          /\ file[i + 1].kind = "instr" /\ file[i + 1].addr = addr
    BY <1>1, <1>3, FirstIsStart DEF IInv
  <2>2. SUFFICES ASSUME NEW a \in DOMAIN addr_to_line'
                 PROVE  \E k \in 1 .. Len(file) - 1 :
                          /\ file[k].kind = "mark" /\ file[k].line = addr_to_line'[a]
                          /\ file[k + 1].kind = "instr" /\ file[k + 1].addr = a
    BY <1>1 DEF EntriesAreStarts
  <2>3. CASE a = addr
    BY <1>1, <2>1, <2>3 DEF Put
  <2>4. CASE a # addr
    <3>1. a \in DOMAIN addr_to_line /\ addr_to_line'[a] = addr_to_line[a]
      BY <1>1, <2>4 DEF Put
    <3> QED
      BY <3>1 DEF IInv, EntriesAreStarts
  <2> QED
    BY <2>3, <2>4
<1>11. FilledTo(d + 1)'
  <2>1. /\ Len(x86_code') = Len(x86_code) - 1 /\ DOMAIN x86_code' = 1 .. Len(x86_code) - 1
        /\ \A i \in DOMAIN x86_code' : x86_code'[i] = x86_code[i + 1] /\ i + 1 \in DOMAIN x86_code
    BY <1>1, <1>2
  <2>2. \A i \in DOMAIN x86_code' : IsBlock(x86_code'[i], d + 1 + i)
    <3>1. ASSUME NEW i \in DOMAIN x86_code' PROVE IsBlock(x86_code'[i], d + 1 + i)
      <4>1. d + (i + 1) = d + 1 + i
        BY <1>2, <2>1
      <4> QED
        BY <1>0, <2>1, <4>1 DEF FilledTo
    <3> QED
      BY <3>1
  <2>3. \A i \in DOMAIN x86_code' : IsBlock(x86_code[i], d + 1 + i)'
    BY <1>1, <2>2 DEF IsBlock, First
  <2>4. \A a \in DOMAIN addr_to_line' : \E j \in 1 .. d + 1 : a = First(j)'
    <3>1. \A a \in DOMAIN addr_to_line' : \E j \in 1 .. d + 1 : a = First(j)
      BY <1>0, <1>1, <1>3 DEF FilledTo, Put
    <3> QED
      BY <1>1, <3>1 DEF First
  <2>5. d + 1 + Len(x86_code') <= Len(indices')
    BY <1>0, <1>1, <1>2, <2>1 DEF FilledTo
  <2> QED
    BY <2>3, <2>4, <2>5 DEF FilledTo
<1>12. Filled'
  BY <1>11 DEF Filled
<1> QED
  BY <1>1, <1>7, <1>8, <1>9, <1>10, <1>12 DEF IInv

-----------------------------------------------------------------------------
LEMMA StutterStep ==
  ASSUME IInv, UNCHANGED vars
  PROVE  IInv'
<1> USE DEF vars, input, lists, tables
<1>1. TypeOK' /\ file' \in Files
  BY DEF IInv, TypeOK
<1>2. DumpOK' /\ InstrsRead' /\ MarksRead' /\ AllBlocks' = AllBlocks
  BY DEF IInv, DumpOK, InstrsRead, MarksRead, MarkOf, AllBlocks
<1>3. Assembled' = Assembled /\ Filled' = Filled
  BY DEF Assembled, Filled, FilledTo, IsBlock, First
<1>4. RoundTrip' /\ EntriesAreStarts' /\ Untouched' = Untouched
  BY DEF IInv, RoundTrip, EntriesAreStarts, Untouched
<1> QED
  BY <1>1, <1>2, <1>3, <1>4 DEF IInv

LEMMA NextIInv ==
  ASSUME FilesAssumption, IInv, [Next]_vars
  PROVE  IInv'
<1>1. CASE NoMain
  BY <1>1, MoveStep DEF NoMain
<1>2. CASE getObjDump
  BY <1>2, GetObjDumpStep
<1>3. CASE SplitInstr
  BY <1>3, SplitInstrStep
<1>4. CASE SplitMark
  BY <1>4, SplitMarkStep
<1>5. CASE SplitName
  BY <1>5, MoveStep DEF SplitName, More
<1>6. CASE NoSource
  BY <1>6, MoveStep DEF NoSource
<1>7. CASE getFileLines
  BY <1>7, GetFileLinesStep
<1>8. CASE parseAssem
  BY <1>8, ParseAssemStep
<1>9. CASE EraseMain
  BY <1>9, EraseMainStep
<1>10. CASE fillMaps
  BY <1>10, FillMapsStep
<1>11. CASE Finish
  BY <1>11, MoveStep DEF Finish
<1>12. CASE UNCHANGED vars
  BY <1>12, StutterStep
<1> QED
  BY <1>1, <1>2, <1>3, <1>4, <1>5, <1>6, <1>7, <1>8, <1>9, <1>10, <1>11, <1>12
  DEF Next, execObjDump

LEMMA Invariance == FilesAssumption => (Spec => []IInv)
<1> SUFFICES ASSUME FilesAssumption PROVE Spec => []IInv
  OBVIOUS
<1>1. Init => IInv
  BY InitIInv
<1>2. IInv /\ [Next]_vars => IInv'
  BY NextIInv
<1> QED
  BY <1>1, <1>2, PTL DEF Spec

-----------------------------------------------------------------------------
(* All variables keep their types, for every set of dumps. *)
THEOREM TablesTyped == FilesAssumption => (Spec => []TypeOK)
<1>1. IInv => TypeOK
  BY DEF IInv
<1> QED
  BY <1>1, Invariance, PTL

(* A line's address leads back to the line, at every moment of fillMaps    *)
(* and for every well-formed dump.                                         *)
THEOREM TablesAgreeBothWays == FilesAssumption => (Spec => []RoundTrip)
<1>1. IInv => RoundTrip
  BY DEF IInv
<1> QED
  BY <1>1, Invariance, PTL

(* Every address in the tables is the first behind a mark with its line.   *)
THEOREM TablesComeFromMarks == FilesAssumption => (Spec => []EntriesAreStarts)
<1>1. IInv => EntriesAreStarts
  BY DEF IInv
<1> QED
  BY <1>1, Invariance, PTL

-----------------------------------------------------------------------------
(* What is in the tables is all there is: the marks of main are all read,  *)
(* in their order, and the blocks are all in the tables.                   *)
Cut ==
  \E a \in DOMAIN file : \E b \in a .. Len(file) :
    IsMain(a, b) /\ objectDump = SubSeq(file, a, b)

EveryMark ==
  \A p \in DOMAIN objectDump :
    p <= incre /\ objectDump[p].kind = "mark" => \E j \in DOMAIN indices : MarkOf(j, p)

MarksInOrder ==
  \A j, k \in DOMAIN indices : \A p, q \in DOMAIN objectDump :
    MarkOf(j, p) /\ MarkOf(k, q) /\ j < k => p < q

(* Block j is the first of its line but for the one that is left out.      *)
Leads(j) == \A k \in 2 .. Len(indices) : linenumber[k] = linenumber[j] => j <= k

(* The blocks 2 .. d are in the tables. *)
CompleteTo(d) ==
  /\ d >= 1 /\ d + Len(x86_code) = Len(indices)
  /\ \A i \in DOMAIN x86_code : IsBlock(x86_code[i], d + i)
  /\ DOMAIN addr_to_line = {First(j) : j \in 2 .. d}
  /\ \A j \in 2 .. d : addr_to_line[First(j)] = linenumber[j]
  /\ DOMAIN line_to_addr = {linenumber[j] : j \in 2 .. d}
  /\ \A j \in 2 .. d : Leads(j) => line_to_addr[linenumber[j]] = First(j)

CInv ==
  /\ IInv /\ EveryMark /\ MarksInOrder
  /\ pc = "split" => incre >= 2
  /\ pc \in {"split", "assem", "fill", "done"} => Cut
  /\ pc \in {"assem", "fill", "done"} => incre >= Len(objectDump)
  /\ pc \in {"fill", "done"} => AllBlocks /\ \E d \in Nat : CompleteTo(d)
  /\ pc = "done" => x86_code = << >>

(* Reading an instruction changes of no mark which block it starts.        *)
LEMMA InstrKeepsMarks ==
  ASSUME IInv, SplitInstr, NEW j \in DOMAIN indices, NEW p \in DOMAIN objectDump
  PROVE  MarkOf(j, p)' <=> MarkOf(j, p)
<1> DEFINE n == Len(mainFunct)
           q == incre + 1
<1>1. /\ n \in Nat /\ Len(mainFunct') = n + 1 /\ mainFunct'[n + 1] = objectDump[q].addr
      /\ \A k \in 1 .. n : mainFunct'[k] = mainFunct[k]
      /\ incre \in Nat /\ incre' = q /\ q \in DOMAIN objectDump /\ objectDump[q].kind = "instr"
      /\ indices[j] \in Nat /\ p \in Nat
      /\ UNCHANGED <<objectDump, indices, linenumber>>
  <2>1. More
    BY DEF SplitInstr
  <2>2. Line \in DumpLine /\ Line.kind = "instr" /\ Line.addr \in Nat
    BY <2>1, LoopTypes, LineFields DEF SplitInstr
  <2> QED
    BY <2>1, <2>2, LoopTypes, SMTT(30) DEF SplitInstr, input, Line
<1>2. indices[j] <= n /\ (indices[j] < n => objectDump[p + 1].addr = mainFunct[indices[j] + 1]
                                           <=> objectDump[p + 1].addr = mainFunct'[indices[j] + 1])
  BY <1>1, SMTT(30) DEF IInv, MarksRead
<1>3. objectDump[p].kind = "mark" => p + 1 \in DOMAIN objectDump /\ objectDump[p + 1].kind = "instr"
  <2>1. DOMAIN objectDump = 1 .. Len(objectDump) /\ Len(objectDump) \in Nat
    BY DEF IInv, DumpOK
  <2> QED
    BY <1>1, <2>1 DEF IInv, DumpOK
<1>4. objectDump[p].kind = "mark" => p # q
  BY <1>1
<1>5. objectDump[p].kind = "mark" => (objectDump[p + 1].addr = objectDump[q].addr <=> p = incre)
  BY <1>1, <1>3 DEF IInv, DumpOK
<1> HIDE DEF n, q
<1>6. CASE indices[j] < n
  <2>1. indices[j] < n + 1 /\ p <= q /\ p # q <=> p <= incre
    BY <1>1, <1>6 DEF q
  <2> QED
    BY <1>1, <1>2, <1>4, <1>6, <2>1 DEF MarkOf, n
<1>7. CASE indices[j] = n
  <2>1. indices[j] < n + 1 /\ indices[j] >= n /\ ~ (indices[j] < n) /\ ~ (indices[j] >= n + 1)
        /\ p = incre => p <= q /\ p <= incre
    BY <1>1, <1>7 DEF q
  <2> QED
    BY <1>1, <1>5, <1>7, <2>1 DEF MarkOf, n
<1> QED
  BY <1>1, <1>2, <1>6, <1>7

(* The mark that is read starts the new block, and only that.              *)
LEMMA MarkKeepsMarks ==
  ASSUME IInv, SplitMark, NEW p \in DOMAIN objectDump, NEW m, m = Len(indices) + 1
  PROVE  /\ \A j \in DOMAIN indices : MarkOf(j, p)' <=> MarkOf(j, p)
         /\ MarkOf(m, p)' <=> p = incre + 1
<1> DEFINE n == Len(mainFunct)
           q == incre + 1
<1>0. More /\ UNCHANGED <<objectDump, mainFunct>> /\ incre' = q
  BY DEF SplitMark, input
<1>1. /\ n \in Nat /\ incre \in Nat /\ q \in DOMAIN objectDump /\ p \in Nat
      /\ \A j \in DOMAIN indices : indices[j] \in Nat /\ indices[j] <= n
      /\ DOMAIN mainFunct = 1 .. n
      /\ DOMAIN objectDump = 1 .. Len(objectDump) /\ Len(objectDump) \in Nat
  BY <1>0, LoopTypes, SMTT(30) DEF IInv, MarksRead
<1>2. objectDump[q].kind = "mark" /\ Line.line \in Nat
  BY <1>0, LoopTypes, LineFields DEF SplitMark, Line
<1>3. /\ \A j \in DOMAIN indices : indices'[j] = indices[j] /\ linenumber'[j] = linenumber[j]
      /\ indices'[m] = n /\ linenumber'[m] = objectDump[q].line
  BY <1>0, <1>2, LoopTypes DEF SplitMark, Line
<1>4. q + 1 \in DOMAIN objectDump /\ objectDump[q + 1].kind = "instr"
  <2>1. q < Len(objectDump) /\ objectDump[q + 1].kind = "instr"
    BY <1>1, <1>2 DEF IInv, DumpOK
  <2>2. q \in Nat
    BY <1>1
  <2> HIDE DEF q
  <2> QED
    BY <1>1, <2>1, <2>2
<1>5. objectDump[incre].kind = "mark" /\ incre \in DOMAIN objectDump => FALSE
  BY <1>1, <1>2 DEF IInv, DumpOK
<1>6. ASSUME NEW j \in DOMAIN indices
      PROVE  indices[j] < n
  <2>1. PICK r \in DOMAIN objectDump : MarkOf(j, r)
    BY DEF IInv, MarksRead
  <2> QED
    BY <1>1, <1>5, <2>1 DEF MarkOf
<1>7. ASSUME NEW j \in DOMAIN indices
      PROVE  objectDump[q + 1].addr # mainFunct[indices[j] + 1]
  <2>1. indices[j] + 1 \in DOMAIN mainFunct
    BY <1>1, <1>6
  <2>2. PICK r \in DOMAIN objectDump :
          r <= incre /\ objectDump[r].kind = "instr" /\ objectDump[r].addr = mainFunct[indices[j] + 1]
    BY <2>1 DEF IInv, InstrsRead
  <2>3. r # q + 1
    BY <1>1, <2>2
  <2> QED
    BY <1>4, <2>2, <2>3 DEF IInv, DumpOK
<1>8. p <= q <=> p <= incre \/ p = q
  BY <1>1
<1> HIDE DEF n, q
<1>9. \A j \in DOMAIN indices : MarkOf(j, p)' <=> MarkOf(j, p)
  <2>1. SUFFICES ASSUME NEW j \in DOMAIN indices PROVE MarkOf(j, p)' <=> MarkOf(j, p)
    OBVIOUS
  <2>2. indices[j] < n /\ ~ (indices[j] >= n) /\ indices'[j] = indices[j]
    BY <1>1, <1>3, <1>6
  <2> QED
    BY <1>0, <1>3, <1>7, <1>8, <2>2 DEF MarkOf, n
<1>10. MarkOf(m, p)' <=> p = q
  <2>1. ~ (n < n) /\ n >= n
    BY <1>1
  <2>2. p = q => p <= q
    BY <1>1, <1>8
  <2>3. MarkOf(m, p)' <=> /\ p <= q /\ objectDump[p].kind = "mark"
                          /\ objectDump[p].line = objectDump[q].line
                          /\ n < n => objectDump[p + 1].addr = mainFunct[n + 1]
                          /\ n >= n => p = q
    BY <1>0, <1>3 DEF MarkOf, n
  <2> QED
    BY <1>2, <2>1, <2>2, <2>3
<1> QED
  BY <1>9, <1>10 DEF q

(* What a step behind the loop leaves alone.                               *)
LEMMA MarksKept ==
  ASSUME CInv, UNCHANGED <<input, incre, lists>>
  PROVE  /\ EveryMark' /\ MarksInOrder' /\ (Cut => Cut') /\ AllBlocks' = AllBlocks
         /\ incre' = incre /\ objectDump' = objectDump /\ linenumber' = linenumber
<1> USE DEF input, lists
<1>1. EveryMark' /\ MarksInOrder'
  BY DEF CInv, EveryMark, MarksInOrder, MarkOf
<1>2. (Cut => Cut') /\ AllBlocks' = AllBlocks
  BY DEF Cut, IsMain, AllBlocks
<1> QED
  BY <1>1, <1>2

(* The two lines of main in front of the loop are the label and a name.    *)
LEMMA GetObjDumpComplete ==
  ASSUME FilesAssumption, CInv, IInv', getObjDump
  PROVE  CInv'
<1>0. PICK a \in DOMAIN file : \E b \in a .. Len(file) :
        IsMain(a, b) /\ objectDump' = SubSeq(file, a, b)
  BY DEF getObjDump
<1>1. PICK b \in a .. Len(file) : IsMain(a, b) /\ objectDump' = SubSeq(file, a, b)
  BY <1>0
<1>2. /\ pc = "open" /\ pc' = "split" /\ incre' = 2 /\ file' = file
      /\ indices' = indices /\ indices = << >>
  BY DEF getObjDump, CInv, IInv, lists
<1>3. /\ file \in Seq(DumpLine) /\ WellFormed(file) /\ a \in 1 .. Len(file) /\ Len(file) \in Nat
  BY DEF CInv, IInv, FilesAssumption
<1>4. file[a].kind = "label" /\ a + 1 \in DOMAIN file /\ file[a + 1].kind = "name"
  <2>1. file[a].kind = "label"
    BY <1>1 DEF IsMain
  <2>2. a < Len(file) /\ file[a + 1].kind = "name"
    BY <1>3, <2>1 DEF WellFormed
  <2> QED
    BY <1>3, <2>1, <2>2
<1>5. \A p \in DOMAIN objectDump' : p \in Nat \ {0} /\ objectDump'[p] = file[a + p - 1]
  <2>1. b \in Int /\ a <= b /\ b <= Len(file)
    BY <1>3
  <2> QED
    BY <1>1, <1>3, <2>1
<1>6. EveryMark'
  <2>1. ASSUME NEW p \in DOMAIN objectDump', p <= 2, objectDump'[p].kind = "mark"
        PROVE  FALSE
    <3>1. p = 1 \/ p = 2
      BY <1>5, <2>1
    <3>2. a + 1 - 1 = a /\ a + 2 - 1 = a + 1
      BY <1>3
    <3> QED
      BY <1>4, <1>5, <2>1, <3>1, <3>2
  <2> QED
    BY <1>2, <2>1 DEF EveryMark
<1>7. MarksInOrder'
  BY <1>2 DEF MarksInOrder
<1>8. Cut'
  BY <1>1, <1>2 DEF Cut, IsMain
<1> QED
  BY <1>2, <1>6, <1>7, <1>8 DEF CInv

LEMMA SplitInstrComplete ==
  ASSUME CInv, IInv', SplitInstr
  PROVE  CInv'
<1>1. /\ pc = "split" /\ pc' = "split" /\ More
      /\ UNCHANGED <<file, objectDump, indices, linenumber>> /\ incre' = incre + 1
  BY DEF SplitInstr, More, input
<1>2. incre \in Nat /\ objectDump[incre + 1].kind = "instr" /\ \A p \in DOMAIN objectDump : p \in Nat
  BY <1>1, LoopTypes DEF CInv, SplitInstr, Line
<1>3. \A j \in DOMAIN indices, p \in DOMAIN objectDump : MarkOf(j, p)' <=> MarkOf(j, p)
  BY InstrKeepsMarks DEF CInv
<1>4. EveryMark'
  <2>1. \A p \in DOMAIN objectDump : p <= incre + 1 => p <= incre \/ p = incre + 1
    BY <1>2
  <2> QED
    BY <1>1, <1>2, <1>3, <2>1 DEF CInv, EveryMark
<1>5. MarksInOrder'
  BY <1>1, <1>3 DEF CInv, MarksInOrder
<1>6. Cut'
  BY <1>1 DEF CInv, Cut, IsMain
<1>7. incre' >= 2
  BY <1>1, <1>2 DEF CInv
<1> QED
  BY <1>1, <1>4, <1>5, <1>6, <1>7 DEF CInv

(* A mark comes behind all marks before.                                   *)
LEMMA SplitMarkComplete ==
  ASSUME CInv, IInv', SplitMark
  PROVE  CInv'
<1>1. /\ pc = "split" /\ pc' = "split" /\ More
      /\ UNCHANGED <<file, objectDump>> /\ incre' = incre + 1
  BY DEF SplitMark, More, input
<1>2. PICK m : /\ m = Len(indices) + 1 /\ m \in Nat /\ m \in DOMAIN indices'
               /\ DOMAIN indices = 1 .. m - 1 /\ DOMAIN indices' = 1 .. m
               /\ incre \in Nat /\ incre + 1 \in DOMAIN objectDump
               /\ \A p \in DOMAIN objectDump : p \in Nat
  BY <1>1, LoopTypes DEF CInv, SplitMark
<1>3. \A j \in DOMAIN indices, p \in DOMAIN objectDump : MarkOf(j, p)' <=> MarkOf(j, p)
  BY <1>2, MarkKeepsMarks DEF CInv
<1>4. \A p \in DOMAIN objectDump : MarkOf(m, p)' <=> p = incre + 1
  BY <1>2, MarkKeepsMarks DEF CInv
<1>5. \A j \in DOMAIN indices' : j \in DOMAIN indices \/ j = m
  BY <1>2
<1>6. \A j \in DOMAIN indices : j \in DOMAIN indices'
  BY <1>2
<1>7. EveryMark'
  <2>1. \A p \in DOMAIN objectDump : p <= incre + 1 => p <= incre \/ p = incre + 1
    BY <1>2
  <2> QED
    BY <1>1, <1>2, <1>3, <1>4, <1>6, <2>1 DEF CInv, EveryMark
<1>8. MarksInOrder'
  <2>1. SUFFICES ASSUME NEW j \in DOMAIN indices', NEW k \in DOMAIN indices',
                        NEW p \in DOMAIN objectDump, NEW q \in DOMAIN objectDump,
                        MarkOf(j, p)', MarkOf(k, q)', j < k
                 PROVE  p < q
    BY <1>1 DEF MarksInOrder
  <2>2. j \in DOMAIN indices
    BY <1>2, <2>1
  <2>3. CASE k \in DOMAIN indices
    BY <1>3, <2>1, <2>2, <2>3 DEF CInv, MarksInOrder
  <2>4. CASE k = m
    <3>1. q = incre + 1 /\ p <= incre
      BY <1>3, <1>4, <2>1, <2>2, <2>4 DEF MarkOf
    <3> QED
      BY <1>2, <3>1
  <2> QED
    BY <1>5, <2>3, <2>4
<1>9. Cut'
  BY <1>1 DEF CInv, Cut, IsMain
<1>10. incre' >= 2
  BY <1>1, <1>2 DEF CInv
<1> QED
  BY <1>1, <1>7, <1>8, <1>9, <1>10 DEF CInv

LEMMA SplitNameComplete ==
  ASSUME CInv, IInv', SplitName
  PROVE  CInv'
<1>1. pc = "split" /\ pc' = "crashed" /\ More /\ UNCHANGED <<input, incre, lists>>
  BY DEF SplitName, More
<1> QED
  BY <1>1, MarksKept DEF CInv

LEMMA ParseAssemComplete ==
  ASSUME FilesAssumption, CInv, IInv', parseAssem
  PROVE  CInv'
<1>1. /\ pc = "assem" /\ pc' \in {"assem", "crashed"} /\ UNCHANGED <<input, incre, lists>>
  BY DEF parseAssem
<1> QED
  BY <1>1, MarksKept DEF CInv

LEMMA EraseMainComplete ==
  ASSUME CInv, IInv', EraseMain
  PROVE  CInv'
<1>1. /\ pc = "assem" /\ pc' = "fill" /\ UNCHANGED <<input, incre, lists, tables>>
      /\ x86_code' = Tail(x86_code) /\ Len(x86_code) = Len(indices)
  BY DEF EraseMain
<1>2. /\ x86_code \in Seq(Block) /\ Len(x86_code) \in Nat /\ Len(x86_code) >= 1
  <2>1. indices \in Seq(Nat) /\ indices # << >> /\ x86_code \in Seq(Block)
    BY <1>1 DEF CInv, IInv, TypeOK
  <2> QED
    BY <1>1, <2>1
<1>3. AllBlocks /\ Assembled /\ Untouched
  BY <1>1 DEF CInv, IInv
<1>4. CompleteTo(1)'
  <2>1. /\ Len(x86_code') = Len(x86_code) - 1 /\ DOMAIN x86_code' = 1 .. Len(x86_code) - 1
        /\ \A i \in DOMAIN x86_code' : x86_code'[i] = x86_code[1 + i] /\ 1 + i \in DOMAIN x86_code
    BY <1>1, <1>2
  <2>2. \A i \in DOMAIN x86_code' : IsBlock(x86_code[i], 1 + i)'
    BY <1>1, <1>3, <2>1 DEF Assembled, IsBlock, First, lists
  <2>3. DOMAIN addr_to_line' = {} /\ DOMAIN line_to_addr' = {}
    BY <1>1, <1>3 DEF Untouched, tables
  <2>4. 2 .. 1 = {} /\ 1 + (Len(x86_code) - 1) = Len(indices')
    BY <1>1, <1>2 DEF lists
  <2> QED
    BY <2>1, <2>2, <2>3, <2>4 DEF CompleteTo
<1>5. \E d \in Nat : CompleteTo(d)'
  BY <1>4
<1> QED
  BY <1>1, <1>3, <1>5, MarksKept DEF CInv

(* Block d + 1 has an address of its own; its line keeps the address of    *)
(* the block that led it, unless it leads itself.                          *)
LEMMA FillMapsComplete ==
  ASSUME CInv, IInv', fillMaps
  PROVE  CInv'
<1> DEFINE dumped == Head(x86_code)
<1>1. /\ pc = "fill" /\ pc' = "fill" /\ x86_code # << >> /\ x86_code' = Tail(x86_code)
      /\ line_to_addr' = PutNew(line_to_addr, dumped.lineNum, Head(dumped.assembly))
      /\ addr_to_line' = Put(addr_to_line, Head(dumped.assembly), dumped.lineNum)
      /\ UNCHANGED <<input, incre, lists>>
  BY DEF fillMaps
<1>2. /\ indices \in Seq(Nat) /\ Len(indices) \in Nat /\ DOMAIN indices = 1 .. Len(indices)
      /\ x86_code \in Seq(Block) /\ Len(x86_code) \in Nat /\ Len(x86_code) > 0
      /\ 1 \in DOMAIN x86_code /\ dumped = x86_code[1]
  BY <1>1, SMTT(30) DEF CInv, IInv, TypeOK
<1>3. AllBlocks /\ \E d \in Nat : CompleteTo(d)
  BY <1>1 DEF CInv
<1>4. PICK d \in Nat : CompleteTo(d)
  BY <1>3
<1> HIDE DEF dumped
<1>5. /\ d + 1 \in 2 .. Len(indices) /\ d >= 1 /\ 2 .. Len(indices) \subseteq DOMAIN indices
      /\ 2 .. d + 1 = (2 .. d) \cup {d + 1} /\ d + 1 \notin 2 .. d
      /\ 2 .. d \subseteq 2 .. Len(indices)
  BY <1>2, <1>4 DEF CompleteTo
<1>6. dumped.lineNum = linenumber[d + 1] /\ Head(dumped.assembly) = First(d + 1)
  BY <1>2, <1>4 DEF CompleteTo, IsBlock
<1>7. /\ addr_to_line' = Put(addr_to_line, First(d + 1), linenumber[d + 1])
      /\ line_to_addr' = PutNew(line_to_addr, linenumber[d + 1], First(d + 1))
  BY <1>1, <1>6
<1>8. \A j \in 2 .. d : First(j) # First(d + 1)
  BY <1>3, <1>5, FirstsDiffer DEF CInv, IInv
<1>9. /\ DOMAIN addr_to_line' = {First(j) : j \in 2 .. d + 1}
      /\ \A j \in 2 .. d + 1 : addr_to_line'[First(j)] = linenumber[j]
  <2>1. /\ DOMAIN addr_to_line = {First(j) : j \in 2 .. d}
        /\ \A j \in 2 .. d : addr_to_line[First(j)] = linenumber[j]
    BY <1>4 DEF CompleteTo
  <2>2. DOMAIN addr_to_line' = {First(j) : j \in 2 .. d + 1}
    BY <1>5, <1>7, <2>1 DEF Put
  <2>3. ASSUME NEW j \in 2 .. d + 1
        PROVE  addr_to_line'[First(j)] = linenumber[j]
    <3>1. j \in 2 .. d \/ j = d + 1
      BY <1>5
    <3> QED
      BY <1>7, <1>8, <2>1, <2>2, <3>1 DEF Put
  <2> QED
    BY <2>2, <2>3
<1>10. /\ DOMAIN line_to_addr' = {linenumber[j] : j \in 2 .. d + 1}
       /\ \A j \in 2 .. d + 1 : Leads(j) => line_to_addr'[linenumber[j]] = First(j)
  <2>1. /\ DOMAIN line_to_addr = {linenumber[j] : j \in 2 .. d}
        /\ \A j \in 2 .. d : Leads(j) => line_to_addr[linenumber[j]] = First(j)
    BY <1>4 DEF CompleteTo
  <2>2. DOMAIN line_to_addr' = {linenumber[j] : j \in 2 .. d + 1}
    BY <1>5, <1>7, <2>1 DEF Put, PutNew
  <2>3. \A n \in DOMAIN line_to_addr : line_to_addr'[n] = line_to_addr[n]
    BY <1>7 DEF Put, PutNew
  <2>4. Leads(d + 1) => linenumber[d + 1] \notin DOMAIN line_to_addr
    <3>1. \A j \in 2 .. d : j \in 2 .. Len(indices) /\ ~ (d + 1 <= j)
      BY <1>5
    <3> QED
      BY <2>1, <3>1 DEF Leads
  <2>5. Leads(d + 1) => line_to_addr'[linenumber[d + 1]] = First(d + 1)
    BY <1>7, <2>4 DEF Put, PutNew
  <2>6. ASSUME NEW j \in 2 .. d, Leads(j)
        PROVE  line_to_addr'[linenumber[j]] = First(j)
    BY <2>1, <2>3, <2>6
  <2> QED
    BY <1>5, <2>2, <2>5, <2>6
<1>11. /\ d + 1 + Len(x86_code') = Len(indices)
       /\ \A i \in DOMAIN x86_code' : IsBlock(x86_code'[i], d + 1 + i)
  <2>1. /\ Len(x86_code') = Len(x86_code) - 1 /\ DOMAIN x86_code' = 1 .. Len(x86_code) - 1
        /\ \A i \in DOMAIN x86_code' : x86_code'[i] = x86_code[i + 1] /\ i + 1 \in DOMAIN x86_code
    BY <1>1, <1>2
  <2>2. \A i \in DOMAIN x86_code' : d + (i + 1) = d + 1 + i
    BY <1>2, <2>1
  <2>3. /\ d + Len(x86_code) = Len(indices)
        /\ \A i \in DOMAIN x86_code : IsBlock(x86_code[i], d + i)
    BY <1>4 DEF CompleteTo
  <2>4. ASSUME NEW i \in DOMAIN x86_code'
        PROVE  IsBlock(x86_code'[i], d + 1 + i)
    <3>1. IsBlock(x86_code[i + 1], d + (i + 1))
      BY <2>1, <2>3
    <3> QED
      BY <2>1, <2>2, <3>1
  <2>5. d + 1 + Len(x86_code') = Len(indices)
    <3>1. Len(x86_code') = Len(x86_code) - 1
      BY <2>1
    <3>2. d + Len(x86_code) = Len(indices) /\ Len(x86_code) \in Nat /\ Len(indices) \in Nat
      BY <1>2, <2>3
    <3> QED
      BY <3>1, <3>2
  <2> QED
    BY <2>4, <2>5
<1>12. CompleteTo(d + 1)'
  <2>1. /\ \A j : First(j)' = First(j) /\ Leads(j)' = Leads(j)
        /\ \A b, j : IsBlock(b, j)' = IsBlock(b, j)
    BY <1>1 DEF First, Leads, IsBlock, lists
  <2>2. d + 1 >= 1 /\ indices' = indices /\ linenumber' = linenumber
    BY <1>1, <1>5 DEF lists
  <2> QED
    BY <1>1, <1>9, <1>10, <1>11, <2>1, <2>2 DEF CompleteTo, First, Leads, IsBlock, lists
<1>13. \E e \in Nat : CompleteTo(e)'
  BY <1>12
<1> QED
  BY <1>1, <1>3, <1>13, MarksKept DEF CInv

LEMMA FinishComplete ==
  ASSUME CInv, IInv', Finish
  PROVE  CInv'
<1>1. /\ pc = "fill" /\ pc' = "done" /\ x86_code = << >>
      /\ UNCHANGED <<input, incre, lists, x86_code, tables>>
  BY DEF Finish
<1>2. PICK d \in Nat : CompleteTo(d)
  BY <1>1 DEF CInv
<1>3. CompleteTo(d)'
  BY <1>1, <1>2, SMTT(30) DEF CompleteTo, First, Leads, IsBlock, lists, tables
<1>4. \E e \in Nat : CompleteTo(e)'
  BY <1>3
<1> QED
  BY <1>1, <1>4, MarksKept DEF CInv

LEMMA StutterComplete ==
  ASSUME CInv, IInv', UNCHANGED vars
  PROVE  CInv'
<1>1. UNCHANGED <<pc, input, incre, lists, x86_code, tables>>
  BY DEF vars
<1>2. \A d : CompleteTo(d)' = CompleteTo(d)
  BY <1>1 DEF CompleteTo, First, Leads, IsBlock, lists, tables
<1>3. (\E d \in Nat : CompleteTo(d)) => \E d \in Nat : CompleteTo(d)'
  BY <1>2
<1> QED
  BY <1>1, <1>3, MarksKept DEF CInv

LEMMA InitCInv ==
  ASSUME FilesAssumption, Init
  PROVE  CInv
<1>1. EveryMark /\ MarksInOrder
  BY DEF Init, EveryMark, MarksInOrder
<1> QED
  BY <1>1, InitIInv DEF CInv, Init

LEMMA NextCInv ==
  ASSUME FilesAssumption, CInv, [Next]_vars
  PROVE  CInv'
<1>0. IInv'
  BY NextIInv DEF CInv
<1>1. CASE NoMain \/ NoSource
  BY <1>0, <1>1, MarksKept DEF NoMain, NoSource, CInv
<1>2. CASE getObjDump
  BY <1>0, <1>2, GetObjDumpComplete
<1>3. CASE SplitInstr
  BY <1>0, <1>3, SplitInstrComplete
<1>4. CASE SplitMark
  BY <1>0, <1>4, SplitMarkComplete
<1>5. CASE SplitName
  BY <1>0, <1>5, SplitNameComplete
<1>6. CASE getFileLines
  <2>1. incre' >= Len(objectDump')
    BY <1>6, MarksKept DEF getFileLines
  <2> QED
    BY <1>0, <1>6, <2>1, MarksKept DEF getFileLines, CInv
<1>7. CASE parseAssem
  BY <1>0, <1>7, ParseAssemComplete
<1>8. CASE EraseMain
  BY <1>0, <1>8, EraseMainComplete
<1>9. CASE fillMaps
  BY <1>0, <1>9, FillMapsComplete
<1>10. CASE Finish
  BY <1>0, <1>10, FinishComplete
<1>11. CASE UNCHANGED vars
  BY <1>0, <1>11, StutterComplete
<1> QED
  BY <1>1, <1>2, <1>3, <1>4, <1>5, <1>6, <1>7, <1>8, <1>9, <1>10, <1>11
  DEF Next, execObjDump

(* The blocks of main by what stands in front of them: R(j, i) below says  *)
(* that block j starts at line i of the file.                              *)
Label == CHOOSE a \in DOMAIN file :
           file[a].kind = "label" /\ \A i \in 1 .. a - 1 : file[i].kind # "label"

AllStarts == {i \in DOMAIN file : /\ i > Label /\ file[i - 1].kind = "mark"
                                  /\ \A j \in Label .. i : file[j].kind # "blank"}

StartsAt(j, i) ==
  /\ i \in AllStarts /\ file[i].kind = "instr" /\ file[i].addr = First(j)
  /\ file[i - 1].line = linenumber[j]

(* The blocks of main and their marks in the file are the same, in the     *)
(* same order.                                                             *)
LEMMA BlocksAreStarts ==
  ASSUME FilesAssumption, CInv, pc = "done"
  PROVE  /\ \A i \in AllStarts : \E j \in DOMAIN indices : StartsAt(j, i)
         /\ \A j \in DOMAIN indices : \E i \in AllStarts : StartsAt(j, i)
         /\ \A j, k \in DOMAIN indices : \A i, l \in AllStarts :
              StartsAt(j, i) /\ StartsAt(k, l) => (j < k <=> i < l)
<1>1. /\ file \in Seq(DumpLine) /\ WellFormed(file) /\ AllBlocks /\ Cut
      /\ DOMAIN file = 1 .. Len(file) /\ Len(file) \in Nat
      /\ incre >= Len(objectDump) /\ incre \in Nat
      /\ indices \in Seq(Nat) /\ DOMAIN indices = 1 .. Len(indices) /\ Len(indices) \in Nat
  BY DEF CInv, IInv, TypeOK, FilesAssumption
<1>2. PICK a \in DOMAIN file : \E b \in a .. Len(file) :
        IsMain(a, b) /\ objectDump = SubSeq(file, a, b)
  BY <1>1 DEF Cut
<1>3. PICK b \in a .. Len(file) : IsMain(a, b) /\ objectDump = SubSeq(file, a, b)
  BY <1>2
<1>4. /\ a \in Nat \ {0} /\ b \in Nat /\ a <= b /\ b <= Len(file)
      /\ DOMAIN objectDump = 1 .. b - a + 1 /\ Len(objectDump) = b - a + 1
      /\ \A p \in 1 .. b - a + 1 : objectDump[p] = file[a + p - 1]
  <2>1. a \in 1 .. Len(file) /\ b \in Int /\ a <= b /\ b <= Len(file)
    BY <1>1, <1>3
  <2> QED
    BY <1>1, <1>3, <2>1
<1>5. Label = a
  <2>1. file[a].kind = "label" /\ \A i \in 1 .. a - 1 : file[i].kind # "label"
    BY <1>3 DEF IsMain
  <2>2. ASSUME NEW c \in DOMAIN file, file[c].kind = "label",
               \A i \in 1 .. c - 1 : file[i].kind # "label"
        PROVE  c = a
    <3>1. ~ (c < a) /\ ~ (a < c)
      BY <1>1, <1>4, <2>1, <2>2
    <3> QED
      BY <1>1, <1>4, <3>1
  <2> QED
    BY <2>1, <2>2 DEF Label
<1>6. ASSUME NEW i \in DOMAIN file
      PROVE  i \in AllStarts <=> i - a \in DOMAIN objectDump /\ objectDump[i - a].kind = "mark"
  <2>1. i \in Nat /\ i >= 1 /\ i <= Len(file)
    BY <1>1
  <2>2. i - a \in DOMAIN objectDump =>
          /\ i > a /\ i - 1 <= b /\ i - 1 \in DOMAIN file /\ objectDump[i - a] = file[i - 1]
    BY <1>1, <1>4, <2>1, SMTT(30)
  <2>3. ASSUME i \in AllStarts
        PROVE  i - a \in DOMAIN objectDump /\ objectDump[i - a].kind = "mark"
    <3>1. i > a /\ file[i - 1].kind = "mark" /\ \A j \in a .. i : file[j].kind # "blank"
      BY <1>5, <2>3 DEF AllStarts
    <3>2. i <= b
      <4>1. SUFFICES ASSUME i > b PROVE FALSE
        BY <1>4, <2>1
      <4>2. b < Len(file) /\ b + 1 \in a .. i
        BY <1>1, <1>4, <2>1, <4>1
      <4> QED
        BY <1>3, <3>1, <4>2 DEF IsMain
    <3> QED
      BY <1>4, <2>1, <2>2, <3>1, <3>2
  <2>4. ASSUME i - a \in DOMAIN objectDump, objectDump[i - a].kind = "mark"
        PROVE  i \in AllStarts
    <3>1. i - a < Len(objectDump)
      BY <2>4 DEF CInv, IInv, DumpOK
    <3>2. i <= b
      BY <1>4, <2>1, <3>1
    <3>3. \A j \in a .. i : j \in a .. b
      BY <1>4, <2>1, <3>2
    <3> QED
      BY <1>3, <1>5, <2>2, <2>4, <3>3 DEF AllStarts, IsMain
  <2> QED
    BY <2>3, <2>4
<1>7. ASSUME NEW j \in DOMAIN indices, NEW i \in DOMAIN file, i - a \in DOMAIN objectDump
      PROVE  MarkOf(j, i - a) <=> StartsAt(j, i)
  <2>1. objectDump[i - a].kind = "mark" =>
          /\ objectDump[i - a] = file[i - 1] /\ objectDump[i - a + 1] = file[i]
          /\ file[i].kind = "instr"
    <3>1. SUFFICES ASSUME objectDump[i - a].kind = "mark"
                   PROVE  /\ objectDump[i - a] = file[i - 1] /\ objectDump[i - a + 1] = file[i]
                          /\ file[i].kind = "instr"
      OBVIOUS
    <3>2. i - a < Len(objectDump) /\ objectDump[i - a + 1].kind = "instr"
      BY <1>7, <3>1 DEF CInv, IInv, DumpOK
    <3>3. i \in Nat /\ i - a \in 1 .. b - a + 1 /\ i - a + 1 \in 1 .. b - a + 1
      BY <1>1, <1>4, <1>7, <3>2
    <3>4. a + (i - a) - 1 = i - 1 /\ a + (i - a + 1) - 1 = i
      <4>1. a \in Int /\ i \in Int
        BY <1>4, <3>3
      <4> QED
        BY <4>1
    <3> QED
      BY <1>4, <3>2, <3>3, <3>4
  <2>2. i - a <= incre /\ indices[j] < Len(mainFunct) /\ ~ (indices[j] >= Len(mainFunct))
    <3>1. indices[j] < Len(mainFunct) /\ indices[j] \in Nat /\ Len(mainFunct) \in Nat
      BY <1>1, SMTT(30) DEF AllBlocks, CInv, IInv, TypeOK
    <3>2. i - a \in 1 .. Len(objectDump) /\ Len(objectDump) \in Nat
      BY <1>4, <1>7
    <3> QED
      BY <1>1, <3>1, <3>2
  <2>3. MarkOf(j, i - a) <=> /\ objectDump[i - a].kind = "mark"
                             /\ objectDump[i - a].line = linenumber[j]
                             /\ objectDump[i - a + 1].addr = First(j)
    BY <2>2 DEF MarkOf, First
  <2>4. StartsAt(j, i) <=> /\ objectDump[i - a].kind = "mark" /\ file[i].kind = "instr"
                           /\ file[i].addr = First(j) /\ file[i - 1].line = linenumber[j]
    BY <1>6, <1>7 DEF StartsAt
  <2> QED
    BY <2>1, <2>3, <2>4
<1>8. ASSUME NEW i \in AllStarts
      PROVE  \E j \in DOMAIN indices : StartsAt(j, i)
  <2>1. i \in DOMAIN file /\ i - a \in DOMAIN objectDump /\ objectDump[i - a].kind = "mark"
    BY <1>6 DEF AllStarts
  <2>2. i - a <= incre
    BY <1>1, <1>4, <2>1
  <2>3. PICK j \in DOMAIN indices : MarkOf(j, i - a)
    BY <2>1, <2>2 DEF CInv, EveryMark
  <2> QED
    BY <1>7, <2>1, <2>3
<1>9. ASSUME NEW j \in DOMAIN indices
      PROVE  \E i \in AllStarts : StartsAt(j, i)
  <2>1. PICK p \in DOMAIN objectDump : MarkOf(j, p)
    BY DEF CInv, IInv, MarksRead
  <2>2. p < Len(objectDump)
    BY <2>1 DEF MarkOf, CInv, IInv, DumpOK
  <2>3. a + p \in DOMAIN file /\ (a + p) - a = p
    BY <1>1, <1>4, <2>2
  <2>4. StartsAt(j, a + p)
    BY <1>7, <2>1, <2>3
  <2> QED
    BY <2>4 DEF StartsAt
<1>10. ASSUME NEW j \in DOMAIN indices, NEW k \in DOMAIN indices,
              NEW i \in AllStarts, NEW l \in AllStarts, StartsAt(j, i), StartsAt(k, l)
       PROVE  j < k <=> i < l
  <2>1. /\ i \in DOMAIN file /\ i - a \in DOMAIN objectDump
        /\ l \in DOMAIN file /\ l - a \in DOMAIN objectDump
    BY <1>6 DEF AllStarts
  <2>2. MarkOf(j, i - a) /\ MarkOf(k, l - a)
    BY <1>7, <1>10, <2>1
  <2>3. (j < k => i - a < l - a) /\ (k < j => l - a < i - a)
    BY <2>1, <2>2 DEF CInv, MarksInOrder
  <2>4. j = k => i = l
    BY <1>1, <1>10, <2>1 DEF StartsAt, WellFormed
  <2>5. i \in Nat /\ l \in Nat /\ a \in Nat /\ j \in Nat /\ k \in Nat
    BY <1>1, <1>4, <2>1, SMTT(30)
  <2> QED
    BY <2>3, <2>4, <2>5
<1> QED
  BY <1>8, <1>9, <1>10

LEMMA CompleteIsRight ==
  ASSUME FilesAssumption, CInv
  PROVE  TablesAreRight
<1>1. SUFFICES ASSUME pc = "done" PROVE TablesAreRight
  BY DEF TablesAreRight
<1> DEFINE s == {i \in AllStarts : \E j \in AllStarts : j < i}
           N == Len(indices)
<1>2. s = Starts(file)
  BY DEF Starts, AllStarts, Label
<1>3. PICK d \in Nat : CompleteTo(d)
  BY <1>1 DEF CInv
<1>4. /\ N \in Nat /\ DOMAIN indices = 1 .. N /\ AllBlocks /\ d = N
      /\ file \in Seq(DumpLine) /\ WellFormed(file) /\ DOMAIN file = 1 .. Len(file)
      /\ Len(file) \in Nat /\ N >= 1
  <2>1. indices \in Seq(Nat) /\ AllBlocks /\ x86_code = << >>
        /\ file \in Seq(DumpLine) /\ WellFormed(file)
    BY <1>1 DEF CInv, IInv, TypeOK, FilesAssumption
  <2>2. d + 0 = N /\ d >= 1
    BY <1>3, <2>1 DEF CompleteTo
  <2> QED
    BY <2>1, <2>2
<1>5. /\ \A i \in AllStarts : \E j \in 1 .. N : StartsAt(j, i)
      /\ \A j \in 1 .. N : \E i \in AllStarts : StartsAt(j, i)
      /\ \A j, k \in 1 .. N : \A i, l \in AllStarts :
           StartsAt(j, i) /\ StartsAt(k, l) => (j < k <=> i < l)
  BY <1>1, <1>4, BlocksAreStarts
<1>6. /\ DOMAIN addr_to_line = {First(j) : j \in 2 .. N}
      /\ \A j \in 2 .. N : addr_to_line[First(j)] = linenumber[j]
      /\ DOMAIN line_to_addr = {linenumber[j] : j \in 2 .. N}
      /\ \A j \in 2 .. N : Leads(j) => line_to_addr[linenumber[j]] = First(j)
  BY <1>3, <1>4 DEF CompleteTo
<1> HIDE DEF N, s
<1>7. /\ \A i \in s : \E j \in 2 .. N : StartsAt(j, i)
      /\ \A j \in 2 .. N : \E i \in s : StartsAt(j, i)
      /\ \A i \in s : i \in DOMAIN file /\ i \in Nat
  <2>1. ASSUME NEW i \in s
        PROVE  \E j \in 2 .. N : StartsAt(j, i)
    <3>1. i \in AllStarts /\ \E l \in AllStarts : l < i
      BY DEF s
    <3>2. PICK l \in AllStarts : l < i
      BY <3>1
    <3>3. PICK j \in 1 .. N, k \in 1 .. N : StartsAt(j, i) /\ StartsAt(k, l)
      BY <1>5, <3>1
    <3>4. k < j
      BY <1>5, <3>1, <3>2, <3>3
    <3>5. j \in 2 .. N
      BY <1>4, <3>4
    <3> QED
      BY <3>3, <3>5
  <2>2. ASSUME NEW j \in 2 .. N
        PROVE  \E i \in s : StartsAt(j, i)
    <3>1. j \in 1 .. N /\ 1 \in 1 .. N /\ 1 < j
      BY <1>4
    <3>2. PICK i \in AllStarts, l \in AllStarts : StartsAt(j, i) /\ StartsAt(1, l)
      BY <1>5, <3>1
    <3>3. l < i
      BY <1>5, <3>1, <3>2
    <3> QED
      BY <3>2, <3>3 DEF s
  <2>3. \A i \in s : i \in DOMAIN file /\ i \in Nat
    BY <1>4 DEF s, AllStarts
  <2> QED
    BY <2>1, <2>2, <2>3
<1>8. /\ DOMAIN addr_to_line = {file[i].addr : i \in s}
      /\ \A i \in s : addr_to_line[file[i].addr] = file[i - 1].line
      /\ DOMAIN line_to_addr = {file[i - 1].line : i \in s}
  BY <1>6, <1>7 DEF StartsAt
<1>9. ASSUME NEW x \in {file[i].addr : i \in s}
      PROVE  addr_to_line[x] = file[(CHOOSE i \in s : file[i].addr = x) - 1].line
  <2>1. \E i \in s : file[i].addr = x
    OBVIOUS
  <2>2. (CHOOSE i \in s : file[i].addr = x) \in s
        /\ file[CHOOSE i \in s : file[i].addr = x].addr = x
    BY <2>1
  <2> QED
    BY <1>8, <2>2
<1>10. ASSUME NEW n \in {file[i - 1].line : i \in s}
       PROVE  line_to_addr[n] =
                file[CHOOSE i \in s : /\ file[i - 1].line = n
                                      /\ \A j \in s : file[j - 1].line = n => i <= j].addr
  <2> DEFINE Firstly(i) == /\ file[i - 1].line = n
                           /\ \A j \in s : file[j - 1].line = n => i <= j
             T == {k \in 2 .. N : linenumber[k] = n}
  <2>1. T # {} /\ T \subseteq Nat
    <3>1. PICK i \in s : file[i - 1].line = n
      OBVIOUS
    <3>2. PICK k \in 2 .. N : StartsAt(k, i)
      BY <1>7
    <3>3. k \in T
      BY <3>1, <3>2 DEF StartsAt
    <3> QED
      BY <1>4, <3>3
  <2>2. PICK j \in T : \A k \in T : j <= k
    <3> HIDE DEF T
    <3> QED
      BY <2>1, Least
  <2>3. j \in 2 .. N /\ linenumber[j] = n /\ Leads(j)
    BY <2>2 DEF Leads, N
  <2>4. PICK i \in s : StartsAt(j, i)
    BY <1>7, <2>3
  <2>5. ASSUME NEW l \in s, file[l - 1].line = n
        PROVE  i <= l
    <3>1. PICK k \in 2 .. N : StartsAt(k, l)
      BY <1>7
    <3>2. k \in T
      BY <2>5, <3>1 DEF StartsAt
    <3>3. j <= k /\ j \in 1 .. N /\ k \in 1 .. N
      BY <1>4, <2>2, <2>3, <3>1, <3>2
    <3>4. ~ (l < i)
      <4>1. ~ (k < j) /\ i \in AllStarts /\ l \in AllStarts
        BY <1>4, <2>4, <3>1, <3>3 DEF StartsAt
      <4> QED
        BY <1>5, <2>4, <3>1, <3>3, <4>1
    <3> QED
      BY <1>7, <3>4
  <2>6. i \in s /\ Firstly(i)
    BY <2>3, <2>4, <2>5 DEF StartsAt
  <2>7. ASSUME NEW l \in s, Firstly(l)
        PROVE  l = i
    <3>1. l <= i /\ i <= l
      BY <2>6, <2>7
    <3> QED
      BY <1>7, <3>1
  <2>8. (CHOOSE l \in s : Firstly(l)) = i
    <3> HIDE DEF Firstly
    <3> QED
      BY <2>6, <2>7
  <2>9. line_to_addr[n] = file[i].addr
    BY <1>6, <2>3, <2>4 DEF StartsAt
  <2> QED
    BY <2>8, <2>9
<1>11. /\ line_to_addr \in [DOMAIN line_to_addr -> Nat]
       /\ addr_to_line \in [DOMAIN addr_to_line -> Nat]
  BY DEF CInv, IInv, TypeOK
<1>12. addr_to_line = [x \in {file[i].addr : i \in s} |->
         file[(CHOOSE i \in s : file[i].addr = x) - 1].line]
  BY <1>8, <1>9, <1>11
<1>13. line_to_addr = [n \in {file[i - 1].line : i \in s} |->
         file[CHOOSE i \in s : /\ file[i - 1].line = n
                               /\ \A j \in s : file[j - 1].line = n => i <= j].addr]
  BY <1>8, <1>10, <1>11
<1> QED
  BY <1>2, <1>12, <1>13 DEF TablesAreRight

LEMMA CompleteInvariance == FilesAssumption => (Spec => []CInv)
<1> SUFFICES ASSUME FilesAssumption PROVE Spec => []CInv
  OBVIOUS
<1>1. Init => CInv
  BY InitCInv
<1>2. CInv /\ [Next]_vars => CInv'
  BY NextCInv
<1> QED
  BY <1>1, <1>2, PTL DEF Spec

-----------------------------------------------------------------------------
(* The tables hold every block of main but the first, and nothing else: an *)
(* address has the line of its mark, and a line has its first address in   *)
(* the order of the code.                                                  *)
THEOREM TablesComplete == FilesAssumption => (Spec => []TablesAreRight)
<1> SUFFICES ASSUME FilesAssumption PROVE Spec => []TablesAreRight
  OBVIOUS
<1>1. CInv => TablesAreRight
  BY CompleteIsRight
<1> QED
  BY <1>1, CompleteInvariance, PTL

-----------------------------------------------------------------------------
(* The valgrind report.                                                    *)

InText(l) == \E k \in DOMAIN report.text : report.text[k] = l

(* Whatever is kept is in the text, or is the empty line in front. *)
LinesFromText ==
  /\ errorLines # << >> /\ errorLines[1] = blank
  /\ \A j \in DOMAIN errorLines : errorLines[j] = blank \/ InText(errorLines[j])

Genuine(e) == e.message = blank \/ InText(e.message)

ErrorsFromText ==
  /\ Genuine(temp)
  /\ \A j \in DOMAIN totalErrors : Genuine(totalErrors[j])

FiledRight ==
  \A c \in 0 .. 8 : \A j \in DOMAIN dividedErrors[c] :
    Genuine(dividedErrors[c][j]) /\ CategoryOf(dividedErrors[c][j]) = c

ReportInv ==
  /\ RTypeOK /\ LinesFromText /\ ErrorsFromText /\ FiledRight
  /\ rpc = "errors" => pos <= Len(errorLines) /\ Current = blank
  /\ rpc \in {"fix", "forced"} => ToFix

-----------------------------------------------------------------------------
LEMMA CategoryRange == \A what \in DOMAIN Category : Category[what] \in -1 .. 8
BY DEF Category

LEMMA LineTypes ==
  ASSUME NEW l \in ReportLine
  PROVE  /\ l.kind = "message" => l.what \in DOMAIN Category
         /\ l.kind = "user" => l.line \in Nat
         /\ Described(l) \in Seq(Nat \cup {-1})
<1>1. l.kind = "message" => l.what \in DOMAIN Category
  BY DEF ReportLine
<1>2. l.kind = "user" => l.line \in Nat
  BY DEF ReportLine
<1>3. \A x \in Nat \cup {-1} : <<x>> \in Seq(Nat \cup {-1})
  OBVIOUS
<1>4. << >> \in Seq(Nat \cup {-1})
  OBVIOUS
<1>5. Described(l) \in Seq(Nat \cup {-1})
  BY <1>2, <1>3, <1>4 DEF Described
<1> QED
  BY <1>1, <1>2, <1>5

LEMMA BlankIsLine == blank \in ReportLine
BY DEF blank, ReportLine

LEMMA ErrorMade ==
  ASSUME NEW m \in ReportLine, NEW d \in Seq(Nat \cup {-1})
  PROVE  [message |-> m, description |-> d] \in Error
BY DEF Error

LEMMA CategoryOfRange ==
  ASSUME NEW e \in Error
  PROVE  CategoryOf(e) \in -1 .. 8
<1>1. e.message \in ReportLine
  BY DEF Error
<1> QED
  BY <1>1, LineTypes, CategoryRange DEF CategoryOf

LEMMA CurrentLine ==
  ASSUME RTypeOK, pos <= Len(errorLines)
  PROVE  pos \in DOMAIN errorLines /\ Current \in ReportLine
<1>1. errorLines \in Seq(ReportLine) /\ pos \in Nat \ {0}
  BY DEF RTypeOK
<1>2. pos \in 1 .. Len(errorLines)
  BY <1>1
<1> QED
  BY <1>1, <1>2 DEF Current

LEMMA InitReportInv ==
  ASSUME ReportsAssumption, RInit
  PROVE  ReportInv
<1>1. <<blank>> \in Seq(ReportLine) /\ temp \in Error
  <2>1. \A l \in ReportLine : <<l>> \in Seq(ReportLine)
    OBVIOUS
  <2>2. << >> \in Seq(Nat \cup {-1})
    OBVIOUS
  <2> QED
    BY <2>1, <2>2, BlankIsLine, ErrorMade DEF RInit
<1>2. RTypeOK
  <2>1. [c \in 0 .. 8 |-> << >>] \in [0 .. 8 -> Seq(Error)]
    OBVIOUS
  <2>2. report.text \in Seq(ReportLine)
    BY DEF RInit, ReportsAssumption
  <2>3. << >> \in Seq(Error) /\ << >> \in Seq(ReportLine) /\ 6 \in Nat \ {0} /\ 0 \in Nat
    OBVIOUS
  <2>4. leaks \in BOOLEAN
    BY DEF RInit
  <2>5. /\ pos = 6 /\ place = 0 /\ errorLines = <<blank>> /\ rpc = "keep"
        /\ totalErrors = << >> /\ memory = << >>
        /\ dividedErrors = [c \in 0 .. 8 |-> << >>]
    BY DEF RInit
  <2> QED
    BY <1>1, <2>1, <2>2, <2>3, <2>4, <2>5 DEF RTypeOK
<1>3. LinesFromText /\ ErrorsFromText /\ FiledRight
  BY DEF RInit, LinesFromText, ErrorsFromText, FiledRight, Genuine
<1> QED
  BY <1>2, <1>3 DEF RInit, ReportInv

-----------------------------------------------------------------------------
(* The conjuncts about what is read do not change with the place in it.    *)
LEMMA SameLines ==
  ASSUME ReportInv, UNCHANGED <<report, errorLines>>
  PROVE  LinesFromText'
BY DEF ReportInv, LinesFromText, InText

LEMMA SameErrors ==
  ASSUME ReportInv, UNCHANGED <<report, temp, totalErrors>>
  PROVE  ErrorsFromText'
BY DEF ReportInv, ErrorsFromText, Genuine, InText

LEMMA SameFiled ==
  ASSUME ReportInv, UNCHANGED <<report, dividedErrors>>
  PROVE  FiledRight'
BY DEF ReportInv, FiledRight, Genuine, InText, CategoryOf

LEMMA KeepLineStep ==
  ASSUME ReportInv, KeepLine
  PROVE  ReportInv'
<1> USE DEF found, filed
<1> DEFINE line == report.text[pos]
<1>1. /\ report.text \in Seq(ReportLine) /\ pos \in Nat \ {0} /\ pos <= Len(report.text)
      /\ errorLines \in Seq(ReportLine)
  BY DEF ReportInv, RTypeOK, KeepLine
<1>2. line \in ReportLine /\ InText(line)
  BY <1>1 DEF InText
<1>3. /\ errorLines' = errorLines \/ errorLines' = Append(errorLines, line)
      /\ report' = report /\ rpc' = "keep" /\ pos' = pos + 1
      /\ place' = place \/ place' = Len(errorLines)
  BY DEF KeepLine
<1> HIDE DEF line
<1>4. RTypeOK'
  <2>1. errorLines' \in Seq(ReportLine) /\ pos' \in Nat \ {0}
    BY <1>1, <1>2, <1>3
  <2>2. place \in Nat /\ Len(errorLines) \in Nat
    BY <1>1 DEF ReportInv, RTypeOK
  <2>3. place' \in Nat
    BY <1>3, <2>2
  <2> QED
    BY <2>1, <2>3 DEF ReportInv, RTypeOK, KeepLine
<1>5. LinesFromText'
  <2>1. CASE errorLines' = errorLines
    BY <1>3, <2>1, SameLines
  <2>2. CASE errorLines' = Append(errorLines, line)
    BY <1>1, <1>2, <1>3, <2>2 DEF ReportInv, LinesFromText, InText
  <2> QED
    BY <1>3, <2>1, <2>2
<1>6. ErrorsFromText' /\ FiledRight'
  BY SameErrors, SameFiled DEF KeepLine
<1> QED
  BY <1>3, <1>4, <1>5, <1>6 DEF ReportInv

(* Moves of rpc and pos. *)
LEMMA ReportMoveStep ==
  ASSUME ReportInv, UNCHANGED <<report, errorLines, temp, found, filed>>,
         pos' \in Nat \ {0}, place' \in Nat,
         rpc' \in {"errors", "blanks", "memory", "examine", "verdict", "crashed",
                  "continue", "forced"},
         rpc' = "errors" => pos' = 1,
         rpc' = "forced" => ToFix
  PROVE  ReportInv'
<1> USE DEF found, filed
<1>1. RTypeOK'
  BY DEF ReportInv, RTypeOK
<1>2. LinesFromText' /\ ErrorsFromText' /\ FiledRight'
  BY SameLines, SameErrors, SameFiled
<1>3. rpc' = "errors" => pos' <= Len(errorLines') /\ Current'  = blank
  BY DEF ReportInv, RTypeOK, LinesFromText, Current
<1>4. ToFix' = ToFix
  BY DEF ToFix
<1> QED
  BY <1>1, <1>2, <1>3, <1>4 DEF ReportInv

LEMMA MessageStep ==
  ASSUME ReportInv, Message, pos < place
  PROVE  ReportInv'
<1> USE DEF found, filed
<1>1. /\ pos \in Nat \ {0} /\ pos \in DOMAIN errorLines /\ Current \in ReportLine
      /\ pos' = pos + 1 /\ rpc' = "body" /\ place \in Nat
      /\ temp' = [message |-> Current, description |-> << >>]
  <2>1. RTypeOK /\ pos <= Len(errorLines) /\ pos \in Nat \ {0} /\ place \in Nat
    BY DEF ReportInv, Message, RTypeOK
  <2>2. /\ pos' = pos + 1 /\ rpc' = "body"
        /\ temp' = [message |-> Current, description |-> << >>]
    BY <2>1 DEF Message
  <2> QED
    BY <2>1, <2>2, CurrentLine
<1>2. RTypeOK'
  <2>0. << >> \in Seq(Nat \cup {-1})
    OBVIOUS
  <2>a. pos' \in Nat \ {0}
    BY <1>1
  <2>b. [message |-> Current, description |-> << >>] \in Error
    BY <1>1, <2>0, ErrorMade
  <2>1. temp' \in Error /\ pos' \in Nat \ {0}
    BY <1>1, <2>a, <2>b
  <2> QED
    BY <1>1, <2>1 DEF ReportInv, RTypeOK, Message
<1>3. LinesFromText' /\ FiledRight'
  BY SameLines, SameFiled DEF Message
<1>4. ErrorsFromText'
  BY <1>1 DEF ReportInv, ErrorsFromText, LinesFromText, Genuine, InText, Message, Current
<1> QED
  BY <1>1, <1>2, <1>3, <1>4 DEF ReportInv

LEMMA BodyStep ==
  ASSUME ReportInv, Body
  PROVE  ReportInv'
<1> USE DEF found, filed
<1>1. /\ pos \in Nat \ {0} /\ pos \in DOMAIN errorLines /\ Current \in ReportLine
      /\ pos' = pos + 1 /\ rpc' \in {"body", "crashed"} /\ temp \in Error
      /\ temp' = [temp EXCEPT !.description = @ \o Described(Current)]
  <2>1. RTypeOK /\ pos <= Len(errorLines) /\ pos \in Nat \ {0} /\ temp \in Error
    BY DEF ReportInv, Body, RTypeOK
  <2>2. /\ pos' = pos + 1 /\ rpc' \in {"body", "crashed"}
        /\ temp' = [temp EXCEPT !.description = @ \o Described(Current)]
    BY DEF Body
  <2> QED
    BY <2>1, <2>2, CurrentLine
<1>2. temp' \in Error /\ temp'.message = temp.message
  <2>1. temp.description \in Seq(Nat \cup {-1}) /\ Described(Current) \in Seq(Nat \cup {-1})
    BY <1>1, LineTypes DEF Error
  <2>2. temp.description \o Described(Current) \in Seq(Nat \cup {-1})
    BY <2>1
  <2> QED
    BY <1>1, <2>2 DEF Error
<1>3. RTypeOK'
  <2>1. pos' \in Nat \ {0}
    BY <1>1
  <2> QED
    BY <1>1, <1>2, <2>1 DEF ReportInv, RTypeOK, Body
<1>4. LinesFromText' /\ FiledRight'
  BY SameLines, SameFiled DEF Body
<1>5. ErrorsFromText'
  BY <1>2 DEF ReportInv, ErrorsFromText, Genuine, InText, Body
<1> QED
  BY <1>1, <1>3, <1>4, <1>5 DEF ReportInv

LEMMA EndErrorStep ==
  ASSUME ReportInv, EndError
  PROVE  ReportInv'
<1> USE DEF found, filed
<1>1. /\ totalErrors \in Seq(Error) /\ temp \in Error
      /\ totalErrors' = Append(totalErrors, temp)
  BY DEF ReportInv, RTypeOK, EndError
<1>2. RTypeOK'
  <2>1. totalErrors' \in Seq(Error)
    BY <1>1
  <2> QED
    BY <2>1 DEF ReportInv, RTypeOK, EndError
<1>3. LinesFromText' /\ FiledRight'
  BY SameLines, SameFiled DEF EndError
<1>4. ErrorsFromText'
  BY <1>1 DEF ReportInv, ErrorsFromText, Genuine, InText, EndError
<1>5. pos' <= Len(errorLines') /\ Current' = blank
  BY DEF EndError, Current
<1> QED
  BY <1>2, <1>3, <1>4, <1>5 DEF ReportInv, EndError

LEMMA MemoryLineStep ==
  ASSUME ReportInv, MemoryLine
  PROVE  ReportInv'
<1> USE DEF found, filed
<1>1. /\ pos \in Nat \ {0} /\ Current \in ReportLine /\ memory \in Seq(ReportLine)
      /\ Len(errorLines) \in Nat
  <2>1. RTypeOK /\ pos <= Len(errorLines)
    BY DEF ReportInv, MemoryLine
  <2>2. pos \in Nat \ {0} /\ memory \in Seq(ReportLine) /\ errorLines \in Seq(ReportLine)
    BY <2>1 DEF RTypeOK
  <2> QED
    BY <2>1, <2>2, CurrentLine
<1>2. memory' \in Seq(ReportLine) /\ pos' \in Nat \ {0} /\ leaks' \in BOOLEAN
  <2>1. memory' = memory \/ memory' = Append(memory, Current)
    BY DEF MemoryLine
  <2>2. pos' = pos + 1 \/ pos' = Len(errorLines) + 1
    BY DEF MemoryLine
  <2>3. leaks' \in BOOLEAN
    BY DEF MemoryLine
  <2>4. Append(memory, Current) \in Seq(ReportLine)
    BY <1>1
  <2>5. pos + 1 \in Nat \ {0} /\ Len(errorLines) + 1 \in Nat \ {0}
    BY <1>1
  <2> QED
    BY <1>1, <2>1, <2>2, <2>3, <2>4, <2>5
<1>3. RTypeOK'
  BY <1>2 DEF ReportInv, RTypeOK, MemoryLine
<1>4. LinesFromText' /\ ErrorsFromText' /\ FiledRight'
  BY SameLines, SameErrors, SameFiled DEF MemoryLine
<1> QED
  BY <1>3, <1>4 DEF ReportInv, MemoryLine

LEMMA ExamineStep ==
  ASSUME ReportInv, examine
  PROVE  ReportInv'
<1> USE DEF found, filed
<1> DEFINE e == totalErrors[pos]
           c == CategoryOf(e)
<1>1. /\ pos \in Nat \ {0} /\ pos \in DOMAIN totalErrors /\ e \in Error /\ pos' = pos + 1
      /\ dividedErrors \in [0 .. 8 -> Seq(Error)]
      /\ rpc' = "examine" /\ report' = report /\ Genuine(e)
  <2>1. /\ pos \in Nat \ {0} /\ totalErrors \in Seq(Error) /\ pos <= Len(totalErrors)
        /\ dividedErrors \in [0 .. 8 -> Seq(Error)]
        /\ rpc' = "examine" /\ report' = report /\ pos' = pos + 1
    BY DEF ReportInv, RTypeOK, examine
  <2>2. pos \in DOMAIN totalErrors /\ e \in Error
    BY <2>1, SMTT(30)
  <2> QED
    BY <2>1, <2>2 DEF ReportInv, ErrorsFromText
<1>2. c \in -1 .. 8
  BY <1>1, CategoryOfRange
<1>3. dividedErrors' = IF c = -1 THEN dividedErrors
                       ELSE [dividedErrors EXCEPT ![c] = Append(@, e)]
  BY DEF examine
<1>4. RTypeOK'
  <2>1. dividedErrors' \in [0 .. 8 -> Seq(Error)]
    <3>1. CASE c = -1
      BY <1>1, <1>3, <3>1
    <3>2. CASE c # -1
      <4>1. c \in 0 .. 8
        BY <1>2, <3>2
      <4>2. Append(dividedErrors[c], e) \in Seq(Error)
        BY <1>1, <4>1
      <4> HIDE DEF e, c
      <4> QED
        BY <1>1, <1>3, <3>2, <4>1, <4>2
    <3> QED
      BY <3>1, <3>2
  <2>2. pos' \in Nat \ {0}
    BY <1>1
  <2> QED
    BY <2>1, <2>2 DEF ReportInv, RTypeOK, examine
<1>5. LinesFromText' /\ ErrorsFromText'
  BY SameLines, SameErrors DEF examine
<1>6. FiledRight'
  <2>1. CASE c = -1
    BY <1>1, <1>3, <2>1, SameFiled
  <2>2. CASE c # -1
    <3>1. SUFFICES ASSUME NEW d \in 0 .. 8, NEW j \in DOMAIN dividedErrors'[d]
                   PROVE  Genuine(dividedErrors'[d][j]) /\ CategoryOf(dividedErrors'[d][j]) = d
      BY <1>1 DEF FiledRight, Genuine, InText, CategoryOf
    <3>2. CASE d # c
      BY <1>1, <1>2, <1>3, <2>2, <3>2 DEF ReportInv, FiledRight
    <3>3. CASE d = c
      <4>1. dividedErrors'[d] = Append(dividedErrors[d], e)
        BY <1>1, <1>2, <1>3, <2>2, <3>3
      <4>2. dividedErrors[d] \in Seq(Error)
        BY <1>1
      <4> HIDE DEF e
      <4>3. \/ j \in DOMAIN dividedErrors[d] /\ dividedErrors'[d][j] = dividedErrors[d][j]
            \/ dividedErrors'[d][j] = e
        BY <3>1, <4>1, <4>2
      <4> QED
        BY <1>1, <3>3, <4>3 DEF ReportInv, FiledRight
    <3> QED
      BY <3>2, <3>3
  <2> QED
    BY <2>1, <2>2
<1> QED
  BY <1>1, <1>4, <1>5, <1>6 DEF ReportInv

LEMMA HandleNowsStep ==
  ASSUME ReportInv, handleNows
  PROVE  ReportInv'
<1> USE DEF found, filed
<1>1. RTypeOK'
  BY DEF ReportInv, RTypeOK, handleNows
<1>2. LinesFromText' /\ ErrorsFromText' /\ FiledRight'
  BY SameLines, SameErrors, SameFiled DEF handleNows
<1>3. ToFix'
  BY DEF handleNows, ToFix
<1> QED
  BY <1>1, <1>2, <1>3 DEF ReportInv, handleNows

LEMMA ReportStutter ==
  ASSUME ReportInv, UNCHANGED rvars
  PROVE  ReportInv'
<1> USE DEF rvars, found, filed
<1>1. RTypeOK'
  BY DEF ReportInv, RTypeOK
<1>2. LinesFromText' /\ ErrorsFromText' /\ FiledRight'
  BY SameLines, SameErrors, SameFiled
<1> QED
  BY <1>1, <1>2 DEF ReportInv, Current, ToFix

LEMMA NextReportInv ==
  ASSUME ReportInv, [RNext]_rvars
  PROVE  ReportInv'
<1> USE DEF found, filed
<1>0. pos \in Nat \ {0} /\ place \in Nat
  BY DEF ReportInv, RTypeOK
<1>1. CASE KeepLine
  BY <1>1, KeepLineStep
<1>2. CASE Kept
  <2>1. place' \in Nat
    <3>1. Len(errorLines) \in Nat
      BY DEF ReportInv, RTypeOK
    <3> QED
      BY <1>0, <1>2, <3>1 DEF Kept
  <2> QED
    BY <1>2, <2>1, ReportMoveStep DEF Kept
<1>3. CASE Beyond
  BY <1>0, <1>3, ReportMoveStep DEF Beyond
<1>4. CASE NextError
  BY <1>0, <1>4, ReportMoveStep DEF NextError
<1>5. CASE SkipBlank
  <2>1. pos' \in Nat \ {0} /\ rpc' = "blanks"
    BY <1>0, <1>5 DEF SkipBlank
  <2> QED
    BY <1>0, <1>5, <2>1, ReportMoveStep DEF SkipBlank
<1>6. CASE Message
  <2>1. CASE pos < place
    BY <1>6, <2>1, MessageStep
  <2>2. CASE pos >= place /\ rpc' = "memory" /\ UNCHANGED <<pos, temp>>
    BY <1>0, <1>6, <2>2, ReportMoveStep DEF Message
  <2> QED
    BY <1>6, <2>1, <2>2 DEF Message
<1>7. CASE Body
  BY <1>7, BodyStep
<1>8. CASE EndError
  BY <1>8, EndErrorStep
<1>9. CASE MemoryLine
  BY <1>9, MemoryLineStep
<1>10. CASE Parsed
  BY <1>0, <1>10, ReportMoveStep DEF Parsed
<1>11. CASE examine
  BY <1>11, ExamineStep
<1>12. CASE Examined
  BY <1>0, <1>12, ReportMoveStep DEF Examined
<1>13. CASE handleNows
  BY <1>13, HandleNowsStep
<1>14. CASE ForceOn
  BY <1>0, <1>14, ReportMoveStep DEF ForceOn
<1>15. CASE Continue
  BY <1>0, <1>15, ReportMoveStep DEF Continue
<1>16. CASE UNCHANGED rvars
  BY <1>16, ReportStutter
<1> QED
  BY <1>1, <1>2, <1>3, <1>4, <1>5, <1>6, <1>7, <1>8, <1>9, <1>10, <1>11, <1>12,
     <1>13, <1>14, <1>15, <1>16
  DEF RNext, execValgrind, parse

LEMMA ReportInvariance == ReportsAssumption => (RSpec => []ReportInv)
<1> SUFFICES ASSUME ReportsAssumption PROVE RSpec => []ReportInv
  OBVIOUS
<1>1. RInit => ReportInv
  BY InitReportInv
<1>2. ReportInv /\ [RNext]_rvars => ReportInv'
  BY NextReportInv
<1> QED
  BY <1>1, <1>2, PTL DEF RSpec

-----------------------------------------------------------------------------
(* All variables keep their types, for every text. *)
THEOREM ReportTyped == ReportsAssumption => (RSpec => []RTypeOK)
<1>1. ReportInv => RTypeOK
  BY DEF ReportInv
<1> QED
  BY <1>1, ReportInvariance, PTL

(* The loop of parse never stays on a line: whatever is lost of a report.  *)
THEOREM NeverSpins == ReportsAssumption => (RSpec => []NoSpin)
<1>1. ReportInv => NoSpin
  BY DEF ReportInv, NoSpin
<1> QED
  BY <1>1, ReportInvariance, PTL

(* A program is stopped only for an error message that is in the text.     *)
THEOREM StopsForCause == ReportsAssumption => (RSpec => []NoFalseAlarm)
<1>1. ReportInv => NoFalseAlarm
  <2>1. SUFFICES ASSUME ReportInv, rpc \in {"fix", "forced"}
                 PROVE  \E k \in DOMAIN report.text :
                          /\ report.text[k].kind = "message"
                          /\ Category[report.text[k].what] \in Now
    BY DEF NoFalseAlarm
  <2>2. PICK c \in Now : dividedErrors[c] # << >>
    BY <2>1 DEF ReportInv, ToFix
  <2>3. c \in 0 .. 8 /\ dividedErrors[c] \in Seq(Error)
    <3>1. c \in 0 .. 8
      BY DEF Now
    <3>2. dividedErrors \in [0 .. 8 -> Seq(Error)]
      BY <2>1 DEF ReportInv, RTypeOK
    <3> QED
      BY <3>1, <3>2
  <2>4. 1 \in DOMAIN dividedErrors[c]
    BY <2>2, <2>3
  <2>5. Genuine(dividedErrors[c][1]) /\ CategoryOf(dividedErrors[c][1]) = c
    BY <2>1, <2>3, <2>4 DEF ReportInv, FiledRight
  <2>6. /\ dividedErrors[c][1].message.kind = "message"
        /\ Category[dividedErrors[c][1].message.what] \in Now
    BY <2>2, <2>3, <2>5 DEF CategoryOf, Now
  <2>7. InText(dividedErrors[c][1].message)
    BY <2>5, <2>6 DEF Genuine, blank
  <2> QED
    BY <2>6, <2>7 DEF InText
<1> QED
  BY <1>1, ReportInvariance, PTL
-----------------------------------------------------------------------------
(* What is kept of the text, and where the summary starts in it.           *)
PlaceRight ==
  /\ place >= 1 /\ place + 1 <= Len(errorLines) /\ errorLines[place + 1].kind = "heap"
  /\ \A k \in DOMAIN errorLines : k > place + 1 => errorLines[k].kind # "heap"

Keeping ==
  /\ pos >= 6 /\ pos - 6 <= Len(Unspoilt(report))
  /\ errorLines = <<blank>> \o Joined(Unspoilt(report))[pos - 6]
  /\ place # 0 => PlaceRight
  /\ place = 0 => \A k \in DOMAIN errorLines : errorLines[k].kind # "heap"

HeapSeen == Lines({"heap"}, errorLines) # {}
Laid == errorLines = AllLines(report) /\ (HeapSeen => PlaceRight)

(* Nothing is read yet, of the summary or of the errors.                   *)
NoMemory == memory = << >> /\ leaks = FALSE
NoErrors == dividedErrors = [c \in 0 .. 8 |-> << >>]

(* The reading of the summary, of any report that has one. *)
BehindBlank ==
  pos <= Len(errorLines) => \/ Current = blank
                            \/ pos > 1 /\ errorLines[pos - 1] = blank
MemoryClean ==
  HeapSeen => \A k \in Lines(OfError, memory) :
    k = 1 /\ memory[1] = errorLines[place] /\ errorLines[place - 1] = blank
RestClean ==
  HeapSeen =>
    /\ pos >= place
    /\ \A k \in pos .. Len(errorLines) :
         errorLines[k].kind \in OfError =>
           k = place /\ memory = << >> /\ errorLines[place - 1] = blank

(* The errors before the p-th are filed, and no others.                    *)
FiledTo(p) ==
  /\ \A c \in 0 .. 8 : \A j \in DOMAIN dividedErrors[c] :
       \E m \in DOMAIN totalErrors : totalErrors[m] = dividedErrors[c][j]
  /\ \A m \in DOMAIN totalErrors : m < p /\ CategoryOf(totalErrors[m]) # -1 =>
       \E j \in DOMAIN dividedErrors[CategoryOf(totalErrors[m])] :
         dividedErrors[CategoryOf(totalErrors[m])][j] = totalErrors[m]

SaidRight ==
  said = [c \in Now |-> [j \in DOMAIN dividedErrors[c] |->
                           Pointed(c, dividedErrors[c][j].description)]]

(* A whole report: n errors are read. *)
errs == report.errors
N == Len(errs)
PrintedTo == Joined([k \in DOMAIN errs |-> Printed(errs[k])])
At(n) == Len(PrintedTo[n]) + 1
MessageOf(k) == [kind |-> "message", what |-> errs[k].what]
Wanted(k) == [message |-> MessageOf(k), description |-> Description(errs[k].body)]
DescribedTo(k) == Joined([j \in DOMAIN errs[k].body |-> Described(errs[k].body[j])])
ReadTo(n) == totalErrors = [k \in 1 .. n |-> Wanted(k)]

InBlanks ==
  \/ \E n \in 0 .. N - 1 : ReadTo(n) /\ pos \in {At(n), At(n) + 1}
  \/ ReadTo(N) /\ pos \in At(N) .. place + 1
InBody ==
  \E n \in 0 .. N - 1 : \E k \in 0 .. Len(errs[n + 1].body) :
    /\ ReadTo(n) /\ pos = At(n) + 2 + k
    /\ temp = [message |-> MessageOf(n + 1), description |-> DescribedTo(n + 1)[k]]

HeapTaken == \E k \in DOMAIN memory : memory[k].kind = "heap"
NoRerun == Lines(OfError \cup {"rerun"}, memory) = {}
LeaksSeen ==
  pos <= Len(errorLines) /\ (\E j \in place .. pos - 1 : errorLines[j].kind = "leak") => leaks

ReadingWhole ==
  /\ rpc = "errors" => \E n \in 0 .. N : ReadTo(n) /\ pos = At(n)
  /\ rpc = "blanks" => InBlanks
  /\ rpc = "body" => InBody
  /\ rpc = "memory" => (pos > place + 1 => HeapTaken) /\ LeaksSeen
  /\ rpc \in {"examine", "verdict"} => HeapTaken
  /\ rpc \in {"memory", "examine", "verdict"} => NoRerun
  /\ rpc \in {"memory", "examine", "verdict", "continue", "fix", "forced"} => ReadTo(N)

ReadingAny ==
  /\ rpc = "keep" => Keeping /\ totalErrors = << >>
  /\ rpc \in {"errors", "blanks", "body", "memory"} => Laid
  /\ rpc \in {"keep", "errors", "blanks", "body"} => NoMemory
  /\ rpc \in {"keep", "errors", "blanks", "body", "memory"} => NoErrors
  /\ rpc = "blanks" => BehindBlank
  /\ rpc = "memory" => RestClean
  /\ rpc \in {"memory", "examine", "verdict"} => MemoryClean
  /\ rpc = "examine" => FiledTo(pos)
  /\ rpc \in {"verdict", "continue", "fix", "forced"} => FiledTo(Len(totalErrors) + 1)
  /\ rpc = "continue" => ~ToFix
  /\ rpc = "fix" => SaidRight

Reading == report \in Reports /\ ReadingAny /\ (report.whole => ReadingWhole)
WInv == ReportInv /\ Reading

-----------------------------------------------------------------------------
(* What Joined is: it exists, since a function is given by its steps.      *)
LEMMA JoinedIs ==
  ASSUME NEW S, NEW ss \in Seq(Seq(S))
  PROVE  /\ Joined(ss)[0] = << >>
         /\ \A n \in 0 .. Len(ss) - 1 : Joined(ss)[n + 1] = Joined(ss)[n] \o ss[n + 1]
         /\ \A n \in 0 .. Len(ss) : Joined(ss)[n] \in Seq(S)
<1> DEFINE M == Len(ss)
           T == Seq(S)
           step == [p \in Nat \X T |-> IF p[1] < M THEN p[2] \o ss[p[1] + 1] ELSE p[2]]
           Def(f) == f = [n \in 0 .. M |-> IF n = 0 THEN << >> ELSE f[n - 1] \o ss[n]]
<1>1. M \in Nat /\ DOMAIN ss = 1 .. M /\ \A n \in 1 .. M : ss[n] \in T
  OBVIOUS
<1> HIDE DEF M
<1>2. step \in [Nat \X T -> T]
  <2>1. ASSUME NEW p \in Nat \X T
        PROVE  (IF p[1] < M THEN p[2] \o ss[p[1] + 1] ELSE p[2]) \in T
    <3>1. p[1] \in Nat /\ p[2] \in T
      OBVIOUS
    <3>2. p[1] < M => p[1] + 1 \in 1 .. M
      BY <1>1, <3>1
    <3>3. p[1] < M => ss[p[1] + 1] \in T
      BY <1>1, <3>2
    <3>4. \A s, t \in T : s \o t \in T
      OBVIOUS
    <3> QED
      BY <3>1, <3>3, <3>4
  <2> QED
    BY <2>1
<1>3. << >> \in T
  OBVIOUS
<1>4. \A n \in 0 .. M - 1, s \in T : step[<<n, s>>] = s \o ss[n + 1]
  <2>1. \A n \in 0 .. M - 1, s \in T : n \in Nat /\ n < M /\ <<n, s>> \in Nat \X T
    BY <1>1
  <2> HIDE DEF T
  <2> QED
    BY <2>1
<1> HIDE DEF T, step
<1>5. PICK g : Runs(g, M, T, << >>, step)
  BY <1>1, <1>2, <1>3, RunExists
<1>6. /\ g \in [0 .. M -> T] /\ g[0] = << >>
      /\ \A n \in 0 .. M - 1 : g[n + 1] = g[n] \o ss[n + 1]
  <2>1. g \in [0 .. M -> T] /\ g[0] = << >>
    BY <1>5 DEF Runs
  <2>2. \A n \in 0 .. M - 1 : n \in 0 .. M
    BY <1>1
  <2>3. \A n \in 0 .. M - 1 : g[n + 1] = step[<<n, g[n]>>]
    BY <1>5 DEF Runs
  <2> QED
    BY <1>4, <2>1, <2>2, <2>3
<1>7. Def(g)
  <2>1. ASSUME NEW n \in 0 .. M
        PROVE  g[n] = IF n = 0 THEN << >> ELSE g[n - 1] \o ss[n]
    <3>1. n = 0 \/ (n - 1 \in 0 .. M - 1 /\ n - 1 + 1 = n)
      BY <1>1
    <3> QED
      BY <1>6, <3>1
  <2> QED
    BY <1>6, <2>1
<1>8. Joined(ss) = CHOOSE f : Def(f)
  BY DEF Joined, M
<1>9. Def(Joined(ss))
  <2> HIDE DEF Def
  <2> QED
    BY <1>7, <1>8
<1> DEFINE J == Joined(ss)
<1>10. J = [n \in 0 .. M |-> IF n = 0 THEN << >> ELSE J[n - 1] \o ss[n]]
  BY <1>9
<1> HIDE DEF J, Def
<1>a. ASSUME NEW k \in 0 .. M
      PROVE  J[k] = IF k = 0 THEN << >> ELSE J[k - 1] \o ss[k]
  <2> DEFINE F == [n \in 0 .. M |-> IF n = 0 THEN << >> ELSE J[n - 1] \o ss[n]]
  <2>1. F[k] = IF k = 0 THEN << >> ELSE J[k - 1] \o ss[k]
    OBVIOUS
  <2>2. J = F
    BY <1>10
  <2> HIDE DEF F
  <2> QED
    BY <2>1, <2>2
<1>11. J[0] = << >>
  BY <1>1, <1>a
<1>12. ASSUME NEW n \in 0 .. M - 1
       PROVE  J[n + 1] = J[n] \o ss[n + 1]
  <2>1. PICK k : k = n + 1 /\ k \in 0 .. M /\ k # 0 /\ k - 1 = n
    BY <1>1
  <2>2. J[k] = J[k - 1] \o ss[k]
    BY <1>a, <2>1
  <2> QED
    BY <2>1, <2>2
<1>13. \A n \in 0 .. M : J[n] \in T
  <2> DEFINE U == {n \in 0 .. M : J[n] \in T}
  <2>1. 0 \in U
    BY <1>1, <1>3, <1>11
  <2>2. \A n \in 0 .. M - 1 : n \in U => n + 1 \in U
    <3>1. SUFFICES ASSUME NEW n \in 0 .. M - 1, J[n] \in T PROVE n + 1 \in 0 .. M /\ J[n + 1] \in T
      OBVIOUS
    <3>2. n + 1 \in 1 .. M /\ n + 1 \in 0 .. M
      BY <1>1
    <3>3. ss[n + 1] \in T
      BY <1>1, <3>2
    <3>4. J[n] \o ss[n + 1] \in T
      BY <3>1, <3>3 DEF T
    <3> QED
      BY <1>12, <3>2, <3>4
  <2> HIDE DEF U
  <2>3. \A n \in 0 .. M : n \in U
    BY <1>1, <2>1, <2>2, UpTo
  <2> QED
    BY <2>3 DEF U
<1> QED
  BY <1>11, <1>12, <1>13 DEF J, M, T

LEMMA GrowsBehind ==
  ASSUME NEW S, NEW a \in Seq(S), NEW b \in Seq(S), NEW c \in Seq(S),
         Len(a) <= Len(b), \A i \in 1 .. Len(a) : b[i] = a[i]
  PROVE  Len(a) <= Len(b \o c) /\ \A i \in 1 .. Len(a) : (b \o c)[i] = a[i]
OBVIOUS

(* The first n begin what the first m are.                                 *)
LEMMA JoinedPrefix ==
  ASSUME NEW S, NEW ss \in Seq(Seq(S)), NEW n \in 0 .. Len(ss)
  PROVE  \A m \in n .. Len(ss) :
           /\ Len(Joined(ss)[n]) <= Len(Joined(ss)[m])
           /\ \A i \in 1 .. Len(Joined(ss)[n]) : Joined(ss)[m][i] = Joined(ss)[n][i]
<1> DEFINE J == Joined(ss)
           M == Len(ss)
           Begins(m) == /\ Len(J[n]) <= Len(J[m])
                        /\ \A i \in 1 .. Len(J[n]) : J[m][i] = J[n][i]
           U == {m \in 0 .. M - n : Begins(m + n)}
<1>1. /\ M \in Nat /\ n \in Nat /\ M - n \in Nat /\ \A m \in 1 .. M : ss[m] \in Seq(S)
      /\ n \in 0 .. M
      /\ \A m \in 0 .. M : J[m] \in Seq(S)
      /\ \A m \in 0 .. M - 1 : J[m + 1] = J[m] \o ss[m + 1]
  <2>1. M \in Nat /\ \A m \in 1 .. M : ss[m] \in Seq(S)
    OBVIOUS
  <2>2. n \in Nat /\ M - n \in Nat
    BY <2>1
  <2> QED
    BY <2>1, <2>2, JoinedIs
<1> HIDE DEF J, M
<1>2. 0 \in U
  BY <1>1
<1>3. ASSUME NEW m \in 0 .. M - n - 1, m \in U
      PROVE  m + 1 \in U
  <2>1. PICK k, l : /\ k = m + n /\ l = m + 1 + n /\ l = k + 1
                    /\ k \in 0 .. M - 1 /\ k \in 0 .. M /\ l \in 1 .. M /\ l \in 0 .. M
                    /\ m + 1 \in 0 .. M - n
    BY <1>1
  <2>2. J[k] \in Seq(S) /\ ss[l] \in Seq(S) /\ J[n] \in Seq(S) /\ J[l] = J[k] \o ss[l]
    BY <1>1, <2>1
  <2>3. Begins(k)
    <3> HIDE DEF Begins
    <3> QED
      BY <1>3, <2>1 DEF U
  <2>4. Begins(l)
    <3>1. PICK a \in Seq(S), b \in Seq(S), c \in Seq(S) : a = J[n] /\ b = J[k] /\ c = ss[l]
      BY <2>2
    <3>2. Len(a) <= Len(b) /\ \A i \in 1 .. Len(a) : b[i] = a[i]
      BY <2>3, <3>1
    <3>3. Len(a) <= Len(b \o c) /\ \A i \in 1 .. Len(a) : (b \o c)[i] = a[i]
      BY <3>2, GrowsBehind
    <3> QED
      BY <2>2, <3>1, <3>3
  <2> HIDE DEF Begins
  <2> QED
    BY <2>1, <2>4 DEF U
<1> HIDE DEF U
<1>4. \A m \in 0 .. M - n : m \in U
  BY <1>1, <1>2, <1>3, UpTo
<1>5. ASSUME NEW m \in n .. M
      PROVE  Begins(m)
  <2>1. m - n \in 0 .. M - n /\ m - n + n = m
    BY <1>1
  <2>2. m - n \in U
    BY <1>4, <2>1
  <2> HIDE DEF Begins
  <2> QED
    BY <2>1, <2>2 DEF U
<1> QED
  BY <1>5 DEF J, M

LEMMA ElementOf ==
  ASSUME NEW S, NEW s \in Seq(S)
  PROVE  DOMAIN s = 1 .. Len(s) /\ \A k \in 1 .. Len(s) : s[k] \in S
OBVIOUS

(* The errors of a whole report as they are printed: one behind the other. *)
LEMMA Printing ==
  ASSUME IsWhole(report)
  PROVE  /\ errs \in Seq([what : DOMAIN Category, body : Seq(ReportLine)]) /\ N \in Nat
         /\ PrintedTo[N] = PrintedAll(errs) /\ PrintedTo[0] = << >>
         /\ \A n \in 0 .. N : PrintedTo[n] \in Seq(ReportLine)
         /\ \A n \in 0 .. N - 1 : PrintedTo[n + 1] = PrintedTo[n] \o Printed(errs[n + 1])
         /\ \A n \in 0 .. N : \A m \in n .. N :
              /\ Len(PrintedTo[n]) <= Len(PrintedTo[m])
              /\ \A i \in 1 .. Len(PrintedTo[n]) : PrintedTo[m][i] = PrintedTo[n][i]
<1> DEFINE ss == [k \in DOMAIN errs |-> Printed(errs[k])]
<1>1. errs \in Seq([what : DOMAIN Category, body : Seq(ReportLine)])
  BY DEF IsWhole, errs
<1>2. N \in Nat /\ DOMAIN errs = 1 .. N
  BY <1>1 DEF N
<1>3. ASSUME NEW k \in 1 .. N
      PROVE  Printed(errs[k]) \in Seq(ReportLine)
  <2>0. errs[k] \in [what : DOMAIN Category, body : Seq(ReportLine)]
    BY <1>1, <1>3, ElementOf DEF N
  <2>1. errs[k].what \in DOMAIN Category /\ errs[k].body \in Seq(ReportLine)
    BY <2>0
  <2>2. [kind |-> "message", what |-> errs[k].what] \in ReportLine /\ blank \in ReportLine
    BY <2>1, BlankIsLine DEF ReportLine
  <2>3. \A l, m \in ReportLine, b \in Seq(ReportLine) : <<l>> \o b \o <<m>> \in Seq(ReportLine)
    OBVIOUS
  <2> QED
    BY <2>1, <2>2, <2>3 DEF Printed
<1>4. ss \in Seq(Seq(ReportLine)) /\ Len(ss) = N /\ DOMAIN ss = 1 .. N
  BY <1>2, <1>3
<1>5. \A n \in 0 .. N - 1 : ss[n + 1] = Printed(errs[n + 1])
  BY <1>2
<1> HIDE DEF ss
<1>6. PrintedTo = Joined(ss) /\ PrintedAll(errs) = Joined(ss)[N]
  BY <1>4 DEF PrintedTo, PrintedAll, JoinAll, ss
<1>7. /\ Joined(ss)[0] = << >> /\ \A n \in 0 .. N : Joined(ss)[n] \in Seq(ReportLine)
      /\ \A n \in 0 .. N - 1 : Joined(ss)[n + 1] = Joined(ss)[n] \o ss[n + 1]
  BY <1>4, JoinedIs
<1>8. \A n \in 0 .. N : \A m \in n .. N :
        /\ Len(Joined(ss)[n]) <= Len(Joined(ss)[m])
        /\ \A i \in 1 .. Len(Joined(ss)[n]) : Joined(ss)[m][i] = Joined(ss)[n][i]
  <2>1. SUFFICES ASSUME NEW n \in 0 .. Len(ss)
                 PROVE  \A m \in n .. Len(ss) :
                   /\ Len(Joined(ss)[n]) <= Len(Joined(ss)[m])
                   /\ \A i \in 1 .. Len(Joined(ss)[n]) : Joined(ss)[m][i] = Joined(ss)[n][i]
    BY <1>4
  <2> QED
    BY <1>4, JoinedPrefix
<1> QED
  BY <1>1, <1>2, <1>5, <1>6, <1>7, <1>8

(* Where they are in it. *)
LEMMA Places ==
  ASSUME IsWhole(report)
  PROVE  /\ At(0) = 1 /\ At(N) = Len(PrintedAll(errs)) + 1 /\ \A n \in 0 .. N : At(n) \in Nat \ {0}
         /\ \A n \in 0 .. N - 1 :
              /\ n + 1 \in DOMAIN errs /\ errs[n + 1].body \in Seq(ReportLine)
              /\ At(n + 1) = At(n) + Len(errs[n + 1].body) + 2
              /\ At(n) + Len(errs[n + 1].body) + 2 <= At(N)
              /\ PrintedAll(errs)[At(n)] = MessageOf(n + 1)
              /\ \A j \in DOMAIN errs[n + 1].body :
                   PrintedAll(errs)[At(n) + j] = errs[n + 1].body[j]
              /\ PrintedAll(errs)[At(n) + Len(errs[n + 1].body) + 1] = blank
<1>1. At(0) = 1 /\ At(N) = Len(PrintedAll(errs)) + 1 /\ \A n \in 0 .. N : At(n) \in Nat \ {0}
  BY Printing DEF At
<1>2. SUFFICES ASSUME NEW n \in 0 .. N - 1
               PROVE  /\ n + 1 \in DOMAIN errs /\ errs[n + 1].body \in Seq(ReportLine)
                      /\ At(n + 1) = At(n) + Len(errs[n + 1].body) + 2
                      /\ At(n) + Len(errs[n + 1].body) + 2 <= At(N)
                      /\ PrintedAll(errs)[At(n)] = MessageOf(n + 1)
                      /\ \A j \in DOMAIN errs[n + 1].body :
                           PrintedAll(errs)[At(n) + j] = errs[n + 1].body[j]
                      /\ PrintedAll(errs)[At(n) + Len(errs[n + 1].body) + 1] = blank
  BY <1>1
<1>3. PICK m : m = n + 1 /\ m \in 0 .. N /\ m \in 1 .. N /\ n \in 0 .. N /\ N \in m .. N
  BY Printing
<1>4. PICK b \in Seq(ReportLine), p \in Seq(ReportLine), q \in Seq(ReportLine),
           P \in Seq(ReportLine), M \in ReportLine :
        /\ b = errs[m].body /\ p = PrintedTo[n] /\ q = PrintedTo[m] /\ P = PrintedAll(errs)
        /\ M = MessageOf(m) /\ q = p \o (<<M>> \o b \o <<blank>>)
  <2>1. errs \in Seq([what : DOMAIN Category, body : Seq(ReportLine)]) /\ N = Len(errs)
    BY Printing DEF N
  <2>a. errs[m] \in [what : DOMAIN Category, body : Seq(ReportLine)]
    BY <1>3, <2>1, ElementOf DEF N
  <2>2. errs[m].body \in Seq(ReportLine) /\ errs[m].what \in DOMAIN Category
    BY <2>a
  <2>3. MessageOf(m) \in ReportLine
    BY <2>2 DEF MessageOf, ReportLine
  <2>4. PrintedTo[m] = PrintedTo[n] \o (<<MessageOf(m)>> \o errs[m].body \o <<blank>>)
    BY <1>3, Printing DEF Printed, MessageOf
  <2>5. /\ PrintedTo[n] \in Seq(ReportLine) /\ PrintedTo[m] \in Seq(ReportLine)
        /\ PrintedAll(errs) \in Seq(ReportLine)
    BY <1>3, Printing
  <2> QED
    BY <2>2, <2>3, <2>4, <2>5
<1>5. blank \in ReportLine /\ Len(p) \in Nat /\ Len(b) \in Nat
  BY BlankIsLine
<1> HIDE DEF blank
<1>6. /\ Len(q) = Len(p) + Len(b) + 2 /\ q[Len(p) + 1] = M
      /\ \A j \in 1 .. Len(b) : q[Len(p) + 1 + j] = b[j]
      /\ q[Len(p) + 1 + Len(b) + 1] = blank
  <2> DEFINE c == <<M>> \o b \o <<blank>>
  <2>1. /\ c \in Seq(ReportLine) /\ Len(c) = Len(b) + 2 /\ c[1] = M
        /\ \A j \in 1 .. Len(b) : c[1 + j] = b[j]
        /\ c[Len(b) + 2] = blank
    BY <1>5
  <2> HIDE DEF c
  <2>2. q = p \o c
    BY <1>4 DEF c
  <2>3. \A i \in 1 .. Len(c) : q[Len(p) + i] = c[i]
    BY <2>1, <2>2
  <2>4. Len(q) = Len(p) + Len(c)
    <3>1. \A x, y \in Seq(ReportLine) : Len(x \o y) = Len(x) + Len(y)
      OBVIOUS
    <3> QED
      BY <2>1, <2>2, <3>1
  <2>5. /\ 1 \in 1 .. Len(c) /\ Len(b) + 2 \in 1 .. Len(c)
        /\ \A j \in 1 .. Len(b) : 1 + j \in 1 .. Len(c) /\ Len(p) + 1 + j = Len(p) + (1 + j)
        /\ Len(p) + 1 + Len(b) + 1 = Len(p) + (Len(b) + 2)
    BY <1>5, <2>1
  <2> QED
    BY <1>5, <2>1, <2>3, <2>4, <2>5
<1>7. Len(q) <= Len(P) /\ \A i \in 1 .. Len(q) : P[i] = q[i]
  <2>1. /\ m \in 0 .. N /\ N \in m .. N /\ PrintedTo[N] = PrintedAll(errs)
    BY <1>3, Printing
  <2>2. /\ Len(PrintedTo[m]) <= Len(PrintedTo[N])
        /\ \A i \in 1 .. Len(PrintedTo[m]) : PrintedTo[N][i] = PrintedTo[m][i]
    BY <2>1, Printing, Zenon
  <2> QED
    BY <1>4, <2>1, <2>2, Zenon
<1>8. /\ P[Len(p) + 1] = M
      /\ \A j \in 1 .. Len(b) : P[Len(p) + 1 + j] = b[j]
      /\ P[Len(p) + 1 + Len(b) + 1] = blank
  <2>1. /\ Len(p) + 1 \in 1 .. Len(q) /\ Len(p) + 1 + Len(b) + 1 \in 1 .. Len(q)
        /\ \A j \in 1 .. Len(b) : Len(p) + 1 + j \in 1 .. Len(q)
    BY <1>5, <1>6
  <2> QED
    BY <1>6, <1>7, <2>1
<1>9. At(n) = Len(p) + 1 /\ At(m) = Len(q) + 1 /\ At(N) = Len(P) + 1 /\ Len(P) \in Nat
  BY <1>1, <1>4 DEF At
<1>10. At(m) = At(n) + Len(b) + 2 /\ At(n) + Len(b) + 2 <= At(N)
  BY <1>5, <1>6, <1>7, <1>9
<1>11. m \in DOMAIN errs /\ DOMAIN b = 1 .. Len(b)
  BY <1>3, Printing DEF N
<1> QED
  BY <1>3, <1>4, <1>8, <1>9, <1>10, <1>11

(* The summary of a whole report.                                          *)
LEMMA IsWholeHeap ==
  ASSUME IsWhole(report), PrintedAll(errs) \in Seq(ReportLine)
  PROVE  \E h \in Len(PrintedAll(errs)) + 2 .. Len(AllLines(report)) :
           /\ \A k \in Len(PrintedAll(errs)) + 2 .. h - 1 : AllLines(report)[k] = blank
           /\ \A k \in DOMAIN AllLines(report) : AllLines(report)[k].kind = "heap" <=> k = h
           /\ \A k \in h .. Len(AllLines(report)) :
                AllLines(report)[k].kind = "rerun" =>
                  \E j \in h .. k - 1 : AllLines(report)[j].kind = "leak"
<1> DEFINE end == Len(PrintedAll(errs)) + 1
           ls == AllLines(report)
<1>1. \E h \in end + 1 .. Len(ls) :
        /\ \A k \in end + 1 .. h - 1 : ls[k] = blank
        /\ \A k \in DOMAIN ls : ls[k].kind = "heap" <=> k = h
        /\ \A k \in h .. Len(ls) :
             ls[k].kind = "rerun" => \E j \in h .. k - 1 : ls[j].kind = "leak"
  BY Zenon DEF IsWhole, errs
<1>2. end + 1 = Len(PrintedAll(errs)) + 2
  OBVIOUS
<1> QED
  BY <1>1, <1>2, Zenon

(* A whole report behind the empty line: the errors, and the summary.      *)
LEMMA Layout ==
  ASSUME PrintedAssumption, ReportInv, report \in Reports, report.whole, Laid
  PROVE  /\ N \in Nat /\ errorLines \in Seq(ReportLine)
         /\ HeapSeen
         /\ place \in Nat /\ At(N) <= place /\ place + 1 <= Len(errorLines)
         /\ \A k \in At(N) .. place : errorLines[k] = blank
         /\ errorLines[place + 1].kind = "heap"
         /\ \A k \in DOMAIN errorLines : errorLines[k].kind = "heap" => k = place + 1
         /\ \A n \in 0 .. N :
              At(n) \in Nat \ {0} /\ At(n) <= place /\ errorLines[At(n)] = blank
         /\ \A n \in 0 .. N - 1 :
              /\ n + 1 \in DOMAIN errs /\ errs[n + 1].body \in Seq(ReportLine)
              /\ At(n + 1) = At(n) + Len(errs[n + 1].body) + 2 /\ At(n + 1) <= place
              /\ errorLines[At(n) + 1] = MessageOf(n + 1)
              /\ \A j \in 1 .. Len(errs[n + 1].body) :
                   /\ errorLines[At(n) + 1 + j] = errs[n + 1].body[j]
                   /\ errs[n + 1].body[j] # blank /\ ~Throws(errs[n + 1].body[j])
<1>1. IsWhole(report)
  BY DEF PrintedAssumption
<1>2. PICK P \in Seq(ReportLine), ls \in Seq(ReportLine) :
        P = PrintedAll(errs) /\ ls = errorLines /\ ls[1] = blank
  <2>1. PrintedAll(errs) \in Seq(ReportLine)
    <3>1. N \in 0 .. N
      BY <1>1, Printing
    <3> QED
      BY <1>1, <3>1, Printing
  <2>2. errorLines \in Seq(ReportLine) /\ errorLines[1] = blank
    BY DEF ReportInv, RTypeOK, LinesFromText
  <2> QED
    BY <2>1, <2>2
<1>3. /\ SubSeq(ls, 2, Len(P) + 1) = P
      /\ \A k \in DOMAIN errs : \A j \in DOMAIN errs[k].body :
           errs[k].body[j] # blank /\ ~Throws(errs[k].body[j])
  BY <1>1, <1>2 DEF IsWhole, Laid, errs
<1>a. PICK h \in Len(P) + 2 .. Len(ls) :
        /\ \A k \in Len(P) + 2 .. h - 1 : ls[k] = blank
        /\ \A k \in DOMAIN ls : ls[k].kind = "heap" <=> k = h
  <2>1. ls = AllLines(report)
    BY <1>2 DEF Laid
  <2> QED
    BY <1>1, <1>2, <2>1, IsWholeHeap
<1>b. Len(P) \in Nat /\ h \in Nat /\ h \in DOMAIN ls /\ Len(ls) \in Nat /\ HeapSeen
  <2>1. Len(P) \in Nat /\ h \in Nat /\ h \in DOMAIN ls /\ Len(ls) \in Nat
    BY <1>2
  <2>2. h \in Lines({"heap"}, ls)
    BY <1>a, <2>1 DEF Lines
  <2> QED
    BY <1>2, <2>1, <2>2 DEF HeapSeen
<1>4. \A i \in 1 .. Len(P) : ls[i + 1] = P[i]
  <2>1. \A i \in 1 .. Len(P) : SubSeq(ls, 2, Len(P) + 1)[i] = ls[i + 1]
    BY <1>2, <1>3, <1>b
  <2> QED
    BY <1>3, <2>1
<1>5. /\ place \in Nat /\ Len(P) + 1 <= place /\ place + 1 = h /\ place + 1 <= Len(ls)
      /\ ls[place + 1].kind = "heap"
  <2>1. /\ place \in Nat /\ place >= 1 /\ place + 1 <= Len(ls) /\ ls[place + 1].kind = "heap"
    BY <1>2, <1>b DEF ReportInv, RTypeOK, Laid, PlaceRight
  <2>2. place + 1 \in DOMAIN ls
    BY <1>2, <2>1
  <2>3. place + 1 = h
    BY <1>a, <2>1, <2>2
  <2> QED
    BY <1>2, <1>a, <1>b, <2>1, <2>3
<1>6. /\ At(0) = 1 /\ At(N) = Len(P) + 1 /\ N \in Nat
      /\ \A n \in 0 .. N : At(n) \in Nat \ {0}
  BY <1>1, <1>2, Places, Printing
<1>7. ASSUME NEW n \in 0 .. N - 1
      PROVE  /\ n + 1 \in DOMAIN errs /\ errs[n + 1].body \in Seq(ReportLine)
             /\ At(n + 1) = At(n) + Len(errs[n + 1].body) + 2 /\ At(n + 1) <= place
             /\ errorLines[At(n) + 1] = MessageOf(n + 1)
             /\ \A j \in 1 .. Len(errs[n + 1].body) :
                  /\ errorLines[At(n) + 1 + j] = errs[n + 1].body[j]
                  /\ errs[n + 1].body[j] # blank /\ ~Throws(errs[n + 1].body[j])
             /\ errorLines[At(n + 1)] = blank
  <2>a. n \in 0 .. N /\ n + 1 \in Nat
    BY <1>6
  <2>b. /\ n + 1 \in DOMAIN errs /\ errs[n + 1].body \in Seq(ReportLine)
        /\ At(n + 1) = At(n) + Len(errs[n + 1].body) + 2
        /\ At(n) + Len(errs[n + 1].body) + 2 <= At(N)
        /\ PrintedAll(errs)[At(n)] = MessageOf(n + 1)
        /\ \A j \in DOMAIN errs[n + 1].body :
             PrintedAll(errs)[At(n) + j] = errs[n + 1].body[j]
        /\ PrintedAll(errs)[At(n) + Len(errs[n + 1].body) + 1] = blank
    BY <1>1, Places
  <2>c. PICK m \in Nat : m = n + 1
    BY <2>a
  <2>d. PICK a \in Nat \ {0} : a = At(n)
    BY <1>6, <2>a
  <2>e. PICK b \in Seq(ReportLine) : b = errs[m].body
    BY <2>b, <2>c
  <2>1. /\ m \in DOMAIN errs /\ At(m) = a + Len(b) + 2 /\ a + Len(b) + 2 <= Len(P) + 1
        /\ P[a] = MessageOf(m)
        /\ \A j \in 1 .. Len(b) : P[a + j] = b[j]
        /\ P[a + Len(b) + 1] = blank
    <3>1. DOMAIN b = 1 .. Len(b)
      BY ElementOf
    <3> QED
      BY <1>2, <1>6, <2>b, <2>c, <2>d, <2>e, <3>1
  <2>2. Len(b) \in Nat /\ Len(P) \in Nat
    BY <1>2
  <2>3. ls[a + 1] = MessageOf(m)
    <3>1. a \in 1 .. Len(P)
      BY <2>1, <2>2
    <3> QED
      BY <1>4, <2>1, <3>1
  <2>4. ASSUME NEW j \in 1 .. Len(b)
        PROVE  ls[a + 1 + j] = b[j] /\ b[j] # blank /\ ~Throws(b[j])
    <3>1. a + j \in 1 .. Len(P) /\ a + j + 1 = a + 1 + j
      BY <2>1, <2>2
    <3>2. PICK i \in 1 .. Len(P) : i = a + j /\ i + 1 = a + 1 + j
      BY <3>1
    <3>6. P[i] = b[j]
      BY <2>1, <3>2
    <3>3. ls[i + 1] = P[i]
      BY <1>4
    <3>4. j \in DOMAIN b
      BY ElementOf
    <3>5. b[j] # blank /\ ~Throws(b[j])
      BY <1>3, <2>1, <2>e, <3>4
    <3> QED
      BY <3>2, <3>3, <3>5, <3>6
  <2>5. ls[At(m)] = blank
    <3>1. PICK i : i = a + Len(b) + 1 /\ i \in 1 .. Len(P) /\ i + 1 = At(m)
      BY <2>1, <2>2
    <3>2. ls[i + 1] = P[i]
      BY <1>4, <3>1
    <3> QED
      BY <2>1, <3>1, <3>2
  <2>6. At(m) <= place
    BY <1>5, <2>1
  <2> QED
    BY <1>2, <2>b, <2>c, <2>d, <2>e, <2>3, <2>4, <2>5, <2>6
<1>8. ASSUME NEW n \in 0 .. N
      PROVE  At(n) \in Nat \ {0} /\ At(n) <= place /\ errorLines[At(n)] = blank
  <2>1. CASE n = 0
    BY <1>2, <1>5, <1>6, <2>1
  <2>2. CASE n # 0
    <3>1. n - 1 \in 0 .. N - 1 /\ n - 1 + 1 = n
      BY <1>6, <2>2
    <3>2. PICK k \in 0 .. N - 1 : k + 1 = n
      BY <3>1
    <3> QED
      BY <1>6, <1>7, <3>2
  <2> QED
    BY <2>1, <2>2
<1>9. At(N) <= place /\ \A k \in At(N) .. place : errorLines[k] = blank
  <2>1. SUFFICES ASSUME NEW k \in At(N) .. place PROVE errorLines[k] = blank
    BY <1>5, <1>6
  <2>2. k = At(N) \/ k \in Len(P) + 2 .. h - 1
    BY <1>5, <1>6, <1>b
  <2>3. N \in 0 .. N
    BY <1>6
  <2>4. CASE k = At(N)
    BY <1>8, <2>3, <2>4
  <2>5. CASE k \in Len(P) + 2 .. h - 1
    BY <1>2, <1>a, <2>5
  <2> QED
    BY <2>2, <2>4, <2>5
<1>10. \A k \in DOMAIN errorLines : errorLines[k].kind = "heap" => k = place + 1
  BY <1>2, <1>a, <1>5
<1> QED
  BY <1>2, <1>5, <1>6, <1>7, <1>8, <1>9, <1>10, <1>b

-----------------------------------------------------------------------------
LEMMA UnspoiltIs ==
  ASSUME report.text \in Seq(ReportLine)
  PROVE  /\ Unspoilt(report) \in Seq(Seq(ReportLine))
         /\ Len(report.text) >= 5 => Len(Unspoilt(report)) = Len(report.text) - 5
         /\ Len(report.text) < 5 => Len(Unspoilt(report)) = 0
         /\ \A k \in 1 .. Len(Unspoilt(report)) :
              Unspoilt(report)[k] = IF report.text[k + 5].kind = "noise" THEN << >>
                                    ELSE <<report.text[k + 5]>>
<1> DEFINE t == report.text
           piece(k) == IF t[k + 5].kind = "noise" THEN << >> ELSE <<t[k + 5]>>
           M == IF Len(t) >= 5 THEN Len(t) - 5 ELSE 0
<1>1. Len(t) \in Nat /\ M \in Nat
  OBVIOUS
<1>2. \A k \in 1 .. M : piece(k) \in Seq(ReportLine)
  <2>1. ASSUME NEW k \in 1 .. M PROVE t[k + 5] \in ReportLine
    <3>1. k + 5 \in 1 .. Len(t)
      BY <1>1
    <3> QED
      BY <3>1, ElementOf
  <2>2. \A l \in ReportLine : <<l>> \in Seq(ReportLine)
    OBVIOUS
  <2>3. << >> \in Seq(ReportLine)
    OBVIOUS
  <2> QED
    BY <2>1, <2>2, <2>3
<1>3. Unspoilt(report) = [k \in 1 .. M |-> piece(k)]
  <2>1. 1 .. Len(t) - 5 = 1 .. M
    BY <1>1
  <2> QED
    BY <2>1 DEF Unspoilt, Banner
<1> HIDE DEF M, piece
<1>4. Unspoilt(report) \in Seq(Seq(ReportLine)) /\ Len(Unspoilt(report)) = M
  BY <1>1, <1>2, <1>3
<1>5. \A k \in 1 .. M : Unspoilt(report)[k] = piece(k)
  BY <1>3
<1> QED
  BY <1>1, <1>4, <1>5 DEF M, piece

LEMMA InitReading ==
  ASSUME ReportsAssumption, RInit
  PROVE  Reading
<1>1. report.text \in Seq(ReportLine)
  BY DEF RInit, ReportsAssumption
<1>2. Unspoilt(report) \in Seq(Seq(ReportLine)) /\ Joined(Unspoilt(report))[0] = << >>
  BY <1>1, UnspoiltIs, JoinedIs
<1>3. Len(Unspoilt(report)) \in Nat
  BY <1>2
<1>4. <<blank>> \o << >> = <<blank>>
  OBVIOUS
<1>5. \A k \in DOMAIN <<blank>> : <<blank>>[k].kind # "heap"
  BY DEF blank
<1>6. Keeping
  <2>1. pos = 6 /\ pos - 6 = 0 /\ errorLines = <<blank>> /\ place = 0
    BY DEF RInit
  <2> QED
    BY <1>2, <1>3, <1>4, <1>5, <2>1 DEF Keeping
<1> QED
  BY <1>6 DEF RInit, Reading, ReadingAny, ReadingWhole, NoMemory, NoErrors

LEMMA KeepLineReading ==
  ASSUME WInv, KeepLine
  PROVE  Reading'
<1> USE DEF found, filed
<1>1. /\ report.text \in Seq(ReportLine) /\ pos \in Nat /\ pos <= Len(report.text)
      /\ errorLines \in Seq(ReportLine) /\ pos >= 6 /\ place \in Nat
      /\ errorLines = <<blank>> \o Joined(Unspoilt(report))[pos - 6]
      /\ place # 0 => PlaceRight
      /\ place = 0 => \A k \in DOMAIN errorLines : errorLines[k].kind # "heap"
      /\ errorLines # << >>
  BY DEF WInv, ReportInv, RTypeOK, KeepLine, Reading, ReadingAny, Keeping, LinesFromText
<1>2. PICK line \in ReportLine : line = report.text[pos]
  <2>1. pos \in 1 .. Len(report.text)
    BY <1>1
  <2> QED
    BY <1>1, <2>1, ElementOf
<1>3. /\ errorLines' = IF line.kind = "noise" THEN errorLines ELSE Append(errorLines, line)
      /\ place' = IF line.kind = "heap" THEN Len(errorLines) ELSE place
      /\ pos' = pos + 1 /\ report' = report /\ rpc' = "keep"
      /\ totalErrors' = totalErrors /\ memory' = memory /\ leaks' = leaks
      /\ dividedErrors' = dividedErrors
  BY <1>2 DEF KeepLine
<1>4. PICK n \in Nat : /\ n = pos - 6 /\ n + 1 = pos' - 6 /\ n + 1 <= Len(Unspoilt(report))
                       /\ n + 1 + 5 = pos /\ n \in 0 .. Len(Unspoilt(report)) - 1
                       /\ n + 1 \in 1 .. Len(Unspoilt(report))
  <2>1. Len(report.text) >= 5 /\ Len(report.text) \in Nat
    BY <1>1
  <2>2. Len(Unspoilt(report)) = Len(report.text) - 5
    BY <1>1, <2>1, UnspoiltIs
  <2> QED
    BY <1>1, <1>3, <2>1, <2>2
<1>5. PICK J \in Seq(ReportLine) : J = Joined(Unspoilt(report))[n]
  BY <1>1, <1>4, UnspoiltIs, JoinedIs
<1>6. Joined(Unspoilt(report))[n + 1] = J \o (IF line.kind = "noise" THEN << >> ELSE <<line>>)
  <2>1. Unspoilt(report) \in Seq(Seq(ReportLine))
    BY <1>1, UnspoiltIs
  <2>2. Joined(Unspoilt(report))[n + 1] = J \o Unspoilt(report)[n + 1]
    BY <1>4, <1>5, <2>1, JoinedIs
  <2>3. Unspoilt(report)[n + 1] = IF line.kind = "noise" THEN << >> ELSE <<line>>
    BY <1>1, <1>2, <1>4, UnspoiltIs
  <2> QED
    BY <2>2, <2>3
<1>7. errorLines' = <<blank>> \o Joined(Unspoilt(report))[pos' - 6]
  <2>1. errorLines = <<blank>> \o J
    BY <1>1, <1>4, <1>5
  <2>2. J \o << >> = J /\ Append(<<blank>> \o J, line) = <<blank>> \o (J \o <<line>>)
    BY BlankIsLine
  <2> QED
    BY <1>3, <1>4, <1>6, <2>1, <2>2
<1>8. /\ place' # 0 => PlaceRight'
      /\ place' = 0 => \A k \in DOMAIN errorLines' : errorLines'[k].kind # "heap"
  <2>1. CASE line.kind = "noise"
    <3>1. errorLines' = errorLines /\ place' = place
      BY <1>3, <2>1
    <3> QED
      BY <1>1, <3>1 DEF PlaceRight
  <2>2. CASE line.kind # "noise"
    <3>1. PICK n0, E : n0 \in Nat /\ n0 = Len(errorLines) /\ E = errorLines' /\ n0 >= 1
      BY <1>1
    <3>2. /\ E = Append(errorLines, line) /\ DOMAIN E = 1 .. n0 + 1 /\ Len(E) = n0 + 1
          /\ E[n0 + 1] = line /\ \A k \in 1 .. n0 : E[k] = errorLines[k]
          /\ DOMAIN errorLines = 1 .. n0
      BY <1>1, <1>3, <2>2, <3>1
    <3>3. CASE line.kind = "heap"
      <4>1. place' = n0
        BY <1>3, <3>1, <3>3
      <4>2. PlaceRight'
        <5>1. \A k \in 1 .. n0 + 1 : ~(k > n0 + 1)
          BY <3>1
        <5> QED
          BY <3>1, <3>2, <3>3, <4>1, <5>1 DEF PlaceRight
      <4> QED
        BY <3>1, <4>1, <4>2
    <3>4. CASE line.kind # "heap"
      <4>1. place' = place
        BY <1>3, <3>4
      <4>2. \A k \in 1 .. n0 + 1 : k \in 1 .. n0 \/ k = n0 + 1
        BY <3>1
      <4>3. CASE place # 0
        <5>1. /\ place >= 1 /\ place + 1 <= n0 /\ errorLines[place + 1].kind = "heap"
              /\ \A k \in 1 .. n0 : k > place + 1 => errorLines[k].kind # "heap"
          BY <1>1, <3>1, <3>2, <4>3 DEF PlaceRight
        <5>2. place + 1 \in 1 .. n0 /\ place + 1 <= n0 + 1
          BY <1>1, <3>1, <5>1
        <5>3. E[place + 1].kind = "heap"
          BY <3>2, <5>1, <5>2
        <5>4. \A k \in 1 .. n0 + 1 : k > place + 1 => E[k].kind # "heap"
          BY <3>2, <3>4, <4>2, <5>1
        <5>5. PlaceRight'
          BY <3>1, <3>2, <4>1, <5>1, <5>2, <5>3, <5>4 DEF PlaceRight
        <5> QED
          BY <4>1, <4>3, <5>5
      <4>4. CASE place = 0
        <5>1. \A k \in 1 .. n0 + 1 : E[k].kind # "heap"
          BY <1>1, <3>2, <3>4, <4>2, <4>4
        <5> QED
          BY <3>1, <3>2, <4>1, <4>4, <5>1
      <4> QED
        BY <4>3, <4>4
    <3> QED
      BY <3>3, <3>4
  <2> QED
    BY <2>1, <2>2
<1>9. Keeping'
  <2>1. pos' >= 6 /\ pos' - 6 <= Len(Unspoilt(report))
    BY <1>1, <1>3, <1>4
  <2> QED
    BY <1>3, <1>7, <1>8, <2>1 DEF Keeping
<1>10. totalErrors = << >> /\ memory = << >> /\ leaks = FALSE /\ NoErrors /\ report \in Reports
  BY DEF WInv, Reading, ReadingAny, KeepLine, NoMemory
<1>11. ReadingWhole'
  BY <1>3 DEF ReadingWhole
<1>12. ReadingAny'
  BY <1>3, <1>9, <1>10 DEF ReadingAny, NoMemory, NoErrors
<1> QED
  BY <1>3, <1>10, <1>11, <1>12 DEF Reading

(* What is said of a whole report does not change with the place in it.    *)
LEMMA SameReport ==
  ASSUME report' = report
  PROVE  /\ N' = N /\ errs' = errs
         /\ \A n : At(n)' = At(n)
         /\ \A k : MessageOf(k)' = MessageOf(k) /\ DescribedTo(k)' = DescribedTo(k)
         /\ \A n : (totalErrors' = totalErrors) => (ReadTo(n)' <=> ReadTo(n))
<1>1. errs' = errs /\ N' = N /\ PrintedTo' = PrintedTo
  BY DEF errs, N, PrintedTo
<1>2. \A k : MessageOf(k)' = MessageOf(k) /\ DescribedTo(k)' = DescribedTo(k)
  BY <1>1 DEF MessageOf, DescribedTo
<1>3. \A k : Wanted(k)' = Wanted(k)
  BY <1>1, <1>2 DEF Wanted
<1>4. \A n : (totalErrors' = totalErrors) => (ReadTo(n)' <=> ReadTo(n))
  BY <1>3 DEF ReadTo
<1>5. \A n : At(n)' = At(n)
  BY <1>1 DEF At
<1> QED
  BY <1>1, <1>2, <1>4, <1>5

LEMMA KeptReading ==
  ASSUME PrintedAssumption, WInv, Kept
  PROVE  Reading'
<1> USE DEF found, filed
<1>1. /\ report' = report /\ errorLines' = errorLines /\ pos' = 1 /\ rpc' = "errors"
      /\ totalErrors' = totalErrors /\ memory' = memory /\ leaks' = leaks
      /\ dividedErrors' = dividedErrors /\ pos > Len(report.text)
      /\ place # 0 => place' = place
  BY DEF Kept
<1>2. /\ report \in Reports /\ Keeping /\ totalErrors = << >> /\ NoMemory /\ NoErrors
      /\ report.text \in Seq(ReportLine) /\ pos \in Nat
  BY DEF WInv, Reading, ReadingAny, Kept, ReportInv, RTypeOK
<1>3. pos - 6 = Len(Unspoilt(report))
  <2>1. Len(report.text) \in Nat /\ pos >= 6 /\ pos - 6 <= Len(Unspoilt(report))
    BY <1>2 DEF Keeping
  <2>2. \/ Len(report.text) >= 5 /\ Len(Unspoilt(report)) = Len(report.text) - 5
        \/ Len(report.text) < 5 /\ Len(Unspoilt(report)) = 0
    BY <1>2, <2>1, UnspoiltIs
  <2> QED
    BY <1>1, <1>2, <2>1, <2>2
<1>4. errorLines = AllLines(report)
  BY <1>2, <1>3 DEF Keeping, AllLines, JoinAll
<1>5. Laid'
  <2>1. HeapSeen => place # 0
    BY <1>2 DEF Keeping, HeapSeen, Lines
  <2>2. HeapSeen' => PlaceRight'
    BY <1>1, <1>2, <2>1 DEF Keeping, HeapSeen, PlaceRight
  <2> QED
    BY <1>1, <1>4, <2>2 DEF Laid
<1>6. ReadingAny'
  BY <1>1, <1>2, <1>5 DEF ReadingAny, NoMemory, NoErrors
<1>7. ASSUME report.whole
      PROVE  \E n \in 0 .. N' : ReadTo(n)' /\ pos' = At(n)'
  <2>1. At(0) = 1 /\ N \in Nat
    BY <1>2, <1>7, Places, Printing DEF PrintedAssumption
  <2>2. ReadTo(0)
    BY <1>2 DEF ReadTo
  <2>3. ReadTo(0)' /\ At(0)' = 1 /\ 0 \in 0 .. N'
    BY <1>1, <2>1, <2>2, SameReport
  <2> QED
    BY <1>1, <2>3
<1> QED
  BY <1>1, <1>2, <1>6, <1>7 DEF Reading, ReadingWhole

LEMMA CrashReading ==
  ASSUME WInv, report' = report, rpc' = "crashed"
  PROVE  Reading'
BY DEF WInv, Reading, ReadingAny, ReadingWhole

(* The lines of the summary are not lines of errors. *)
LEMMA SummaryClean ==
  ASSUME PrintedAssumption, WInv, Laid, HeapSeen
  PROVE  /\ errorLines \in Seq(ReportLine) /\ place \in Nat \ {0}
         /\ place + 1 \in 1 .. Len(errorLines)
         /\ \A k \in place + 1 .. Len(errorLines) : errorLines[k].kind \notin OfError
<1>1. /\ errorLines \in Seq(ReportLine) /\ place \in Nat /\ place >= 1
      /\ place + 1 <= Len(errorLines) /\ errorLines[place + 1].kind = "heap"
      /\ errorLines = AllLines(report) /\ SummaryIsLast(report)
  BY DEF WInv, Reading, ReportInv, RTypeOK, Laid, PlaceRight, PrintedAssumption
<1>2. PICK h \in 1 .. Len(errorLines) : h = place + 1
  BY <1>1
<1>3. h \in DOMAIN errorLines
  BY <1>1, <1>2
<1>4. \A k \in h .. Len(errorLines) : errorLines[k].kind \notin OfError
  BY <1>1, <1>2, <1>3 DEF SummaryIsLast
<1> QED
  BY <1>1, <1>2, <1>4

LEMMA NextErrorReading ==
  ASSUME PrintedAssumption, WInv, NextError
  PROVE  Reading'
<1> USE DEF found, filed
<1>1. /\ report' = report /\ errorLines' = errorLines /\ place' = place /\ pos' = pos
      /\ totalErrors' = totalErrors /\ memory' = memory /\ leaks' = leaks
      /\ dividedErrors' = dividedErrors /\ rpc = "errors"
      /\ rpc' = IF pos = place THEN "memory" ELSE "blanks"
  BY DEF NextError
<1>2. /\ report \in Reports /\ Laid /\ NoMemory /\ NoErrors /\ ReportInv
      /\ pos \in Nat /\ errorLines[pos] = blank
  BY <1>1 DEF WInv, Reading, ReadingAny, ReportInv, RTypeOK, Current
<1>3. Laid' /\ NoErrors'
  BY <1>1, <1>2 DEF Laid, PlaceRight, HeapSeen, NoErrors
<1>4. CASE pos = place
  <2>1. RestClean
    <3>0. SUFFICES ASSUME HeapSeen PROVE RestClean
      BY DEF RestClean
    <3>1. errorLines[pos].kind \notin OfError
      BY <1>2 DEF blank, OfError
    <3>2. \A k \in pos .. Len(errorLines) : k = pos \/ k \in pos + 1 .. Len(errorLines)
      BY <1>2
    <3>3. \A k \in pos .. Len(errorLines) : errorLines[k].kind \notin OfError
      BY <1>2, <1>4, <3>0, <3>1, <3>2, SummaryClean
    <3> QED
      BY <1>2, <1>4, <3>3 DEF RestClean
  <2>2. RestClean' /\ MemoryClean' /\ NoRerun'
    <3>1. DOMAIN << >> = {}
      OBVIOUS
    <3> QED
      BY <1>1, <1>2, <2>1, <3>1 DEF RestClean, MemoryClean, HeapSeen, Lines, NoMemory, NoRerun
  <2>3. LeaksSeen'
    <3>1. place .. pos - 1 = {}
      BY <1>2, <1>4
    <3> QED
      BY <1>1, <3>1 DEF LeaksSeen
  <2>4. ~ (pos' > place' + 1)
    BY <1>1, <1>2, <1>4
  <2>5. ASSUME report.whole
        PROVE  ReadTo(N)'
    <3>1. PICK n \in 0 .. N : ReadTo(n) /\ pos = At(n)
      BY <1>1, <2>5 DEF WInv, Reading, ReadingWhole
    <3>2. n = N
      <4>1. SUFFICES ASSUME n \in 0 .. N - 1 PROVE FALSE
        <5>1. N \in Nat
          BY <1>2, <2>5, Layout
        <5> QED
          BY <5>1
      <4>2. /\ At(n) \in Nat /\ Len(errs[n + 1].body) \in Nat
            /\ At(n) + Len(errs[n + 1].body) + 2 <= place
        <5>1. /\ errs[n + 1].body \in Seq(ReportLine) /\ n \in 0 .. N
              /\ At(n + 1) = At(n) + Len(errs[n + 1].body) + 2 /\ At(n + 1) <= place
          BY <1>2, <2>5, <4>1, Layout
        <5> QED
          BY <1>2, <2>5, <5>1, Layout
      <4> QED
        BY <1>4, <3>1, <4>2, SMTT(30)
    <3>3. ReadTo(N)
      BY <3>1, <3>2
    <3> QED
      BY <1>1, <3>3 DEF ReadTo, Wanted, MessageOf, N, errs
  <2>6. ReadingWhole' \/ ~report.whole
    BY <1>1, <1>4, <2>2, <2>3, <2>4, <2>5 DEF ReadingWhole
  <2>7. ReadingAny'
    BY <1>1, <1>3, <1>4, <2>2 DEF ReadingAny
  <2> QED
    BY <1>1, <1>2, <2>6, <2>7 DEF Reading
<1>5. CASE pos # place
  <2>1. NoMemory' /\ BehindBlank'
    BY <1>1, <1>2 DEF NoMemory, BehindBlank, Current
  <2>2. ASSUME report.whole
        PROVE  InBlanks'
    <3>1. PICK n \in 0 .. N : ReadTo(n) /\ pos = At(n)
      BY <1>1, <2>2 DEF WInv, Reading, ReadingWhole
    <3>2. N \in Nat /\ place \in Nat /\ At(N) \in Nat /\ At(N) <= place
      <4>1. N \in Nat /\ place \in Nat /\ At(N) <= place
        BY <1>2, <2>2, Layout
      <4>2. N \in 0 .. N
        BY <4>1
      <4> QED
        BY <1>2, <2>2, <4>1, <4>2, Layout
    <3>3. CASE n = N
      <4>1. pos \in At(N) .. place + 1
        BY <3>1, <3>2, <3>3
      <4>2. /\ ReadTo(n)' /\ ReadTo(n)' = ReadTo(N)' /\ At(N)' = At(N)
        BY <1>1, <3>1, <3>3, SameReport
      <4> QED
        BY <1>1, <4>1, <4>2 DEF InBlanks
    <3>4. CASE n # N
      <4>1. n \in 0 .. N - 1
        BY <3>2, <3>4
      <4>2. ReadTo(n)' /\ n \in 0 .. N' - 1 /\ pos' = At(n)'
        BY <1>1, <3>1, <4>1, SameReport
      <4> QED
        BY <4>2 DEF InBlanks
    <3> QED
      BY <3>3, <3>4
  <2>3. ReadingWhole' \/ ~report.whole
    BY <1>1, <1>5, <2>2 DEF ReadingWhole
  <2>4. ReadingAny'
    BY <1>1, <1>3, <1>5, <2>1 DEF ReadingAny
  <2> QED
    BY <1>1, <1>2, <2>3, <2>4 DEF Reading
<1> QED
  BY <1>4, <1>5

(* The description of an error grows with the lines of its body.           *)
LEMMA Describing ==
  ASSUME NEW k, errs[k].body \in Seq(ReportLine)
  PROVE  /\ DescribedTo(k)[0] = << >>
         /\ DescribedTo(k)[Len(errs[k].body)] = Description(errs[k].body)
         /\ \A j \in 0 .. Len(errs[k].body) - 1 :
              DescribedTo(k)[j + 1] = DescribedTo(k)[j] \o Described(errs[k].body[j + 1])
         /\ Description(errs[k].body) \in Seq(Nat \cup {-1})
<1> DEFINE b == errs[k].body
           ds == [j \in DOMAIN b |-> Described(b[j])]
<1>1. DOMAIN b = 1 .. Len(b) /\ Len(b) \in Nat /\ \A j \in 1 .. Len(b) : b[j] \in ReportLine
  BY ElementOf
<1>2. \A j \in 1 .. Len(b) : Described(b[j]) \in Seq(Nat \cup {-1})
  BY <1>1, LineTypes
<1>3. ds \in Seq(Seq(Nat \cup {-1})) /\ Len(ds) = Len(b)
  BY <1>1, <1>2
<1>4. \A j \in 0 .. Len(b) - 1 : ds[j + 1] = Described(b[j + 1])
  BY <1>1
<1>5. DescribedTo(k) = Joined(ds) /\ Description(b) = Joined(ds)[Len(b)]
  BY <1>3 DEF DescribedTo, Description, JoinAll
<1> HIDE DEF ds
<1>6. Len(b) \in 0 .. Len(b)
  BY <1>1
<1> HIDE DEF b
<1>7. /\ Joined(ds)[0] = << >> /\ \A n \in 0 .. Len(b) : Joined(ds)[n] \in Seq(Nat \cup {-1})
      /\ \A j \in 0 .. Len(b) - 1 : Joined(ds)[j + 1] = Joined(ds)[j] \o ds[j + 1]
  BY <1>3, JoinedIs
<1>8. /\ DescribedTo(k)[0] = << >>
      /\ DescribedTo(k)[Len(b)] = Description(b)
      /\ \A j \in 0 .. Len(b) - 1 :
           DescribedTo(k)[j + 1] = DescribedTo(k)[j] \o Described(b[j + 1])
      /\ Description(b) \in Seq(Nat \cup {-1})
  BY <1>4, <1>5, <1>6, <1>7
<1> QED
  BY <1>8 DEF b

LEMMA SkipBlankReading ==
  ASSUME PrintedAssumption, WInv, SkipBlank
  PROVE  Reading'
<1> USE DEF found, filed
<1>1. /\ report' = report /\ errorLines' = errorLines /\ place' = place /\ pos' = pos + 1
      /\ totalErrors' = totalErrors /\ memory' = memory /\ leaks' = leaks
      /\ dividedErrors' = dividedErrors /\ rpc = "blanks" /\ rpc' = "blanks"
      /\ errorLines[pos] = blank
  BY DEF SkipBlank, Current
<1>2. /\ report \in Reports /\ Laid /\ NoMemory /\ NoErrors /\ ReportInv /\ pos \in Nat \ {0}
  BY <1>1 DEF WInv, Reading, ReadingAny, ReportInv, RTypeOK
<1>3. Laid' /\ NoErrors' /\ NoMemory'
  BY <1>1, <1>2 DEF Laid, PlaceRight, HeapSeen, NoErrors, NoMemory
<1>4. BehindBlank'
  <2>1. pos' > 1 /\ pos' - 1 = pos
    BY <1>1, <1>2
  <2> QED
    BY <1>1, <2>1 DEF BehindBlank
<1>5. ASSUME report.whole
      PROVE  InBlanks'
  <2>1. InBlanks
    BY <1>1, <1>5 DEF WInv, Reading, ReadingWhole
  <2>2. ASSUME NEW n \in 0 .. N - 1, ReadTo(n), pos \in {At(n), At(n) + 1}
        PROVE  InBlanks'
    <3>1. pos # At(n) + 1
      <4>1. errorLines[At(n) + 1] = MessageOf(n + 1)
        BY <1>2, <1>5, Layout
      <4> QED
        BY <1>1, <4>1 DEF MessageOf, blank
    <3>2. ReadTo(n)' /\ n \in 0 .. N' - 1 /\ pos' \in {At(n)', At(n)' + 1}
      BY <1>1, <2>2, <3>1, SameReport
    <3> QED
      BY <3>2 DEF InBlanks
  <2>3. ASSUME ReadTo(N), pos \in At(N) .. place + 1
        PROVE  InBlanks'
    <3>1. errorLines[place + 1].kind = "heap" /\ place \in Nat /\ N \in 0 .. N
      BY <1>2, <1>5, Layout
    <3>2. pos # place + 1 /\ At(N) \in Nat
      BY <1>1, <1>2, <1>5, <3>1, Layout DEF blank
    <3>3. pos + 1 \in At(N) .. place + 1
      BY <2>3, <3>1, <3>2
    <3>4. ReadTo(N)' /\ At(N)' = At(N)
      BY <1>1, <2>3, SameReport
    <3> QED
      BY <1>1, <3>3, <3>4 DEF InBlanks
  <2> QED
    BY <2>1, <2>2, <2>3 DEF InBlanks
<1>6. ReadingWhole' \/ ~report.whole
  BY <1>1, <1>5 DEF ReadingWhole
<1>7. ReadingAny'
  BY <1>1, <1>3, <1>4 DEF ReadingAny
<1> QED
  BY <1>1, <1>2, <1>6, <1>7 DEF Reading

LEMMA MessageReading ==
  ASSUME PrintedAssumption, WInv, Message
  PROVE  Reading'
<1> USE DEF found, filed
<1>1. /\ report' = report /\ errorLines' = errorLines /\ place' = place
      /\ totalErrors' = totalErrors /\ memory' = memory /\ leaks' = leaks
      /\ dividedErrors' = dividedErrors /\ rpc = "blanks" /\ pos <= Len(errorLines)
      /\ errorLines[pos] # blank
      /\ \/ pos >= place /\ rpc' = "memory" /\ UNCHANGED <<pos, temp>>
         \/ pos < place /\ rpc' = "body" /\ pos' = pos + 1
              /\ temp' = [message |-> errorLines[pos], description |-> << >>]
  BY DEF Message, Current
<1>2. /\ report \in Reports /\ Laid /\ NoMemory /\ NoErrors /\ ReportInv /\ pos \in Nat \ {0}
      /\ BehindBlank
  BY <1>1 DEF WInv, Reading, ReadingAny, ReportInv, RTypeOK
<1>3. Laid' /\ NoErrors'
  BY <1>1, <1>2 DEF Laid, PlaceRight, HeapSeen, NoErrors
<1>4. ASSUME report.whole
      PROVE  \/ \E n \in 0 .. N - 1 : /\ ReadTo(n) /\ pos = At(n) + 1 /\ pos < place
                                      /\ errorLines[pos] = MessageOf(n + 1)
                                      /\ errs[n + 1].body \in Seq(ReportLine)
             \/ ReadTo(N) /\ pos = place + 1 /\ place \in Nat /\ errorLines[place] = blank
  <2>1. InBlanks
    BY <1>1, <1>4 DEF WInv, Reading, ReadingWhole
  <2>2. ASSUME NEW n \in 0 .. N - 1, ReadTo(n), pos \in {At(n), At(n) + 1}
        PROVE  /\ pos = At(n) + 1 /\ pos < place
               /\ errorLines[pos] = MessageOf(n + 1) /\ errs[n + 1].body \in Seq(ReportLine)
    <3>1. n \in 0 .. N /\ N \in Nat
      BY <1>2, <1>4, Layout
    <3>2. /\ errorLines[At(n)] = blank /\ At(n) \in Nat /\ errorLines[At(n) + 1] = MessageOf(n + 1)
          /\ errs[n + 1].body \in Seq(ReportLine) /\ place \in Nat
          /\ At(n + 1) = At(n) + Len(errs[n + 1].body) + 2 /\ At(n + 1) <= place
      BY <1>2, <1>4, <3>1, Layout
    <3>3. Len(errs[n + 1].body) \in Nat
      BY <3>2
    <3>4. At(n) + 1 < place
      BY <3>2, <3>3
    <3>5. pos = At(n) + 1
      BY <1>1, <2>2, <3>2
    <3> QED
      BY <3>2, <3>4, <3>5
  <2>3. ASSUME ReadTo(N), pos \in At(N) .. place + 1
        PROVE  pos = place + 1 /\ place \in Nat /\ errorLines[place] = blank
    <3>1. /\ place \in Nat /\ N \in 0 .. N /\ At(N) <= place
          /\ \A k \in At(N) .. place : errorLines[k] = blank
      BY <1>2, <1>4, Layout
    <3>2. At(N) \in Nat
      BY <1>2, <1>4, <3>1, Layout
    <3>3. place \in At(N) .. place /\ (pos # place + 1 => pos \in At(N) .. place)
      BY <2>3, <3>1, <3>2
    <3> QED
      BY <1>1, <3>1, <3>3
  <2> QED
    BY <2>1, <2>2, <2>3 DEF InBlanks
<1>5. CASE pos >= place /\ rpc' = "memory" /\ UNCHANGED <<pos, temp>>
  <2>1. RestClean
    <3>1. SUFFICES ASSUME HeapSeen, NEW k \in pos .. Len(errorLines),
                          errorLines[k].kind \in OfError
                   PROVE  k = place /\ memory = << >> /\ errorLines[place - 1] = blank
      BY <1>5 DEF RestClean
    <3>2. /\ place \in Nat \ {0} /\ errorLines \in Seq(ReportLine)
          /\ \A i \in place + 1 .. Len(errorLines) : errorLines[i].kind \notin OfError
      BY <1>2, <3>1, SummaryClean
    <3>3. k = place /\ pos = place
      <4>1. k = place \/ k \in place + 1 .. Len(errorLines)
        BY <1>2, <1>5, <3>2
      <4>2. k = place
        BY <3>1, <3>2, <4>1
      <4> QED
        BY <1>2, <1>5, <3>2, <4>2
    <3>4. errorLines[pos - 1] = blank
      BY <1>1, <1>2 DEF BehindBlank, Current
    <3> QED
      BY <1>2, <3>3, <3>4 DEF NoMemory
  <2>2. RestClean' /\ MemoryClean' /\ NoRerun'
    <3>1. DOMAIN << >> = {}
      OBVIOUS
    <3> QED
      BY <1>1, <1>2, <1>5, <2>1, <3>1
      DEF RestClean, MemoryClean, HeapSeen, Lines, NoMemory, NoRerun
  <2>3. ASSUME report.whole
        PROVE  (pos' > place' + 1 => HeapTaken') /\ LeaksSeen' /\ ReadTo(N)'
    <3>1. ReadTo(N) /\ pos = place + 1 /\ place \in Nat /\ errorLines[place] = blank
      <4>1. place \in Nat
        BY <1>2, <2>3, Layout
      <4> QED
        BY <1>2, <1>4, <1>5, <2>3, <4>1
    <3>2. LeaksSeen'
      <4>1. place .. pos - 1 = {place}
        BY <3>1
      <4> QED
        BY <1>1, <1>5, <3>1, <4>1 DEF LeaksSeen, blank
    <3>3. ~(pos' > place' + 1)
      BY <1>1, <1>5, <3>1
    <3>4. ReadTo(N)'
      BY <1>1, <3>1 DEF ReadTo, Wanted, MessageOf, N, errs
    <3> QED
      BY <3>2, <3>3, <3>4
  <2>4. ReadingAny'
    BY <1>3, <1>5, <2>2 DEF ReadingAny
  <2>5. ReadingWhole' \/ ~report.whole
    BY <1>1, <1>5, <2>2, <2>3 DEF ReadingWhole
  <2> QED
    BY <1>1, <1>2, <2>4, <2>5 DEF Reading
<1>6. CASE /\ pos < place /\ rpc' = "body" /\ pos' = pos + 1
           /\ temp' = [message |-> errorLines[pos], description |-> << >>]
  <2>1. ReadingAny'
    BY <1>1, <1>2, <1>3, <1>6 DEF ReadingAny, NoMemory
  <2>2. ASSUME report.whole
        PROVE  InBody'
    <3>1. PICK n \in 0 .. N - 1 : /\ ReadTo(n) /\ pos = At(n) + 1
                                  /\ errorLines[pos] = MessageOf(n + 1)
                                  /\ errs[n + 1].body \in Seq(ReportLine)
      <4>1. ASSUME place \in Nat, pos = place + 1 PROVE FALSE
        BY <1>6, <4>1
      <4> QED
        BY <1>4, <2>2, <4>1
    <3>2. DescribedTo(n + 1)[0] = << >> /\ 0 \in 0 .. Len(errs[n + 1].body)
      <4>1. DescribedTo(n + 1)[0] = << >>
        BY <3>1, Describing
      <4>2. Len(errs[n + 1].body) \in Nat
        BY <3>1
      <4> QED
        BY <4>1, <4>2
    <3>3. At(n) \in Nat
      BY <1>2, <2>2, Layout
    <3>4. pos' = At(n) + 2 + 0
      BY <1>6, <3>1, <3>3
    <3>5. /\ ReadTo(n)' /\ n \in 0 .. N' - 1 /\ pos' = At(n)' + 2 + 0
          /\ 0 \in 0 .. Len(errs'[n + 1].body)
          /\ temp' = [message |-> MessageOf(n + 1)', description |-> DescribedTo(n + 1)'[0]]
      BY <1>1, <1>6, <3>1, <3>2, <3>4, SameReport
    <3> QED
      BY <3>5 DEF InBody
  <2>3. ReadingWhole' \/ ~report.whole
    BY <1>6, <2>2 DEF ReadingWhole
  <2> QED
    BY <1>1, <1>2, <2>1, <2>3 DEF Reading
<1> QED
  BY <1>1, <1>5, <1>6

LEMMA BodyReading ==
  ASSUME PrintedAssumption, WInv, Body
  PROVE  Reading'
<1> USE DEF found, filed
<1>1. /\ report' = report /\ errorLines' = errorLines /\ place' = place /\ pos' = pos + 1
      /\ totalErrors' = totalErrors /\ memory' = memory /\ leaks' = leaks
      /\ dividedErrors' = dividedErrors /\ rpc = "body" /\ pos <= Len(errorLines)
      /\ errorLines[pos] # blank
      /\ temp' = [temp EXCEPT !.description = @ \o Described(errorLines[pos])]
      /\ rpc' = IF Throws(errorLines[pos]) THEN "crashed" ELSE "body"
  BY DEF Body, Current
<1>2. /\ report \in Reports /\ Laid /\ NoMemory /\ NoErrors /\ ReportInv /\ pos \in Nat \ {0}
  BY <1>1 DEF WInv, Reading, ReadingAny, ReportInv, RTypeOK
<1>3. CASE rpc' = "crashed"
  BY <1>1, <1>3, CrashReading
<1>4. CASE rpc' = "body"
  <2>1. Laid' /\ NoErrors' /\ NoMemory'
    BY <1>1, <1>2 DEF Laid, PlaceRight, HeapSeen, NoErrors, NoMemory
  <2>2. ASSUME report.whole
        PROVE  InBody'
    <3>1. PICK n \in 0 .. N - 1 : \E k \in 0 .. Len(errs[n + 1].body) :
            /\ ReadTo(n) /\ pos = At(n) + 2 + k
            /\ temp = [message |-> MessageOf(n + 1), description |-> DescribedTo(n + 1)[k]]
      BY <1>1, <2>2 DEF WInv, Reading, ReadingWhole, InBody
    <3>a. PICK k \in 0 .. Len(errs[n + 1].body) :
            /\ pos = At(n) + 2 + k
            /\ temp = [message |-> MessageOf(n + 1), description |-> DescribedTo(n + 1)[k]]
      BY <3>1
    <3>2. /\ errs[n + 1].body \in Seq(ReportLine) /\ n \in 0 .. N /\ n + 1 \in 0 .. N
          /\ At(n + 1) = At(n) + Len(errs[n + 1].body) + 2
          /\ \A j \in 1 .. Len(errs[n + 1].body) :
               errorLines[At(n) + 1 + j] = errs[n + 1].body[j]
      BY <1>2, <2>2, Layout
    <3>3. At(n) \in Nat /\ Len(errs[n + 1].body) \in Nat /\ errorLines[At(n + 1)] = blank
      BY <1>2, <2>2, <3>2, Layout
    <3>4. /\ k \in 0 .. Len(errs[n + 1].body) - 1 /\ k + 1 \in 1 .. Len(errs[n + 1].body)
          /\ k + 1 \in 0 .. Len(errs[n + 1].body)
          /\ pos = At(n) + 1 + (k + 1) /\ pos' = At(n) + 2 + (k + 1)
      <4>a. PICK a \in Nat : a = At(n)
        BY <3>3, Zenon
      <4>b. PICK L \in Nat : L = Len(errs[n + 1].body)
        BY <3>3, Zenon
      <4>c. PICK e : e = At(n + 1)
        BY Zenon
      <4>d. e = a + L + 2
        BY <3>2, <4>a, <4>b, <4>c, Zenon
      <4>1. a = At(n) /\ L = Len(errs[n + 1].body) /\ e = At(n + 1) /\ e = a + L + 2
        BY <4>a, <4>b, <4>c, <4>d
      <4>2. k \in 0 .. L /\ pos = a + 2 + k
        BY <3>a, <4>1
      <4>3. k # L
        <5>1. SUFFICES ASSUME k = L PROVE FALSE
          OBVIOUS
        <5>a. \A x, y \in Nat : x + 2 + y = x + y + 2
          OBVIOUS
        <5>b. pos = a + 2 + L
          BY <4>2, <5>1, Zenon
        <5>2. pos = e
          BY <4>d, <5>a, <5>b
        <5> QED
          BY <1>1, <3>3, <4>1, <5>2
      <4>4. /\ k \in 0 .. L - 1 /\ k + 1 \in 1 .. L /\ k + 1 \in 0 .. L
            /\ pos = a + 1 + (k + 1) /\ pos + 1 = a + 2 + (k + 1)
        <5>1. \A x, y, z \in Nat : x \in 0 .. y /\ x # y =>
                /\ x \in 0 .. y - 1 /\ x + 1 \in 1 .. y /\ x + 1 \in 0 .. y
                /\ z + 2 + x = z + 1 + (x + 1) /\ z + 2 + x + 1 = z + 2 + (x + 1)
          OBVIOUS
        <5>2. k \in Nat
          BY <4>2
        <5> QED
          BY <4>2, <4>3, <5>1, <5>2
      <4> QED
        BY <1>1, <4>1, <4>4
    <3>5. errorLines[pos] = errs[n + 1].body[k + 1]
      BY <3>2, <3>4
    <3>6. DescribedTo(n + 1)[k + 1] = DescribedTo(n + 1)[k] \o Described(errorLines[pos])
      BY <3>2, <3>4, <3>5, Describing
    <3>7. temp' = [message |-> MessageOf(n + 1), description |-> DescribedTo(n + 1)[k + 1]]
      BY <1>1, <3>a, <3>6
    <3>8. PICK j \in 0 .. Len(errs[n + 1].body) : j = k + 1
      BY <3>4
    <3>9. /\ ReadTo(n)' /\ n \in 0 .. N' - 1 /\ pos' = At(n)' + 2 + j
          /\ j \in 0 .. Len(errs'[n + 1].body)
          /\ temp' = [message |-> MessageOf(n + 1)', description |-> DescribedTo(n + 1)'[j]]
      BY <1>1, <3>1, <3>4, <3>7, <3>8, SameReport
    <3> QED
      BY <3>9 DEF InBody
  <2>3. ReadingWhole' \/ ~report.whole
    BY <1>4, <2>2 DEF ReadingWhole
  <2>4. ReadingAny'
    BY <1>4, <2>1 DEF ReadingAny
  <2> QED
    BY <1>1, <1>2, <2>3, <2>4 DEF Reading
<1> QED
  BY <1>1, <1>3, <1>4

LEMMA EndErrorReading ==
  ASSUME PrintedAssumption, WInv, EndError
  PROVE  Reading'
<1> USE DEF found, filed
<1>1. /\ report' = report /\ errorLines' = errorLines /\ place' = place /\ pos' = pos
      /\ totalErrors' = Append(totalErrors, temp) /\ memory' = memory /\ leaks' = leaks
      /\ dividedErrors' = dividedErrors /\ rpc = "body" /\ rpc' = "errors"
      /\ errorLines[pos] = blank
  BY DEF EndError, Current
<1>2. /\ report \in Reports /\ Laid /\ NoMemory /\ NoErrors /\ ReportInv /\ pos \in Nat \ {0}
  BY <1>1 DEF WInv, Reading, ReadingAny, ReportInv, RTypeOK
<1>3. Laid' /\ NoErrors' /\ NoMemory'
  BY <1>1, <1>2 DEF Laid, PlaceRight, HeapSeen, NoErrors, NoMemory
<1>4. ASSUME report.whole
      PROVE  \E n \in 0 .. N' : ReadTo(n)' /\ pos' = At(n)'
  <2>1. PICK n \in 0 .. N - 1 : \E k \in 0 .. Len(errs[n + 1].body) :
          /\ ReadTo(n) /\ pos = At(n) + 2 + k
          /\ temp = [message |-> MessageOf(n + 1), description |-> DescribedTo(n + 1)[k]]
    BY <1>1, <1>4 DEF WInv, Reading, ReadingWhole, InBody
  <2>a. PICK k \in 0 .. Len(errs[n + 1].body) :
          /\ pos = At(n) + 2 + k
          /\ temp = [message |-> MessageOf(n + 1), description |-> DescribedTo(n + 1)[k]]
    BY <2>1
  <2>2. /\ errs[n + 1].body \in Seq(ReportLine) /\ n \in 0 .. N /\ n + 1 \in 0 .. N
        /\ At(n + 1) = At(n) + Len(errs[n + 1].body) + 2 /\ n \in Nat
        /\ \A j \in 1 .. Len(errs[n + 1].body) :
             /\ errorLines[At(n) + 1 + j] = errs[n + 1].body[j]
             /\ errs[n + 1].body[j] # blank
    <3>1. N \in Nat /\ n \in Nat /\ n \in 0 .. N /\ n + 1 \in 0 .. N
      <4>1. N \in Nat
        BY <1>2, <1>4, Layout
      <4> QED
        BY <4>1
    <3>2. /\ errs[n + 1].body \in Seq(ReportLine)
          /\ At(n + 1) = At(n) + Len(errs[n + 1].body) + 2
          /\ \A j \in 1 .. Len(errs[n + 1].body) :
               /\ errorLines[At(n) + 1 + j] = errs[n + 1].body[j]
               /\ errs[n + 1].body[j] # blank
      BY <1>2, <1>4, Layout
    <3> QED
      BY <3>1, <3>2
  <2>3. At(n) \in Nat /\ Len(errs[n + 1].body) \in Nat
    BY <1>2, <1>4, <2>2, Layout
  <2>4. k = Len(errs[n + 1].body)
    <3>1. SUFFICES ASSUME k # Len(errs[n + 1].body) PROVE FALSE
      OBVIOUS
    <3>2. k + 1 \in 1 .. Len(errs[n + 1].body) /\ pos = At(n) + 1 + (k + 1)
      BY <2>a, <2>3, <3>1
    <3>3. errorLines[pos] = errs[n + 1].body[k + 1] /\ errs[n + 1].body[k + 1] # blank
      BY <2>2, <3>2
    <3> QED
      BY <1>1, <3>3
  <2>5. pos = At(n + 1)
    BY <2>a, <2>2, <2>3, <2>4, SMTT(30)
  <2>6. DescribedTo(n + 1)[Len(errs[n + 1].body)] = Description(errs[n + 1].body)
    BY <2>2, Describing
  <2>7. temp = Wanted(n + 1)
    BY <2>a, <2>4, <2>6 DEF Wanted
  <2>8. totalErrors' = [j \in 1 .. n + 1 |-> Wanted(j)]
    <3>1. totalErrors = [j \in 1 .. n |-> Wanted(j)] /\ Len(totalErrors) = n
      BY <2>1, <2>2 DEF ReadTo
    <3> HIDE DEF Wanted
    <3> QED
      BY <1>1, <2>2, <2>7, <3>1
  <2>9. PICK m \in 0 .. N : m = n + 1
    BY <2>2
  <2>10. ReadTo(m)'
    BY <1>1, <2>8, <2>9 DEF ReadTo, Wanted, MessageOf, errs
  <2>11. m \in 0 .. N' /\ pos' = At(m)'
    BY <1>1, <2>5, <2>9, SameReport
  <2> QED
    BY <2>10, <2>11
<1>5. ReadingWhole' \/ ~report.whole
  BY <1>1, <1>4 DEF ReadingWhole
<1>6. ReadingAny'
  BY <1>1, <1>3 DEF ReadingAny
<1> QED
  BY <1>1, <1>2, <1>5, <1>6 DEF Reading

(* In a whole report "Rerun with" is behind a LEAK SUMMARY.                *)
LEMMA RerunBehindLeak ==
  ASSUME PrintedAssumption, WInv, report.whole, Laid,
         NEW k \in place + 1 .. Len(errorLines), errorLines[k].kind = "rerun"
  PROVE  \E j \in place .. k - 1 : errorLines[j].kind = "leak"
<1>1. /\ IsWhole(report) /\ errorLines = AllLines(report) /\ errorLines \in Seq(ReportLine)
      /\ place \in Nat /\ place + 1 <= Len(errorLines) /\ errorLines[place + 1].kind = "heap"
  <2>1. report \in Reports /\ ReportInv
    BY DEF WInv, Reading
  <2> QED
    BY <2>1, Layout DEF Laid, PrintedAssumption
<1>2. PrintedAll(errs) \in Seq(ReportLine)
  <2>1. N \in 0 .. N
    BY <1>1, Printing
  <2> QED
    BY <1>1, <2>1, Printing
<1>3. PICK h \in Len(PrintedAll(errs)) + 2 .. Len(errorLines) :
        /\ \A i \in DOMAIN errorLines : errorLines[i].kind = "heap" <=> i = h
        /\ \A i \in h .. Len(errorLines) :
             errorLines[i].kind = "rerun" => \E j \in h .. i - 1 : errorLines[j].kind = "leak"
  BY <1>1, <1>2, IsWholeHeap
<1>4. place + 1 \in DOMAIN errorLines
  BY <1>1
<1>5. h = place + 1
  BY <1>1, <1>3, <1>4
<1>6. PICK j \in place + 1 .. k - 1 : errorLines[j].kind = "leak"
  BY <1>3, <1>5
<1>7. j \in place .. k - 1
  BY <1>1
<1> QED
  BY <1>6, <1>7

LEMMA MemoryLineReading ==
  ASSUME PrintedAssumption, WInv, MemoryLine
  PROVE  Reading'
<1> USE DEF found, filed
<1>1. PICK line : line = errorLines[pos]
  OBVIOUS
<1>2. /\ report' = report /\ errorLines' = errorLines /\ place' = place
      /\ totalErrors' = totalErrors /\ dividedErrors' = dividedErrors
      /\ rpc = "memory" /\ rpc' = "memory" /\ pos <= Len(errorLines)
      /\ leaks' = (leaks \/ line.kind = "leak")
      /\ \/ memory' = memory /\ leaks' /\ line.kind = "rerun" /\ pos' = Len(errorLines) + 1
         \/ /\ memory' = Append(memory, line) /\ ~(leaks' /\ line.kind = "rerun")
            /\ \/ pos' = Len(errorLines) + 1 /\ line.kind = "all"
               \/ pos' = pos + 1
  <2>1. Current = line
    BY <1>1 DEF Current
  <2>2. /\ report' = report /\ errorLines' = errorLines /\ place' = place
        /\ totalErrors' = totalErrors /\ dividedErrors' = dividedErrors
        /\ rpc = "memory" /\ rpc' = "memory" /\ pos <= Len(errorLines)
        /\ leaks' = (leaks \/ line.kind = "leak")
        /\ memory' = IF leaks' /\ line.kind = "rerun" THEN memory ELSE Append(memory, line)
        /\ pos' = IF (leaks' /\ line.kind = "rerun") \/ (~leaks' /\ line.kind = "all")
                  THEN Len(errorLines) + 1 ELSE pos + 1
    BY <2>1 DEF MemoryLine
  <2> QED
    BY <2>2, Zenon
<1>3. /\ report \in Reports /\ Laid /\ NoErrors /\ ReportInv /\ pos \in Nat \ {0}
      /\ RestClean /\ MemoryClean /\ memory \in Seq(ReportLine)
  BY <1>2 DEF WInv, Reading, ReadingAny, ReportInv, RTypeOK
<1>4. Laid' /\ NoErrors'
  BY <1>2, <1>3 DEF Laid, PlaceRight, HeapSeen, NoErrors
<1>5. /\ errorLines \in Seq(ReportLine) /\ place \in Nat /\ Len(errorLines) \in Nat
      /\ pos \in pos .. Len(errorLines) /\ line \in ReportLine /\ pos' \in Nat /\ pos' > pos
      /\ HeapSeen => pos >= place
  <2>1. errorLines \in Seq(ReportLine) /\ place \in Nat
    BY <1>3 DEF ReportInv, RTypeOK
  <2>2. pos \in 1 .. Len(errorLines) /\ pos \in pos .. Len(errorLines)
    BY <1>2, <1>3, <2>1
  <2>3. Len(errorLines) \in Nat /\ line \in ReportLine
    BY <1>1, <2>1, <2>2
  <2>4. pos' \in Nat /\ pos' > pos
    BY <1>2, <1>3, <2>3
  <2> QED
    BY <1>3, <2>1, <2>2, <2>3, <2>4 DEF RestClean
<1>6. RestClean'
  <2>1. SUFFICES ASSUME HeapSeen, NEW k \in pos' .. Len(errorLines)
                 PROVE  pos' >= place /\ errorLines[k].kind \notin OfError
    BY <1>2, <1>5 DEF RestClean, HeapSeen
  <2>2. k \in pos .. Len(errorLines) /\ k # place /\ pos' >= place
    BY <1>3, <1>5, <2>1
  <2> QED
    BY <1>3, <2>1, <2>2 DEF RestClean
<1>7. \/ memory' = memory
      \/ /\ Len(memory) + 1 \in DOMAIN memory' /\ memory'[Len(memory) + 1] = line
         /\ \A k \in DOMAIN memory : k \in DOMAIN memory' /\ memory'[k] = memory[k]
         /\ \A k \in DOMAIN memory' :
              \/ k = Len(memory) + 1 /\ memory'[k] = line
              \/ k \in DOMAIN memory /\ memory'[k] = memory[k]
  <2>1. \A s \in Seq(ReportLine), l \in ReportLine :
          /\ Len(s) + 1 \in DOMAIN Append(s, l) /\ Append(s, l)[Len(s) + 1] = l
          /\ \A k \in DOMAIN s : k \in DOMAIN Append(s, l) /\ Append(s, l)[k] = s[k]
          /\ \A k \in DOMAIN Append(s, l) :
               \/ k = Len(s) + 1 /\ Append(s, l)[k] = l
               \/ k \in DOMAIN s /\ Append(s, l)[k] = s[k]
    OBVIOUS
  <2>2. memory' = memory \/ memory' = Append(memory, line)
    BY <1>2
  <2>3. memory \in Seq(ReportLine) /\ line \in ReportLine
    BY <1>3, <1>5
  <2> QED
    BY <2>1, <2>2, <2>3
<1>8. MemoryClean'
  <2>1. SUFFICES ASSUME HeapSeen, NEW k \in Lines(OfError, memory')
                 PROVE  /\ k = 1 /\ memory'[1] = errorLines[place]
                        /\ errorLines[place - 1] = blank
    BY <1>2 DEF MemoryClean, HeapSeen
  <2>2. k \in DOMAIN memory' /\ memory'[k].kind \in OfError
    BY <2>1 DEF Lines
  <2>3. CASE k \in DOMAIN memory /\ memory'[k] = memory[k]
    <3>1. k \in Lines(OfError, memory)
      BY <2>2, <2>3 DEF Lines
    <3> QED
      BY <1>3, <2>1, <2>3, <3>1 DEF MemoryClean
  <2>4. CASE k = Len(memory) + 1 /\ memory'[k] = line
    <3>1. pos = place /\ memory = << >> /\ errorLines[place - 1] = blank
      BY <1>1, <1>3, <1>5, <2>1, <2>2, <2>4 DEF RestClean
    <3>2. Len(memory) + 1 = 1
      BY <3>1
    <3> QED
      BY <1>1, <2>4, <3>1, <3>2
  <2> QED
    BY <1>7, <2>2, <2>3, <2>4
<1>9. ReadingAny'
  BY <1>2, <1>4, <1>6, <1>8 DEF ReadingAny
<1>10. ASSUME report.whole
       PROVE  (pos' > place' + 1 => HeapTaken') /\ LeaksSeen' /\ NoRerun' /\ ReadTo(N)'
  <2>1. (pos > place + 1 => HeapTaken) /\ LeaksSeen /\ NoRerun /\ ReadTo(N)
    BY <1>2, <1>10 DEF WInv, Reading, ReadingWhole
  <2>2. /\ errorLines[place] = blank /\ errorLines[place + 1].kind = "heap" /\ HeapSeen
        /\ pos >= place /\ place + 1 <= Len(errorLines)
    <3>1. /\ N \in 0 .. N /\ place \in Nat /\ At(N) <= place /\ HeapSeen
          /\ \A k \in At(N) .. place : errorLines[k] = blank
      BY <1>3, <1>10, Layout
    <3>2. At(N) \in Nat
      BY <1>3, <1>10, <3>1, Layout
    <3>3. place \in At(N) .. place
      BY <3>1, <3>2
    <3> QED
      BY <1>3, <1>5, <1>10, <3>1, <3>3, Layout
  <2>3. pos' > place' + 1 => HeapTaken'
    <3>1. CASE pos = place
      <4>1. line.kind = "blank"
        BY <1>1, <2>2, <3>1 DEF blank
      <4>2. pos' = place + 1
        BY <1>2, <3>1, <4>1
      <4> QED
        BY <1>2, <4>2, <1>5
    <3>2. CASE pos = place + 1
      <4>1. line.kind = "heap"
        BY <1>1, <2>2, <3>2
      <4>2. memory' = Append(memory, line)
        BY <1>2, <4>1
      <4>3. Len(memory) + 1 \in DOMAIN memory' /\ memory'[Len(memory) + 1] = line
        BY <1>3, <1>5, <4>2
      <4> QED
        BY <4>1, <4>3 DEF HeapTaken
    <3>3. CASE pos > place + 1
      BY <1>7, <2>1, <3>3 DEF HeapTaken
    <3> QED
      BY <1>3, <1>5, <2>2, <3>1, <3>2, <3>3
  <2>4. LeaksSeen'
    <3>1. SUFFICES ASSUME pos' <= Len(errorLines), NEW j \in place .. pos' - 1,
                          errorLines[j].kind = "leak"
                   PROVE  leaks'
      BY <1>2 DEF LeaksSeen
    <3>2. pos' = pos + 1
      BY <1>2, <1>5, <3>1
    <3>3. j = pos \/ j \in place .. pos - 1
      BY <1>3, <1>5, <3>2
    <3> QED
      BY <1>1, <1>2, <2>1, <3>1, <3>3 DEF LeaksSeen
  <2>5. NoRerun'
    <3>1. SUFFICES ASSUME NEW k \in DOMAIN memory',
                          memory'[k].kind \in OfError \cup {"rerun"}
                   PROVE  FALSE
      BY DEF NoRerun, Lines
    <3>2. ~(k \in DOMAIN memory /\ memory'[k] = memory[k])
      BY <2>1, <3>1 DEF NoRerun, Lines
    <3>3. memory' # memory /\ memory'[k] = line
      BY <1>7, <3>1, <3>2
    <3>4. line.kind # "rerun"
      <4>1. ~(leaks' /\ line.kind = "rerun")
        BY <1>2, <3>3
      <4>2. SUFFICES ASSUME line.kind = "rerun" PROVE FALSE
        OBVIOUS
      <4>3. pos # place
        BY <1>1, <2>2, <4>2 DEF blank
      <4>4. pos \in place + 1 .. Len(errorLines)
        BY <1>2, <1>3, <1>5, <2>2, <4>3
      <4>5. \E j \in place .. pos - 1 : errorLines[j].kind = "leak"
        BY <1>1, <1>3, <1>10, <4>2, <4>4, RerunBehindLeak DEF WInv, Reading
      <4>6. leaks
        BY <1>2, <2>1, <4>5 DEF LeaksSeen
      <4> QED
        BY <1>2, <4>1, <4>2, <4>6
    <3>5. line.kind \in OfError
      BY <3>1, <3>3, <3>4
    <3>6. pos = place
      BY <1>1, <1>3, <1>5, <2>2, <3>5 DEF RestClean
    <3> QED
      BY <1>1, <2>2, <3>5, <3>6 DEF OfError, blank
  <2>6. ReadTo(N)'
    BY <1>2, <2>1, SameReport DEF ReadTo, Wanted, MessageOf, N, errs
  <2> QED
    BY <2>3, <2>4, <2>5, <2>6
<1>11. ReadingWhole' \/ ~report.whole
  BY <1>2, <1>10 DEF ReadingWhole
<1> QED
  BY <1>2, <1>3, <1>9, <1>11 DEF Reading

LEMMA ParsedReading ==
  ASSUME PrintedAssumption, WInv, Parsed
  PROVE  Reading'
<1> USE DEF found, filed
<1>1. /\ report' = report /\ totalErrors' = totalErrors /\ memory' = memory
      /\ dividedErrors' = dividedErrors /\ pos' = 1
      /\ errorLines' = errorLines /\ place' = place
      /\ rpc = "memory" /\ rpc' = "examine" /\ pos > Len(errorLines)
  BY DEF Parsed
<1>2. /\ report \in Reports /\ Laid /\ NoErrors /\ ReportInv /\ MemoryClean
      /\ totalErrors \in Seq(Error) /\ pos \in Nat
  BY <1>1 DEF WInv, Reading, ReadingAny, ReportInv, RTypeOK
<1>3. FiledTo(pos)'
  <2>1. \A m \in DOMAIN totalErrors : ~(m < 1)
    BY <1>2
  <2>2. \A c \in 0 .. 8 : DOMAIN dividedErrors[c] = {}
    BY <1>2 DEF NoErrors
  <2> QED
    BY <1>1, <2>1, <2>2 DEF FiledTo
<1>4. ReadingAny'
  BY <1>1, <1>2, <1>3 DEF ReadingAny, MemoryClean, HeapSeen
<1>5. ASSUME report.whole
      PROVE  HeapTaken' /\ NoRerun' /\ ReadTo(N)'
  <2>1. pos > place + 1
    <3>1. place \in Nat /\ place + 1 <= Len(errorLines) /\ Len(errorLines) \in Nat
      BY <1>2, <1>5, Layout
    <3> QED
      BY <1>1, <1>2, <3>1
  <2>2. HeapTaken /\ NoRerun /\ ReadTo(N)
    BY <1>1, <1>5, <2>1 DEF WInv, Reading, ReadingWhole
  <2> QED
    BY <1>1, <2>2 DEF HeapTaken, NoRerun, ReadTo, Wanted, MessageOf, N, errs
<1>6. ReadingWhole' \/ ~report.whole
  BY <1>1, <1>5 DEF ReadingWhole
<1> QED
  BY <1>1, <1>2, <1>4, <1>6 DEF Reading

(* What is read of a whole report stays when the errors are filed.         *)
LEMMA ReadReading ==
  ASSUME WInv, report' = report, totalErrors' = totalErrors, memory' = memory,
         rpc \in {"examine", "verdict"},
         rpc' \in {"examine", "verdict", "continue", "fix", "forced"},
         rpc' \in {"examine", "verdict"} => rpc \in {"examine", "verdict"},
         ReadingAny'
  PROVE  Reading'
<1>1. ASSUME report.whole
      PROVE  ReadingWhole'
  <2>1. HeapTaken /\ NoRerun /\ ReadTo(N)
    BY <1>1 DEF WInv, Reading, ReadingWhole
  <2>2. HeapTaken' /\ NoRerun' /\ ReadTo(N)'
    BY <2>1 DEF HeapTaken, NoRerun, ReadTo, Wanted, MessageOf, N, errs
  <2> QED
    BY <2>2 DEF ReadingWhole
<1> QED
  BY <1>1 DEF WInv, Reading

LEMMA Appended ==
  ASSUME NEW S, NEW s \in Seq(S), NEW l \in S, NEW t, t = Append(s, l)
  PROVE  /\ \A j \in DOMAIN t : t[j] = l \/ (j \in DOMAIN s /\ t[j] = s[j])
         /\ \A j \in DOMAIN s : j \in DOMAIN t /\ t[j] = s[j]
         /\ \E j \in DOMAIN t : t[j] = l
<1>1. /\ DOMAIN s = 1 .. Len(s) /\ Len(s) \in Nat /\ DOMAIN t = 1 .. Len(s) + 1
      /\ t[Len(s) + 1] = l /\ \A j \in 1 .. Len(s) : t[j] = s[j]
  OBVIOUS
<1>2. /\ \A j \in 1 .. Len(s) + 1 : j = Len(s) + 1 \/ j \in 1 .. Len(s)
      /\ \A j \in 1 .. Len(s) : j \in 1 .. Len(s) + 1
      /\ Len(s) + 1 \in 1 .. Len(s) + 1
  BY <1>1
<1> QED
  BY <1>1, <1>2

LEMMA ExamineReading ==
  ASSUME WInv, examine
  PROVE  Reading'
<1> USE DEF found, filed
<1>1. PICK e, c : e = totalErrors[pos] /\ c = CategoryOf(e)
  OBVIOUS
<1>2. /\ report' = report /\ totalErrors' = totalErrors /\ memory' = memory
      /\ dividedErrors' = IF c = -1 THEN dividedErrors
                          ELSE [dividedErrors EXCEPT ![c] = Append(@, e)]
      /\ pos' = pos + 1 /\ rpc = "examine" /\ rpc' = "examine" /\ pos <= Len(totalErrors)
      /\ errorLines' = errorLines /\ place' = place
  BY <1>1 DEF examine
<1>3. /\ totalErrors \in Seq(Error) /\ pos \in Nat \ {0} /\ FiledTo(pos) /\ MemoryClean
      /\ dividedErrors \in [0 .. 8 -> Seq(Error)]
  BY <1>2 DEF WInv, Reading, ReadingAny, ReportInv, RTypeOK
<1>4. pos \in DOMAIN totalErrors /\ e \in Error /\ c \in -1 .. 8
  <2>1. pos \in 1 .. Len(totalErrors)
    BY <1>2, <1>3
  <2>2. pos \in DOMAIN totalErrors /\ e \in Error
    BY <1>1, <1>3, <2>1, ElementOf
  <2> QED
    BY <1>1, <2>2, CategoryOfRange
<1>5. \A m \in DOMAIN totalErrors : m < pos' => m < pos \/ m = pos
  <2>1. DOMAIN totalErrors = 1 .. Len(totalErrors) /\ Len(totalErrors) \in Nat
    BY <1>3
  <2>2. pos' = pos + 1
    BY <1>2
  <2> QED
    BY <1>3, <2>1, <2>2, SMTT(30)
<1>a. totalErrors' = totalErrors
  BY <1>2
<1>6. FiledTo(pos)'
  <2>1. CASE c = -1
    <3>1. dividedErrors' = dividedErrors
      BY <1>2, <2>1
    <3>2. \A m \in DOMAIN totalErrors : m < pos' /\ CategoryOf(totalErrors[m]) # -1 => m < pos
      BY <1>1, <1>5, <2>1
    <3>3. FiledTo(pos)
      BY <1>3
    <3> QED
      BY <1>a, <3>1, <3>2, <3>3 DEF FiledTo
  <2>2. CASE c # -1
    <3>1. c \in 0 .. 8
      BY <1>4, <2>2
    <3>2. /\ dividedErrors'[c] = Append(dividedErrors[c], e)
          /\ \A d \in 0 .. 8 : d # c => dividedErrors'[d] = dividedErrors[d]
      BY <1>2, <1>3, <2>2, <3>1
    <3>3. dividedErrors[c] \in Seq(Error)
      BY <1>3, <3>1
    <3>4. /\ \A j \in DOMAIN dividedErrors'[c] :
               \/ dividedErrors'[c][j] = e
               \/ j \in DOMAIN dividedErrors[c] /\ dividedErrors'[c][j] = dividedErrors[c][j]
          /\ \A j \in DOMAIN dividedErrors[c] :
               j \in DOMAIN dividedErrors'[c] /\ dividedErrors'[c][j] = dividedErrors[c][j]
          /\ \E j \in DOMAIN dividedErrors'[c] : dividedErrors'[c][j] = e
      <4>1. PICK s, t : s = dividedErrors[c] /\ t = dividedErrors'[c]
        OBVIOUS
      <4>2. s \in Seq(Error) /\ e \in Error /\ t = Append(s, e)
        BY <1>4, <3>2, <3>3, <4>1
      <4>3. /\ \A j \in DOMAIN t : t[j] = e \/ (j \in DOMAIN s /\ t[j] = s[j])
            /\ \A j \in DOMAIN s : j \in DOMAIN t /\ t[j] = s[j]
            /\ \E j \in DOMAIN t : t[j] = e
        BY <4>2, Appended
      <4> QED
        BY <4>1, <4>3
    <3>5. ASSUME NEW d \in 0 .. 8, NEW j \in DOMAIN dividedErrors'[d]
          PROVE  \E m \in DOMAIN totalErrors : totalErrors[m] = dividedErrors'[d][j]
      <4>1. CASE d = c /\ dividedErrors'[c][j] = e
        BY <1>1, <1>4, <4>1
      <4>2. CASE j \in DOMAIN dividedErrors[d] /\ dividedErrors'[d][j] = dividedErrors[d][j]
        BY <1>3, <3>5, <4>2 DEF FiledTo
      <4> QED
        BY <3>2, <3>4, <3>5, <4>1, <4>2
    <3>6. ASSUME NEW m \in DOMAIN totalErrors, m < pos', CategoryOf(totalErrors[m]) # -1
          PROVE  \E j \in DOMAIN dividedErrors'[CategoryOf(totalErrors[m])] :
                   dividedErrors'[CategoryOf(totalErrors[m])][j] = totalErrors[m]
      <4>1. PICK d : d = CategoryOf(totalErrors[m])
        OBVIOUS
      <4>2. d \in 0 .. 8
        <5>1. totalErrors[m] \in Error
          BY <1>3, SMTT(30)
        <5>2. d \in -1 .. 8
          BY <4>1, <5>1, CategoryOfRange
        <5> QED
          BY <3>6, <4>1, <5>2
      <4>3. CASE m = pos
        BY <1>1, <3>4, <4>3
      <4>4. CASE m < pos
        <5>1. PICK j \in DOMAIN dividedErrors[d] : dividedErrors[d][j] = totalErrors[m]
          BY <1>3, <3>6, <4>1, <4>4 DEF FiledTo
        <5>2. j \in DOMAIN dividedErrors'[d] /\ dividedErrors'[d][j] = dividedErrors[d][j]
          BY <3>2, <3>4, <4>2, <5>1
        <5> QED
          BY <4>1, <5>1, <5>2
      <4> QED
        BY <1>5, <3>6, <4>3, <4>4
    <3> QED
      BY <1>a, <3>5, <3>6 DEF FiledTo
  <2> QED
    BY <2>1, <2>2
<1>7. ReadingAny'
  BY <1>2, <1>3, <1>6 DEF ReadingAny, MemoryClean, HeapSeen
<1> QED
  BY <1>2, <1>7, ReadReading

LEMMA ExaminedReading ==
  ASSUME WInv, Examined
  PROVE  Reading'
<1> USE DEF found, filed
<1>1. /\ report' = report /\ totalErrors' = totalErrors /\ memory' = memory
      /\ dividedErrors' = dividedErrors /\ errorLines' = errorLines /\ place' = place
      /\ rpc = "examine" /\ rpc' = "verdict" /\ pos > Len(totalErrors)
  BY DEF Examined
<1>2. /\ totalErrors \in Seq(Error) /\ pos \in Nat \ {0} /\ FiledTo(pos) /\ MemoryClean
  BY <1>1 DEF WInv, Reading, ReadingAny, ReportInv, RTypeOK
<1>3. \A m \in DOMAIN totalErrors : m < pos
  BY <1>1, <1>2
<1>4. FiledTo(Len(totalErrors) + 1)'
  BY <1>1, <1>2, <1>3 DEF FiledTo
<1>5. ReadingAny'
  BY <1>1, <1>2, <1>4 DEF ReadingAny, MemoryClean, HeapSeen
<1> QED
  BY <1>1, <1>5, ReadReading

(* The end of execValgrind. *)
LEMMA VerdictReading ==
  ASSUME WInv, handleNows \/ ForceOn \/ Continue
  PROVE  Reading'
<1> USE DEF found, filed
<1>1. /\ report' = report /\ totalErrors' = totalErrors /\ memory' = memory
      /\ dividedErrors' = dividedErrors
      /\ rpc = "verdict" /\ rpc' \in {"fix", "forced", "continue"}
      /\ rpc' = "continue" => ~ToFix
      /\ rpc' = "fix" => handleNows
  BY DEF handleNows, ForceOn, Continue
<1>2. FiledTo(Len(totalErrors) + 1)
  BY <1>1 DEF WInv, Reading, ReadingAny
<1>3. FiledTo(Len(totalErrors) + 1)'
  BY <1>1, <1>2 DEF FiledTo
<1>4. rpc' = "continue" => ~ToFix'
  BY <1>1 DEF ToFix
<1>5. rpc' = "fix" => SaidRight'
  BY <1>1 DEF handleNows, SaidRight
<1>6. ReadingAny'
  BY <1>1, <1>3, <1>4, <1>5 DEF ReadingAny
<1> QED
  BY <1>1, <1>6, ReadReading

LEMMA StutterReading ==
  ASSUME WInv, UNCHANGED rvars
  PROVE  Reading'
<1> USE DEF rvars, found, filed
<1>1. ReadingAny'
  BY DEF WInv, Reading, ReadingAny, Keeping, PlaceRight, Laid, NoMemory, NoErrors, BehindBlank,
         Current, RestClean, MemoryClean, HeapSeen, FiledTo, SaidRight, ToFix
<1>2. ASSUME report.whole
      PROVE  ReadingWhole'
  <2>1. ReadingWhole
    BY <1>2 DEF WInv, Reading
  <2>2. /\ errs' = errs /\ N' = N /\ \A n : At(n)' = At(n) /\ ReadTo(n)' = ReadTo(n)
        /\ \A k : MessageOf(k)' = MessageOf(k) /\ DescribedTo(k)' = DescribedTo(k)
    BY SameReport DEF ReadTo
  <2>3. InBlanks' = InBlanks /\ InBody' = InBody
    <3>1. InBlanks' = InBlanks
      BY <2>2 DEF InBlanks
    <3>2. InBody' = InBody
      BY <2>2 DEF InBody
    <3> QED
      BY <3>1, <3>2
  <2>4. HeapTaken' = HeapTaken /\ LeaksSeen' = LeaksSeen /\ NoRerun' = NoRerun
    BY DEF HeapTaken, LeaksSeen, NoRerun
  <2> QED
    BY <2>1, <2>2, <2>3, <2>4 DEF ReadingWhole
<1> QED
  BY <1>1, <1>2 DEF WInv, Reading

LEMMA NextReading ==
  ASSUME PrintedAssumption, WInv, [RNext]_rvars
  PROVE  WInv'
<1>1. SUFFICES Reading'
  BY NextReportInv DEF WInv
<1>2. CASE KeepLine
  BY <1>2, KeepLineReading
<1>3. CASE Kept
  BY <1>3, KeptReading
<1>4. CASE Beyond
  BY <1>4, CrashReading DEF Beyond
<1>5. CASE NextError
  BY <1>5, NextErrorReading
<1>6. CASE SkipBlank
  BY <1>6, SkipBlankReading
<1>7. CASE Message
  BY <1>7, MessageReading
<1>8. CASE Body
  BY <1>8, BodyReading
<1>9. CASE EndError
  BY <1>9, EndErrorReading
<1>10. CASE MemoryLine
  BY <1>10, MemoryLineReading
<1>11. CASE Parsed
  BY <1>11, ParsedReading
<1>12. CASE examine
  BY <1>12, ExamineReading
<1>13. CASE Examined
  BY <1>13, ExaminedReading
<1>14. CASE handleNows \/ ForceOn \/ Continue
  BY <1>14, VerdictReading
<1>15. CASE UNCHANGED rvars
  BY <1>15, StutterReading
<1> QED
  BY <1>2, <1>3, <1>4, <1>5, <1>6, <1>7, <1>8, <1>9, <1>10, <1>11, <1>12, <1>13, <1>14, <1>15
  DEF RNext, execValgrind, parse

LEMMA ReadingInvariance ==
  ReportsAssumption /\ PrintedAssumption => (RSpec => []WInv)
<1> SUFFICES ASSUME ReportsAssumption, PrintedAssumption PROVE RSpec => []WInv
  OBVIOUS
<1>1. RInit => WInv
  BY InitReportInv, InitReading DEF WInv
<1>2. WInv /\ [RNext]_rvars => WInv'
  BY NextReading
<1> QED
  BY <1>1, <1>2, PTL DEF RSpec

-----------------------------------------------------------------------------
(* A whole report comes back as it was said: each error with its message   *)
(* and its own frames, in order, and none is added or lost.                *)
THEOREM AllErrorsRead ==
  ReportsAssumption /\ PrintedAssumption => (RSpec => []ErrorsRead)
<1> SUFFICES ASSUME ReportsAssumption, PrintedAssumption PROVE RSpec => []ErrorsRead
  OBVIOUS
<1>1. WInv => ErrorsRead
  <2>1. SUFFICES ASSUME WInv, rpc = "verdict", report.whole
                 PROVE  totalErrors = [k \in DOMAIN report.errors |->
                          [message |-> [kind |-> "message", what |-> report.errors[k].what],
                           description |-> Description(report.errors[k].body)]]
    BY DEF ErrorsRead
  <2>2. ReadTo(N)
    BY <2>1 DEF WInv, Reading, ReadingWhole
  <2>3. IsWhole(report)
    BY <2>1 DEF WInv, Reading, PrintedAssumption
  <2>4. DOMAIN errs = 1 .. N
    BY <2>3, Printing DEF N
  <2> QED
    BY <2>2, <2>4 DEF ReadTo, Wanted, MessageOf, errs
<1> QED
  BY <1>1, ReadingInvariance, PTL

(* Of a text that gets to HEAP SUMMARY the memory summary holds no line of *)
(* an error, but for one that alone was left of the last error behind an   *)
(* empty line and is its first; of a whole report it holds none of them,   *)
(* is taken from HEAP SUMMARY on, and is without "Rerun with".             *)
THEOREM SummaryOnly ==
  ReportsAssumption /\ PrintedAssumption => (RSpec => []MemoryIsSummary)
<1>1. WInv => MemoryIsSummary
  <2>1. SUFFICES ASSUME WInv, rpc = "verdict", HeapSeen
                 PROVE  /\ \A k \in Lines(OfError, memory) :
                             /\ k = 1 /\ memory[1] = errorLines[place]
                             /\ errorLines[place - 1] = blank
                        /\ report.whole => /\ Lines({"heap"}, memory) # {}
                                           /\ Lines(OfError \cup {"rerun"}, memory) = {}
    BY DEF MemoryIsSummary, HeapSeen
  <2>2. MemoryClean /\ (report.whole => HeapTaken /\ NoRerun)
    BY <2>1 DEF WInv, Reading, ReadingAny, ReadingWhole
  <2>3. HeapTaken => Lines({"heap"}, memory) # {}
    BY DEF HeapTaken, Lines
  <2> QED
    BY <2>1, <2>2, <2>3 DEF MemoryClean, NoRerun
<1> QED
  BY <1>1, ReadingInvariance, PTL

LEMMA OwnIs ==
  ASSUME NEW d \in Seq(Nat \cup {-1})
  PROVE  Own(d) \in Seq(Nat)
<1> DEFINE ss == [k \in DOMAIN d |-> IF d[k] = -1 THEN << >> ELSE <<d[k]>>]
<1>1. \A k \in DOMAIN d : d[k] \in Nat \cup {-1}
  OBVIOUS
<1>2. \A x \in Nat : <<x>> \in Seq(Nat)
  OBVIOUS
<1>3. << >> \in Seq(Nat)
  OBVIOUS
<1>4. \A k \in DOMAIN d : ss[k] \in Seq(Nat)
  BY <1>1, <1>2, <1>3
<1>5. DOMAIN d = 1 .. Len(d) /\ Len(d) \in Nat
  OBVIOUS
<1>6. ss \in Seq(Seq(Nat)) /\ Len(ss) \in Nat
  <2>1. ss = [k \in 1 .. Len(d) |-> ss[k]] /\ \A k \in 1 .. Len(d) : ss[k] \in Seq(Nat)
    BY <1>4, <1>5
  <2> HIDE DEF ss
  <2> QED
    BY <1>5, <2>1
<1>7. Own(d) = Joined(ss)[Len(ss)]
  BY DEF Own, JoinAll
<1> HIDE DEF ss
<1>8. Len(ss) \in 0 .. Len(ss)
  BY <1>6
<1> QED
  BY <1>6, <1>7, <1>8, JoinedIs

LEMMA PointedIs ==
  ASSUME NEW d \in Seq(Nat \cup {-1}), NEW c
  PROVE  /\ Own(d) = << >> => Pointed(c, d) = << >>
         /\ Own(d) # << >> => Pointed(c, d) # << >> /\ Pointed(c, d)[1] = Own(d)[1]
<1>1. PICK o \in Seq(Nat) : o = Own(d)
  BY OwnIs
<1>2. PICK most \in {1, 2} : most = IF c = 7 THEN 2 ELSE 1
  OBVIOUS
<1>3. Pointed(c, d) = SubSeq(o, 1, IF Len(o) < most THEN Len(o) ELSE most)
  BY <1>1, <1>2 DEF Pointed
<1>4. CASE o = << >>
  BY <1>1, <1>3, <1>4
<1>5. CASE o # << >>
  <2>1. Len(o) \in Nat /\ Len(o) >= 1
    BY <1>5
  <2>2. PICK n \in 1 .. Len(o) : n = IF Len(o) < most THEN Len(o) ELSE most
    BY <2>1
  <2>3. SubSeq(o, 1, n) # << >> /\ SubSeq(o, 1, n)[1] = o[1]
    BY <2>1
  <2> QED
    BY <1>1, <1>3, <1>5, <2>2, <2>3
<1> QED
  BY <1>4, <1>5, <1>1

(* A whole report: the k-th error is in its category, and what is in a     *)
(* category is one of them.                                                *)
LEMMA FiledAsSaid ==
  ASSUME PrintedAssumption, WInv, report.whole, rpc \in {"continue", "fix", "forced"}
  PROVE  /\ \A k \in NowErrors :
              \E j \in DOMAIN dividedErrors[Category[errs[k].what]] :
                dividedErrors[Category[errs[k].what]][j] = Wanted(k)
         /\ \A c \in Now : dividedErrors[c] # << >> => NowErrors # {}
         /\ \A k \in NowErrors : Description(errs[k].body) \in Seq(Nat \cup {-1})
<1>1. ReadTo(N) /\ FiledTo(Len(totalErrors) + 1) /\ FiledRight
      /\ dividedErrors \in [0 .. 8 -> Seq(Error)] /\ IsWhole(report)
  BY DEF WInv, Reading, ReadingWhole, ReadingAny, ReportInv, RTypeOK, PrintedAssumption
<1>2. /\ errs \in Seq([what : DOMAIN Category, body : Seq(ReportLine)]) /\ N \in Nat
      /\ DOMAIN errs = 1 .. N
  BY <1>1, Printing DEF N
<1>3. /\ DOMAIN totalErrors = 1 .. N /\ Len(totalErrors) = N
      /\ \A k \in 1 .. N : totalErrors[k] = Wanted(k)
  BY <1>1, <1>2 DEF ReadTo
<1>4. \A k \in 1 .. N : CategoryOf(Wanted(k)) = Category[errs[k].what]
  BY DEF CategoryOf, Wanted, MessageOf
<1>5. NowErrors = {k \in 1 .. N : Category[errs[k].what] \in Now}
  BY <1>2 DEF NowErrors, errs
<1>6. Now \subseteq 0 .. 8 /\ -1 \notin Now
  BY DEF Now
<1>7. ASSUME NEW k \in NowErrors
      PROVE  \E j \in DOMAIN dividedErrors[Category[errs[k].what]] :
               dividedErrors[Category[errs[k].what]][j] = Wanted(k)
  <2>1. k \in DOMAIN totalErrors /\ k < Len(totalErrors) + 1 /\ totalErrors[k] = Wanted(k)
        /\ CategoryOf(totalErrors[k]) = Category[errs[k].what]
        /\ CategoryOf(totalErrors[k]) # -1
    BY <1>2, <1>3, <1>4, <1>5, <1>6, <1>7
  <2>2. \E j \in DOMAIN dividedErrors[CategoryOf(totalErrors[k])] :
          dividedErrors[CategoryOf(totalErrors[k])][j] = totalErrors[k]
    BY <1>1, <2>1 DEF FiledTo
  <2> QED
    BY <2>1, <2>2
<1>8. ASSUME NEW c \in Now, dividedErrors[c] # << >>
      PROVE  NowErrors # {}
  <2>1. c \in 0 .. 8
    BY <1>6
  <2>2. dividedErrors[c] \in Seq(Error)
    BY <1>1, <2>1
  <2>3. 1 \in DOMAIN dividedErrors[c]
    BY <1>8, <2>2
  <2>4. CategoryOf(dividedErrors[c][1]) = c
    BY <1>1, <2>1, <2>3 DEF FiledRight
  <2>5. PICK m \in DOMAIN totalErrors : totalErrors[m] = dividedErrors[c][1]
    BY <1>1, <2>1, <2>3 DEF FiledTo
  <2>6. m \in 1 .. N /\ Category[errs[m].what] = c
    BY <1>3, <1>4, <2>4, <2>5
  <2> QED
    BY <1>5, <1>8, <2>6
<1>9. ASSUME NEW k \in NowErrors
      PROVE  Description(errs[k].body) \in Seq(Nat \cup {-1})
  <2>1. k \in 1 .. Len(errs)
    BY <1>2, <1>5 DEF N
  <2>2. errs[k] \in [what : DOMAIN Category, body : Seq(ReportLine)]
    BY <1>2, <2>1, ElementOf
  <2>3. errs[k].body \in Seq(ReportLine)
    BY <2>2
  <2> QED
    BY <2>3, Describing
<1> QED
  BY <1>7, <1>8, <1>9

(* The verdict on a whole report of a program without threads: it is       *)
(* stopped, or forced on, exactly when one of its errors is to be fixed    *)
(* first; and handleNows shows of each of these the innermost line of the  *)
(* user's own.                                                             *)
THEOREM RightVerdict ==
  ReportsAssumption /\ PrintedAssumption => (RSpec => []VerdictRight)
<1> SUFFICES ASSUME ReportsAssumption, PrintedAssumption PROVE RSpec => []VerdictRight
  OBVIOUS
<1>1. WInv => VerdictRight
  <2>1. SUFFICES ASSUME WInv, report.whole, OneThread
                 PROVE  /\ rpc = "continue" => NowErrors = {}
                        /\ rpc \in {"fix", "forced"} => NowErrors # {}
                        /\ rpc = "fix" => \A k \in NowErrors : Shown(k)
    BY DEF VerdictRight
  <2>2. \A k \in NowErrors : Category[errs[k].what] \in Now
    BY DEF NowErrors, errs
  <2>3. ASSUME rpc = "continue" PROVE NowErrors = {}
    <3>1. ~ToFix
      BY <2>1, <2>3 DEF WInv, Reading, ReadingAny
    <3>2. \A c \in Now : dividedErrors[c] = << >>
      BY <3>1 DEF ToFix
    <3>3. \A k \in NowErrors : \E j \in DOMAIN dividedErrors[Category[errs[k].what]] : TRUE
      BY <2>1, <2>3, FiledAsSaid
    <3>4. DOMAIN << >> = {}
      OBVIOUS
    <3>5. \A k \in NowErrors : DOMAIN dividedErrors[Category[errs[k].what]] = {}
      BY <2>2, <3>2, <3>4
    <3> QED
      BY <3>3, <3>5
  <2>4. ASSUME rpc \in {"fix", "forced"} PROVE NowErrors # {}
    <3>1. ToFix
      BY <2>1, <2>4 DEF WInv, ReportInv
    <3> QED
      BY <2>1, <2>4, <3>1, FiledAsSaid DEF ToFix
  <2>5. ASSUME rpc = "fix", NEW k \in NowErrors PROVE Shown(k)
    <3>1. PICK c, d : c = Category[errs[k].what] /\ d = Description(errs[k].body)
      OBVIOUS
    <3>2. c \in Now /\ d \in Seq(Nat \cup {-1})
      BY <2>1, <2>2, <2>5, <3>1, FiledAsSaid
    <3>3. PICK j \in DOMAIN dividedErrors[c] : dividedErrors[c][j] = Wanted(k)
      BY <2>1, <2>5, <3>1, FiledAsSaid
    <3>4. dividedErrors[c][j].description = d
      BY <3>1, <3>3 DEF Wanted
    <3>5. SaidRight
      BY <2>1, <2>5 DEF WInv, Reading, ReadingAny
    <3>6. j \in DOMAIN said[c] /\ said[c][j] = Pointed(c, d)
      BY <3>2, <3>3, <3>4, <3>5 DEF SaidRight
    <3>7. /\ Own(d) = << >> => said[c][j] = << >>
          /\ Own(d) # << >> => said[c][j] # << >> /\ said[c][j][1] = Own(d)[1]
      BY <3>2, <3>6, PointedIs
    <3> QED
      BY <3>1, <3>6, <3>7 DEF Shown, errs
  <2> QED
    BY <2>3, <2>4, <2>5
<1> QED
  BY <1>1, ReadingInvariance, PTL

=============================================================================
