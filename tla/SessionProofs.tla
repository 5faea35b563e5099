--------------------------- MODULE SessionProofs ---------------------------
(***************************************************************************)
(* Proofs about SuperDebugger, for every set of words and programs, every  *)
(* dump and every size of pipe and report.                                 *)
(***************************************************************************)
EXTENDS SuperDebugger, SequenceTheorems, TLAPS

(* Where main stands once valgrind's report is read, and once it is        *)
(* accepted.                                                               *)
Accepted == pc \in {"dump", "wait_od", "handoff", "debug"}
Reported == vg \in {"runs", "exit0", "exitn", "reaped"}

(* What valgrind runs on is the first word it could have taken. *)
CheckedFirst ==
  Reported =>
    \E i \in DottedFrom(FirstWord) :
      checked = argv[i] /\ \A j \in DottedFrom(FirstWord) : i <= j

(* A report is read from a valgrind that has ended, and a refusal is not   *)
(* accepted.                                                               *)
ReportRead ==
  /\ report \in {"clean", "now", "refused"}
  /\ Accepted \/ pc = "read" => vg = "reaped"
  /\ Accepted => report # "refused"

(* Who gets past the verdict with errors to fix now has forced it. *)
Gated == Accepted /\ report = "now" => Forced

(* A report is never empty, and valgrind ends only after all of it is in   *)
(* the pipe.                                                               *)
ReportWhole ==
  /\ unwritten \in Nat /\ pipe \in Nat
  /\ Reported /\ pc \in {"wait_vg", "read"} => unwritten + pipe > 0
  /\ vg \in {"exit0", "exitn", "reaped"} => unwritten = 0

(* What has been written of the dump stands at the start of the file. *)
DumpIsPrefix ==
  /\ od = "opens" => written = 0
  /\ od \in {"writes", "exit0"} =>
       /\ written \in 0 .. Len(Parts) /\ written <= Len(files[File])
       /\ \A k \in 1 .. written :
            files[File][k] = [part |-> Parts[k], of |-> <<Word, build[Word]>>]
  /\ od = "exit0" => Word \in Program /\ written = Len(Parts)

(* The words are words, the files sequences of parts, and a child or a     *)
(* result is there only in the phase it belongs to.                        *)
Shape ==
  /\ argv \in Seq(Token)
  /\ files \in [DumpFiles -> Seq(FilePart)]
  /\ build \in Builds
  /\ written \in Nat
  /\ pc \notin {"idle", "start"} => argv # << >>
  /\ vg # "none" => pc \notin {"idle", "start"}
  /\ od # "none" => pc = "wait_od" /\ Word \in DOMAIN DumpFile
  /\ pc \notin {"wait_od", "handoff", "debug"} => written = 0
  /\ tables # << >> => pc \in {"handoff", "debug"}

DebugsFirst ==
  debuggee # NoProgram =>
    pc = "debug" /\ debuggee = argv[1] /\ debuggee \in Found

(* The inductive invariant. *)
SInv ==
  /\ Shape /\ CheckedFirst /\ ReportRead /\ DumpIsPrefix /\ DebugsFirst
  /\ Gated /\ ReportWhole

LEMMA InitSInv == Init => SInv
BY DEF Init, SInv, Shape, CheckedFirst, Reported, ReportRead, Accepted,
       DumpIsPrefix, DebugsFirst, Gated, ReportWhole

-----------------------------------------------------------------------------
(* The steps. *)

(* A session is over and leaves its files. *)
LEMMA OverSInv == SInv /\ SessionOver /\ UNCHANGED files => SInv'
BY DEF SInv, SessionOver, Shape, CheckedFirst, Reported, ReportRead, Accepted,
       DumpIsPrefix, DebugsFirst, Gated, ReportWhole, Builds

LEMMA NewSessionSInv ==
  ASSUME SInv, NEW words \in Commands, NEW b \in Builds, NewSession(words, b)
  PROVE  SInv'
<1>1. words \in Seq(Token)
  BY DEF Commands
<1>2. vg = "none" /\ od = "none" /\ tables = << >> /\ debuggee = NoProgram
  BY DEF SInv, Shape, DebugsFirst, NewSession
<1> QED
  BY <1>1, <1>2
  DEF SInv, NewSession, vgVars, odVars, Shape, CheckedFirst, Reported, ReportRead,
      Accepted, DumpIsPrefix, DebugsFirst, Gated, ReportWhole

(* A step of main or valgrind that leaves the words, objdump and the files *)
(* alone, and the verdict once it is read.                                 *)
LEMMA QuietSInv ==
  ASSUME SInv, pc \notin {"idle", "wait_od", "handoff", "debug"}, argv # << >>,
         UNCHANGED <<argv, build, odVars, files, tables, debuggee>>,
         pc' \notin {"idle", "start", "debug"},
         CheckedFirst', ReportRead', Gated', ReportWhole'
  PROVE  SInv'
<1>1. od = "none" /\ tables = << >> /\ debuggee = NoProgram
  BY DEF SInv, Shape, DebugsFirst
<1> QED
  BY <1>1 DEF SInv, odVars, Shape, DumpIsPrefix, DebugsFirst, Builds

LEMMA ValgrindSInv == SInv /\ Valgrind => SInv'
<1> SUFFICES ASSUME SInv, Valgrind PROVE SInv'
  OBVIOUS
<1> USE DEF SInv
<1>1. pc \notin {"idle", "start"} /\ argv # << >> /\ UNCHANGED <<pc, argv>>
  BY DEF Valgrind, Shape, RefuseArgs, ExecValgrind, WriteReport, ExitValgrind
<1>2. UNCHANGED <<build, odVars, files, tables, debuggee>>
  BY DEF Valgrind, RefuseArgs, ExecValgrind, WriteReport, ExitValgrind
<1>3. ~Accepted /\ pc # "read" /\ vg \in {"args", "runs"}
  BY DEF Valgrind, ReportRead, RefuseArgs, ExecValgrind, WriteReport, ExitValgrind
<1>4. ReportRead' /\ Gated' /\ ReportWhole'
  <2>1. report' \in {"clean", "now", "refused"}
    BY DEF Valgrind, ReportRead, RefuseArgs, ExecValgrind, Verdicts, WriteReport,
           ExitValgrind
  <2>2. ReportWhole'
    <3>1. CASE ExecValgrind
      <4>1. unwritten' \in 1 .. MaxReport /\ pipe' = pipe /\ vg' = "runs"
        BY <3>1 DEF ExecValgrind
      <4>2. pipe \in Nat
        BY DEF ReportWhole
      <4>3. \A m \in 1 .. MaxReport, c \in Nat : m \in Nat /\ m + c > 0
        BY BoundAssumption
      <4>4. unwritten' \in Nat /\ pipe' \in Nat /\ unwritten' + pipe' > 0
        <5> HIDE DEF SInv
        <5> QED BY <4>1, <4>2, <4>3
      <4> QED BY <4>1, <4>4 DEF ReportWhole
    <3>2. CASE RefuseArgs
      BY <3>2 DEF RefuseArgs, ReportWhole, Reported
    <3>3. CASE WriteReport
      BY <3>3 DEF WriteReport, ReportWhole, Reported
    <3>4. CASE ExitValgrind
      BY <3>4 DEF ExitValgrind, ReportWhole, Reported
    <3> QED BY <3>1, <3>2, <3>3, <3>4 DEF Valgrind
  <2> QED BY <1>1, <1>3, <2>1, <2>2 DEF ReportRead, Gated, Accepted
<1>5. CheckedFirst'
  <2>1. CASE ExecValgrind
    BY <2>1 DEF ExecValgrind, CheckedFirst, DottedFrom, FirstWord, Forced
  <2>2. CASE RefuseArgs
    BY <2>2 DEF RefuseArgs, CheckedFirst, Reported
  <2>3. CASE WriteReport \/ ExitValgrind
    BY <2>3
    DEF WriteReport, ExitValgrind, CheckedFirst, Reported, DottedFrom, FirstWord,
        Forced
  <2> QED BY <2>1, <2>2, <2>3 DEF Valgrind
<1>6. Shape'
  BY <1>1, <1>2 DEF Shape, odVars, Word, FirstWord, Forced, Builds, DumpFiles, NextPart
<1>7. DumpIsPrefix' /\ DebugsFirst'
  BY <1>1, <1>2
  DEF DumpIsPrefix, DebugsFirst, odVars, File, Word, FirstWord, Forced, Parts
<1> QED BY <1>4, <1>5, <1>6, <1>7

LEMMA ObjDumpSInv == SInv /\ ObjDump => SInv'
<1> SUFFICES ASSUME SInv, ObjDump PROVE SInv'
  OBVIOUS
<1> USE DEF SInv
<1>1. /\ pc = "wait_od" /\ Word \in DOMAIN DumpFile
      /\ UNCHANGED <<pc, argv, build, vgVars, tables, debuggee>>
  BY DEF ObjDump, Shape, OpenDump, WritePart, ExitObjDump
<1>2. Word' = Word /\ Parts' = Parts /\ File' = File /\ File \in DumpFiles
  BY <1>1 DEF Word, Parts, File, DumpFiles, FirstWord, Forced
<1>3. CheckedFirst' /\ ReportRead' /\ DebugsFirst' /\ Gated' /\ ReportWhole'
  BY <1>1
  DEF vgVars, CheckedFirst, Reported, ReportRead, Accepted, DebugsFirst, Gated, ReportWhole,
      DottedFrom, FirstWord, Forced
<1>4. Parts \in Seq({"other", "main"})
  BY <1>1, ProgramAssumption DEF Parts, Shape, Builds, Program
<1>5. Shape' /\ DumpIsPrefix'
  <2>1. CASE OpenDump
    <3>1. written' = written /\ files' = files /\ written = 0
      BY <2>1 DEF OpenDump, DumpIsPrefix
    <3> QED BY <2>1, <3>1, <1>1, <1>2, <1>4
        DEF OpenDump, DumpIsPrefix, Shape, Builds
  <2>2. CASE WritePart
    <3> DEFINE n == written + 1
               p == [part |-> Parts[n], of |-> <<Word, build[Word]>>]
               f == files[File]
               g == IF written < Len(f) THEN [f EXCEPT ![n] = p] ELSE Append(f, p)
    <3>1. f \in Seq(FilePart) /\ written \in 0 .. Len(f) /\ Len(f) \in Nat
      BY <1>2, <2>2 DEF Shape, DumpIsPrefix, WritePart
    <3>2. n \in 1 .. Len(Parts) /\ written' = n /\ od' = od
      BY <2>2, <1>4, <3>1 DEF WritePart
    <3>3. p \in FilePart
      <4>1. Word \in Program
        BY <3>2 DEF Parts
      <4>2. build[Word] \in Version /\ Parts[n] \in {"other", "main"}
        BY <4>1, <3>2, <1>4, ProgramAssumption DEF Shape, Builds
      <4> QED BY <4>1, <4>2 DEF FilePart
    <3>4. files' = [files EXCEPT ![File] = g]
      BY <2>2 DEF WritePart, NextPart
    <3> HIDE DEF f, p
    <3>5. /\ g \in Seq(FilePart) /\ n <= Len(g)
          /\ g[n] = p
          /\ \A k \in 1 .. written : g[k] = f[k]
      <4>1. CASE written < Len(f)
        <5>1. n \in 1 .. Len(f)
          BY <3>1, <4>1
        <5>2. /\ [f EXCEPT ![n] = p] \in Seq(FilePart)
              /\ Len([f EXCEPT ![n] = p]) = Len(f)
              /\ \A j \in 1 .. Len(f) :
                   [f EXCEPT ![n] = p][j] = IF j = n THEN p ELSE f[j]
          <6> HIDE DEF n
          <6> QED BY <3>1, <3>3, <5>1, ExceptSeq
        <5> QED BY <5>1, <5>2, <4>1, <3>1
      <4>2. CASE ~(written < Len(f))
        <5>1. written = Len(f)
          BY <4>2, <3>1
        <5> QED BY <5>1, <4>2, <3>1, <3>3, AppendProperties
      <4> QED BY <4>1, <4>2
    <3>6. files'[File] = g /\ files' \in [DumpFiles -> Seq(FilePart)]
      <4> HIDE DEF g
      <4> QED BY <3>4, <3>5, <1>2 DEF Shape
    <3>7. \A k \in 1 .. n : g[k] = [part |-> Parts[k], of |-> <<Word, build[Word]>>]
      <4> HIDE DEF g
      <4>1. \A k \in 1 .. written : f[k] = [part |-> Parts[k], of |-> <<Word, build[Word]>>]
        BY <2>2 DEF f, n, WritePart, DumpIsPrefix
      <4>2. \A k \in 1 .. n : k \in 1 .. written \/ k = n
        BY <3>1
      <4>3. \A k \in 1 .. written : g[k] = f[k]
        BY <3>5
      <4>4. g[n] = [part |-> Parts[n], of |-> <<Word, build[Word]>>]
        BY <3>5 DEF p
      <4> HIDE DEF n
      <4> QED BY <4>1, <4>2, <4>3, <4>4
    <3> HIDE DEF g
    <3>8. Shape'
      BY <3>6, <3>2, <3>1, <1>1, <1>2 DEF Shape, vgVars, Builds
    <3>9. DumpIsPrefix'
      BY <3>2, <3>5, <3>6, <3>7, <2>2, <1>1, <1>2 DEF DumpIsPrefix, WritePart
    <3> QED BY <3>8, <3>9
  <2>3. CASE ExitObjDump
    BY <2>3, <1>1, <1>2, <1>4 DEF ExitObjDump, DumpIsPrefix, Shape, vgVars, Builds
  <2> QED BY <2>1, <2>2, <2>3 DEF ObjDump
<1> QED BY <1>3, <1>5

LEMMA MainSInv == SInv /\ Main => SInv'
<1> SUFFICES ASSUME SInv, Main PROVE SInv'
  OBVIOUS
<1>1. CASE \/ Usage \/ SpawnFails \/ ValgrindFails \/ ReadRefusal
           \/ HandleNows \/ NoFileName \/ ObjDumpFails \/ ParseFails
  BY <1>1, OverSInv
  DEF Usage, SpawnFails, ValgrindFails, ReadRefusal, HandleNows, NoFileName, ObjDumpFails,
      ParseFails
<1>2. CASE ForkValgrind
  <2>1. CheckedFirst' /\ ReportRead' /\ Gated' /\ ReportWhole'
    BY <1>2
    DEF ForkValgrind, SInv, CheckedFirst, Reported, ReportRead, Gated, ReportWhole, Accepted
  <2> QED BY <1>2, <2>1, QuietSInv DEF ForkValgrind
<1>3. CASE WaitValgrind
  <2>1. CheckedFirst' /\ ReportRead' /\ Gated' /\ ReportWhole'
    BY <1>3
    DEF WaitValgrind, SInv, CheckedFirst, Reported, ReportRead, Gated, ReportWhole, Accepted,
        DottedFrom, FirstWord, Forced
  <2>2. argv # << >>
    BY <1>3 DEF SInv, Shape, WaitValgrind
  <2> QED BY <1>3, <2>1, <2>2, QuietSInv DEF WaitValgrind
<1>4. CASE ReadReport
  <2>1. CheckedFirst' /\ ReportRead' /\ Gated' /\ ReportWhole'
    BY <1>4
    DEF ReadReport, SInv, CheckedFirst, Reported, ReportRead, Gated, ReportWhole, Accepted,
        DottedFrom, FirstWord, Forced
  <2>2. argv # << >>
    BY <1>4 DEF SInv, Shape, ReadReport
  <2>3. pc' \notin {"idle", "start", "debug"} /\ pc \notin {"idle", "wait_od", "handoff", "debug"}
    BY <1>4 DEF ReadReport
  <2> QED BY <1>4, <2>1, <2>2, <2>3, QuietSInv DEF ReadReport
<1>5. CASE ForkObjDump
  <2>1. /\ pc = "dump" /\ pc' = "wait_od" /\ od' = "opens" /\ written = 0
        /\ vg = "reaped" /\ tables = << >> /\ debuggee = NoProgram /\ argv # << >>
        /\ UNCHANGED <<argv, build, vgVars, written, files, tables, debuggee>>
    BY <1>5
    DEF ForkObjDump, SInv, Shape, ReportRead, Accepted, DebugsFirst
  <2>2. Word \in DOMAIN DumpFile /\ Word' = Word
    BY <1>5, <2>1 DEF ForkObjDump, Word, FirstWord, Forced
  <2>3. Shape'
    BY <2>1, <2>2 DEF SInv, Shape, vgVars, Builds
  <2>4. CheckedFirst' /\ ReportRead' /\ Gated' /\ ReportWhole' /\ DebugsFirst' /\ DumpIsPrefix'
    BY <2>1, <2>2
    DEF SInv, vgVars, CheckedFirst, Reported, ReportRead, Gated, ReportWhole, Accepted,
        DottedFrom, FirstWord, Forced, DebugsFirst, DumpIsPrefix
  <2> QED BY <2>3, <2>4 DEF SInv
<1>6. CASE ParseDump
  <2>1. /\ pc = "wait_od" /\ pc' = "handoff" /\ od' = "none"
        /\ vg = "reaped" /\ debuggee = NoProgram /\ argv # << >>
        /\ UNCHANGED <<argv, build, vgVars, written, debuggee>>
    BY <1>6
    DEF ParseDump, SInv, Shape, ReportRead, Accepted, DebugsFirst
  <2>2. files' \in [DumpFiles -> Seq(FilePart)]
    <3>1. << >> \in Seq(FilePart)
      OBVIOUS
    <3> QED BY <3>1, <1>6 DEF ParseDump, SInv, Shape
  <2>3. Shape'
    BY <2>1, <2>2 DEF SInv, Shape, vgVars, Builds
  <2>4. CheckedFirst' /\ ReportRead' /\ Gated' /\ ReportWhole' /\ DebugsFirst' /\ DumpIsPrefix'
    BY <2>1
    DEF SInv, vgVars, CheckedFirst, Reported, ReportRead, Gated, ReportWhole, Accepted,
        DottedFrom, FirstWord, Forced, DebugsFirst, DumpIsPrefix
  <2> QED BY <2>3, <2>4 DEF SInv
<1>7. CASE MainDebugger
  <2>1. /\ pc = "handoff" /\ pc' = "debug" /\ od = "none"
        /\ vg = "reaped" /\ argv # << >>
        /\ UNCHANGED <<argv, build, vgVars, odVars, files, tables>>
    BY <1>7
    DEF MainDebugger, SInv, Shape, ReportRead, Accepted
  <2>2. DebugsFirst'
    BY <1>7 DEF MainDebugger, DebugsFirst
  <2>3. Shape'
    BY <2>1 DEF SInv, Shape, vgVars, odVars, Builds
  <2>4. CheckedFirst' /\ ReportRead' /\ Gated' /\ ReportWhole' /\ DumpIsPrefix'
    BY <2>1
    DEF SInv, vgVars, odVars, CheckedFirst, Reported, ReportRead, Gated, ReportWhole, Accepted,
        DottedFrom, FirstWord, Forced, DumpIsPrefix
  <2> QED BY <2>2, <2>3, <2>4 DEF SInv
<1> QED BY <1>1, <1>2, <1>3, <1>4, <1>5, <1>6, <1>7 DEF Main

LEMMA NextSInv == SInv /\ [Next]_vars => SInv'
<1> SUFFICES ASSUME SInv, [Next]_vars PROVE SInv'
  OBVIOUS
<1>1. CASE Main
  BY <1>1, MainSInv
<1>2. CASE Valgrind
  BY <1>2, ValgrindSInv
<1>3. CASE ObjDump
  BY <1>3, ObjDumpSInv
<1>4. CASE DebuggerEnds \/ Interrupt
  BY <1>4, OverSInv DEF DebuggerEnds, Interrupt
<1>5. CASE \E words \in Commands, b \in Builds : NewSession(words, b)
  BY <1>5, NewSessionSInv
<1>6. CASE UNCHANGED vars
  BY <1>6
  DEF vars, vgVars, File, odVars, SInv, Shape, CheckedFirst, Reported, ReportRead, Accepted,
      DumpIsPrefix, DebugsFirst, Gated, ReportWhole, Builds, Word, Parts, FirstWord, Forced,
      DottedFrom
<1> QED BY <1>1, <1>2, <1>3, <1>4, <1>5, <1>6 DEF Next, User

THEOREM SessionInvariant == Spec => []SInv
BY InitSInv, NextSInv, PTL DEF Spec

-----------------------------------------------------------------------------
(* All of valgrind's report is in the pipe when main reads it, whatever    *)
(* the size of the pipe: the wait before the read is what makes one read   *)
(* enough.                                                                 *)
THEOREM ReportIsWhole == Spec => []ReadsWhole
<1>1. SInv => ReadsWhole
  BY DEF SInv, ReportRead, ReportWhole, Reported, ReadsWhole
<1> QED BY <1>1, SessionInvariant, PTL

(* Whatever the words of the command, what runs under the debugger is the  *)
(* word that was dumped, with a clean verdict, and it is what valgrind     *)
(* checked exactly if it starts with a '.': execValgrind, execObjDump and  *)
(* main_debugger each pick a word in their own way.                        *)
THEOREM DebuggedWasChecked == Spec => []CheckedIsDebugged
<1>1. SInv => CheckedIsDebugged
  <2> SUFFICES ASSUME SInv, pc = "debug", debuggee # NoProgram
               PROVE  /\ debuggee = Word /\ report = "clean"
                      /\ checked = debuggee <=> debuggee \in Dotted
    BY DEF CheckedIsDebugged
  <2>1. debuggee = argv[1] /\ argv[1] \in Found /\ argv # << >> /\ argv \in Seq(Token)
    BY DEF SInv, DebugsFirst, Shape
  <2>2. ~Forced /\ FirstWord = 1 /\ Word = argv[1]
    BY <2>1, TokenAssumption DEF Forced, FirstWord, Word
  <2>3. PICK i \in DottedFrom(1) :
          checked = argv[i] /\ \A j \in DottedFrom(1) : i <= j
    BY <2>2 DEF SInv, ReportRead, Accepted, CheckedFirst, Reported
  <2>4. argv[i] \in Dotted
    BY <2>3 DEF DottedFrom
  <2>5. ASSUME argv[1] \in Dotted PROVE i = 1
    <3>1. 1 \in DottedFrom(1)
      BY <2>1, <2>5 DEF DottedFrom
    <3> QED BY <3>1, <2>3 DEF DottedFrom
  <2>6. report = "clean"
    BY <2>2 DEF SInv, ReportRead, Gated, Accepted
  <2> QED BY <2>1, <2>2, <2>3, <2>4, <2>5, <2>6
<1> QED BY <1>1, SessionInvariant, PTL

-----------------------------------------------------------------------------
(* Every dump has a main. *)
HaveMain == \A v \in Version : \E i \in DOMAIN Dump[v] : Dump[v][i] = "main"

LEMMA TablesStep ==
  ASSUME HaveMain, SInv, TablesAreCurrent, [Next]_vars
  PROVE  TablesAreCurrent'
<1>1. CASE ParseDump
  <2>1. PICK i \in FirstMain(files[File]) : tables' = files[File][i].of
    BY <1>1 DEF ParseDump
  <2>2. Word' = Word /\ build' = build
    BY <1>1 DEF ParseDump, Word, FirstWord, Forced
  <2>3. /\ Word \in Program /\ written = Len(Parts) /\ written <= Len(files[File])
        /\ \A k \in 1 .. written :
             files[File][k] = [part |-> Parts[k], of |-> <<Word, build[Word]>>]
    BY <1>1 DEF SInv, DumpIsPrefix, ParseDump
  <2>4. build[Word] \in Version /\ Parts = Dump[build[Word]]
    BY <2>3, ProgramAssumption DEF SInv, Shape, Builds, Parts
  <2>5. PICK k \in DOMAIN Parts : Parts[k] = "main"
    BY <2>4, HaveMain DEF HaveMain
  <2>6. Word \in DOMAIN DumpFile /\ files[File] \in Seq(FilePart)
    BY <1>1 DEF SInv, Shape, ParseDump, File, DumpFiles
  <2>7. k \in 1 .. written /\ k \in 1 .. Len(files[File])
    <3>1. Parts \in Seq({"other", "main"})
      BY <2>4, ProgramAssumption
    <3> QED BY <3>1, <2>3, <2>5, <2>6
  <2>8. k \in Mains(files[File])
    <3>1. files[File][k] = [part |-> Parts[k], of |-> <<Word, build[Word]>>]
      BY <2>3, <2>7
    <3>2. files[File][k].part = "main"
      BY <3>1, <2>5
    <3> QED BY <3>2, <2>6, <2>7 DEF Mains
  <2>9. i <= k /\ i \in 1 .. Len(files[File])
    BY <2>1, <2>6, <2>8 DEF FirstMain, Mains
  <2>10. i \in 1 .. written
    <3>1. written \in Nat /\ Len(files[File]) \in Nat
      BY <2>6 DEF SInv, Shape
    <3> QED BY <3>1, <2>7, <2>9
  <2>11. files[File][i].of = <<Word, build[Word]>>
    <3>1. files[File][i] = [part |-> Parts[i], of |-> <<Word, build[Word]>>]
      BY <2>3, <2>10
    <3> QED BY <3>1
  <2> QED BY <2>1, <2>2, <2>11 DEF TablesAreCurrent
<1>2. CASE tables' = << >>
  BY <1>2 DEF TablesAreCurrent
<1>3. CASE UNCHANGED <<tables, argv, build>>
  BY <1>3 DEF TablesAreCurrent, Word, FirstWord, Forced
<1>4. CASE \E words \in Commands, b \in Builds : NewSession(words, b)
  <2>1. tables = << >> /\ tables' = tables
    BY <1>4 DEF NewSession, SInv, Shape
  <2> QED BY <2>1 DEF TablesAreCurrent
<1>5. \/ ParseDump \/ tables' = << >> \/ UNCHANGED <<tables, argv, build>>
      \/ \E words \in Commands, b \in Builds : NewSession(words, b)
  BY DEF Next, Main, Valgrind, ObjDump, User, SessionOver, Usage, SpawnFails,
         ForkValgrind, RefuseArgs, ExecValgrind, WriteReport, ExitValgrind,
         WaitValgrind, ValgrindFails, ReadRefusal, HandleNows, ReadReport,
         NoFileName, ForkObjDump, OpenDump, WritePart, ExitObjDump, ObjDumpFails, ParseFails,
         MainDebugger, DebuggerEnds, Interrupt, vars
<1> QED BY <1>1, <1>2, <1>3, <1>4, <1>5

(* The line tables are made from the program as it is compiled now, for    *)
(* all programs whose dump has a main: what an interrupted or failed       *)
(* session left in the dump file stands behind the first main.             *)
THEOREM TablesStayCurrent ==
  ASSUME HaveMain
  PROVE  Spec => []TablesAreCurrent
<1>1. Init => TablesAreCurrent
  BY DEF Init, TablesAreCurrent
<1>2. SInv /\ TablesAreCurrent /\ [Next]_vars => TablesAreCurrent'
  BY TablesStep, HaveMain
<1> QED BY <1>1, <1>2, SessionInvariant, PTL DEF Spec
-----------------------------------------------------------------------------
(* The types that SInv leaves open. *)
Places ==
  /\ pc \in {"idle", "start", "wait_vg", "read", "dump", "wait_od", "handoff", "debug"}
  /\ vg \in {"none", "args", "runs", "exit0", "exit1", "exitn", "reaped"}
  /\ od \in {"none", "opens", "writes", "exit0", "exit1"}

Contents ==
  /\ checked \in Token \cup {NoProgram}
  /\ unwritten \in Nat /\ pipe \in 0 .. PipeCap
  /\ tables \in Program \X Version \cup {<< >>}
  /\ debuggee \in Found \cup {NoProgram}

LEMMA PlacesStep == Places /\ [Next]_vars => Places'
BY DEF Places, Next, Main, Valgrind, ObjDump, User, SessionOver, Usage, SpawnFails,
       ForkValgrind, RefuseArgs, ExecValgrind, WriteReport, ExitValgrind,
       WaitValgrind, ValgrindFails, ReadRefusal, HandleNows, ReadReport,
       NoFileName, ForkObjDump, OpenDump, WritePart, ExitObjDump, ObjDumpFails, ParseFails,
       ParseDump, MainDebugger, DebuggerEnds, Interrupt, NewSession, vgVars, odVars,
       vars

LEMMA ContentsStep == SInv /\ Contents /\ [Next]_vars => Contents'
<1> SUFFICES ASSUME SInv, Contents, [Next]_vars PROVE Contents'
  OBVIOUS
<1>1. CASE ParseDump
  <2>1. PICK i \in FirstMain(files[File]) : tables' = files[File][i].of
    BY <1>1 DEF ParseDump
  <2>2. Word \in DOMAIN DumpFile /\ files[File] \in Seq(FilePart)
    BY <1>1 DEF SInv, Shape, ParseDump, File, DumpFiles
  <2>3. files[File][i] \in FilePart
    BY <2>2 DEF FirstMain, Mains
  <2>4. tables' \in Program \X Version
    BY <2>1, <2>2, <2>3 DEF FilePart
  <2> QED BY <1>1, <2>4 DEF ParseDump, Contents, vgVars
<1>2. CASE ExecValgrind
  <2>1. argv \in Seq(Token)
    BY DEF SInv, Shape
  <2>2. checked' \in Token
    BY <1>2, <2>1 DEF ExecValgrind, DottedFrom, FirstWord
  <2>3. unwritten' \in Nat
    BY <1>2, BoundAssumption DEF ExecValgrind
  <2> QED BY <1>2, <2>2, <2>3 DEF ExecValgrind, Contents
<1>3. CASE WriteReport
  BY <1>3, BoundAssumption DEF WriteReport, Contents
<1>4. CASE ReadReport
  BY <1>4, BoundAssumption DEF ReadReport, Contents
<1>5. CASE MainDebugger
  BY <1>5 DEF MainDebugger, Contents, vgVars
<1>6. CASE SessionOver
  BY <1>6, BoundAssumption DEF SessionOver, Contents
<1>7. CASE UNCHANGED <<checked, unwritten, pipe, tables, debuggee>>
  BY <1>7 DEF Contents
<1>8. \/ ParseDump \/ ExecValgrind \/ WriteReport \/ ReadReport \/ MainDebugger
      \/ SessionOver \/ UNCHANGED <<checked, unwritten, pipe, tables, debuggee>>
  BY DEF Next, Main, Valgrind, ObjDump, User, Usage, SpawnFails, ForkValgrind,
         RefuseArgs, ExitValgrind, WaitValgrind, ValgrindFails, ReadRefusal,
         HandleNows, NoFileName, ForkObjDump, OpenDump, WritePart, ExitObjDump, ObjDumpFails,
         ParseFails, DebuggerEnds, Interrupt, NewSession, vgVars, vars
<1> QED BY <1>1, <1>2, <1>3, <1>4, <1>5, <1>6, <1>7, <1>8

(* Every variable keeps its type, the line tables of a program included,   *)
(* which are made from a part of a file that may be of any session.        *)
THEOREM SessionTyped == Spec => []TypeOK
<1>1. Init => Places /\ Contents
  BY BoundAssumption DEF Init, Places, Contents
<1>2. SInv /\ Places /\ Contents => TypeOK
  BY DEF SInv, Shape, ReportRead, Places, Contents, TypeOK
<1> QED BY <1>1, <1>2, PlacesStep, ContentsStep, SessionInvariant, PTL DEF Spec
=============================================================================
