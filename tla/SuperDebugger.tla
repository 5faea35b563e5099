--------------------------- MODULE SuperDebugger ---------------------------
(***************************************************************************)
(* super_debugger, command after command in one directory: main runs       *)
(* valgrind on the program and reads its report from a pipe                *)
(* (execValgrind), dumps the program into a file and parses that           *)
(* (execObjDump), and hands over to the ptrace debugger (main_debugger,    *)
(* module Sdb from its fork on).                                           *)
(*                                                                         *)
(* Between sessions the user may compile the program again.  What stays is *)
(* the dump file, which is opened without O_TRUNC and removed only at the  *)
(* end of a parse that succeeds.                                           *)
(***************************************************************************)
EXTENDS Integers, Sequences

CONSTANTS
  Token,      \* words of the command line after "super_debugger"
  ForceFlag,  \* those that are -f or --force
  Dashed,     \* those that start with '-'
  Dotted,     \* those that start with '.'
  Found,      \* those that execvp finds a program for
  DumpFile,   \* DumpFile[w]: the file the dump of word w goes to, w without
              \* its first two characters; of a single one there is none
  Version,    \* versions of programs
  Versions,   \* Versions[p]: those of the program that word p names
  Dump,       \* Dump[v]: what objdump prints for v, in parts "other", "main"
  WithLines,  \* the versions compiled with -g
  PipeCap,    \* units of text a pipe holds
  MaxReport,  \* bound on the units of a report
  MaxArgs,    \* bound on the words
  NoProgram

Program == DOMAIN Versions

ASSUME TokenAssumption ==
  /\ ForceFlag \subseteq Dashed
  /\ Dashed \subseteq Token /\ Dotted \subseteq Token
  /\ Dashed \cap Dotted = {} /\ Found \subseteq Token \ Dashed
  /\ DOMAIN DumpFile \subseteq Token
  /\ NoProgram \notin Token

ASSUME ProgramAssumption ==
  /\ Program \subseteq Token \ Dashed
  /\ Versions \in [Program -> (SUBSET Version) \ {{}}]
  /\ Dump \in [Version -> Seq({"other", "main"})]
  /\ WithLines \subseteq Version

ASSUME BoundAssumption == PipeCap \in Nat /\ MaxReport \in Nat /\ MaxArgs \in Nat

VARIABLES
  pc,        \* main: "idle" between sessions, or where it stands
  argv,      \* the words of this session
  build,     \* the version of each program on disk
  vg,        \* the valgrind child: "none", "args" (fork's child), "runs",
             \* "exit0", "exit1", "exitn" (another status), "reaped"
  checked,   \* the word valgrind was started on
  report,    \* what its report says: "clean" (nothing to fix first), "now"
             \* (errors of a handle-now category), "refused" ("valgrind: ...")
  unwritten, \* units of the report that valgrind has not written
  pipe,      \* units in the pipe
  od,        \* the objdump child: "none", "opens", "writes", "exit0", "exit1"
  written,   \* parts of the dump written
  files,     \* files[f]: the parts in dump file f, with the program and the
             \* version they belong to
  tables,    \* the program and version that the line tables were made from
  debuggee   \* the program that runs under the debugger

vgVars == <<vg, checked, report, unwritten, pipe>>
odVars == <<od, written>>
vars == <<pc, argv, build, vgVars, odVars, files, tables, debuggee>>

Forced == argv # << >> /\ argv[1] \in ForceFlag

(* The first word after the flag: what objdump is run on. *)
FirstWord == IF Forced THEN 2 ELSE 1

(* valgrind is run on the first word from there that starts with '.'.      *)
DottedFrom(m) == {i \in m .. Len(argv) : argv[i] \in Dotted}

(* Every child is gone, and nothing of the session remains but files.      *)
SessionOver ==
  /\ pc' = "idle" /\ argv' = << >>
  /\ vg' = "none" /\ checked' = NoProgram /\ report' = "clean"
  /\ unwritten' = 0 /\ pipe' = 0
  /\ od' = "none" /\ written' = 0
  /\ tables' = << >> /\ debuggee' = NoProgram
  /\ UNCHANGED build

-----------------------------------------------------------------------------
(* The user (re)compiles and types a command. *)
NewSession(words, b) ==
  /\ pc = "idle"
  /\ pc' = "start" /\ argv' = words /\ build' = b
  /\ UNCHANGED <<vgVars, odVars, files, tables, debuggee>>

(* main without arguments; or pipe or fork fail. *)
Usage ==
  /\ pc = "start" /\ argv = << >>
  /\ SessionOver /\ UNCHANGED files

SpawnFails ==
  /\ pc \in {"start", "dump"}
  /\ SessionOver /\ UNCHANGED files

ForkValgrind ==
  /\ pc = "start" /\ argv # << >>
  /\ pc' = "wait_vg" /\ vg' = "args"
  /\ UNCHANGED <<argv, build, checked, report, unwritten, pipe, odVars, files,
                 tables, debuggee>>

-----------------------------------------------------------------------------
(* The valgrind child. *)

(* No valid flag, no executable, or valgrind cannot be executed.           *)
RefuseArgs ==
  /\ vg = "args"
  /\ vg' = "exit1"
  /\ UNCHANGED <<pc, argv, build, checked, report, unwritten, pipe, odVars,
                 files, tables, debuggee>>

(* A word that is no program is refused; so may be a program, one for      *)
(* another processor say.                                                  *)
Verdicts(w) == {"refused"} \cup IF w \in Program THEN {"clean", "now"} ELSE {}

(* Slip: the last word that starts with '.' is taken.                      *)
ExecValgrindLast ==
  /\ vg = "args" /\ (argv[1] \in Dashed => Forced)
  /\ \E i \in DottedFrom(FirstWord) :
       /\ \A j \in DottedFrom(FirstWord) : j <= i
       /\ checked' = argv[i]
       /\ report' \in Verdicts(argv[i])
  /\ vg' = "runs"
  /\ unwritten' \in 1 .. MaxReport
  /\ UNCHANGED <<pc, argv, build, pipe, odVars, files, tables, debuggee>>

ExecValgrind ==
  /\ vg = "args" /\ (argv[1] \in Dashed => Forced)
  /\ \E i \in DottedFrom(FirstWord) :
       /\ \A j \in DottedFrom(FirstWord) : i <= j
       /\ checked' = argv[i]
       /\ report' \in Verdicts(argv[i])
  /\ vg' = "runs"
  /\ unwritten' \in 1 .. MaxReport
  /\ UNCHANGED <<pc, argv, build, pipe, odVars, files, tables, debuggee>>

(* A write blocks while the pipe is full. *)
WriteReport ==
  /\ vg = "runs" /\ unwritten > 0 /\ pipe < PipeCap
  /\ unwritten' = unwritten - 1 /\ pipe' = pipe + 1
  /\ UNCHANGED <<pc, argv, build, vg, checked, report, odVars, files, tables,
                 debuggee>>

(* The exit status is the program's own, or valgrind's. *)
ExitValgrind ==
  /\ vg = "runs" /\ unwritten = 0
  /\ vg' \in {"exit0", "exit1", "exitn"}
  /\ UNCHANGED <<pc, argv, build, checked, report, unwritten, pipe, odVars,
                 files, tables, debuggee>>

-----------------------------------------------------------------------------
(* execValgrind, the parent: it waits first and reads then, once. *)

(* Slip: any status but 0 is waited over. *)
WaitValgrindZero ==
  /\ pc = "wait_vg" /\ vg = "exit0"
  /\ pc' = "read" /\ vg' = "reaped"
  /\ UNCHANGED <<argv, build, checked, report, unwritten, pipe, odVars, files,
                 tables, debuggee>>

(* Slip: main reads what there is while valgrind still runs.               *)
WaitValgrindNot ==
  /\ pc = "wait_vg" /\ vg \in {"runs", "exit0", "exitn"}
  /\ pc' = "read" /\ vg' = "reaped"
  /\ UNCHANGED <<argv, build, checked, report, unwritten, pipe, odVars, files,
                 tables, debuggee>>

WaitValgrind ==
  /\ pc = "wait_vg" /\ vg \in {"exit0", "exitn"}
  /\ pc' = "read" /\ vg' = "reaped"
  /\ UNCHANGED <<argv, build, checked, report, unwritten, pipe, odVars, files,
                 tables, debuggee>>

(* Status 1, which may be that of the program itself. *)
ValgrindFails ==
  /\ pc = "wait_vg" /\ vg = "exit1"
  /\ SessionOver /\ UNCHANGED files

ReadRefusal ==
  /\ pc = "read" /\ report = "refused"
  /\ SessionOver /\ UNCHANGED files

HandleNows ==
  /\ pc = "read" /\ report = "now" /\ ~Forced
  /\ SessionOver /\ UNCHANGED files

(* The verdict is returned to main, which stops the session. *)
ReadReport ==
  /\ pc = "read" /\ report # "refused" /\ (report = "now" => Forced)
  /\ pc' = "dump" /\ pipe' = 0
  /\ UNCHANGED <<argv, build, vg, checked, report, unwritten, odVars, files,
                 tables, debuggee>>

-----------------------------------------------------------------------------
(* execObjDump. *)

Word == argv[FirstWord]
Parts == IF Word \in Program THEN Dump[build[Word]] ELSE << >>

(* substr(2) of a single character throws. *)
NoFileName ==
  /\ pc = "dump" /\ Word \notin DOMAIN DumpFile
  /\ SessionOver /\ UNCHANGED files

ForkObjDump ==
  /\ pc = "dump" /\ Word \in DOMAIN DumpFile
  /\ pc' = "wait_od" /\ od' = "opens"
  /\ UNCHANGED <<argv, build, vgVars, written, files, tables, debuggee>>

File == DumpFile[Word]

(* The next part, with the program and version it is of. *)
NextPart == [part |-> Parts[written + 1], of |-> <<Word, build[Word]>>]

(* Slip: as if the file were opened with O_APPEND. *)
WritePartAtEnd ==
  /\ od = "writes" /\ written < Len(Parts)
  /\ written' = written + 1
  /\ files' = [files EXCEPT ![File] = Append(@, NextPart)]
  /\ UNCHANGED <<pc, argv, build, vgVars, od, tables, debuggee>>

(* The file is opened without O_TRUNC and written from its start; the      *)
(* directory may be read-only.                                             *)
OpenDump ==
  /\ od = "opens"
  /\ od' \in {"writes", "exit1"}
  /\ UNCHANGED <<pc, argv, build, vgVars, written, files, tables, debuggee>>

WritePart ==
  /\ od = "writes" /\ written < Len(Parts)
  /\ written' = written + 1
  /\ files' = [files EXCEPT ![File] =
       IF written < Len(@) THEN [@ EXCEPT ![written + 1] = NextPart]
                           ELSE Append(@, NextPart)]
  /\ UNCHANGED <<pc, argv, build, vgVars, od, tables, debuggee>>

(* Status 1 when the word is no program. *)
ExitObjDump ==
  /\ od = "writes" /\ written = Len(Parts)
  /\ od' = IF Word \in Program THEN "exit0" ELSE "exit1"
  /\ UNCHANGED <<pc, argv, build, vgVars, written, files, tables, debuggee>>

ObjDumpFails ==
  /\ pc = "wait_od" /\ od = "exit1"
  /\ SessionOver /\ UNCHANGED files

(* The first main of the file. *)
Mains(f) == {i \in DOMAIN f : f[i].part = "main"}
FirstMain(f) == {i \in Mains(f) : \A j \in Mains(f) : i <= j}

(* No main, a main without line numbers, or a source that cannot be opened.*)
ParseFails ==
  /\ pc = "wait_od" /\ od = "exit0"
  /\ SessionOver /\ UNCHANGED files

(* The tables are filled; remove may fail, which is only said. *)
ParseDump ==
  /\ pc = "wait_od" /\ od = "exit0"
  /\ \E i \in FirstMain(files[File]) :
       /\ tables' = files[File][i].of
       /\ tables'[2] \in WithLines
  /\ files' \in {files, [files EXCEPT ![File] = << >>]}
  /\ pc' = "handoff" /\ od' = "none"
  /\ UNCHANGED <<argv, build, vgVars, written, debuggee>>

-----------------------------------------------------------------------------
(* Slip: as if exec always found a program. *)
MainDebuggerBlind ==
  /\ pc = "handoff"
  /\ pc' = "debug"
  /\ debuggee' = argv[1]
  /\ UNCHANGED <<argv, build, vgVars, odVars, files, tables>>

(* main_debugger: fork, and execvp of the first word whatever it is.       *)
MainDebugger ==
  /\ pc = "handoff"
  /\ pc' = "debug"
  /\ debuggee' = IF argv[1] \in Found THEN argv[1] ELSE NoProgram
  /\ UNCHANGED <<argv, build, vgVars, odVars, files, tables>>

(* The session under the debugger ends (Sdb's dbg = "done"). *)
DebuggerEnds ==
  /\ pc = "debug"
  /\ SessionOver /\ UNCHANGED files

(* ^C before the debugger runs: main and its children are killed. *)
Interrupt ==
  /\ pc \notin {"idle", "debug"}
  /\ SessionOver /\ UNCHANGED files

-----------------------------------------------------------------------------
Commands == UNION {[1..n -> Token] : n \in 0..MaxArgs}
DumpFiles == {DumpFile[w] : w \in DOMAIN DumpFile}
Builds == {b \in [Program -> Version] : \A p \in Program : b[p] \in Versions[p]}

Init ==
  /\ pc = "idle" /\ argv = << >> /\ build \in Builds
  /\ vg = "none" /\ checked = NoProgram /\ report = "clean"
  /\ unwritten = 0 /\ pipe = 0
  /\ od = "none" /\ written = 0
  /\ files = [f \in DumpFiles |-> << >>]
  /\ tables = << >> /\ debuggee = NoProgram

Valgrind == RefuseArgs \/ ExecValgrind \/ WriteReport \/ ExitValgrind
ObjDump == OpenDump \/ WritePart \/ ExitObjDump
Main ==
  \/ Usage \/ SpawnFails \/ ForkValgrind
  \/ WaitValgrind \/ ValgrindFails \/ ReadRefusal \/ HandleNows \/ ReadReport
  \/ NoFileName \/ ForkObjDump \/ ObjDumpFails \/ ParseFails \/ ParseDump \/ MainDebugger
User ==
  \/ \E words \in Commands, b \in Builds : NewSession(words, b)
  \/ DebuggerEnds \/ Interrupt

Next == Main \/ Valgrind \/ ObjDump \/ User

Spec == Init /\ [][Next]_vars

(* The three processes run; the user is obliged to nothing. *)
FairSpec == Spec /\ WF_vars(Main) /\ WF_vars(Valgrind) /\ WF_vars(ObjDump)

-----------------------------------------------------------------------------
FilePart == [part : {"other", "main"}, of : Program \X Version]

TypeOK ==
  /\ pc \in {"idle", "start", "wait_vg", "read", "dump", "wait_od", "handoff", "debug"}
  /\ argv \in Seq(Token)
  /\ build \in Builds
  /\ vg \in {"none", "args", "runs", "exit0", "exit1", "exitn", "reaped"}
  /\ checked \in Token \cup {NoProgram}
  /\ report \in {"clean", "now", "refused"}
  /\ unwritten \in Nat /\ pipe \in 0 .. PipeCap
  /\ od \in {"none", "opens", "writes", "exit0", "exit1"}
  /\ written \in Nat
  /\ files \in [DumpFiles -> Seq(FilePart)]
  /\ tables \in Program \X Version \cup {<< >>}
  /\ debuggee \in Found \cup {NoProgram}

(* What runs under the debugger is the word that objdump was run on, in a  *)
(* session whose verdict was clean; and it is what valgrind checked        *)
(* exactly if it starts with a '.': three places pick a word of the        *)
(* command line, each in its own way.  (Of `d/p ./q' valgrind checks ./q   *)
(* and d/p is debugged.)                                                   *)
CheckedIsDebugged ==
  pc = "debug" /\ debuggee # NoProgram =>
    /\ debuggee = Word /\ report = "clean"
    /\ checked = debuggee <=> debuggee \in Dotted

(* The pipe is read once: then all of the report is in it, and the verdict *)
(* is on the whole of what valgrind had to say.  It rests on the wait      *)
(* before the read, which is what blocks on a report longer than the pipe. *)
ReadsWhole == pc = "read" => unwritten = 0 /\ pipe > 0

(* The line tables were made from the program as it is compiled now,       *)
(* although a dump of an earlier session may still be in the file, whole   *)
(* or in part, longer than the one written over it, of an older version or *)
(* of a program of the same name elsewhere.  True of programs whose dump   *)
(* has a main.                                                             *)
TablesAreCurrent ==
  tables # << >> => tables = <<Word, build[Word]>>

(* A session ends or gets to the debugger, if valgrind's report fits into  *)
(* the pipe: the two processes never wait for each other.                  *)
SessionEnds == pc # "idle" ~> pc \in {"idle", "debug"}

-----------------------------------------------------------------------------
(* What messages and comments say, and commands exist for which the code   *)
(* does not do it.                                                         *)

(* "If you want to force continue your program: rerun with -f or --force   *)
(* flag eg ./debug -f ./yourProgram" (handleNows).                         *)
ForceDebugs ==
  pc = "debug" /\ Forced /\ Word \in Found => debuggee = Word
=============================================================================
