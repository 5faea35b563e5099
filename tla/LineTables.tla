----------------------------- MODULE LineTables -----------------------------
(***************************************************************************)
(* The second half of execObjDump: from a dump file, `objdump -d -l', to   *)
(* the line tables of the ptrace debugger (module Sdb).                    *)
(*                                                                         *)
(* A dump is a sequence of lines.  What the parser tells apart:            *)
(*                                                                         *)
(*   [kind |-> "label"]             "... <main>:"                          *)
(*   [kind |-> "blank"]             the end of a function                  *)
(*   [kind |-> "mark", file, line]  "/the/file.cpp:12"                     *)
(*   [kind |-> "instr", addr]       starts with a blank                    *)
(*   [kind |-> "name"]              any other: "main():", "file.cpp:?",    *)
(*                                  which has no number behind its last ':'*)
(***************************************************************************)
EXTENDS Integers, Sequences

CONSTANTS
  Files,       \* the dumps
  SourceLines  \* the lines of the source file as it is now

VARIABLES
  pc,           \* "open", "split", "assem", "fill", "done"; "failed" (return
                \* 1), "crashed" (an exception, or undefined behaviour)
  file,         \* the dump
  objectDump,   \* the lines of main
  incre,        \* the next of them, from 0
  mainFunct,    \* the addresses of its instructions
  indices,      \* where in mainFunct a block starts, from 0
  linenumber,   \* and of which line it is
  fileloc,      \* the source file, or "none"
  x86_code,     \* the blocks
  line_to_addr, addr_to_line

input == <<file, objectDump>>
lists == <<mainFunct, indices, linenumber, fileloc>>
tables == <<line_to_addr, addr_to_line>>
vars == <<pc, input, incre, lists, x86_code, tables>>

-----------------------------------------------------------------------------
(* Lines a .. b of the file: from the first label to a blank or the end.   *)
IsMain(a, b) ==
  /\ file[a].kind = "label" /\ \A i \in 1 .. a - 1 : file[i].kind # "label"
  /\ \A i \in a .. b : file[i].kind # "blank"
  /\ b < Len(file) => file[b + 1].kind = "blank"

(* No file, or no main in it. *)
NoMain ==
  /\ pc = "open"
  /\ pc' = "failed"
  /\ UNCHANGED <<input, incre, lists, x86_code, tables>>

getObjDump ==
  /\ pc = "open"
  /\ \E a \in DOMAIN file : \E b \in a .. Len(file) :
       IsMain(a, b) /\ objectDump' = SubSeq(file, a, b)
  /\ pc' = "split" /\ incre' = 2
  /\ UNCHANGED <<file, lists, x86_code, tables>>

-----------------------------------------------------------------------------
(* execObjDump's loop over the lines of main, behind the label and "main()"*)
More == pc = "split" /\ incre < Len(objectDump)
Line == objectDump[incre + 1]

SplitInstr ==
  /\ More /\ Line.kind = "instr"
  /\ mainFunct' = Append(mainFunct, Line.addr)
  /\ incre' = incre + 1
  /\ UNCHANGED <<pc, input, indices, linenumber, fileloc, x86_code, tables>>

SplitMark ==
  /\ More /\ Line.kind = "mark"
  /\ linenumber' = Append(linenumber, Line.line)
  /\ indices' = Append(indices, Len(mainFunct))
  /\ fileloc' = IF mainFunct = << >> THEN Line.file ELSE fileloc
  /\ incre' = incre + 1
  /\ UNCHANGED <<pc, input, mainFunct, x86_code, tables>>

(* stoi of what is no number throws. *)
SplitName ==
  /\ More /\ Line.kind \in {"name", "label"}
  /\ pc' = "crashed"
  /\ UNCHANGED <<input, incre, lists, x86_code, tables>>

(* No mark before the first instruction ("-g flag"), or no source file.    *)
NoSource ==
  /\ pc = "split" /\ incre >= Len(objectDump)
  /\ pc' = "failed"
  /\ UNCHANGED <<input, incre, lists, x86_code, tables>>

getFileLines ==
  /\ pc = "split" /\ incre >= Len(objectDump) /\ fileloc # "none"
  /\ pc' = "assem"
  /\ UNCHANGED <<input, incre, lists, x86_code, tables>>

-----------------------------------------------------------------------------
BlockEnd(i) == IF i < Len(indices) THEN indices[i + 1] ELSE Len(mainFunct)

(* Slip: a block is given the line of the next one.                        *)
parseAssemNext ==
  LET i == Len(x86_code) + 1
      k == IF i < Len(indices) THEN i + 1 ELSE i
  IN /\ pc = "assem" /\ i <= Len(indices)
     /\ x86_code' = Append(x86_code,
          [lineNum |-> linenumber[k],
           assembly |-> SubSeq(mainFunct, indices[i] + 1, BlockEnd(i))])
     /\ pc' \in {"assem"} \cup IF linenumber[i] - 1 > SourceLines THEN {"crashed"} ELSE {}
     /\ UNCHANGED <<input, incre, lists, tables>>

(* One block of parseAssem.  It copies sourceFile[linenumber - 1], which   *)
(* is beyond the vector's end when the source is shorter than it was.      *)
parseAssem ==
  LET i == Len(x86_code) + 1
  IN /\ pc = "assem" /\ i <= Len(indices)
     /\ x86_code' = Append(x86_code,
          [lineNum |-> linenumber[i],
           assembly |-> SubSeq(mainFunct, indices[i] + 1, BlockEnd(i))])
     /\ pc' \in {"assem"} \cup IF linenumber[i] - 1 > SourceLines THEN {"crashed"} ELSE {}
     /\ UNCHANGED <<input, incre, lists, tables>>

(* Slip: the first block is not left out. *)
KeepMain ==
  /\ pc = "assem" /\ Len(x86_code) = Len(indices)
  /\ pc' = "fill"
  /\ UNCHANGED <<input, incre, lists, x86_code, tables>>

(* "ignore main". *)
EraseMain ==
  /\ pc = "assem" /\ Len(x86_code) = Len(indices)
  /\ x86_code' = Tail(x86_code)
  /\ pc' = "fill"
  /\ UNCHANGED <<input, incre, lists, tables>>

(* m[k] = e, and the same if there is no m[k] yet. *)
Put(m, k, e) == [x \in DOMAIN m \cup {k} |-> IF x = k THEN e ELSE m[x]]
PutNew(m, k, e) == IF k \in DOMAIN m THEN m ELSE Put(m, k, e)

(* Slip: a line's address is that of the end of its block. *)
fillMapsBack ==
  /\ pc = "fill" /\ x86_code # << >>
  /\ LET temp == Head(x86_code)
         addr == Head(temp.assembly)
     IN /\ line_to_addr' = PutNew(line_to_addr, temp.lineNum, temp.assembly[Len(temp.assembly)])
        /\ addr_to_line' = Put(addr_to_line, addr, temp.lineNum)
  /\ x86_code' = Tail(x86_code)
  /\ UNCHANGED <<pc, input, incre, lists>>

(* One block of fillMaps, which is dropped here when it is done with.      *)
fillMaps ==
  /\ pc = "fill" /\ x86_code # << >>
  /\ LET temp == Head(x86_code)
         addr == Head(temp.assembly)
     IN /\ line_to_addr' = PutNew(line_to_addr, temp.lineNum, addr)
        /\ addr_to_line' = Put(addr_to_line, addr, temp.lineNum)
  /\ x86_code' = Tail(x86_code)
  /\ UNCHANGED <<pc, input, incre, lists>>

Finish ==
  /\ pc = "fill" /\ x86_code = << >>
  /\ pc' = "done"
  /\ UNCHANGED <<input, incre, lists, x86_code, tables>>

-----------------------------------------------------------------------------
Init ==
  /\ pc = "open" /\ file \in Files
  /\ objectDump = << >> /\ incre = 0
  /\ mainFunct = << >> /\ indices = << >> /\ linenumber = << >>
  /\ fileloc = "none" /\ x86_code = << >>
  /\ line_to_addr = << >> /\ addr_to_line = << >>

execObjDump ==
  \/ NoMain \/ getObjDump
  \/ SplitInstr \/ SplitMark \/ SplitName \/ NoSource \/ getFileLines
  \/ parseAssem \/ EraseMain \/ fillMaps \/ Finish

Ended == pc \in {"done", "failed", "crashed"}

Next == execObjDump \/ (Ended /\ UNCHANGED vars)

Spec == Init /\ [][Next]_vars

(* The code runs. *)
FairSpec == Spec /\ WF_vars(execObjDump)

-----------------------------------------------------------------------------
DumpLine ==
  [kind : {"label", "blank", "name"}] \cup [kind : {"instr"}, addr : Nat]
    \cup [kind : {"mark"}, file : STRING \ {"none"}, line : Nat]

(* What objdump prints: an instruction has an address of its own and       *)
(* follows every mark, and main has a line "main():" behind its label.     *)
WellFormed(f) ==
  /\ \A i \in DOMAIN f :
       /\ f[i].kind = "mark" => i < Len(f) /\ f[i + 1].kind = "instr"
       /\ f[i].kind = "label" => i < Len(f) /\ f[i + 1].kind = "name"
  /\ \A i, j \in DOMAIN f :
       f[i].kind = "instr" /\ f[j].kind = "instr" /\ f[i].addr = f[j].addr => i = j

FilesAssumption ==
  /\ SourceLines \in Nat
  /\ Files \subseteq Seq(DumpLine) /\ \A f \in Files : WellFormed(f)

Block == [lineNum : Nat, assembly : Seq(Nat)]

TypeOK ==
  /\ pc \in {"open", "split", "assem", "fill", "done", "failed", "crashed"}
  /\ file \in Seq(DumpLine)
  /\ incre \in Nat
  /\ mainFunct \in Seq(Nat) /\ indices \in Seq(Nat) /\ linenumber \in Seq(Nat)
  /\ Len(indices) = Len(linenumber)
  /\ x86_code \in Seq(Block)
  /\ line_to_addr \in [DOMAIN line_to_addr -> Nat] /\ DOMAIN line_to_addr \subseteq Nat
  /\ addr_to_line \in [DOMAIN addr_to_line -> Nat] /\ DOMAIN addr_to_line \subseteq Nat

(* What the debugger asks of the tables: a line's address is the start of  *)
(* a block of that line.  A breakpoint at a line is found again by its     *)
(* address although a loop header has several blocks and one of them wins. *)
RoundTrip ==
  \A n \in DOMAIN line_to_addr :
    /\ line_to_addr[n] \in DOMAIN addr_to_line
    /\ addr_to_line[line_to_addr[n]] = n

(* What is in the tables is in the dump: an address stands directly behind *)
(* a mark with its line, whatever comes before main and after it.          *)
EntriesAreStarts ==
  \A a \in DOMAIN addr_to_line :
    \E i \in 1 .. Len(file) - 1 :
      /\ file[i].kind = "mark" /\ file[i].line = addr_to_line[a]
      /\ file[i + 1].kind = "instr" /\ file[i + 1].addr = a

(* The tables in one definition: the blocks of main but the first.         *)
Starts(f) ==
  LET label == CHOOSE a \in DOMAIN f :
                 f[a].kind = "label" /\ \A i \in 1 .. a - 1 : f[i].kind # "label"
      all == {i \in DOMAIN f : /\ i > label /\ f[i - 1].kind = "mark"
                               /\ \A j \in label .. i : f[j].kind # "blank"}
  IN {i \in all : \E j \in all : j < i}

(* All of it is in the tables: every later block of main by its address,   *)
(* and every line with the first such block in the order of the code.      *)
TablesAreRight ==
  pc = "done" =>
    LET s == Starts(file)
        lines == {file[i - 1].line : i \in s}
    IN /\ addr_to_line = [a \in {file[i].addr : i \in s} |->
            file[(CHOOSE i \in s : file[i].addr = a) - 1].line]
       /\ line_to_addr = [n \in lines |->
            file[CHOOSE i \in s : /\ file[i - 1].line = n
                                  /\ \A j \in s : file[j - 1].line = n => i <= j].addr]

(* It comes to an end. *)
TablesEnd == <>Ended
=============================================================================
