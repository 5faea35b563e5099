-------------------------------- MODULE Mdb --------------------------------
(***************************************************************************)
(* mdb.c: an instruction-level ptrace debugger with one-shot breakpoints   *)
(* at symbols.                                                             *)
(*                                                                         *)
(* Its main loop looks at the last wait status before every command, not   *)
(* only after the commands that wait: an action is a command and the look  *)
(* at the tracee that follows it.  The disassembly that "next" prints, and *)
(* old_rip with it, are left out.                                          *)
(***************************************************************************)
EXTENDS Tracee, Sequences

CONSTANTS
  Symbols,    \* the addresses of symbols the user names
  KeyMod,     \* values of the int that HASH_FIND_INT compares (2^32)
  Capacity,   \* HASH_BKT_CAPACITY_THRESH, 10: uthash doubles the buckets when
              \* so many entries are in one
  MaxBrkpts   \* bound on the breakpoints that are set at a time

ASSUME SymbolsAssumption ==
  /\ Symbols \subseteq Instr
  /\ KeyMod \in Nat \ {0}
  /\ Capacity \in Nat \ {0}
  /\ MaxBrkpts \in Nat

VARIABLES
  dbg,     \* "wait" (in wait), "prompt" (in next_cmd), "done"
  brptab,  \* the breakpoints, each with addr and saved word, in an order in
           \* which those of one key have the order of their bucket's chain
  doubled  \* the buckets were doubled at least once

vars == <<traceeVars, dbg, brptab, doubled>>

(* What BREAK pokes, 0xcc, is a whole word.                                *)
BrkWord(a) == [x \in Word(a) |-> IF x = a THEN "int3" ELSE "zero"]

Armed == {brptab[i].addr : i \in DOMAIN brptab}

Turned(tab) == [i \in DOMAIN tab |-> tab[Len(tab) + 1 - i]]
Without(tab, i) == SubSeq(tab, 1, i - 1) \o SubSeq(tab, i + 1, Len(tab))

(* HASH_FIND_INT compares the low int of the keys.                         *)
Matching(tab, key) == {i \in DOMAIN tab : tab[i].addr % KeyMod = key % KeyMod}

-----------------------------------------------------------------------------
(* Slip: the entry that is found stays in the table.                       *)
LoopTopKeeps(t, tab) ==
  LET hits == Matching(tab, rip - 1)
  IN \/ /\ hits = {}
        /\ text' = t /\ rip' = rip /\ brptab' = tab
     \/ \E i \in hits :
          /\ \A j \in hits : i <= j
          /\ text' = PokeWord(t, tab[i].addr, tab[i].opc)
          /\ rip' = rip - 1
          /\ brptab' = tab

(* The top of the main loop, on a stopped tracee: if rip - 1 is a          *)
(* breakpoint, the first one of its chain is deleted, the word saved for   *)
(* it is put back and rip is moved back.                                   *)
LoopTop(t, tab) ==
  LET hits == Matching(tab, rip - 1)
  IN \/ /\ hits = {}
        /\ text' = t /\ rip' = rip /\ brptab' = tab
     \/ \E i \in hits :
          /\ \A j \in hits : i <= j
          /\ text' = PokeWord(t, tab[i].addr, tab[i].opc)
          /\ rip' = rip - 1
          /\ brptab' = Without(tab, i)

(* Slip: a stop is taken note of when the signal is SIGTRAP.               *)
StopBySigtrap ==
  /\ dbg = "wait" /\ child = "trapped"
  /\ LoopTop(text, brptab)
  /\ child' = "held"
  /\ dbg' = "prompt"
  /\ UNCHANGED <<run, doubled>>

(* wait returned with a stop, by whatever signal. *)
Stop ==
  /\ dbg = "wait" /\ child \in {"trapped", "signalled"}
  /\ LoopTop(text, brptab)
  /\ child' = "held"
  /\ dbg' = "prompt"
  /\ UNCHANGED <<run, doubled>>

(* wait returned with the end of the tracee. *)
Terminate ==
  /\ dbg = "wait" /\ child \in {"exited", "killed"}
  /\ dbg' = "done"
  /\ UNCHANGED <<traceeVars, brptab, doubled>>

(* Slips: the word is saved from where the tracee stands; the entry goes   *)
(* to the end of its bucket.                                               *)
BreakSavesAtRip(a) ==
  /\ dbg = "prompt" /\ Len(brptab) < MaxBrkpts
  /\ LET tab == <<[addr |-> a, opc |-> PeekWord(text, rip)]>> \o brptab
     IN \E double \in BOOLEAN :
          /\ double => Len(tab) >= Capacity
          /\ doubled' = (doubled \/ double)
          /\ LoopTop(PokeWord(text, a, BrkWord(a)), IF double THEN Turned(tab) ELSE tab)
  /\ UNCHANGED <<child, run, dbg>>
BreakAtTail(a) ==
  /\ dbg = "prompt" /\ Len(brptab) < MaxBrkpts
  /\ LET tab == Append(brptab, [addr |-> a, opc |-> PeekWord(text, a)])
     IN \E double \in BOOLEAN :
          /\ double => Len(tab) >= Capacity
          /\ doubled' = (doubled \/ double)
          /\ LoopTop(PokeWord(text, a, BrkWord(a)), IF double THEN Turned(tab) ELSE tab)
  /\ UNCHANGED <<child, run, dbg>>

(* "break": the entry is added at the head of its bucket.  If the bucket   *)
(* is full, which the hash decides, the buckets are doubled, and that      *)
(* turns every chain round.                                                *)
Break(a) ==
  /\ dbg = "prompt" /\ Len(brptab) < MaxBrkpts
  /\ LET tab == <<[addr |-> a, opc |-> PeekWord(text, a)]>> \o brptab
     IN \E double \in BOOLEAN :
          /\ double => Len(tab) >= Capacity
          /\ doubled' = (doubled \/ double)
          /\ LoopTop(PokeWord(text, a, BrkWord(a)), IF double THEN Turned(tab) ELSE tab)
  /\ UNCHANGED <<child, run, dbg>>

(* "next" and "continue". *)
Go(how) ==
  /\ dbg = "prompt"
  /\ Resume(how)
  /\ dbg' = "wait"
  /\ UNCHANGED <<text, rip, brptab, doubled>>

(* "registers", an unknown command or symbol, or the end of the input. *)
Other ==
  /\ dbg = "prompt"
  /\ LoopTop(text, brptab)
  /\ UNCHANGED <<child, run, dbg, doubled>>

Kill ==
  /\ dbg = "prompt"
  /\ child' = "killed"
  /\ dbg' = "wait"
  /\ UNCHANGED <<text, rip, run, brptab, doubled>>

-----------------------------------------------------------------------------
Init ==
  /\ TraceeInit
  /\ dbg = "wait"
  /\ brptab = << >> /\ doubled = FALSE

Child == TraceeStep /\ UNCHANGED <<dbg, brptab, doubled>>

User == (\E a \in Symbols : Break(a)) \/ Go("step") \/ Go("cont") \/ Other \/ Kill

Terminated == dbg = "done" /\ UNCHANGED vars

Next == Child \/ Stop \/ Terminate \/ User \/ Terminated

Spec == Init /\ [][Next]_vars

(* The kernel runs a runnable tracee and reports its stops; the user is    *)
(* not obliged to type.                                                    *)
FairSpec == Spec /\ WF_vars(Child) /\ WF_vars(Stop \/ Terminate)

-----------------------------------------------------------------------------
(* The words saved for two symbols do not overlap. *)
Spaced == \A a, b \in Symbols : a < b => a + WordSize <= b

Entry == [addr : Symbols, opc : UNION {[Word(a) -> Byte] : a \in Symbols}]

(* rip may be moved back to anywhere by a key that collides. *)
TypeOK ==
  /\ text \in [Addr -> Byte]
  /\ rip \in Int
  /\ child \in ChildState
  /\ run \in {"cont", "step"}
  /\ dbg \in {"wait", "prompt", "done"}
  /\ brptab \in Seq(Entry)
  /\ \A i \in DOMAIN brptab : DOMAIN brptab[i].opc = Word(brptab[i].addr)
  /\ doubled \in BOOLEAN

(* Until the buckets are doubled the text is the program with 0xcc words   *)
(* exactly at the symbols in the table: none is forgotten and none         *)
(* remains, whatever was set twice, hit, or taken for a hit.               *)
TextShowsTable ==
  ~doubled /\ child # "killed" =>
    \A x \in Addr :
      LET at == {a \in Armed : x \in Word(a)}
      IN text[x] = IF at = {} THEN "orig" ELSE IF x \in at THEN "int3" ELSE "zero"

(* A breakpoint set twice at a symbol is undone twice: only the older of   *)
(* the two entries holds the program's own word, and it is the one that    *)
(* the table gives back last.  (Doubled, the table gives it back first.)   *)
UndoneInOrder ==
  ~doubled =>
    \A i \in DOMAIN brptab :
      LET older == {j \in DOMAIN brptab : j > i /\ brptab[j].addr = brptab[i].addr}
      IN \A x \in Word(brptab[i].addr) :
           brptab[i].opc[x] = IF older = {} THEN "orig" ELSE BrkWord(brptab[i].addr)[x]

(* A command that resumes the tracee comes back, whatever signal stops it, *)
(* unless the program runs for ever.                                       *)
WaitReturns == (dbg = "wait" ~> dbg # "wait") \/ []<><<Child>>_vars

-----------------------------------------------------------------------------
(* What comments of the code say, and inputs exist for which the code does *)
(* not do it.                                                              *)

(* "set break point" (case BREAK): afterwards there is one.                *)
BreakSets == [][\A a \in Symbols : Break(a) => text'[a] = "int3"]_vars

(* "next instruction" (case NEXT): what runs is an instruction of the      *)
(* program or a breakpoint, not the zeros of a 0xcc word.                  *)
NextIsOwn ==
  child = "running" /\ run = "step" /\ rip \in Instr => Intact \/ AtInt3
=============================================================================
