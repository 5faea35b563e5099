------------------------------ MODULE MCParts ------------------------------
(***************************************************************************)
(* The parts that run by themselves, one at a time: the parsers of the     *)
(* session (LineTables and ValgrindReport), the hash table of mdb (Uthash) *)
(* and the two larger programs to debug (CamelCaser and FaultyMalloc).     *)
(* A behaviour is one of a single part; the others keep an initial state.  *)
(***************************************************************************)
EXTENDS LineTables, ValgrindReport, Uthash, CamelCaser, FaultyMalloc, TLC

VARIABLE part

allvars == <<part, vars, rvars, table, cvars, mvars>>

-----------------------------------------------------------------------------
(* Dumps: four instructions of main, each with what may stand before it;   *)
(* line 3 is one of a header and beyond the end of the source.             *)
Mark(n) == [kind |-> "mark", file |-> IF n = 3 THEN "h" ELSE "c", line |-> n]
Instr(a) == [kind |-> "instr", addr |-> a]
Label == [kind |-> "label"]
Name == [kind |-> "name"]
Gap == [kind |-> "blank"]
Before(k) == CASE k = 0 -> << >> [] k = 4 -> <<Name>> [] OTHER -> <<Mark(k)>>
MainOf(g) ==
  LET at(a) == Before(g[a]) \o <<Instr(a)>>
  IN <<Label, Name>> \o at(1) \o at(2) \o at(3) \o at(4)
Other == <<Name, Mark(2), Instr(10), Gap>>
MCFiles ==
  {Other} \cup {MainOf(g) : g \in [1..4 -> 0..4]}
    \cup {Other \o MainOf(g) \o <<Gap, Label, Name, Mark(3), Instr(12)>> : g \in [1..4 -> 0..2]}

(* Reports: up to two errors of six, with and without leaks; and what is   *)
(* left when a line or two are lost to noise, when noise comes between two *)
(* lines, and when the report is cut short.                                *)
User(n) == [kind |-> "user", line |-> n]
Kind(k) == [kind |-> k]
MCErrors ==
  {[what |-> "overlap", body |-> <<Kind("lib"), User(7)>>],
   [what |-> "syscall", body |-> <<Kind("skip"), User(8), User(9), Kind("skip")>>],
   [what |-> "read", body |-> <<Kind("lib")>>],
   [what |-> "thread", body |-> <<User(7)>>],
   [what |-> "thread", body |-> <<[kind |-> "message", what |-> "fishy"], User(7)>>],
   [what |-> "fishy10", body |-> <<User(9)>>]}
Summaries ==
  {<<Kind("heap"), Kind("count"), blank, Kind("all"), blank, Kind("count")>>,
   <<Kind("heap"), Kind("count"), blank, Kind("leak"), Kind("rerun"), blank>>}
Clean(e) == \A j \in DOMAIN e.body : ~Throws(e.body[j])
MCWhole ==
  {[errors |-> es, whole |-> \A k \in DOMAIN es : Clean(es[k]),
    text |-> [k \in 1..4 |-> Kind("skip")] \o <<blank>> \o PrintedAll(es) \o <<blank>> \o s] :
     es \in UNION {[1..n -> MCErrors] : n \in 0..2}, s \in Summaries}
MCReports ==
  MCWhole
    \cup UNION {{[r EXCEPT !.text[k] = Kind("noise"), !.whole = FALSE] : k \in 6..Len(r.text)} :
                 r \in MCWhole}
    \cup UNION {{[r EXCEPT !.text[k] = Kind("noise"), !.text[k + 1] = Kind("noise"),
                          !.whole = FALSE] : k \in 6..Len(r.text) - 1} :
                 r \in {q \in MCWhole : Len(q.errors) < 2}}
    \cup UNION {{[r EXCEPT !.text = SubSeq(@, 1, k) \o <<Kind("noise")>> \o SubSeq(@, k + 1, Len(@))] :
                  k \in {7, 9}} : r \in MCWhole}
    \cup UNION {{[r EXCEPT !.text = SubSeq(@, 1, k), !.whole = FALSE] : k \in 5..Len(r.text)} :
                 r \in {q \in MCWhole : Len(q.errors) < 2}}

(* Six elements with three keys, two of them in one bucket of two and of   *)
(* four; doubled twice, the table may give expansion up.                   *)
MCKey == <<0, 0, 4, 1, 1, 1>>
MCHash == [k \in {0, 1, 4} |-> k]

Strings(n) == UNION {[1..k -> Char] : k \in 0..n}
MCTexts ==
  {s \o <<".">> : s \in Strings(3)} \cup {<<"a", " ">> \o s \o <<".", "A">> : s \in Strings(3)}

ASSUME InputsAreWellFormed == FilesAssumption /\ ReportsAssumption /\ PrintedAssumption
                                /\ HashAssumption /\ HeapAssumption /\ TextsAssumption

-----------------------------------------------------------------------------
PInit ==
  /\ part \in {"tables", "report", "hash", "camel", "malloc"}
  /\ part = "tables" \/ file = Other
  /\ part = "report" \/ report = CHOOSE r \in MCWhole : TRUE
  /\ part = "camel" \/ text = <<".">>
  /\ HInit /\ MInit /\ RInit /\ CInit /\ Init

Parse ==
  \/ part = "tables" /\ execObjDump /\ UNCHANGED <<part, rvars, table, cvars, mvars>>
  \/ part = "report" /\ execValgrind /\ UNCHANGED <<part, vars, table, cvars, mvars>>

Use ==
  \/ part = "hash" /\ HNext /\ UNCHANGED <<part, vars, rvars, cvars, mvars>>
  \/ part = "camel" /\ camelCaser /\ UNCHANGED <<part, vars, rvars, table, mvars>>
  \/ part = "malloc" /\ main /\ UNCHANGED <<part, vars, rvars, table, cvars>>

ParserOver ==
  \/ part = "tables" /\ Ended
  \/ part = "report" /\ REnded

Over ==
  \/ ParserOver
  \/ part = "camel" /\ stage = "done"
  \/ part = "malloc" /\ phase \notin {"alloc", "check"}

PNext == Parse \/ Use \/ (Over /\ UNCHANGED allvars)

(* A parser runs until it ends. *)
PSpec == PInit /\ [][PNext]_allvars /\ WF_allvars(Parse)

-----------------------------------------------------------------------------
PartsTypeOK == TypeOK /\ RTypeOK /\ HTypeOK /\ CTypeOK /\ MTypeOK

(* The parsers come to an end on every dump and report, also one that is   *)
(* cut short or spoilt.                                                    *)
ParsersEnd == part \in {"tables", "report"} ~> ParserOver
=============================================================================
