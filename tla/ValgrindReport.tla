--------------------------- MODULE ValgrindReport ---------------------------
(***************************************************************************)
(* parseValgrind.cpp from the text of a report to the verdict: parse cuts  *)
(* it into errors and the memory summary, examine files the errors by      *)
(* category, and execValgrind stops the session at three of the nine.      *)
(*                                                                         *)
(* A line of text is a record.  Lines of "==pid== " that parse tells apart *)
(* are "blank"; "message", with what it says; "user", a frame with a line  *)
(* number; "lib", a frame without one, or one with a "::" behind the first *)
(* blank, which hides it; "skip", a frame of a function `_...' or a note   *)
(* without ':'; "heap", "leak", "rerun", "all", the fixed lines of the     *)
(* summary; and "count", its other lines.  "noise" is text without the     *)
(* prefix: the program's own stderr, also one without a newline that a     *)
(* line of the report is stuck to.                                         *)
(***************************************************************************)
EXTENDS Integers, Sequences

CONSTANTS
  Reports  \* errors: what valgrind has to say; text: what comes through the
           \* pipe; whole: all of it, no noise is stuck to a line, and no
           \* line is one that parse throws on

VARIABLES
  rpc,           \* the loops of parse ("keep", "errors", its inner ones
                 \* "blanks" and "body", "memory"), "examine", "verdict";
                 \* "continue", "forced", "fix" (execValgrind's 0, 0 and 2);
                 \* "crashed" (an exception, or beyond the end of a vector)
  report,        \* the report that is parsed
  pos,           \* the next line, or (in examine) the next error
  errorLines,    \* the lines of the report, an empty one in front
  place,         \* the line before HEAP SUMMARY; 0 while it is not set
  temp,          \* the error that is being read
  totalErrors,
  memory,
  leaks,         \* LEAK SUMMARY was seen
  dividedErrors, \* category -> errors
  said           \* the lines handleNows points at

found == <<totalErrors, memory, leaks>>
filed == <<dividedErrors, said>>
rvars == <<rpc, report, pos, errorLines, place, temp, found, filed>>

(* examine's categories, by what the message says. *)
Category ==
  [what \in {"SIGSEGV", "read", "write", "free", "mismatched", "overlap", "jump",
             "syscall", "fishy", "fishy10", "uninitialised", "thread"} |->
     CASE what = "SIGSEGV" -> 0 [] what = "read" -> 1 [] what = "write" -> 2
       [] what = "free" -> 3 [] what = "mismatched" -> 4 [] what = "overlap" -> 5
       [] what = "jump" -> 6 [] what = "syscall" -> 7 [] what \in {"fishy", "fishy10"} -> 8
       [] OTHER -> -1]

(* The three that "can handle right away". *)
Now == {5, 7, 8}

blank == [kind |-> "blank"]

(* The first n of ss one behind the other, for every n; and all of them.   *)
Joined(ss) ==
  LET upTo[n \in 0 .. Len(ss)] == IF n = 0 THEN << >> ELSE upTo[n - 1] \o ss[n]
  IN upTo
JoinAll(ss) == Joined(ss)[Len(ss)]

-----------------------------------------------------------------------------
(* The lines with the prefix, behind the banner, which has five.           *)
KeepLine ==
  /\ rpc = "keep" /\ pos <= Len(report.text)
  /\ LET line == report.text[pos]
     IN /\ errorLines' = IF line.kind = "noise" THEN errorLines ELSE Append(errorLines, line)
        /\ place' = IF line.kind = "heap" THEN Len(errorLines) ELSE place
  /\ pos' = pos + 1
  /\ UNCHANGED <<rpc, report, temp, found, filed>>

(* Without HEAP SUMMARY place was never set, and is what the stack held: 0 *)
(* stands for what is negative, one more than the lines for what is beyond.*)
Kept ==
  /\ rpc = "keep" /\ pos > Len(report.text)
  /\ rpc' = "errors" /\ pos' = 1
  /\ IF place = 0 THEN place' \in 0 .. Len(errorLines) + 1 ELSE place' = place
  /\ UNCHANGED <<report, errorLines, temp, found, filed>>

Current == errorLines[pos]
Beyond ==
  /\ rpc \in {"blanks", "body"} /\ pos > Len(errorLines)
  /\ rpc' = "crashed"
  /\ UNCHANGED <<report, pos, errorLines, place, temp, found, filed>>

(* The loop's head.  On a line that is not empty the loop does nothing,    *)
(* for ever.                                                               *)
NextError ==
  /\ rpc = "errors"
  /\ rpc' = IF pos = place THEN "memory" ELSE "blanks"
  /\ pos # place => Current = blank
  /\ UNCHANGED <<report, pos, errorLines, place, temp, found, filed>>

(* Slip: the empty line is looked at again. *)
SkipBlankAgain ==
  /\ rpc = "blanks" /\ pos <= Len(errorLines) /\ Current = blank
  /\ UNCHANGED rvars

SkipBlank ==
  /\ rpc = "blanks" /\ pos <= Len(errorLines) /\ Current = blank
  /\ pos' = pos + 1
  /\ UNCHANGED <<rpc, report, errorLines, place, temp, found, filed>>

(* Slip: the description of the error before stays. *)
MessageOnly ==
  /\ rpc = "blanks" /\ pos <= Len(errorLines) /\ Current # blank
  /\ \/ pos >= place /\ rpc' = "memory" /\ UNCHANGED <<pos, temp>>
     \/ pos < place /\ rpc' = "body" /\ pos' = pos + 1
          /\ temp' = [temp EXCEPT !.message = Current]
  /\ UNCHANGED <<report, errorLines, place, found, filed>>

Message ==
  /\ rpc = "blanks" /\ pos <= Len(errorLines) /\ Current # blank
  /\ \/ pos >= place /\ rpc' = "memory" /\ UNCHANGED <<pos, temp>>
     \/ pos < place /\ rpc' = "body" /\ pos' = pos + 1
          /\ temp' = [message |-> Current, description |-> << >>]
  /\ UNCHANGED <<report, errorLines, place, found, filed>>

(* What a line of the body adds to the description: whatever has a ':' is  *)
(* taken for a frame, "... value: -10" for one of line 1.                  *)
Described(l) ==
  CASE l.kind = "user" -> <<l.line>>
    [] l = [kind |-> "message", what |-> "fishy10"] -> <<1>>
    [] \/ l.kind \in {"lib", "heap", "leak", "count"}
       \/ l = [kind |-> "message", what |-> "thread"] -> <<-1>>
    [] OTHER -> << >>

(* Of "... value: -1" nothing is left for stoi.                            *)
Throws(l) == l.kind = "message" /\ l.what = "fishy"

Body ==
  /\ rpc = "body" /\ pos <= Len(errorLines) /\ Current # blank
  /\ temp' = [temp EXCEPT !.description = @ \o Described(Current)]
  /\ rpc' = IF Throws(Current) THEN "crashed" ELSE "body"
  /\ pos' = pos + 1
  /\ UNCHANGED <<report, errorLines, place, found, filed>>

(* Slip: the empty line behind an error is passed over. *)
EndErrorPast ==
  /\ rpc = "body" /\ pos <= Len(errorLines) /\ Current = blank
  /\ totalErrors' = Append(totalErrors, temp)
  /\ rpc' = "errors" /\ pos' = pos + 1
  /\ UNCHANGED <<report, errorLines, place, temp, memory, leaks, filed>>

EndError ==
  /\ rpc = "body" /\ pos <= Len(errorLines) /\ Current = blank
  /\ totalErrors' = Append(totalErrors, temp)
  /\ rpc' = "errors"
  /\ UNCHANGED <<report, pos, errorLines, place, temp, memory, leaks, filed>>

(* Slip: the lines behind "Rerun with" are taken too. *)
MemoryLineOn ==
  /\ rpc = "memory" /\ pos <= Len(errorLines)
  /\ leaks' = (leaks \/ Current.kind = "leak")
  /\ memory' = Append(memory, Current)
  /\ pos' = IF ~leaks' /\ Current.kind = "all" THEN Len(errorLines) + 1 ELSE pos + 1
  /\ UNCHANGED <<rpc, report, errorLines, place, temp, totalErrors, filed>>

(* The summary: up to "All heap blocks", or to "Rerun with" behind a       *)
(* "LEAK SUMMARY", or to the end.                                          *)
MemoryLine ==
  /\ rpc = "memory" /\ pos <= Len(errorLines)
  /\ leaks' = (leaks \/ Current.kind = "leak")
  /\ LET rerun == leaks' /\ Current.kind = "rerun"
     IN /\ memory' = IF rerun THEN memory ELSE Append(memory, Current)
        /\ pos' = IF rerun \/ (~leaks' /\ Current.kind = "all") THEN Len(errorLines) + 1
                ELSE pos + 1
  /\ UNCHANGED <<rpc, report, errorLines, place, temp, totalErrors, filed>>

Parsed ==
  /\ rpc = "memory" /\ pos > Len(errorLines)
  /\ rpc' = "examine" /\ pos' = 1
  /\ UNCHANGED <<report, errorLines, place, temp, found, filed>>

-----------------------------------------------------------------------------
CategoryOf(e) == IF e.message.kind = "message" THEN Category[e.message.what] ELSE -1

(* Slip: what has no category is filed under the last one. *)
ExamineElse ==
  /\ rpc = "examine" /\ pos <= Len(totalErrors)
  /\ LET c == IF CategoryOf(totalErrors[pos]) = -1 THEN 8 ELSE CategoryOf(totalErrors[pos])
     IN dividedErrors' = [dividedErrors EXCEPT ![c] = Append(@, totalErrors[pos])]
  /\ pos' = pos + 1
  /\ UNCHANGED <<rpc, report, errorLines, place, temp, found, said>>

(* One error; one that is in no category is dropped. *)
examine ==
  /\ rpc = "examine" /\ pos <= Len(totalErrors)
  /\ LET c == CategoryOf(totalErrors[pos])
     IN dividedErrors' = IF c = -1 THEN dividedErrors
                         ELSE [dividedErrors EXCEPT ![c] = Append(@, totalErrors[pos])]
  /\ pos' = pos + 1
  /\ UNCHANGED <<rpc, report, errorLines, place, temp, found, said>>

Examined ==
  /\ rpc = "examine" /\ pos > Len(totalErrors)
  /\ rpc' = "verdict"
  /\ UNCHANGED <<report, pos, errorLines, place, temp, found, filed>>

ToFix == \E c \in Now : dividedErrors[c] # << >>

(* The frames with a line that are pointed at: the first, and the second   *)
(* of a system call ("You declared your parameter on line").               *)
(* Slip of Pointed: the first is passed over.                              *)
Own(d) == JoinAll([k \in DOMAIN d |-> IF d[k] = -1 THEN << >> ELSE <<d[k]>>])
PointedBehind(c, d) == SubSeq(Own(d), 2, Len(Own(d)))
Pointed(c, d) ==
  LET most == IF c = 7 THEN 2 ELSE 1
  IN SubSeq(Own(d), 1, IF Len(Own(d)) < most THEN Len(Own(d)) ELSE most)

handleNows ==
  /\ rpc = "verdict" /\ ToFix
  /\ said' = [c \in Now |-> [j \in DOMAIN dividedErrors[c] |->
                               Pointed(c, dividedErrors[c][j].description)]]
  /\ rpc' = "fix"
  /\ UNCHANGED <<report, pos, errorLines, place, temp, found, dividedErrors>>

(* With -f, or --force. *)
ForceOn ==
  /\ rpc = "verdict" /\ ToFix
  /\ rpc' = "forced"
  /\ UNCHANGED <<report, pos, errorLines, place, temp, found, filed>>

Continue ==
  /\ rpc = "verdict" /\ ~ToFix
  /\ rpc' = "continue"
  /\ UNCHANGED <<report, pos, errorLines, place, temp, found, filed>>

-----------------------------------------------------------------------------
RInit ==
  /\ rpc = "keep" /\ report \in Reports /\ pos = 6
  /\ errorLines = <<blank>> /\ place = 0
  /\ temp = [message |-> blank, description |-> << >>]
  /\ totalErrors = << >> /\ memory = << >> /\ leaks = FALSE
  /\ dividedErrors = [c \in 0 .. 8 |-> << >>] /\ said = << >>

parse ==
  \/ KeepLine \/ Kept \/ Beyond \/ NextError \/ SkipBlank \/ Message \/ Body
  \/ EndError \/ MemoryLine \/ Parsed
execValgrind == parse \/ examine \/ Examined \/ handleNows \/ ForceOn \/ Continue

REnded == rpc \in {"continue", "forced", "fix", "crashed"}

RNext == execValgrind \/ (REnded /\ UNCHANGED rvars)

RSpec == RInit /\ [][RNext]_rvars

(* The code runs. *)
RFairSpec == RSpec /\ WF_rvars(execValgrind)

-----------------------------------------------------------------------------
ReportLine ==
  [kind : {"blank", "lib", "skip", "heap", "leak", "rerun", "all", "count", "noise"}]
    \cup [kind : {"message"}, what : DOMAIN Category] \cup [kind : {"user"}, line : Nat]
Error == [message : ReportLine, description : Seq(Nat \cup {-1})]

(* What valgrind prints for an error, and for all of them. *)
Printed(e) == <<[kind |-> "message", what |-> e.what]>> \o e.body \o <<blank>>
PrintedAll(es) == JoinAll([k \in DOMAIN es |-> Printed(es[k])])

ReportsAssumption == \A r \in Reports : r.text \in Seq(ReportLine)

(* What is left of a text without its banner and without noise: line by    *)
(* line, and all of it behind an empty line, as parse keeps it.            *)
Banner == 5
Unspoilt(r) == [k \in 1 .. Len(r.text) - Banner |->
                  LET l == r.text[k + Banner] IN IF l.kind = "noise" THEN << >> ELSE <<l>>]
AllLines(r) == <<blank>> \o JoinAll(Unspoilt(r))

(* Behind HEAP SUMMARY there are no errors.                                *)
OfError == {"message", "user", "lib"}
SummaryIsLast(r) ==
  LET ls == AllLines(r)
  IN \A h \in DOMAIN ls : ls[h].kind = "heap" =>
       \A k \in h .. Len(ls) : ls[k].kind \notin OfError

(* A whole report: the errors, empty lines (valgrind prints one), HEAP     *)
(* SUMMARY, and the rest of the summary, where "Rerun with" stands behind  *)
(* a LEAK SUMMARY.                                                         *)
IsWhole(r) ==
  LET ls == AllLines(r)
      es == r.errors
      end == Len(PrintedAll(es)) + 1
  IN /\ Len(r.text) >= Banner
     /\ es \in Seq([what : DOMAIN Category, body : Seq(ReportLine)])
     /\ \A k \in DOMAIN es : \A j \in DOMAIN es[k].body :
          es[k].body[j] # blank /\ ~Throws(es[k].body[j])
     /\ SubSeq(ls, 2, end) = PrintedAll(es)
     /\ \E h \in end + 1 .. Len(ls) :
          /\ \A k \in end + 1 .. h - 1 : ls[k] = blank
          /\ \A k \in DOMAIN ls : ls[k].kind = "heap" <=> k = h
          /\ \A k \in h .. Len(ls) :
               ls[k].kind = "rerun" => \E j \in h .. k - 1 : ls[j].kind = "leak"

(* What valgrind prints, of which noise and a broken pipe leave a part.    *)
PrintedAssumption ==
  \A r \in Reports : SummaryIsLast(r) /\ (r.whole => IsWhole(r))

RTypeOK ==
  /\ rpc \in {"keep", "errors", "blanks", "body", "memory", "examine", "verdict",
             "continue", "forced", "fix", "crashed"}
  /\ report.text \in Seq(ReportLine) /\ pos \in Nat \ {0}
  /\ errorLines \in Seq(ReportLine) /\ place \in Nat
  /\ temp \in Error /\ totalErrors \in Seq(Error)
  /\ memory \in Seq(ReportLine) /\ leaks \in BOOLEAN
  /\ dividedErrors \in [0 .. 8 -> Seq(Error)]

(* A whole report comes back as what valgrind had to say: every error with *)
(* its own frames, in order, whatever the program printed between them.    *)
Description(ls) == JoinAll([k \in DOMAIN ls |-> Described(ls[k])])
ErrorsRead ==
  rpc = "verdict" /\ report.whole =>
    totalErrors = [k \in DOMAIN report.errors |->
      [message |-> [kind |-> "message", what |-> report.errors[k].what],
       description |-> Description(report.errors[k].body)]]

(* The verdict on a whole report of a program without threads: exactly one *)
(* with an error that is to be fixed first is stopped (or forced on), and  *)
(* for each such error the innermost line of the user's own is shown.  (In *)
(* front of an error of another thread valgrind prints "Thread 2:", which  *)
(* parse takes for its message.)                                           *)
NowErrors == {k \in DOMAIN report.errors : Category[report.errors[k].what] \in Now}
Shown(k) ==
  LET own == Own(Description(report.errors[k].body))
  IN \E j \in DOMAIN said[Category[report.errors[k].what]] :
       LET shown == said[Category[report.errors[k].what]][j]
       IN \/ own = << >> /\ shown = << >>
          \/ own # << >> /\ shown # << >> /\ shown[1] = own[1]
OneThread == \A k \in DOMAIN report.errors : report.errors[k].what # "thread"
VerdictRight ==
  report.whole /\ OneThread =>
    /\ rpc = "continue" => NowErrors = {}
    /\ rpc \in {"fix", "forced"} => NowErrors # {}
    /\ rpc = "fix" => \A k \in NowErrors : Shown(k)

(* No text makes up an error: whatever is lost of a report or stuck to its *)
(* lines, a program is stopped only for a message that is there.           *)
NoFalseAlarm ==
  rpc \in {"fix", "forced"} =>
    \E k \in DOMAIN report.text :
      report.text[k].kind = "message" /\ Category[report.text[k].what] \in Now

(* Of a report that gets to HEAP SUMMARY, the memory summary has no line   *)
(* of an error in it, whatever else is lost or stuck together: but for one *)
(* that alone is left of the last error, which it then starts with.  Of a  *)
(* whole report it is all of the summary, and nothing else.                *)
Lines(kinds, ls) == {k \in DOMAIN ls : ls[k].kind \in kinds}
MemoryIsSummary ==
  rpc = "verdict" /\ Lines({"heap"}, errorLines) # {} =>
    /\ \A k \in Lines(OfError, memory) :
         k = 1 /\ memory[1] = errorLines[place] /\ errorLines[place - 1] = blank
    /\ report.whole => /\ Lines({"heap"}, memory) # {}
                       /\ Lines(OfError \cup {"rerun"}, memory) = {}

(* The loop over the errors never stands on a line that is not empty,      *)
(* where it would stay for ever: also when an error has run over place.    *)
NoSpin == rpc = "errors" => pos <= Len(errorLines) /\ Current = blank

(* The parser comes to an end on every report, cut short or not. *)
ReportEnds == <>REnded
=============================================================================
