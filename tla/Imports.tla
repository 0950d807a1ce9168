------------------------------ MODULE Imports ------------------------------
(***************************************************************************)
(* Statement files.  The page sends a file to be read, shows the lines it  *)
(* gets back, lets the user change the options and leave lines out, and    *)
(* sends the lines to be imported into an account; the service skips the   *)
(* lines it knows, merges one into the placeholder of a recurring bill and *)
(* inserts the others under an import log, whose deletion takes them back. *)
(* Files overlap, an answer may fail or come late, the page may be         *)
(* reloaded while an import runs, and rows are edited in the meantime.     *)
(***************************************************************************)
EXTENDS Naturals, FiniteSets, SequencesExt

CONSTANTS
    Files,        \* [name -> format and the entries as the bank wrote them]
    Bill,         \* text of the recurring bill's placeholder
    Near,         \* days between a charge and a placeholder it may fulfil
    Days,         \* days on which the placeholder may fall
    MaxEdits      \* bound: what the user does

Names == DOMAIN Files

(* A charge is a movement at the bank, 0 stands for one that is expected;   *)
(* fitid 0 is an empty identifier.                                          *)
BankEntry == [charge : Nat \ {0}, date : Nat, text : STRING, fitid : Nat,
              kind : {"booked", "pending", "balance"}]

(* What the constants must be; the modules of the runs assume it.           *)
ImportsAssumption ==
    /\ Near \in Nat /\ Days \subseteq Nat /\ MaxEdits \in Nat /\ Bill \in STRING
    /\ \A f \in Names : /\ Files[f].format \in {"ofx", "qif", "camt", "csv"}
                        /\ Files[f].entries \in Seq(BankEntry)

(* What overlapping statements repeat: a booked movement is written one     *)
(* way, whatever the format, and only CAMT tells pending entries.           *)
WrittenAlike ==
    \A f, g \in Names : \A i \in 1..Len(Files[f].entries), j \in 1..Len(Files[g].entries) :
        LET d == Files[f].entries[i]
            e == Files[g].entries[j]
        IN  /\ d.kind = "pending" => Files[f].format = "camt"
            /\ d.kind = "booked" /\ e.kind = "booked" /\ d.charge = e.charge =>
                  /\ d.date = e.date /\ d.text = e.text
                  /\ d.fitid = e.fitid \/ d.fitid = 0 \/ e.fitid = 0

VARIABLES
    rows,      \* rows of the account
    logs,      \* import logs: the file they name and the lines they counted
    page,      \* the page: the file it names, the options, what it reviews
    asked,     \* previews on their way
    raced,     \* two previews were on their way at once, one failed or came after the end
    inFlight,  \* imports looked up and not yet committed
    crossed,   \* something else was committed during an import
    edits

vars == <<rows, logs, page, asked, raced, inFlight, crossed, edits>>

Nothing == [of |-> "none", flip |-> FALSE, lines |-> <<>>]
EmptyPage == [name |-> "none", flip |-> FALSE, detect |-> TRUE, review |-> Nothing]

Init ==
    /\ rows = {} /\ logs = {} /\ page = EmptyPage /\ asked = {} /\ raced = FALSE
    /\ inFlight = {} /\ crossed = FALSE /\ edits = 0
-----------------------------------------------------------------------------
(***************************************************************************)
(* Reading a file.  An OFX entry without an identifier gets a synthetic    *)
(* one that is dropped again, balance rows go; CAMT keeps booked entries;  *)
(* only OFX has identifiers.  flip is the CSV option that turns the sign.  *)
(***************************************************************************)
Line(e, id, flip) ==
    [charge |-> e.charge, date |-> e.date, text |-> e.text, flip |-> flip, ext |-> id,
     out |-> FALSE]

EntriesOf(f, kinds) ==
    FoldLeft(LAMBDA es, e : IF e.kind \in kinds THEN Append(es, e) ELSE es, <<>>,
             Files[f].entries)

Lines(es, ids, flip) ==
    [i \in 1..Len(es) |-> Line(es[i], IF ids THEN es[i].fitid ELSE 0, flip)]

ParseOfx(f) == Lines(EntriesOf(f, {"booked", "pending"}), TRUE, FALSE)
ParseQif(f) == Lines(EntriesOf(f, {"booked", "pending"}), FALSE, FALSE)
ParseCamt(f) == Lines(EntriesOf(f, {"booked"}), FALSE, FALSE)
ParseCsv(f, flip) == Lines(EntriesOf(f, {"booked", "pending"}), FALSE, flip)

(* preview_import                                                           *)
Parsed(f, flip) ==
    CASE Files[f].format = "ofx" -> ParseOfx(f)
      [] Files[f].format = "qif" -> ParseQif(f)
      [] Files[f].format = "camt" -> ParseCamt(f)
      [] OTHER -> ParseCsv(f, flip)

SameFields(r, line) == r.date = line.date /\ r.text = line.text /\ r.flip = line.flip

KnownById(S, line) ==                \* fault: whatever its date (issue #98)
    IF line.ext # 0 THEN {r \in S : r.ext = line.ext} ELSE {r \in S : SameFields(r, line)}

KnownWithoutId(S, line) ==           \* fault: only identifiers are compared
    IF line.ext # 0 THEN {r \in S : r.ext = line.ext /\ r.date = line.date} ELSE {}

(* The rows a line is a duplicate of: by identifier and day, else by fields. *)
Known(S, line) ==
    IF line.ext # 0 THEN {r \in S : r.ext = line.ext /\ r.date = line.date}
    ELSE {r \in S : SameFields(r, line)}

(* find_placeholder_for_incoming                                            *)
Placeholders(S, line) ==
    {r \in S : /\ r.source = "recurring" /\ r.ext = 0
               /\ r.text = line.text /\ r.flip = line.flip
               /\ r.date <= line.date + Near /\ line.date <= r.date + Near}

NewRow(line, log, k, detect) ==
    [id |-> <<log, k>>, charge |-> line.charge, date |-> line.date, text |-> line.text,
     flip |-> line.flip, ext |-> line.ext, source |-> "import", log |-> log,
     sure |-> detect, merged |-> FALSE, touched |-> FALSE]

Merged(r, line, log) ==
    [r EXCEPT !.source = "import", !.ext = line.ext, !.log = log, !.merged = TRUE,
              !.charge = line.charge]

(* One line of import_transactions, which passes over what the user         *)
(* excluded and fails for a line that could be two rows.                    *)
TakeLine(acc, line, log, detect) ==
    LET known == Known(acc.rows, line)
        place == Placeholders(acc.rows, line)
    IN  IF line.out THEN acc
        ELSE IF detect /\ known # {}
        THEN IF Cardinality(known) > 1 THEN [acc EXCEPT !.failed = TRUE] ELSE acc
        ELSE IF place # {}
        THEN LET r == CHOOSE x \in place : TRUE IN
             [acc EXCEPT !.rows = (@ \ {r}) \cup {Merged(r, line, log)},
                         !.count = @ + 1]
        ELSE [acc EXCEPT !.rows = @ \cup {NewRow(line, log, acc.count, detect)},
                         !.count = @ + 1]

Taken(lines, log, detect) ==
    FoldLeft(LAMBDA acc, line : TakeLine(acc, line, log, detect),
             [rows |-> rows, count |-> 0, failed |-> FALSE], lines)
-----------------------------------------------------------------------------
Bounded == edits < MaxEdits /\ edits' = edits + 1
Server == <<rows, logs, inFlight, crossed>>

Ask(f, flip) ==
    /\ asked' = asked \cup {[of |-> f, flip |-> flip]}
    /\ raced' = (raced \/ asked # {})

(* processFile: a file is chosen or dropped, also while another is read.    *)
ProcessFile(f) ==
    /\ Bounded
    /\ page' = [page EXCEPT !.name = f, !.flip = FALSE, !.detect = TRUE]
    /\ Ask(f, FALSE)
    /\ UNCHANGED Server

IsCsv(f) == f # "none" /\ Files[f].format = "csv"

Offered == page.review # Nothing /\ IsCsv(page.name)

(* rePreview takes the option that is being changed as an override.         *)
Flip ==
    /\ Bounded /\ Offered
    /\ page' = [page EXCEPT !.flip = ~@]
    /\ Ask(page.name, ~page.flip)
    /\ UNCHANGED Server

DetectOff ==
    /\ Bounded /\ Offered /\ page.detect
    /\ page' = [page EXCEPT !.detect = FALSE]
    /\ UNCHANGED <<asked, raced, Server>>

Answer(p) ==
    /\ asked' = asked \ {p}
    /\ page' = [page EXCEPT !.review = [of |-> p.of, flip |-> p.flip,
                                        lines |-> Parsed(p.of, p.flip)]]
    /\ UNCHANGED <<raced, Server, edits>>

(* The service could not read it: the page keeps what it shows.             *)
Refused(p) ==
    /\ Bounded
    /\ asked' = asked \ {p} /\ raced' = TRUE
    /\ UNCHANGED <<page, Server>>

ToggleExcluded(i) ==
    /\ Bounded
    /\ page' = [page EXCEPT !.review.lines[i].out = ~@]
    /\ UNCHANGED <<asked, raced, Server>>

(* A new page knows nothing of the import that is running.                  *)
Reload ==
    /\ Bounded
    /\ page # EmptyPage
    /\ page' = EmptyPage /\ asked' = {} /\ raced' = FALSE
    /\ inFlight' = {[d EXCEPT !.here = FALSE] : d \in inFlight}
    /\ UNCHANGED <<rows, logs, crossed>>

(* The request and its look-ups; detect_duplicates counts for CSV files     *)
(* only.  An import that fails leaves nothing.                              *)
Import ==
    LET log == edits + 1
        detect == IsCsv(page.name) /\ IsCsv(page.review.of) => page.detect
        taken == Taken(page.review.lines, log, detect)
    IN
    /\ Bounded
    /\ \E i \in 1..Len(page.review.lines) : ~page.review.lines[i].out
    /\ \A d \in inFlight : ~d.here
    /\ ~taken.failed
    /\ inFlight' = inFlight \cup
         {[log |-> log, name |-> page.name, lines |-> page.review.lines,
           merged |-> {r \in taken.rows : r.merged /\ r.log = log},
           new |-> {r \in taken.rows : ~r.merged /\ r.log = log},
           count |-> taken.count, here |-> TRUE]}
    /\ UNCHANGED <<rows, logs, page, asked, raced, crossed>>

(* import_log.transaction_count = imported                                  *)
Counted(d) == d.count

Places(d) == {r \in rows : \E m \in d.merged : m.id = r.id}

(* The commit; a placeholder that is gone takes the import with it.         *)
Commit(d) ==
    /\ inFlight' = inFlight \ {d}
    /\ IF Cardinality(Places(d)) = Cardinality(d.merged)
       THEN /\ rows' = (rows \ Places(d)) \cup d.new \cup
                       {[q[1] EXCEPT !.date = q[2].date, !.text = q[2].text,
                                     !.touched = q[2].touched] :
                          q \in {p \in d.merged \X Places(d) : p[1].id = p[2].id}}
            /\ logs' = logs \cup {[id |-> d.log, name |-> d.name, count |-> Counted(d)]}
            /\ crossed' = (crossed \/ inFlight' # {})
       ELSE UNCHANGED <<rows, logs, crossed>>
    /\ IF d.here THEN page' = EmptyPage /\ raced' = (raced \/ asked # {})
       ELSE UNCHANGED <<page, raced>>
    /\ UNCHANGED <<asked, edits>>

ByUser == Bounded /\ crossed' = (crossed \/ inFlight # {}) /\ UNCHANGED <<page, asked, raced, inFlight>>

(* delete_import_log: its rows go with it, whatever became of them.         *)
DeleteLog(l) ==
    /\ ByUser
    /\ logs' = logs \ {l} /\ rows' = {r \in rows : r.log # l.id}

DeleteRow(r) == ByUser /\ rows' = rows \ {r} /\ UNCHANGED logs

(* update_transaction, of the description.                                  *)
Describe(r) ==
    /\ ByUser
    /\ r.text # "mine"
    /\ rows' = (rows \ {r}) \cup {[r EXCEPT !.text = "mine", !.touched = TRUE]}
    /\ UNCHANGED logs

(* generate_pending writes the placeholder of the recurring bill.           *)
Generate(day) ==
    /\ ByUser
    /\ \A r \in rows : r.id[1] # 0
    /\ rows' = rows \cup {[id |-> <<0, 0>>, charge |-> 0, date |-> day, text |-> Bill,
                           flip |-> FALSE, ext |-> 0, source |-> "recurring", log |-> 0,
                           sure |-> TRUE, merged |-> FALSE, touched |-> FALSE]}
    /\ UNCHANGED logs

Next ==
    \/ \E f \in Names : ProcessFile(f)
    \/ Flip \/ DetectOff \/ Reload \/ Import
    \/ \E p \in asked : Answer(p) \/ Refused(p)
    \/ \E i \in 1..Len(page.review.lines) : ToggleExcluded(i)
    \/ \E d \in inFlight : Commit(d)
    \/ \E l \in logs : DeleteLog(l)
    \/ \E r \in rows : DeleteRow(r) \/ Describe(r)
    \/ \E day \in Days : Generate(day)

Spec == Init /\ [][Next]_vars
-----------------------------------------------------------------------------
TypeOK ==
    /\ \A r \in rows : /\ r.log = 0 \/ \E l \in logs : l.id = r.log
                       /\ r.source \in {"import", "recurring"}
                       /\ r.source = "recurring" => r.log = 0
                       /\ \A o \in rows : o.id = r.id => o = r
    /\ logs \subseteq [id : 1..MaxEdits, name : Names \cup {"none"}, count : Nat]
    /\ page.name \in Names \cup {"none"} /\ page.review.of \in Names \cup {"none"}
    /\ asked \subseteq [of : Names, flip : BOOLEAN]
    /\ \A d \in inFlight : d.log \in 1..MaxEdits
    /\ {raced, crossed} \subseteq BOOLEAN /\ edits \in 0..MaxEdits

(* A movement that overlapping statements repeat, that is pending in one    *)
(* and booked in the next, or whose file is imported again has one row of   *)
(* its kind (import_service.py:217, 642); an edited row, a merged one, an   *)
(* import without detection and two at once are excepted.                   *)
OneRowPerMovement ==
    \A r, o \in rows :
       /\ r # o /\ r.charge = o.charge /\ r.flip = o.flip
       /\ (r.ext = 0) = (o.ext = 0)
       => \/ crossed
          \/ \E x \in {r, o} : x.touched \/ x.merged \/ ~x.sure

(* No line is lost for one that only looks like it: when an import commits, *)
(* every line it included has a row of its day and text, or one that bears  *)
(* its identifier, though the bank gives all instalments of a purchase the  *)
(* same (import_service.py:645-648).                                        *)
HasRow(line, S) ==
    \E r \in S : \/ r.date = line.date /\ (SameFields(r, line) \/ (line.ext # 0 /\ r.ext = line.ext))
                 \/ r.merged /\ r.charge = line.charge

LinesStep ==
    \A d \in inFlight \ inFlight' :
       (\E l \in logs' \ logs : l.id = d.log) /\ ~crossed'
       => \A i \in 1..Len(d.lines) : d.lines[i].out \/ HasRow(d.lines[i], rows')

NothingLost == [][LinesStep]_vars

(* The history counts what its deletion would take away: at the commit the  *)
(* log has as many rows as it says, merged ones included.                   *)
CountStep ==
    \A l \in logs' \ logs : l.count = Cardinality({r \in rows' : r.log = l.id})

LogCounts == [][CountStep]_vars

(* What the page reviews was read from the file it names under the options  *)
(* it shows, unless answers crossed or one failed                           *)
(* (import.tsx:203-205).                                                    *)
ShownAsAsked ==
    ~raced /\ asked = {} /\ page.review # Nothing
    => page.review.of = page.name /\ page.review.flip = page.flip

(* Not so in the code: the page names the new file before it has an answer, *)
(* and keeps the lines of the old one when the service refuses it.          *)
LogNamesItsFile ==
    \A d \in inFlight : \E f \in Names : d.name = f /\
       \A i \in 1..Len(d.lines) : \E j \in 1..Len(Files[f].entries) :
          d.lines[i].charge = Files[f].entries[j].charge

(* Not so in the code: a line merged into a placeholder keeps its day, so   *)
(* the same file imported again does not find it by identifier and day.     *)
MergedIsKnown ==
    \A r, o \in rows : r # o /\ r.merged /\ r.ext # 0 /\ r.charge = o.charge /\ o.sure
                       => crossed \/ r.touched \/ o.touched
=============================================================================
