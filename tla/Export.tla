------------------------------- MODULE Export -------------------------------
(***************************************************************************)
(* `dy export`: the table is scanned page by page, each page is converted  *)
(* and appended to a temporary file, and when the scan is over the output  *)
(* file is put together from an opening, the temporary file and a closing. *)
(* Items come and go while the scan is under way, its reads may miss what  *)
(* changed last, and the process may end at any point.                     *)
(*                                                                         *)
(* Items are the positions of the table's scan order.  File contents are   *)
(* sequences of the tokens that the formats are told apart by; layout is   *)
(* left out, except for the line ends of JSON Lines and CSV.               *)
(***************************************************************************)
EXTENDS Integers, Sequences, FiniteSets, SequencesExt

CONSTANTS
  Size,       \* positions of the scan order are 1..Size
  Sparse,     \* items without one of the attributes a CSV export asks for
  MaxWrites,  \* bound: writes to the table by others
  MaxRuns     \* bound: exports started

ASSUME SizeAssumption == Size \in Nat
ASSUME SparseAssumption == Sparse \subseteq 1..Size
ASSUME BoundsAssumption == MaxWrites \in Nat /\ MaxRuns \in Nat

Items == 1..Size
Formats == {"json", "jsonl", "csv"}   \* json-compact differs from json in layout

Item(i) == <<"item", i>>
Open == <<"open", 0>>         \* [
Close == <<"close", 0>>       \* ]
Comma == <<"comma", 0>>
NewLine == <<"newline", 0>>
Header == <<"header", 0>>     \* the CSV header without its line end
Old == <<"old", 0>>           \* whatever an earlier program left
Tokens == {Item(i) : i \in Items} \cup {Open, Close, Comma, NewLine, Header, Old}

VARIABLES
  table,     \* items in the table
  recent,    \* items whose last change has not reached every replica
  writes,    \* writes of others so far
  format,    \* --format
  phase,     \* where the export is
  cursor,    \* last_evaluated_key, 0 for the first page
  pages,     \* pages received
  gap,       \* whether one of them, which can only be the last, was empty
  output,    \* contents of the output file, <<>> also when it does not exist
  tmp,       \* contents of the temporary file, likewise
  runs,      \* exports started so far
  always,    \* history: items every replica had when the scan began, not deleted since
  ever,      \* history: items some replica had at some time since then
  whole      \* history: the output file was written to its end

tableVars == <<table, recent, writes, always, ever>>
vars == <<tableVars, format, phase, cursor, pages, gap, output, tmp, runs, whole>>

Phases == {"idle", "start", "tmp", "scan", "opening", "body", "closing", "remove", "done"}

Init == /\ table \in SUBSET Items
        /\ recent = {}
        /\ writes = 0
        /\ format \in Formats
        /\ phase = "idle"
        /\ cursor = 0
        /\ pages = 0
        /\ gap = FALSE
        /\ output \in {<<>>, <<Old>>}
        /\ tmp = <<>>
        /\ runs = 0
        /\ always = table
        /\ ever = table
        /\ whole = FALSE

-----------------------------------------------------------------------------
(* Conversion of a page *)

\* The pages there are of a set of items: all of them, once, in scan order.
Listings(S) == {q \in Surjection(1..Cardinality(S), S) :
                  \A m, n \in DOMAIN q : m < n => q[m] < q[n]}

\* Items at the odd places, what separates or ends them at the even ones.
Row(q, sep, length) == [n \in 1..length |-> IF n % 2 = 1 THEN Item(q[(n + 1) \div 2]) ELSE sep]
Between(q, sep) == Row(q, sep, 2 * Len(q) - 1)

\* The JSON array of a page, and what connectable_json makes of it: the brackets
\* are cut off and a comma is added.
ToJson(q) == <<Open>> \o Between(q, Comma) \o <<Close>>
Connectable(text) == SubSeq(text, 2, Len(text) - 1) \o <<Comma>>

\* One line for one item, the last one without its line end.
CsvLines(q) == Between(q, NewLine)

JsonLines(q) == Row(q, NewLine, 2 * Len(q))

Converted(q) == CASE format = "json" -> Connectable(ToJson(q))
                  [] format = "jsonl" -> JsonLines(q)
                  [] format = "csv" -> CsvLines(q)

-----------------------------------------------------------------------------
(* The command *)

Begin == /\ phase \in {"idle", "done"}
         /\ runs < MaxRuns
         /\ runs' = runs + 1
         /\ format' \in Formats
         /\ phase' = "start"
         /\ UNCHANGED <<tableVars, cursor, pages, gap, output, tmp, whole>>

\* The user declines a warning, options do not fit the format, or there is no
\* item to guess CSV columns from.
Cancel == /\ phase = "start"
          /\ phase' = "idle"
          /\ UNCHANGED <<tableVars, format, cursor, pages, gap, output, tmp, runs, whole>>

\* Mutation of Truncate: an existing output file is only opened.
TruncateNot == /\ phase = "start"
               /\ whole' = FALSE
               /\ phase' = "tmp"
               /\ UNCHANGED <<tableVars, format, cursor, pages, gap, output, tmp, runs>>

\* The output file is emptied or created before anything is scanned.
Truncate == /\ phase = "start"
            /\ output' = <<>>
            /\ whole' = FALSE
            /\ phase' = "tmp"
            /\ UNCHANGED <<tableVars, format, cursor, pages, gap, tmp, runs>>

\* Mutation of OpenTmp: a temporary file left behind is appended to.
OpenTmpAppends == /\ phase = "tmp"
                  /\ cursor' = 0
                  /\ pages' = 0
                  /\ gap' = FALSE
                  /\ always' = table \ recent
                  /\ ever' = table \cup recent
                  /\ phase' = "scan"
                  /\ UNCHANGED <<table, recent, writes, format, output, tmp, runs, whole>>

\* A temporary file left behind is reused, emptied.
OpenTmp == /\ phase = "tmp"
           /\ tmp' = <<>>
           /\ cursor' = 0
           /\ pages' = 0
           /\ gap' = FALSE
           /\ always' = table \ recent
           /\ ever' = table \cup recent
           /\ phase' = "scan"
           /\ UNCHANGED <<table, recent, writes, format, output, runs, whole>>

\* What a page up to position e may have: scan_api is called without consistent_read,
\* so that it shows each item changed recently as it was before or as it is.
Readable(e) ==
  LET range == {i \in table \cup recent : cursor < i /\ i <= e} IN
  {page \in SUBSET range : range \ recent \subseteq page}

\* What the service may answer.  It stops at any item, which is the
\* last_evaluated_key, or after the last position without one; stopping at an item,
\* it need not know whether any follow.
Answer(page, e, more) == /\ page \in Readable(e)
                         /\ IF more THEN e \in page ELSE e = Size

\* Mutation of ScanPage: the loop is not left without a last_evaluated_key.
ScanPageOn(page, e, more) ==
  /\ phase = "scan"
  /\ format = "csv" => page \cap Sparse = {}
  /\ \E q \in Listings(page) : tmp' = tmp \o Converted(q)
  /\ pages' = pages + 1
  /\ gap' = (gap \/ page = {})
  /\ cursor' = e
  /\ UNCHANGED <<tableVars, format, phase, output, runs, whole>>

\* One page: the items up to position e, with a last_evaluated_key or, at the
\* end of the table, without one.  Its conversion is appended.
ScanPage(page, e, more) ==
  /\ phase = "scan"
  /\ format = "csv" => page \cap Sparse = {}
  /\ \E q \in Listings(page) : tmp' = tmp \o Converted(q)
  /\ pages' = pages + 1
  /\ gap' = (gap \/ page = {})
  /\ IF more THEN cursor' = e /\ phase' = "scan"
             ELSE cursor' = cursor /\ phase' = "opening"
  /\ UNCHANGED <<tableVars, format, output, runs, whole>>

ScanNext == \E e \in 0..Size, more \in BOOLEAN : \E page \in Readable(e) :
              Answer(page, e, more) /\ ScanPage(page, e, more)

\* Finishing: the opening, ...
WriteOpening == /\ phase = "opening"
                /\ output' = output \o CASE format = "json" -> <<Open>>
                                         [] format = "csv" -> <<Header, NewLine>>
                                         [] OTHER -> <<>>
                /\ phase' = "body"
                /\ UNCHANGED <<tableVars, format, cursor, pages, gap, tmp, runs, whole>>

\* Mutation of Body: the last comma stays.
BodyUncut == tmp

\* ... the body, for JSON without the last comma, ...
Body == IF format = "json" THEN SubSeq(tmp, 1, Len(tmp) - 1) ELSE tmp

WriteBody == /\ phase = "body"
             /\ output' = output \o Body
             /\ phase' = "closing"
             /\ UNCHANGED <<tableVars, format, cursor, pages, gap, tmp, runs, whole>>

\* ... and the closing.
WriteClosing == /\ phase = "closing"
                /\ output' = output \o CASE format = "json" -> <<Close>>
                                         [] format = "csv" -> <<NewLine>>
                                         [] OTHER -> <<>>
                /\ whole' = TRUE
                /\ phase' = "remove"
                /\ UNCHANGED <<tableVars, format, cursor, pages, gap, tmp, runs>>

RemoveTmp == /\ phase = "remove"
             /\ tmp' = <<>>
             /\ phase' = "done"
             /\ UNCHANGED <<tableVars, format, cursor, pages, gap, output, runs, whole>>

\* A failed scan, a CSV item without a requested attribute, a full disk or a
\* signal ends the process; the body may have been written in part.
Die == /\ phase \notin {"idle", "done"}
       /\ phase' = "idle"
       /\ IF phase = "body"
          THEN \E n \in 0..Len(Body) : output' = output \o SubSeq(Body, 1, n)
          ELSE output' = output
       /\ UNCHANGED <<tableVars, format, cursor, pages, gap, tmp, runs, whole>>

-----------------------------------------------------------------------------
(* Other users of the table, and its replicas *)

Put(i) == /\ writes < MaxWrites
          /\ i \notin table
          /\ table' = table \cup {i}
          /\ recent' = recent \cup {i}
          /\ ever' = ever \cup {i}
          /\ writes' = writes + 1
          /\ UNCHANGED <<always, format, phase, cursor, pages, gap, output, tmp, runs, whole>>

Delete(i) == /\ writes < MaxWrites
             /\ i \in table
             /\ table' = table \ {i}
             /\ recent' = recent \cup {i}
             /\ always' = always \ {i}
             /\ writes' = writes + 1
             /\ UNCHANGED <<ever, format, phase, cursor, pages, gap, output, tmp, runs, whole>>

\* The last change of an item reaches the last replica.
Replicate(i) == /\ i \in recent
                /\ recent' = recent \ {i}
                /\ UNCHANGED <<table, writes, always, ever, format, phase, cursor, pages, gap, output,
                               tmp, runs, whole>>

-----------------------------------------------------------------------------
Next == \/ Begin \/ Cancel \/ Truncate \/ OpenTmp \/ ScanNext
        \/ WriteOpening \/ WriteBody \/ WriteClosing \/ RemoveTmp \/ Die
        \/ \E i \in Items : Put(i) \/ Delete(i) \/ Replicate(i)

Spec == Init /\ [][Next]_vars

-----------------------------------------------------------------------------
(* Properties *)

\* Files hold tokens, and the scan moves within the table.
TypeOK == /\ table \subseteq Items
          /\ format \in Formats
          /\ phase \in Phases
          /\ cursor \in 0..Size
          /\ pages \in 0..(Size + 1)
          /\ gap \in BOOLEAN
          /\ output \in Seq(Tokens)
          /\ tmp \in Seq(Tokens)
          /\ recent \subseteq Items
          /\ always \subseteq table \ recent
          /\ table \cup recent \subseteq ever

\* An export that ends with Ok contains every item that was in all replicas when the
\* scan began and stayed in the table, none that no replica had since then, none
\* twice, and nothing a run that ended early had left in the temporary file.
ExportIsComplete ==
  phase = "done" =>
    /\ \A i \in always : \E n \in DOMAIN output : output[n] = Item(i)
    /\ \A n \in DOMAIN output : output[n][1] = "item" => output[n][2] \in ever
    /\ \A m, n \in DOMAIN output : output[m][1] = "item" /\ output[m] = output[n] => m = n

\* An array of items.
IsJson(text) ==
  /\ Len(text) >= 2
  /\ text[1] = Open /\ text[Len(text)] = Close
  /\ LET inner == SubSeq(text, 2, Len(text) - 1) IN
     \/ inner = <<>>
     \/ /\ Len(inner) % 2 = 1
        /\ \A n \in DOMAIN inner : IF n % 2 = 1 THEN inner[n][1] = "item"
                                   ELSE inner[n] = Comma

\* Lines, each of one item.
IsLines(text) == /\ Len(text) % 2 = 0
                 /\ \A n \in DOMAIN text : IF n % 2 = 1 THEN text[n][1] = "item"
                                           ELSE text[n] = NewLine

IsCsv(text) == /\ SubSeq(text, 1, 2) = <<Header, NewLine>>
               /\ LET rows == SubSeq(text, 3, Len(text)) IN
                  IsLines(rows) \/ rows = <<NewLine>>   \* of an empty table

\* JSON Lines are always well-formed, JSON is unless the last page of several was
\* empty, and CSV when there was one page.
OutputIsWellFormed ==
  phase = "done" =>
    /\ format = "jsonl" => IsLines(output)
    /\ format = "json" /\ (pages = 1 \/ ~gap) => IsJson(output)
    /\ format = "csv" /\ pages = 1 => IsCsv(output)

\* A JSON export that did not come to its end leaves an output file that does
\* not parse, so that it is not taken for a complete one.
UnfinishedJsonIsInvalid == IsJson(output) => whole

\* An export whose scan fails, at an item without a requested attribute too, leaves an
\* empty output file whatever was in it and in the temporary file: in none of the
\* formats does a part of the table pass for all of it.
FailedScanLeavesNothing == [][phase = "scan" /\ phase' = "idle" => output' = <<>>]_vars

\* "To avoid this invalid JSON" (comment on connectable_json): the pages of a
\* scan make one JSON array.
PagesMakeJson == phase = "done" /\ format = "json" => IsJson(output)

\* "One line for one item" (comment on convert_items_to_csv_lines).
PagesMakeCsv == phase = "done" /\ format = "csv" => IsCsv(output)
=============================================================================
