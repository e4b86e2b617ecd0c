----------------------------- MODULE BatchLoad -----------------------------
(***************************************************************************)
(* The commands that write many items: `dy import` and `dy bwrite`.        *)
(*                                                                         *)
(* import cuts a file of rows into requests of at most MaxBatch rows and   *)
(* writes them with BatchWriteItem.  One request is outstanding at a time; *)
(* what the service leaves unprocessed is sent again until nothing is left *)
(* (batch_write_until_processed).  bwrite puts all its operations into one *)
(* call.  In both, the SDK repeats an attempt whose answer it did not get, *)
(* at most MaxAttempts times.                                              *)
(*                                                                         *)
(* A row is its position in the input: a line or value of the file, or a   *)
(* put or delete of bwrite (arguments first, then the file's operations).  *)
(* What the properties tell apart is its key and how it is malformed.      *)
(***************************************************************************)
EXTENDS Integers, Sequences, FiniteSets

CONSTANTS
  Keys,          \* primary keys
  Files,         \* the input files considered
  MaxBatch,      \* rows per request in the code: the 25 of chunks(25) and i % 25
  ServiceLimit,  \* requests BatchWriteItem accepts in one call (25)
  MaxAttempts,   \* attempts of the SDK's retry policy, the first included
  Late           \* whether an attempt given up on may still be executed later

(***************************************************************************)
(* item: a well-formed row.  scalar: a JSON value that is no object; for   *)
(* bwrite an operation neither PutRequest nor DeleteRequest.  broken: text *)
(* that is no JSON value; for bwrite also a --put or --del that does not   *)
(* parse or lacks the table's keys.  short, long: a CSV line with fewer or *)
(* more cells than the header.  keyless: an item without the table's key   *)
(* attributes, which only the service notices.                             *)
(***************************************************************************)
RowKinds == {"item", "scalar", "broken", "short", "long", "keyless"}
Row == [kind : RowKinds, key : Keys]
Commands == {"json", "jsonl", "csv", "bwrite"}   \* import by --format, and bwrite
KindsIn(c) == IF c = "csv" THEN RowKinds \ {"scalar"} ELSE RowKinds \ {"short", "long"}

ASSUME FilesAssumption == Files \subseteq Seq(Row)
ASSUME BatchAssumption == /\ MaxBatch \in Nat \ {0}
                          /\ ServiceLimit \in Nat
                          /\ MaxBatch <= ServiceLimit
ASSUME AttemptsAssumption == MaxAttempts \in Nat \ {0}
ASSUME LateAssumption == Late \in BOOLEAN

VARIABLES
  file,       \* the rows of the input file, never changed
  command,    \* what is run, never changed
  todo,       \* number of rows the parser delivers
  taken,      \* rows read from the parsed input so far
  chunk,      \* rows of the request being built or written
  pending,    \* rows of that request not yet reported as processed
  attempts,   \* attempts of the outstanding call, the current one included
  processed,  \* ProgressState.processed_items
  phase,      \* where the command is
  applied,    \* rows the service has executed at least once
  table,      \* for each key the row its item comes from, 0 if none of the file
  strays      \* abandoned attempts the service may still execute

loader == <<file, command, todo, taken, chunk, pending, attempts, processed, phase>>
service == <<applied, table, strays>>
vars == <<loader, service>>

Rows == 1..Len(file)
Final == {"done", "cancelled", "failed", "rejected", "gaveUp"}
Phases == {"start", "read", "convert", "sent"} \cup Final

Init == /\ file \in Files
        /\ command \in Commands
        /\ \A i \in Rows : file[i].kind \in KindsIn(command)
        /\ todo = 0
        /\ taken = 0
        /\ chunk = {}
        /\ pending = {}
        /\ attempts = 0
        /\ processed = 0
        /\ phase = "start"
        /\ applied = {}
        /\ table = [k \in Keys |-> 0]
        /\ strays = {}

-----------------------------------------------------------------------------
(* Opening the input *)

Broken == {i \in Rows : file[i].kind = "broken"}

\* The user declines the warning about a table in Provisioned mode.
Cancel == /\ phase = "start"
          /\ command # "bwrite"
          /\ phase' = "cancelled"
          /\ UNCHANGED <<file, command, todo, taken, chunk, pending, attempts,
                         processed, service>>

\* A missing file, a JSON document that does not parse as a whole, a bwrite
\* argument that is not acceptable, or a CSV file without even a header line
\* ends the command before anything is written.
OpenFails == /\ phase = "start"
             /\ phase' = "failed"
             /\ UNCHANGED <<file, command, todo, taken, chunk, pending, attempts,
                            processed, service>>

\* How many rows the parser delivers.  A JSON array is parsed whole, and CSV
\* cells are parsed later.  The JSON Lines iterator yields nothing after the
\* first value it cannot parse.
Delivered(n) ==
  IF command = "jsonl"
  THEN /\ n \in 0..Len(file)
       /\ \A i \in 1..n : i \notin Broken
       /\ n < Len(file) => n + 1 \in Broken
  ELSE n = Len(file)

Open == /\ phase = "start"
        /\ command \in {"json", "bwrite"} => Broken = {}
        /\ \E n \in 0..Len(file) : Delivered(n) /\ todo' = n
        /\ phase' = "read"
        /\ UNCHANGED <<file, command, taken, chunk, pending, attempts, processed,
                       service>>

-----------------------------------------------------------------------------
(* Cutting the input into requests *)

\* Mutation of NextChunk: chunks from the end of the array, as rchunks(25) cuts.
NextChunkReversed ==
  /\ phase = "read"
  /\ command \in {"json", "jsonl"}
  /\ taken < todo
  /\ taken' = IF taken + MaxBatch <= todo THEN taken + MaxBatch ELSE todo
  /\ chunk' = (todo - taken' + 1)..(todo - taken)
  /\ phase' = "convert"
  /\ UNCHANGED <<file, command, todo, pending, attempts, processed, service>>

\* chunks(25): the next MaxBatch rows, or what is left of them.
NextChunk == /\ phase = "read"
             /\ command \in {"json", "jsonl"}
             /\ taken < todo
             /\ taken' = IF taken + MaxBatch <= todo THEN taken + MaxBatch ELSE todo
             /\ chunk' = (taken + 1)..taken'
             /\ phase' = "convert"
             /\ UNCHANGED <<file, command, todo, pending, attempts, processed, service>>

\* Mutation of CsvRow: the line's number is counted from the first row.
CsvRowFromZero ==
  /\ phase = "read"
  /\ command = "csv"
  /\ taken < todo
  /\ taken' = taken + 1
  /\ chunk' = chunk \cup {taken + 1}
  /\ phase' = IF taken % MaxBatch = 0 THEN "convert" ELSE "read"
  /\ UNCHANGED <<file, command, todo, pending, attempts, processed, service>>

\* A CSV line joins the matrix, which is written when the line's number is a
\* multiple of MaxBatch.
CsvRow == /\ phase = "read"
          /\ command = "csv"
          /\ taken < todo
          /\ taken' = taken + 1
          /\ chunk' = chunk \cup {taken + 1}
          /\ phase' = IF (taken + 1) % MaxBatch = 0 THEN "convert" ELSE "read"
          /\ UNCHANGED <<file, command, todo, pending, attempts, processed, service>>

\* The rest of the matrix.
CsvRest == /\ phase = "read"
           /\ command = "csv"
           /\ taken = todo
           /\ chunk # {}
           /\ phase' = "convert"
           /\ UNCHANGED <<file, command, todo, taken, chunk, pending, attempts,
                          processed, service>>

\* bwrite gathers every operation, leaving out those it does not know, and
\* sends whatever that gives.
Gather == /\ phase = "read"
          /\ command = "bwrite"
          /\ taken' = todo
          /\ chunk' = {i \in 1..todo : file[i].kind # "scalar"}
          /\ phase' = "convert"
          /\ UNCHANGED <<file, command, todo, pending, attempts, processed, service>>

OfKind(S, kinds) == {i \in S : file[i].kind \in kinds}

\* Mutation of Convertible: the number of cells is not compared at all.
ConvertibleUncounted(S) ==
  IF command = "csv"
  THEN OfKind(S, {"short", "broken"}) = {}
  ELSE OfKind(S, {"scalar"}) = {}

\* Every JSON value must be an object.  For CSV only the total number of cells
\* is compared with the header; a short line then fails on its missing cell.
Convertible(S) ==
  IF command = "csv"
  THEN /\ Cardinality(OfKind(S, {"short"})) = Cardinality(OfKind(S, {"long"}))
       /\ OfKind(S, {"short", "broken"}) = {}
  ELSE OfKind(S, {"scalar"}) = {}

\* One request is built from the chunk and its first attempt sent.
Convert == /\ phase = "convert"
           /\ IF Convertible(chunk)
              THEN /\ pending' = chunk
                   /\ attempts' = 1
                   /\ phase' = "sent"
              ELSE /\ phase' = "failed"
                   /\ UNCHANGED <<pending, attempts>>
           /\ UNCHANGED <<file, command, todo, taken, chunk, processed, service>>

\* Mutation of Finish: the rest of the matrix is forgotten.
FinishEarly ==
  /\ phase = "read"
  /\ command # "bwrite"
  /\ taken = todo
  /\ phase' = "done"
  /\ UNCHANGED <<file, command, todo, taken, chunk, pending, attempts, processed,
                 service>>

Finish == /\ phase = "read"
          /\ command # "bwrite"
          /\ taken = todo
          /\ chunk = {}
          /\ phase' = "done"
          /\ UNCHANGED <<file, command, todo, taken, chunk, pending, attempts,
                         processed, service>>

-----------------------------------------------------------------------------
(* BatchWriteItem *)

\* What the service accepts: between one and ServiceLimit items, all with
\* their keys, no key twice.
Valid(S) == /\ S # {}
            /\ Cardinality(S) <= ServiceLimit
            /\ \A i \in S : file[i].kind # "keyless"
            /\ \A i, j \in S : i # j => file[i].key # file[j].key

Execute(S) ==
  /\ applied' = applied \cup S
  /\ table' = [k \in Keys |-> IF \E i \in S : file[i].key = k
                              THEN CHOOSE i \in S : file[i].key = k
                              ELSE table[k]]

Reject == /\ phase = "sent"
          /\ ~Valid(pending)
          /\ phase' = "rejected"
          /\ UNCHANGED <<file, command, todo, taken, chunk, pending, attempts,
                         processed, service>>

\* Mutation of Unprocessed: import too ignores what is returned.
UnprocessedIgnored(S) ==
  /\ phase = "sent"
  /\ Valid(pending)
  /\ pending \ S # {}
  /\ Execute(S)
  /\ pending' = {}
  /\ chunk' = {}
  /\ attempts' = 0
  /\ phase' = IF command = "bwrite" THEN "done" ELSE "read"
  /\ UNCHANGED <<file, command, todo, taken, processed, strays>>

\* Mutation of Unprocessed: the whole request is sent again.
UnprocessedResendsAll(S) ==
  /\ phase = "sent"
  /\ Valid(pending)
  /\ pending \ S # {}
  /\ Execute(S)
  /\ attempts' = 1
  /\ UNCHANGED <<file, command, todo, taken, chunk, pending, processed, phase, strays>>

\* The service executes S and returns the others as unprocessed.  The loop of
\* import sends exactly those again, with a fresh retry budget; bwrite returns.
Unprocessed(S) == /\ phase = "sent"
                  /\ Valid(pending)
                  /\ pending \ S # {}
                  /\ Execute(S)
                  /\ pending' = pending \ S
                  /\ IF command = "bwrite"
                     THEN attempts' = attempts /\ phase' = "done"
                     ELSE attempts' = 1 /\ phase' = "sent"
                  /\ UNCHANGED <<file, command, todo, taken, chunk, processed, strays>>

\* Mutation of AllProcessed: every request counts as a full one.
AllProcessedCountsFull ==
  /\ phase = "sent"
  /\ Valid(pending)
  /\ Execute(pending)
  /\ pending' = {}
  /\ attempts' = 0
  /\ chunk' = {}
  /\ processed' = processed + MaxBatch
  /\ phase' = IF command = "bwrite" THEN "done" ELSE "read"
  /\ UNCHANGED <<file, command, todo, taken, strays>>

\* Nothing is left of the request: progress is shown and the matrix cleared.
AllProcessed == /\ phase = "sent"
                /\ Valid(pending)
                /\ Execute(pending)
                /\ pending' = {}
                /\ attempts' = 0
                /\ chunk' = {}
                /\ IF command = "bwrite"
                   THEN processed' = processed /\ phase' = "done"
                   ELSE processed' = processed + Cardinality(chunk) /\ phase' = "read"
                /\ UNCHANGED <<file, command, todo, taken, strays>>

\* Mutation of LoseAttempt: one attempt too many.
LoseAttemptOnceMore(S) ==
  /\ phase = "sent"
  /\ Valid(pending)
  /\ Execute(S)
  /\ IF attempts <= MaxAttempts
     THEN attempts' = attempts + 1 /\ phase' = "sent"
     ELSE attempts' = attempts /\ phase' = "gaveUp"
  /\ UNCHANGED <<file, command, todo, taken, chunk, pending, processed, strays>>

\* Mutation of LoseAttempt: an error does not end the import.
LoseAttemptGoesOn(S) ==
  /\ phase = "sent"
  /\ Valid(pending)
  /\ Execute(S)
  /\ IF attempts < MaxAttempts
     THEN /\ attempts' = attempts + 1
          /\ UNCHANGED <<chunk, pending, phase>>
     ELSE /\ attempts' = 0
          /\ chunk' = {}
          /\ pending' = {}
          /\ phase' = "read"
  /\ UNCHANGED <<file, command, todo, taken, processed, strays>>

\* The attempt fails in a way the SDK retries; the service executed S of it.
\* With Late it may still execute the attempt after the client gave up on it.
LoseAttempt(S) ==
  /\ phase = "sent"
  /\ Valid(pending)
  /\ Execute(S)
  /\ strays' \in {strays, IF Late THEN strays \cup {pending} ELSE strays}
  /\ IF attempts < MaxAttempts
     THEN attempts' = attempts + 1 /\ phase' = "sent"
     ELSE attempts' = attempts /\ phase' = "gaveUp"
  /\ UNCHANGED <<file, command, todo, taken, chunk, pending, processed>>

\* An error that is not retried (credentials, a deleted table) is returned at once.
Refuse == /\ phase = "sent"
          /\ phase' = "gaveUp"
          /\ UNCHANGED <<file, command, todo, taken, chunk, pending, attempts,
                         processed, service>>

StrayExecutes(r) == /\ Execute(r)
                    /\ strays' = strays \ {r}
                    /\ UNCHANGED loader

-----------------------------------------------------------------------------
Loader == \/ Cancel \/ OpenFails \/ Open
          \/ NextChunk \/ CsvRow \/ CsvRest \/ Gather \/ Convert \/ Finish

Service == \/ Reject
           \/ \E S \in SUBSET pending : Unprocessed(S)
           \/ AllProcessed
           \/ \E S \in SUBSET pending : LoseAttempt(S)
           \/ Refuse
           \/ \E r \in strays : StrayExecutes(r)

Next == Loader \/ Service

Spec == Init /\ [][Next]_vars

(***************************************************************************)
(* The program runs on, every call is eventually answered or given up on,  *)
(* and a request sent again and again is, at some point, not left          *)
(* completely unprocessed.  The loop itself has neither a bound nor a      *)
(* backoff, so the last assumption is one about the service.               *)
(***************************************************************************)
Progress == \/ Reject
            \/ \E S \in SUBSET pending \ {{}} : Unprocessed(S)
            \/ AllProcessed

FairSpec == Spec /\ WF_vars(Loader) /\ WF_vars(Progress)

-----------------------------------------------------------------------------
(* Properties *)

\* A request holds rows that were read, what is unprocessed is part of it, its
\* attempts stay within the retry policy, and only rows that were read are executed.
TypeOK == /\ file \in Seq(Row)
          /\ command \in Commands
          /\ todo \in 0..Len(file)
          /\ taken \in 0..todo
          /\ chunk \subseteq 1..taken
          /\ pending \subseteq chunk
          /\ attempts \in 0..MaxAttempts
          /\ processed \in Nat
          /\ phase \in Phases
          /\ applied \subseteq 1..taken
          /\ table \in [Keys -> 0..taken]
          /\ strays \subseteq SUBSET (1..taken)

\* Rows the program considers written: those of earlier requests, and those of
\* the outstanding one that the service did not return as unprocessed.
Acknowledged ==
  (1..taken) \ (IF phase \in {"sent", "done", "rejected", "gaveUp"} THEN pending ELSE chunk)

\* No row is dropped between two requests, between an answer and the resend of
\* its unprocessed items, or at the end of the file: whatever the loop in
\* batch_write_until_processed and the two chunkings leave behind was executed,
\* and import returns Ok only when every row the parser delivered was.
NothingLost == /\ command # "bwrite" => Acknowledged \subseteq applied
               /\ (command # "bwrite" /\ phase = "done") => applied = 1..todo

\* Rows with the same key are written in file order, however answers are lost
\* and requests repeated: the table holds the last executed row of each key.
\* (An attempt executed after it was given up on could undo this.)
LastRowWins ==
  ~Late =>
    \A k \in Keys :
      /\ \A i \in applied : file[i].key = k => i <= table[k]
      /\ table[k] # 0 => table[k] \in applied /\ file[table[k]].key = k

\* Wherever import stops, what it wrote is a whole number of requests from the
\* start of the file and a part of the one after them, so that a failed import
\* can be resumed by cutting the file.
StopsAtOneRequest ==
  command # "bwrite" => \E b \in 0..Len(file) :
    /\ b % MaxBatch = 0
    /\ 1..b \subseteq applied
    /\ \A i \in applied : i <= b + MaxBatch

\* Two rows with the same key are accepted when different requests carry them.
Window(i) == (i - 1) \div MaxBatch
Clean == /\ \A i \in Rows : file[i].kind = "item"
         /\ \A i, j \in Rows :
              i # j /\ file[i].key = file[j].key => Window(i) # Window(j)

\* A well-formed file is imported: no request the code cuts from it is empty,
\* too large, or puts together rows the service does not accept together.
CleanFileAccepted ==
  command # "bwrite" /\ Clean =>
    /\ phase # "rejected"
    /\ (phase = "failed" => taken = 0)

\* Only well-formed rows reach the table: a CSV line with the wrong number of
\* cells does not, although only the total number of cells of a request is
\* compared with the header.
OnlyItemsWritten == \A i \in applied : file[i].kind = "item"

\* The number of items shown counts rows that were written, and all of them
\* in the end.
CountIsWritten == /\ processed <= Cardinality(applied)
                  /\ (command # "bwrite" /\ phase = "done") => processed = todo

\* The commands end, if the service eventually processes something of what it
\* is sent.
Terminates == <>(phase \in Final)

\* Comment in import: of the JSON Lines values, "only valid items" are kept.
EveryValidLineImported ==
  phase = "done" /\ command = "jsonl" =>
    \A i \in Rows : file[i].kind = "item" => i \in applied

\* bwrite "executes batch write operations based on the provided puts, dels, and
\* input_file arguments" (comment on batch_write_item): when it returns Ok, all
\* the operations it was given were executed.
BwriteExecutesAll ==
  phase = "done" /\ command = "bwrite" =>
    \A i \in Rows : file[i].kind = "item" => i \in applied

-----------------------------------------------------------------------------
(* What the commands promise a reader of the table: see KeyedLoad.  bwrite *)
(* promises no completion.                                                 *)

Promised == CHOOSE n \in 0..Len(file) : Delivered(n)
Status == CASE phase = "done" /\ command # "bwrite" -> "complete"
            [] phase = "done" /\ command = "bwrite" -> "aborted"
            [] phase \in Final \ {"done"} -> "aborted"
            [] OTHER -> "running"

Abstract == INSTANCE KeyedLoad
              WITH source  <- [i \in 1..Promised |-> file[i].key],
                   content <- table,
                   status  <- Status

\* Each step changes the table as the abstract load allows, and import
\* completes only with every key at its last row.
ImplementsKeyedLoad == Abstract!Spec
=============================================================================
