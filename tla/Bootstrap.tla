----------------------------- MODULE Bootstrap -----------------------------
(***************************************************************************)
(* `dy bootstrap`: creates the tables of a sample, waits until DynamoDB    *)
(* has made all of them ACTIVE, and writes the sample's items.  Tables of  *)
(* these names may exist, be under way, or have other keys; other users    *)
(* delete tables meanwhile; the command may be cut off and run again.      *)
(***************************************************************************)
EXTENDS Integers, Sequences, FiniteSets

CONSTANTS
  Samples,       \* the samples: how their data is cut, and items per table
  MaxTables,     \* tables of a sample at most (4)
  MaxBatch,      \* items per request of the movie sample (25)
  ServiceLimit,  \* requests BatchWriteItem accepts in one call (25)
  MaxRuns,       \* bound: times the command is run
  MaxDeletes     \* bound: tables others delete

\* public: one request for the whole file of a table.  movie: requests of
\* MaxBatch items.
Sample == [form : {"public", "movie"}, sizes : Seq(Nat \ {0})]

\* The files in src/resources fit the code: the public ones are small, and the
\* 4609 movies do not fill their last request.
ASSUME SamplesAssumption ==
  /\ Samples \subseteq Sample
  /\ \A s \in Samples : Len(s.sizes) \in 1..MaxTables
  /\ \A s \in Samples : \A i \in DOMAIN s.sizes :
       IF s.form = "movie" THEN s.sizes[i] % MaxBatch # 0 ELSE s.sizes[i] <= ServiceLimit
ASSUME BoundsAssumption == /\ ServiceLimit \in Nat
                           /\ MaxBatch \in 1..ServiceLimit
                           /\ MaxRuns \in Nat \ {0}
                           /\ MaxDeletes \in Nat

VARIABLES
  sample,     \* the sample, never changed
  status,     \* TableStatus of each table of the sample
  foreign,    \* existing tables that have other keys than the sample's
  stored,     \* the sample's items in each table
  phase,      \* where the command is
  index,      \* the table being created or loaded
  processing, \* processing_tables of wait_table_creation
  asked,      \* those whose DescribeTable is still to be answered
  taken,      \* items of the file put into requests so far
  last,       \* whether the outstanding request is the table's last one
  pending,    \* items of that request not yet reported as processed
  runs,       \* times the command was started
  deletes,    \* tables deleted by others
  disturbed   \* tables deleted by others since the start of this run

remote == <<status, foreign, stored, deletes, disturbed>>
local == <<phase, index, processing, asked, taken, last, pending>>
vars == <<sample, remote, local, runs>>

Statuses == {"absent", "CREATING", "UPDATING", "ACTIVE", "DELETING"}
Tables == DOMAIN sample.sizes
Final == {"done", "failed", "refused", "cut"}
Phases == {"create", "wait", "sleep", "load", "sent"} \cup Final

Init == /\ sample \in Samples
        /\ status \in [Tables -> Statuses]
        /\ foreign \in SUBSET {t \in Tables : status[t] # "absent"}
        /\ stored = [t \in Tables |-> {}]
        /\ phase = "create"
        /\ index = 1
        /\ processing = {}
        /\ asked = {}
        /\ taken = 0
        /\ last = FALSE
        /\ pending = {}
        /\ runs = 1
        /\ deletes = 0
        /\ disturbed = {t \in Tables : status[t] = "DELETING"}

-----------------------------------------------------------------------------
(* Step 1: create the tables *)

\* Mutation of PrepareTable: the table after the last is created too.
PrepareTableOneMore ==
  /\ phase = "create"
  /\ status' = [t \in Tables |-> IF t = index /\ status[t] = "absent"
                                 THEN "CREATING" ELSE status[t]]
  /\ IF index <= Len(sample.sizes)
     THEN index' = index + 1 /\ UNCHANGED <<phase, processing, asked>>
     ELSE /\ index' = 1
          /\ phase' = "wait"
          /\ processing' = Tables
          /\ asked' = Tables
  /\ UNCHANGED <<sample, foreign, stored, deletes, disturbed, taken, last, pending, runs>>

\* A table that exists in any status (ResourceInUseException) is skipped.  After
\* the last one the command waits for all of them.
PrepareTable ==
  /\ phase = "create"
  /\ status' = [status EXCEPT ![index] = IF @ = "absent" THEN "CREATING" ELSE @]
  /\ IF index < Len(sample.sizes)
     THEN index' = index + 1 /\ UNCHANGED <<phase, processing, asked>>
     ELSE /\ index' = 1
          /\ phase' = "wait"
          /\ processing' = Tables
          /\ asked' = Tables
  /\ UNCHANGED <<sample, foreign, stored, deletes, disturbed, taken, last, pending, runs>>

-----------------------------------------------------------------------------
(* Step 2: wait until every table is ACTIVE *)

\* Mutation of Described: a table that is gone is asked for again.
DescribedGoneWaits(t) ==
  /\ phase = "wait"
  /\ t \in asked
  /\ asked' = asked \ {t}
  /\ processing' = IF status[t] = "ACTIVE" THEN processing \ {t} ELSE processing
  /\ UNCHANGED <<sample, remote, phase, index, taken, last, pending, runs>>

\* The calls of one round are made at once and answered in any order.  A table
\* that is gone ends the process, an ACTIVE one is not asked for again.
Described(t) ==
  /\ phase = "wait"
  /\ t \in asked
  /\ IF status[t] = "absent"
     THEN phase' = "failed" /\ UNCHANGED <<asked, processing>>
     ELSE /\ asked' = asked \ {t}
          /\ processing' = IF status[t] = "ACTIVE" THEN processing \ {t} ELSE processing
          /\ phase' = phase
  /\ UNCHANGED <<sample, remote, index, taken, last, pending, runs>>

\* Mutation of RoundEnds: the filter keeps nothing when one table is ACTIVE.
RoundEndsAtFirst ==
  /\ phase = "wait"
  /\ asked = {}
  /\ phase' = IF processing # Tables THEN "load" ELSE "sleep"
  /\ UNCHANGED <<sample, remote, index, processing, asked, taken, last, pending, runs>>

RoundEnds == /\ phase = "wait"
             /\ asked = {}
             /\ phase' = IF processing = {} THEN "load" ELSE "sleep"
             /\ UNCHANGED <<sample, remote, index, processing, asked, taken, last,
                            pending, runs>>

\* Five seconds later the tables still missing are asked for again.
WakeUp == /\ phase = "sleep"
          /\ asked' = processing
          /\ phase' = "wait"
          /\ UNCHANGED <<sample, remote, index, processing, taken, last, pending, runs>>

-----------------------------------------------------------------------------
(* Steps 3 and 4: load the data, table by table *)

\* Mutation of NextRequest: a request is closed one item too late.
NextRequestOneMore ==
  LET n == sample.sizes[index]
      whole == sample.form = "public" \/ taken + MaxBatch + 1 > n
  IN /\ phase = "load"
     /\ taken' = IF whole THEN n ELSE taken + MaxBatch + 1
     /\ pending' = (taken + 1)..taken'
     /\ last' = whole
     /\ phase' = "sent"
     /\ UNCHANGED <<sample, remote, index, processing, asked, runs>>

\* The movie sample's loop closes a request at MaxBatch items and always sends
\* another one when the items have ended, which has then fewer, or none.
NextRequest ==
  LET n == sample.sizes[index]
      whole == sample.form = "public" \/ taken + MaxBatch > n
  IN /\ phase = "load"
     /\ taken' = IF whole THEN n ELSE taken + MaxBatch
     /\ pending' = (taken + 1)..taken'
     /\ last' = whole
     /\ phase' = "sent"
     /\ UNCHANGED <<sample, remote, index, processing, asked, runs>>

Accepted == /\ Cardinality(pending) \in 1..ServiceLimit
            /\ status[index] \in {"ACTIVE", "UPDATING"}
            /\ index \notin foreign

\* Anything but a well-formed request for a table that is there ends the command.
Reject == /\ phase = "sent"
          /\ ~Accepted
          /\ phase' = "failed"
          /\ UNCHANGED <<sample, remote, index, processing, asked, taken, last,
                         pending, runs>>

\* Mutation of Write: what is returned as unprocessed is dropped.
WriteOnce(S) ==
  /\ phase = "sent"
  /\ Accepted
  /\ stored' = [stored EXCEPT ![index] = @ \cup S]
  /\ pending' = {}
  /\ IF last /\ index = Len(sample.sizes)
     THEN phase' = "done" /\ UNCHANGED <<index, taken>>
     ELSE /\ phase' = "load"
          /\ index' = IF last THEN index + 1 ELSE index
          /\ taken' = IF last THEN 0 ELSE taken
  /\ UNCHANGED <<sample, status, foreign, deletes, disturbed, processing, asked,
                 last, runs>>

\* The service executes S and returns the others, which are sent again; when
\* nothing is left the command goes on with the next request or table.
Write(S) ==
  /\ phase = "sent"
  /\ Accepted
  /\ stored' = [stored EXCEPT ![index] = @ \cup S]
  /\ pending' = pending \ S
  /\ CASE pending' # {} -> UNCHANGED <<phase, index, taken>>
       [] pending' = {} /\ last /\ index = Len(sample.sizes) ->
            phase' = "done" /\ UNCHANGED <<index, taken>>
       [] OTHER -> /\ phase' = "load"
                   /\ index' = IF last THEN index + 1 ELSE index
                   /\ taken' = IF last THEN 0 ELSE taken
  /\ UNCHANGED <<sample, status, foreign, deletes, disturbed, processing, asked,
                 last, runs>>

-----------------------------------------------------------------------------
(* The surroundings *)

\* A call fails for a reason the model does not look into: credentials, a limit
\* of the account, the retries of the SDK used up.
Refuse == /\ phase \in {"create", "wait", "sent"}
          /\ phase' = "refused"
          /\ UNCHANGED <<sample, remote, index, processing, asked, taken, last,
                         pending, runs>>

Interrupt == /\ phase \notin Final
             /\ phase' = "cut"
             /\ UNCHANGED <<sample, remote, index, processing, asked, taken, last,
                            pending, runs>>

\* The command is given again for the same sample.
Rerun == /\ phase \in Final
         /\ runs < MaxRuns
         /\ runs' = runs + 1
         /\ phase' = "create"
         /\ index' = 1
         /\ processing' = {}
         /\ asked' = {}
         /\ taken' = 0
         /\ last' = FALSE
         /\ pending' = {}
         /\ disturbed' = {t \in Tables : status[t] = "DELETING"}
         /\ UNCHANGED <<sample, status, foreign, stored, deletes>>

\* DynamoDB completes what is under way.
Settle(t) ==
  /\ t \in Tables
  /\ \/ /\ status[t] \in {"CREATING", "UPDATING"}
        /\ status' = [status EXCEPT ![t] = "ACTIVE"]
        /\ foreign' = foreign
     \/ /\ status[t] = "DELETING"
        /\ status' = [status EXCEPT ![t] = "absent"]
        /\ foreign' = foreign \ {t}
  /\ UNCHANGED <<sample, stored, deletes, disturbed, local, runs>>

DeleteTable(t) ==
  /\ status[t] = "ACTIVE"
  /\ deletes < MaxDeletes
  /\ deletes' = deletes + 1
  /\ status' = [status EXCEPT ![t] = "DELETING"]
  /\ stored' = [stored EXCEPT ![t] = {}]
  /\ disturbed' = disturbed \cup {t}
  /\ UNCHANGED <<sample, foreign, local, runs>>

-----------------------------------------------------------------------------
Command == \/ PrepareTable
           \/ \E t \in asked : Described(t)
           \/ RoundEnds
           \/ WakeUp
           \/ NextRequest
           \/ Reject
           \/ \E S \in SUBSET pending : Write(S)

Others == \/ Refuse
          \/ Interrupt
          \/ Rerun
          \/ \E t \in Tables : Settle(t) \/ DeleteTable(t)

Next == Command \/ Others

Spec == Init /\ [][Next]_vars

\* The process runs on, a request sent again and again is at some point not left
\* completely unprocessed, and DynamoDB completes what is under way.
Progress == \/ PrepareTable
            \/ \E t \in asked : Described(t)
            \/ RoundEnds
            \/ WakeUp
            \/ NextRequest
            \/ Reject
            \/ \E S \in SUBSET pending \ {{}} : Write(S)

FairSpec == /\ Spec
            /\ WF_vars(Progress)
            /\ \A t \in 1..MaxTables : WF_vars(Settle(t))

-----------------------------------------------------------------------------
(* Properties *)

\* The command handles the tables of its sample only, and a request is cut from the
\* items of the table being loaded.
TypeOK == /\ sample \in Samples
          /\ status \in [Tables -> Statuses]
          /\ foreign \subseteq Tables
          /\ DOMAIN stored = Tables
          /\ \A t \in Tables : stored[t] \subseteq 1..sample.sizes[t]
          /\ phase \in Phases
          /\ index \in Tables
          /\ asked \subseteq Tables
          /\ processing \subseteq Tables
          /\ taken \in 0..sample.sizes[index]
          /\ last \in BOOLEAN
          /\ pending \subseteq 1..taken
          /\ runs \in 1..MaxRuns
          /\ deletes \in 0..MaxDeletes
          /\ disturbed \subseteq Tables

\* When the command succeeds every table holds its whole sample, whatever was
\* there, however the service answered, and however often the command had been
\* cut off before; except for a table others deleted while it ran.
LoadedWhenDone ==
  phase = "done" => \A t \in Tables \ disturbed : stored[t] = 1..sample.sizes[t]

\* Nobody having deleted a table and none having other keys, the command fails
\* only when a call is refused: no write comes before its table is ready, and no
\* request is empty or too large.
UndisturbedSucceeds == disturbed = {} /\ foreign = {} => phase # "failed"

\* Items are written only once all the tables are ready, the ones loaded last
\* included: the command that loads has waited for each of them.
ReadyBeforeLoad ==
  phase \in {"load", "sent"} => \A t \in Tables \ disturbed : status[t] = "ACTIVE"

\* The wait has no bound of its own, and yet the command ends: a table under way
\* becomes ACTIVE, and a table deleted meanwhile ends the wait.
Ends == <>(phase \in Final)
=============================================================================
