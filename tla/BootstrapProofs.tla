--------------------------- MODULE BootstrapProofs ---------------------------
(***************************************************************************)
(* Proofs about Bootstrap: its types, that it loads what it says it has    *)
(* loaded, into tables that are ready, and that it fails for no reason of  *)
(* its own, for all samples, tables that are there, answers, interruptions *)
(* and deletions.                                                          *)
(***************************************************************************)
EXTENDS Bootstrap, FiniteSetTheorems, TLAPS

\* A sample is a sequence of sizes.
LEMMA SampleType ==
  ASSUME sample \in Samples
  PROVE  /\ Len(sample.sizes) \in Nat \ {0} /\ Tables = 1..Len(sample.sizes)
         /\ \A t \in Tables : sample.sizes[t] \in Nat \ {0}
<1>1. sample \in Sample /\ Len(sample.sizes) \in 1..MaxTables
  BY SamplesAssumption
<1>2. sample.sizes \in Seq(Nat \ {0})
  BY <1>1 DEF Sample
<1> QED
  BY <1>1, <1>2 DEF Tables

-----------------------------------------------------------------------------
(* Types *)

\* Nothing has been taken before the load, nor from a table just turned to.
NothingTaken ==
  /\ phase \in {"create", "wait", "sleep"} => taken = 0 /\ pending = {}
  /\ phase = "load" => pending = {}

TypeInv == TypeOK /\ NothingTaken

\* The next request is cut from the items that are left of the table.
LEMMA RequestCut ==
  ASSUME TypeInv, NextRequest
  PROVE  /\ taken' \in 0..sample.sizes[index]
         /\ pending' = (taken + 1)..taken'
         /\ taken <= taken'
         /\ last' \in BOOLEAN
         /\ last' => taken' = sample.sizes[index]
<1>1. sample.sizes[index] \in Nat /\ taken \in 0..sample.sizes[index]
  BY SampleType DEF TypeInv, TypeOK
<1>2. MaxBatch \in Nat
  BY BoundsAssumption
<1>3. CASE sample.form = "public" \/ taken + MaxBatch > sample.sizes[index]
  <2>1. taken' = sample.sizes[index] /\ pending' = (taken + 1)..taken'
    BY <1>3 DEF NextRequest
  <2>2. last' \in BOOLEAN
    BY <1>3 DEF NextRequest
  <2> QED
    BY <1>1, <2>1, <2>2
<1>4. CASE ~(sample.form = "public" \/ taken + MaxBatch > sample.sizes[index])
  <2>1. taken' = taken + MaxBatch /\ pending' = (taken + 1)..taken'
    BY <1>4 DEF NextRequest
  <2>2. last' = FALSE
    BY <1>4 DEF NextRequest
  <2>3. taken' \in 0..sample.sizes[index] /\ taken <= taken'
    BY <1>1, <1>2, <1>4, <2>1
  <2> QED
    BY <2>1, <2>2, <2>3
<1> QED
  BY <1>3, <1>4

\* After an answer the command stays with its request, ends, or turns to the next
\* request or table.
LEMMA WriteNext ==
  ASSUME TypeInv, NEW S \in SUBSET pending, Write(S)
  PROVE  \/ pending' # {} /\ UNCHANGED <<phase, index, taken>>
         \/ /\ pending' = {} /\ last /\ index = Len(sample.sizes)
            /\ phase' = "done" /\ UNCHANGED <<index, taken>>
         \/ /\ pending' = {} /\ last /\ index' = index + 1 /\ index' \in Tables
            /\ phase' = "load" /\ taken' = 0
         \/ /\ pending' = {} /\ ~last
            /\ phase' = "load" /\ UNCHANGED <<index, taken>>
<1>1. index \in Tables /\ Tables = 1..Len(sample.sizes) /\ Len(sample.sizes) \in Nat
  BY SampleType DEF TypeInv, TypeOK
<1> QED
  BY <1>1 DEF Write

\* A sample's first run starts with its first table.
LEMMA TypeInit == Init => TypeInv
<1> SUFFICES ASSUME Init PROVE TypeInv
  OBVIOUS
<1>1. Len(sample.sizes) \in Nat \ {0} /\ Tables = 1..Len(sample.sizes)
      /\ \A t \in Tables : sample.sizes[t] \in Nat \ {0}
  BY SampleType DEF Init
<1>2. index \in Tables /\ taken \in 0..sample.sizes[index]
  BY <1>1 DEF Init
<1>3. runs \in 1..MaxRuns /\ deletes \in 0..MaxDeletes
  BY BoundsAssumption DEF Init
<1>4. DOMAIN stored = Tables /\ \A t \in Tables : stored[t] \subseteq 1..sample.sizes[t]
  BY DEF Init
<1> QED
  BY <1>2, <1>3, <1>4 DEF Init, TypeInv, TypeOK, NothingTaken, Phases

\* No step leaves the types.
LEMMA TypeNext == TypeInv /\ [Next]_vars => TypeInv'
<1> SUFFICES ASSUME TypeInv, [Next]_vars PROVE TypeInv'
  OBVIOUS
<1> USE DEF TypeInv, NothingTaken
<1>0. /\ Len(sample.sizes) \in Nat \ {0} /\ Tables = 1..Len(sample.sizes)
      /\ \A t \in Tables : sample.sizes[t] \in Nat \ {0}
      /\ sample' = sample /\ Tables' = Tables
  BY SampleType DEF TypeOK, Next, Command, Others, PrepareTable, Described, RoundEnds, WakeUp, NextRequest,
     Reject, Write, Refuse, Interrupt, Rerun, Settle, DeleteTable, vars, Tables
<1>1. CASE PrepareTable
  <2>1. status' \in [Tables -> Statuses]
    BY <1>1 DEF PrepareTable, TypeOK, Statuses
  <2>2. index' \in Tables /\ taken' = 0
    BY <1>0, <1>1 DEF PrepareTable, TypeOK
  <2>3. phase' \in {"create", "wait"} /\ asked' \subseteq Tables /\ processing' \subseteq Tables
    BY <1>1 DEF PrepareTable, TypeOK
  <2> QED
    BY <1>0, <1>1, <2>1, <2>2, <2>3 DEF PrepareTable, TypeOK, Phases
<1>2. ASSUME NEW t \in asked, Described(t) PROVE TypeInv'
  BY <1>0, <1>2 DEF Described, TypeOK, Phases, Final, remote
<1>3. CASE RoundEnds
  BY <1>0, <1>3 DEF RoundEnds, TypeOK, Phases, remote
<1>4. CASE WakeUp
  BY <1>0, <1>4 DEF WakeUp, TypeOK, Phases, remote
<1>5. CASE NextRequest
  <2>1. taken \in Nat /\ taken' \in Nat
    BY <1>0, <1>5, RequestCut DEF TypeOK
  <2>2. pending' \subseteq 1..taken'
    BY <1>5, <2>1, RequestCut
  <2> QED
    BY <1>0, <1>5, <2>2, RequestCut DEF NextRequest, TypeOK, Phases, remote
<1>6. CASE Reject
  BY <1>0, <1>6 DEF Reject, TypeOK, Phases, Final, remote
<1>7. ASSUME NEW S \in SUBSET pending, Write(S) PROVE TypeInv'
  <2>1. DOMAIN stored' = Tables /\ \A t \in Tables : stored'[t] \subseteq 1..sample.sizes[t]
    BY <1>0, <1>7 DEF Write, TypeOK
  <2>2. phase' \in Phases
    BY <1>7, WriteNext DEF TypeOK, Phases, Final
  <2>4. index' \in Tables /\ taken' \in 0..sample.sizes[index']
    <3>1. index' \in Tables
      BY <1>7, WriteNext DEF TypeOK
    <3>2. UNCHANGED <<index, taken>> \/ taken' = 0
      BY <1>7, WriteNext
    <3> QED
      BY <1>0, <3>1, <3>2 DEF TypeOK
  <2>5. pending' \subseteq 1..taken'
    <3>1. pending' \subseteq pending
      BY <1>7 DEF Write
    <3>2. pending' = {} \/ taken' = taken
      BY <1>7, WriteNext
    <3> QED
      BY <3>1, <3>2 DEF TypeOK
  <2>3. NothingTaken'
    BY <1>7, WriteNext DEF Write
  <2> QED
    BY <1>0, <1>7, <2>1, <2>2, <2>3, <2>4, <2>5 DEF Write, TypeOK
<1>8. CASE Refuse \/ Interrupt
  BY <1>0, <1>8 DEF Refuse, Interrupt, TypeOK, Phases, Final, remote
<1>9. CASE Rerun
  <2>1. index' \in Tables /\ taken' \in 0..sample.sizes[index']
    BY <1>0, <1>9 DEF Rerun
  <2>2. runs' \in 1..MaxRuns
    BY <1>9, BoundsAssumption DEF Rerun, TypeOK
  <2>3. phase' \in Phases /\ pending' \subseteq 1..taken' /\ disturbed' \subseteq Tables
    BY <1>9 DEF Rerun, Phases
  <2> QED
    BY <1>0, <1>9, <2>1, <2>2, <2>3 DEF Rerun, TypeOK
<1>10. ASSUME NEW t \in Tables, Settle(t) \/ DeleteTable(t) PROVE TypeInv'
  <2>1. status' \in [Tables -> Statuses]
    BY <1>10 DEF Settle, DeleteTable, TypeOK, Statuses
  <2>2. DOMAIN stored' = Tables /\ \A u \in Tables : stored'[u] \subseteq 1..sample.sizes[u]
    BY <1>10 DEF Settle, DeleteTable, TypeOK
  <2>3. deletes' \in 0..MaxDeletes
    BY <1>10, BoundsAssumption DEF Settle, DeleteTable, TypeOK
  <2>4. foreign' \subseteq Tables /\ disturbed' \subseteq Tables
    BY <1>10 DEF Settle, DeleteTable, TypeOK
  <2>5. UNCHANGED <<local, runs>>
    BY <1>10 DEF Settle, DeleteTable
  <2> QED
    BY <1>0, <2>1, <2>2, <2>3, <2>4, <2>5 DEF TypeOK, local
<1>11. CASE UNCHANGED vars
  BY <1>11 DEF vars, remote, local, TypeOK, Tables
<1> QED
  BY <1>1, <1>2, <1>3, <1>4, <1>5, <1>6, <1>7, <1>8, <1>9, <1>10, <1>11 DEF Next, Command, Others

\* The command handles the tables of its sample only, and cuts its requests from
\* the items of the table it loads.
THEOREM TypeCorrect == Spec => []TypeOK
<1>1. TypeInv => TypeOK
  BY DEF TypeInv
<1> QED
  BY <1>1, TypeInit, TypeNext, PTL DEF Spec

-----------------------------------------------------------------------------
(* The wait *)

\* What is not waited for any more is ACTIVE, and the load waits for nothing.
Waited ==
  /\ phase \in {"wait", "sleep", "load", "sent"} =>
       \A t \in Tables \ (processing \cup disturbed) : status[t] = "ACTIVE"
  /\ phase \in {"load", "sent"} => processing = {}

\* When the command starts it waits for nothing.
LEMMA WaitedInit == Init => Waited
BY DEF Init, Waited

\* The service makes no table less ready; those others delete are disturbed.
LEMMA WaitedSettle ==
  ASSUME TypeOK, Waited, NEW t \in Tables, Settle(t) \/ DeleteTable(t)
  PROVE  Waited'
<1>1. Tables' = Tables /\ UNCHANGED <<phase, processing>>
  BY DEF Settle, DeleteTable, Tables, local
<1>2. ASSUME NEW u \in Tables, status[u] = "ACTIVE", u \notin disturbed'
      PROVE  status'[u] = "ACTIVE"
  BY <1>2 DEF Settle, DeleteTable, TypeOK
<1>3. disturbed \subseteq disturbed'
  BY DEF Settle, DeleteTable
<1> QED
  BY <1>1, <1>2, <1>3 DEF Waited

\* A table leaves the wait when it was seen to be ACTIVE.
LEMMA WaitedNext == TypeOK /\ Waited /\ [Next]_vars => Waited'
<1> SUFFICES ASSUME TypeOK, Waited, [Next]_vars PROVE Waited'
  OBVIOUS
<1>1. CASE PrepareTable
  <2>1. phase' = "create" \/ (phase' = "wait" /\ processing' = Tables)
    BY <1>1 DEF PrepareTable
  <2>2. Tables' = Tables
    BY <1>1 DEF PrepareTable, Tables
  <2> QED
    BY <2>1, <2>2 DEF Waited
<1>2. ASSUME NEW t \in asked, Described(t) PROVE Waited'
  BY <1>2 DEF Described, Waited, remote, Tables
<1>3. CASE RoundEnds \/ WakeUp
  BY <1>3 DEF RoundEnds, WakeUp, Waited, remote, Tables
<1>4. CASE NextRequest
  BY <1>4 DEF NextRequest, Waited, remote, Tables
<1>5. ASSUME NEW S \in SUBSET pending, Write(S) PROVE Waited'
  <2>1. phase = "sent" /\ phase' \in {"load", "sent", "done"}
    BY <1>5 DEF Write
  <2>2. UNCHANGED <<status, disturbed, processing, sample>>
    BY <1>5 DEF Write
  <2> QED
    BY <2>1, <2>2 DEF Waited, Tables
<1>6. CASE Reject \/ Refuse \/ Interrupt \/ Rerun
  BY <1>6 DEF Reject, Refuse, Interrupt, Rerun, Waited
<1>7. ASSUME NEW t \in Tables, Settle(t) \/ DeleteTable(t) PROVE Waited'
  BY <1>7, WaitedSettle
<1>8. CASE UNCHANGED vars
  BY <1>8 DEF vars, remote, local, Waited, Tables
<1> QED
  BY <1>1, <1>2, <1>3, <1>4, <1>5, <1>6, <1>7, <1>8 DEF Next, Command, Others

\* Nothing is written before every table is ready, but those others delete.
THEOREM ReadyFirst == Spec => []ReadyBeforeLoad
<1>1. Waited => ReadyBeforeLoad
  BY DEF Waited, ReadyBeforeLoad
<1> QED
  BY <1>1, WaitedInit, WaitedNext, TypeCorrect, PTL DEF Spec

-----------------------------------------------------------------------------
(* The load *)

\* What has been acknowledged is stored: the tables before this one, and of this one
\* what was taken and is not pending.
Loaded ==
  /\ phase \in {"wait", "sleep"} => index = 1
  /\ phase \in {"load", "sent"} =>
       \A t \in Tables \ disturbed : t < index => stored[t] = 1..sample.sizes[t]
  /\ phase \in {"load", "sent"} /\ index \notin disturbed => (1..taken) \ pending \subseteq stored[index]
  /\ phase = "sent" /\ last => taken = sample.sizes[index]
  /\ LoadedWhenDone

\* Nothing has been loaded at first.
LEMMA LoadedInit == Init => Loaded
BY DEF Init, Loaded, LoadedWhenDone

\* An answer adds to the table what it takes from the request.
LEMMA LoadedWrite ==
  ASSUME TypeInv, Loaded, NEW S \in SUBSET pending, Write(S), TypeOK'
  PROVE  Loaded'
<1>0. /\ Tables = 1..Len(sample.sizes) /\ Tables' = Tables /\ Len(sample.sizes) \in Nat
      /\ index \in Tables /\ UNCHANGED <<sample, disturbed, last>> /\ phase = "sent"
  BY SampleType DEF TypeInv, TypeOK, Write, Tables
<1>1. \A t \in Tables : stored'[t] = IF t = index THEN stored[t] \cup S ELSE stored[t]
  BY DEF Write, TypeInv, TypeOK
<1>2. pending' = pending \ S
  BY DEF Write
<1>3. index \notin disturbed => (1..taken) \ pending' \subseteq stored'[index]
  BY <1>0, <1>1, <1>2 DEF Loaded
<1>4. ASSUME pending' = {}, last, index \notin disturbed
      PROVE  stored'[index] = 1..sample.sizes[index]
  <2>1. taken = sample.sizes[index]
    BY <1>0, <1>4 DEF Loaded
  <2>2. stored'[index] \subseteq 1..sample.sizes[index]
    BY <1>0 DEF TypeOK
  <2> QED
    BY <1>3, <1>4, <2>1, <2>2
<1>5. ASSUME NEW t \in Tables \ disturbed, t < index
      PROVE  stored'[t] = 1..sample.sizes[t]
  <2>1. t # index
    BY <1>0, <1>5
  <2>2. stored[t] = 1..sample.sizes[t]
    BY <1>0, <1>5 DEF Loaded
  <2> QED
    BY <1>1, <2>1, <2>2
<1>6. CASE pending' # {} /\ UNCHANGED <<phase, index, taken>>
  <2>1. last => taken = sample.sizes[index]
    BY <1>0 DEF Loaded
  <2> QED
    BY <1>0, <1>3, <1>5, <1>6, <2>1 DEF Loaded, LoadedWhenDone
<1>7. CASE /\ pending' = {} /\ last /\ index = Len(sample.sizes)
           /\ phase' = "done" /\ UNCHANGED <<index, taken>>
  <2>1. ASSUME NEW t \in Tables \ disturbed PROVE stored'[t] = 1..sample.sizes[t]
    <3>1. t = index \/ t < index
      BY <1>0, <1>7
    <3> QED
      BY <1>4, <1>5, <1>7, <3>1
  <2> QED
    BY <1>0, <1>7, <2>1 DEF Loaded, LoadedWhenDone
<1>8. CASE /\ pending' = {} /\ last /\ index' = index + 1 /\ index' \in Tables
           /\ phase' = "load" /\ taken' = 0
  <2>1. ASSUME NEW t \in Tables \ disturbed, t < index' PROVE stored'[t] = 1..sample.sizes[t]
    <3>1. t = index \/ t < index
      BY <1>0, <1>8, <2>1
    <3> QED
      BY <1>4, <1>5, <1>8, <3>1
  <2>2. 1..taken' = {}
    BY <1>8
  <2> QED
    BY <1>0, <1>8, <2>1, <2>2 DEF Loaded, LoadedWhenDone
<1>9. CASE /\ pending' = {} /\ ~last
           /\ phase' = "load" /\ UNCHANGED <<index, taken>>
  BY <1>0, <1>3, <1>5, <1>9 DEF Loaded, LoadedWhenDone
<1> QED
  BY <1>6, <1>7, <1>8, <1>9, WriteNext

\* Only answers to writes, and the deletions of others, change what is stored.
LEMMA LoadedNext == TypeInv /\ TypeInv' /\ Loaded /\ [Next]_vars => Loaded'
<1> SUFFICES ASSUME TypeInv, TypeInv', Loaded, [Next]_vars PROVE Loaded'
  OBVIOUS
<1>1. CASE PrepareTable
  BY <1>1 DEF PrepareTable, Loaded, LoadedWhenDone
<1>2. ASSUME NEW t \in asked, Described(t) PROVE Loaded'
  BY <1>2 DEF Described, Loaded, LoadedWhenDone, remote, Tables
<1>3. CASE RoundEnds
  <2>1. index = 1 /\ taken = 0
    BY <1>3 DEF RoundEnds, Loaded, TypeInv, NothingTaken
  <2>2. \A t \in Tables : ~(t < index)
    BY <2>1, SampleType DEF TypeInv, TypeOK
  <2>3. 1..taken = {}
    BY <2>1
  <2> QED
    BY <1>3, <2>1, <2>2, <2>3 DEF RoundEnds, Loaded, LoadedWhenDone, remote, Tables
<1>4. CASE WakeUp
  BY <1>4 DEF WakeUp, Loaded, LoadedWhenDone, remote, Tables
<1>5. CASE NextRequest
  <2>1. phase = "load" /\ phase' = "sent" /\ UNCHANGED <<sample, remote, index>>
    BY <1>5 DEF NextRequest
  <2>2. pending = {} /\ taken \in Nat /\ taken' \in Nat
    BY <2>1, SampleType, <1>5, RequestCut DEF TypeInv, TypeOK, NothingTaken
  <2>3. (1..taken') \ pending' \subseteq (1..taken) \ pending
    BY <1>5, <2>2, RequestCut
  <2>4. last' => taken' = sample.sizes[index]
    BY <1>5, RequestCut
  <2> QED
    BY <2>1, <2>3, <2>4 DEF Loaded, LoadedWhenDone, remote, Tables
<1>6. ASSUME NEW S \in SUBSET pending, Write(S) PROVE Loaded'
  BY <1>6, LoadedWrite DEF TypeInv
<1>7. CASE Reject \/ Refuse \/ Interrupt \/ Rerun
  BY <1>7 DEF Reject, Refuse, Interrupt, Rerun, Loaded, LoadedWhenDone
<1>8. ASSUME NEW t \in Tables, Settle(t) \/ DeleteTable(t) PROVE Loaded'
  <2>1. UNCHANGED <<local, sample>> /\ disturbed \subseteq disturbed'
    BY <1>8 DEF Settle, DeleteTable
  <2>2. \A u \in Tables : u \notin disturbed' => stored'[u] = stored[u]
    BY <1>8 DEF Settle, DeleteTable, TypeInv, TypeOK
  <2>3. index \in Tables
    BY DEF TypeInv, TypeOK
  <2> QED
    BY <2>1, <2>2, <2>3 DEF Loaded, LoadedWhenDone, local, Tables
<1>9. CASE UNCHANGED vars
  BY <1>9 DEF vars, remote, local, Loaded, LoadedWhenDone, Tables
<1> QED
  BY <1>1, <1>2, <1>3, <1>4, <1>5, <1>6, <1>7, <1>8, <1>9 DEF Next, Command, Others

\* A run that succeeds has stored the whole sample, but in tables others deleted.
THEOREM SampleLoaded == Spec => []LoadedWhenDone
<1>1. Loaded => LoadedWhenDone
  BY DEF Loaded
<1> QED
  BY <1>1, TypeInit, TypeNext, LoadedInit, LoadedNext, PTL DEF Spec

-----------------------------------------------------------------------------
(* Failure *)

\* Multiples of a number.
LEMMA NextMultiple ==
  ASSUME NEW m \in Nat \ {0}, NEW a \in Nat, a % m = 0
  PROVE  (a + m) % m = 0
<1>1. \A k \in Nat : (k * m) % m = 0
  OBVIOUS
<1>2. a = (a \div m) * m /\ a \div m \in Nat
  <2>1. a = (a \div m) * m + (a % m) /\ a \div m \in Nat
    OBVIOUS
  <2> QED
    BY <2>1
<1>3. a + m = ((a \div m) + 1) * m
  BY <1>2
<1>4. (((a \div m) + 1) * m) % m = 0
  <2>1. (a \div m) + 1 \in Nat
    BY <1>2
  <2> QED
    BY <1>1, <2>1
<1> QED
  BY <1>3, <1>4

\* Tables nobody deletes are there once they have been prepared.
Present ==
  disturbed = {} =>
    \A t \in Tables :
      /\ status[t] # "DELETING"
      /\ phase \in {"wait", "sleep", "load", "sent"} \/ (phase = "create" /\ t < index) =>
           status[t] # "absent"

\* A request is never empty nor larger than the service accepts: a public sample
\* is one request, and the movies' number is no multiple of MaxBatch.
Acceptable ==
  /\ phase = "load" => IF sample.form = "public" THEN taken = 0 ELSE taken % MaxBatch = 0
  /\ phase = "sent" => /\ IsFiniteSet(pending) /\ Cardinality(pending) \in 1..ServiceLimit
                       /\ ~last => sample.form = "movie" /\ taken % MaxBatch = 0

Undisturbed == Present /\ Acceptable /\ UndisturbedSucceeds

\* Tables that are going away at the start count as disturbed.
LEMMA UndisturbedInit == Init => Undisturbed
<1> SUFFICES ASSUME Init PROVE Undisturbed
  OBVIOUS
<1>1. \A t \in Tables : ~(t < index)
  BY SampleType DEF Init
<1> QED
  BY <1>1 DEF Init, Undisturbed, Present, Acceptable, UndisturbedSucceeds

\* The sizes of requests.
LEMMA CutAcceptable ==
  ASSUME TypeInv, Acceptable, NextRequest
  PROVE  Acceptable'
<1> DEFINE n == sample.sizes[index]
           whole == sample.form = "public" \/ taken + MaxBatch > n
<1>1. /\ n \in Nat \ {0} /\ taken \in 0..n /\ MaxBatch \in Nat \ {0} /\ MaxBatch <= ServiceLimit
      /\ ServiceLimit \in Nat /\ sample.form \in {"public", "movie"}
      /\ IF sample.form = "movie" THEN n % MaxBatch # 0 ELSE n <= ServiceLimit
  BY SampleType, SamplesAssumption, BoundsAssumption DEF TypeInv, TypeOK, Tables, Sample
<1>2. /\ taken' = (IF whole THEN n ELSE taken + MaxBatch) /\ pending' = (taken + 1)..taken'
      /\ phase = "load" /\ phase' = "sent" /\ UNCHANGED sample
  BY DEF NextRequest
<1>3. last' => whole
  BY DEF NextRequest
<1>4. ~last' => ~whole
  BY DEF NextRequest
<1>5. taken' \in Nat /\ taken' - taken \in 1..ServiceLimit
  <2>1. CASE sample.form = "public"
    BY <1>1, <1>2, <2>1 DEF Acceptable
  <2>2. CASE sample.form = "movie" /\ taken + MaxBatch > n
    <3>1. taken # n
      BY <1>1, <1>2, <2>2 DEF Acceptable
    <3> QED
      BY <1>1, <1>2, <2>2, <3>1
  <2>3. CASE sample.form = "movie" /\ ~(taken + MaxBatch > n)
    BY <1>1, <1>2, <2>3
  <2> QED
    BY <1>1, <2>1, <2>2, <2>3
<1>6. IsFiniteSet(pending') /\ Cardinality(pending') = taken' - taken
  <2>1. taken + 1 \in Int /\ taken' \in Int /\ ~(taken + 1 > taken')
    BY <1>1, <1>5
  <2>2. /\ IsFiniteSet((taken + 1)..taken')
        /\ Cardinality((taken + 1)..taken') = taken' - (taken + 1) + 1
    BY <2>1, FS_Interval
  <2> QED
    BY <1>1, <1>2, <1>5, <2>2
<1>7. ASSUME ~last' PROVE sample.form = "movie" /\ taken' % MaxBatch = 0
  <2>1. sample.form = "movie" /\ taken' = taken + MaxBatch
    BY <1>1, <1>2, <1>4, <1>7
  <2>2. taken % MaxBatch = 0
    BY <1>2, <2>1 DEF Acceptable
  <2> QED
    BY <1>1, <2>1, <2>2, NextMultiple
<1> QED
  BY <1>2, <1>5, <1>6, <1>7 DEF Acceptable

\* What is sent again is smaller; a next table starts at its beginning.
LEMMA WriteAcceptable ==
  ASSUME TypeInv, Acceptable, NEW S \in SUBSET pending, Write(S)
  PROVE  Acceptable'
<1>1. /\ phase = "sent" /\ UNCHANGED <<sample, last>> /\ pending' \subseteq pending
      /\ IsFiniteSet(pending) /\ Cardinality(pending) \in 1..ServiceLimit
      /\ ~last => sample.form = "movie" /\ taken % MaxBatch = 0
  BY DEF Write, Acceptable
<1>2. MaxBatch \in Nat \ {0} /\ ServiceLimit \in Nat /\ 0 % MaxBatch = 0
  BY BoundsAssumption
<1>3. ASSUME pending' # {} PROVE IsFiniteSet(pending') /\ Cardinality(pending') \in 1..ServiceLimit
  <2>1. IsFiniteSet(pending') /\ Cardinality(pending') <= Cardinality(pending) /\ Cardinality(pending') \in Nat
    BY <1>1, FS_Subset, FS_CardinalityType
  <2>2. Cardinality(pending') # 0
    BY <1>3, <2>1, FS_EmptySet
  <2> QED
    BY <1>1, <1>2, <2>1, <2>2
<1> QED
  BY <1>1, <1>2, <1>3, WriteNext DEF Acceptable

\* Undisturbed, no answer the command gets ends it.
LEMMA UndisturbedNext ==
  TypeInv /\ Waited /\ Undisturbed /\ [Next]_vars => Undisturbed'
<1> SUFFICES ASSUME TypeInv, Waited, Undisturbed, [Next]_vars PROVE Undisturbed'
  OBVIOUS
<1> USE DEF Undisturbed
<1>0. Tables = 1..Len(sample.sizes) /\ Len(sample.sizes) \in Nat \ {0} /\ index \in Tables
  BY SampleType DEF TypeInv, TypeOK
<1>1. CASE PrepareTable
  <2>1. UNCHANGED <<sample, disturbed>> /\ Tables' = Tables /\ phase = "create"
    BY <1>1 DEF PrepareTable, Tables
  <2>2. \A t \in Tables : status'[t] = IF t = index /\ status[t] = "absent" THEN "CREATING" ELSE status[t]
    BY <1>1 DEF PrepareTable, TypeInv, TypeOK
  <2>3. \/ phase' = "create" /\ index' = index + 1
        \/ phase' = "wait" /\ index = Len(sample.sizes)
    BY <1>0, <1>1 DEF PrepareTable
  <2>4. Present'
    <3> SUFFICES ASSUME disturbed = {}, NEW t \in Tables
                 PROVE  /\ status'[t] # "DELETING"
                        /\ phase' = "wait" \/ (phase' = "create" /\ t < index') => status'[t] # "absent"
      BY <2>1, <2>3 DEF Present
    <3>1. status'[t] # "DELETING"
      BY <2>2 DEF Present
    <3>2. ASSUME phase' = "wait" \/ (phase' = "create" /\ t < index')
          PROVE  t < index \/ t = index
      BY <1>0, <2>3, <3>2
    <3> QED
      BY <2>1, <2>2, <3>1, <3>2 DEF Present
  <2> QED
    BY <2>1, <2>3, <2>4 DEF Acceptable, UndisturbedSucceeds
<1>2. ASSUME NEW t \in asked, Described(t) PROVE Undisturbed'
  <2>1. phase = "wait" /\ t \in Tables
    BY <1>2 DEF Described, TypeInv, TypeOK
  <2>2. disturbed = {} => phase' = "wait"
    BY <1>2, <2>1 DEF Described, Present
  <2>3. UNCHANGED <<sample, status, disturbed, foreign, index>> /\ Tables' = Tables
    BY <1>2 DEF Described, remote, Tables
  <2>4. phase' \in {"wait", "failed"}
    BY <1>2, <2>1 DEF Described
  <2> QED
    BY <2>1, <2>2, <2>3, <2>4 DEF Present, Acceptable, UndisturbedSucceeds
<1>3. CASE RoundEnds \/ WakeUp
  <2>1. 0 % MaxBatch = 0
    BY BoundsAssumption
  <2>2. /\ phase \in {"wait", "sleep"} /\ phase' \in {"wait", "sleep", "load"} /\ taken = 0
        /\ UNCHANGED <<sample, status, disturbed, foreign, index, taken>> /\ Tables' = Tables
    BY <1>3 DEF RoundEnds, WakeUp, TypeInv, NothingTaken, remote, Tables
  <2> QED
    BY <2>1, <2>2 DEF Present, Acceptable, UndisturbedSucceeds
<1>4. CASE NextRequest
  BY <1>4, CutAcceptable DEF NextRequest, remote, Present, UndisturbedSucceeds, Tables
<1>5. CASE Reject
  <2>1. disturbed = {} /\ foreign = {} => Accepted
    BY <1>0, <1>5 DEF Reject, Accepted, Acceptable, Waited
  <2> QED
    BY <1>5, <2>1 DEF Reject, remote, Present, Acceptable, UndisturbedSucceeds, Tables
<1>6. ASSUME NEW S \in SUBSET pending, Write(S) PROVE Undisturbed'
  <2>1. phase = "sent" /\ phase' \in {"load", "sent", "done"} /\ UNCHANGED <<sample, status, foreign, disturbed>>
    BY <1>6 DEF Write
  <2> QED
    BY <1>6, <2>1, WriteAcceptable DEF Present, UndisturbedSucceeds, Tables
<1>7. CASE Refuse \/ Interrupt
  BY <1>7 DEF Refuse, Interrupt, remote, Present, Acceptable, UndisturbedSucceeds, Tables
<1>8. CASE Rerun
  <2>1. \A t \in Tables : ~(t < index')
    BY <1>0, <1>8 DEF Rerun
  <2> QED
    BY <1>8, <2>1 DEF Rerun, Present, Acceptable, UndisturbedSucceeds, Tables
<1>9. ASSUME NEW t \in Tables, Settle(t) \/ DeleteTable(t) PROVE Undisturbed'
  <2>1. UNCHANGED <<local, sample>> /\ Tables' = Tables
    BY <1>9 DEF Settle, DeleteTable, Tables
  <2>2. CASE disturbed' # {}
    BY <2>1, <2>2 DEF Present, Acceptable, UndisturbedSucceeds, local
  <2>3. CASE disturbed' = {}
    \* With nothing deleted, a table can only become ACTIVE.
    <3>1. disturbed = {} /\ foreign' = foreign /\ status' = [status EXCEPT ![t] = "ACTIVE"]
      BY <1>9, <2>3 DEF Settle, DeleteTable, Present
    <3>2. \A u \in Tables : status'[u] = status[u] \/ status'[u] = "ACTIVE"
      BY <3>1 DEF TypeInv, TypeOK
    <3> QED
      BY <2>1, <3>1, <3>2 DEF Present, Acceptable, UndisturbedSucceeds, local
  <2> QED
    BY <2>2, <2>3
<1>10. CASE UNCHANGED vars
  BY <1>10 DEF vars, remote, local, Present, Acceptable, UndisturbedSucceeds, Tables
<1> QED
  BY <1>1, <1>2, <1>3, <1>4, <1>5, <1>6, <1>7, <1>8, <1>9, <1>10 DEF Next, Command, Others

\* Left alone, the command fails only because a call is refused.
THEOREM FailsOnlyRefused == Spec => []UndisturbedSucceeds
<1>1. Undisturbed => UndisturbedSucceeds
  BY DEF Undisturbed
<1>2. TypeInv => TypeOK
  BY DEF TypeInv
<1> QED
  BY <1>1, <1>2, TypeInit, TypeNext, WaitedInit, WaitedNext, UndisturbedInit, UndisturbedNext, PTL DEF Spec
=============================================================================
