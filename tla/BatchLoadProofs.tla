-------------------------- MODULE BatchLoadProofs --------------------------
(***************************************************************************)
(* Proofs about BatchLoad, for every set of files, batch size and retry    *)
(* policy: its type invariant; that no row is lost, rows of a key end in   *)
(* file order, and only well-formed rows are written; that the progress    *)
(* shown is true, a stop can be resumed and a clean file is accepted; and  *)
(* that it implements KeyedLoad.                                           *)
(***************************************************************************)
EXTENDS BatchLoad, FiniteSetTheorems, TLAPS

(***************************************************************************)
(* What TypeOK needs beside itself: a command that has not opened its      *)
(* input has read nothing, and while rows are read nothing is pending.     *)
(***************************************************************************)
NothingReadYet == phase = "start" => taken = 0
NothingPending == phase \in {"start", "read", "convert"} => pending = {}

TypeInv == TypeOK /\ NothingReadYet /\ NothingPending

\* Executing rows that were read keeps the table's type.
LEMMA ExecuteType ==
  ASSUME TypeOK, NEW S \in SUBSET (1..taken), Execute(S)
  PROVE  /\ applied' \subseteq 1..taken
         /\ table' \in [Keys -> 0..taken]
<1>1. S \subseteq 0..taken
  BY DEF TypeOK
<1>2. ASSUME NEW k \in Keys
      PROVE  (IF \E i \in S : file[i].key = k
              THEN CHOOSE i \in S : file[i].key = k
              ELSE table[k]) \in 0..taken
  <2>1. table[k] \in 0..taken
    BY DEF TypeOK
  <2>2. CASE \E i \in S : file[i].key = k
    <3>1. (CHOOSE i \in S : file[i].key = k) \in S
      BY <2>2
    <3> QED
      BY <1>1, <2>2, <3>1
  <2>3. CASE ~ \E i \in S : file[i].key = k
    BY <2>1, <2>3
  <2> QED
    BY <2>2, <2>3
<1> QED
  BY <1>2 DEF TypeOK, Execute

\* Reading more rows does not invalidate what is known of those read before.
LEMMA ReadMore ==
  ASSUME TypeOK, NEW n \in Nat, taken <= n
  PROVE  /\ 1..taken \subseteq 1..n
         /\ applied \subseteq 1..n
         /\ table \in [Keys -> 0..n]
         /\ strays \subseteq SUBSET (1..n)
<1>1. taken \in Nat
  BY DEF TypeOK
<1>2. 1..taken \subseteq 1..n /\ 0..taken \subseteq 0..n
  BY <1>1
<1>3. table \in [Keys -> 0..n]
  <2>1. table \in [Keys -> 0..taken]
    BY DEF TypeOK
  <2> QED
    BY <1>2, <2>1
<1> QED
  BY <1>2, <1>3 DEF TypeOK

\* The rows read are finitely many, so that a chunk can be counted.
LEMMA ChunkCount ==
  ASSUME TypeOK
  PROVE  Cardinality(chunk) \in Nat
<1>1. taken \in Int
  BY DEF TypeOK
<1>2. IsFiniteSet(1..taken)
  BY <1>1, FS_Interval
<1>3. IsFiniteSet(chunk)
  BY <1>2, FS_Subset DEF TypeOK
<1> QED
  BY <1>3, FS_CardinalityType

\* The initial states satisfy the typing invariant.
LEMMA TypeInit == Init => TypeInv
  BY FilesAssumption, AttemptsAssumption
     DEF Init, TypeInv, TypeOK, NothingReadYet, NothingPending, Phases, Final

\* Every step of the command and the service keeps it.
LEMMA TypeStep == TypeInv /\ [Next]_vars => TypeInv'
<1> SUFFICES ASSUME TypeInv, [Next]_vars
             PROVE  TypeInv'
  OBVIOUS
<1> USE BatchAssumption, AttemptsAssumption
<1>t. TypeOK
  BY DEF TypeInv
<1>l. Len(file) \in Nat
  BY <1>t DEF TypeOK
<1> USE DEF TypeInv, TypeOK, NothingReadYet, NothingPending, Phases, Final, service, vars, loader
<1>1. CASE Cancel
  BY <1>1 DEF Cancel
<1>2. CASE OpenFails
  BY <1>2 DEF OpenFails
<1>3. CASE Open
  <2>1. todo' \in 0..Len(file)
    BY <1>3 DEF Open
  <2>2. taken = 0 /\ chunk = {}
    BY <1>3 DEF Open
  <2> QED
    BY <1>3, <1>l, <2>1, <2>2 DEF Open
<1>4. CASE NextChunk
  <2>1. taken' \in Nat /\ taken <= taken' /\ taken' <= todo
    BY <1>4, <1>l DEF NextChunk
  <2>2. /\ applied \subseteq 1..taken' /\ table \in [Keys -> 0..taken']
        /\ strays \subseteq SUBSET (1..taken')
    BY <1>t, <2>1, ReadMore
  <2>3. chunk' \subseteq 1..taken' /\ pending = {}
    BY <1>4, <1>l, <2>1 DEF NextChunk
  <2> QED
    BY <1>4, <1>l, <2>1, <2>2, <2>3 DEF NextChunk
<1>5. CASE CsvRow
  <2>1. taken' \in Nat /\ taken <= taken' /\ taken' <= todo
    BY <1>5, <1>l DEF CsvRow
  <2>2. /\ applied \subseteq 1..taken' /\ table \in [Keys -> 0..taken']
        /\ strays \subseteq SUBSET (1..taken') /\ 1..taken \subseteq 1..taken'
    BY <1>t, <2>1, ReadMore
  <2>3. chunk' \subseteq 1..taken' /\ pending \subseteq chunk'
    BY <1>5, <1>l, <2>1, <2>2 DEF CsvRow
  <2> QED
    BY <1>5, <1>l, <2>1, <2>2, <2>3 DEF CsvRow
<1>6. CASE CsvRest
  BY <1>6 DEF CsvRest
<1>7. CASE Gather
  <2>1. taken' \in Nat /\ taken <= taken' /\ taken' = todo
    BY <1>7, <1>l DEF Gather
  <2>2. /\ applied \subseteq 1..taken' /\ table \in [Keys -> 0..taken']
        /\ strays \subseteq SUBSET (1..taken')
    BY <1>t, <2>1, ReadMore
  <2>3. chunk' \subseteq 1..taken' /\ pending = {}
    BY <1>7, <1>l, <2>1 DEF Gather
  <2> QED
    BY <1>7, <1>l, <2>1, <2>2, <2>3 DEF Gather
<1>8. CASE Convert
  <2>1. CASE Convertible(chunk)
    BY <1>8, <2>1 DEF Convert
  <2>2. CASE ~Convertible(chunk)
    BY <1>8, <2>2 DEF Convert
  <2> QED
    BY <2>1, <2>2
<1>9. CASE Finish
  BY <1>9 DEF Finish
<1>10. CASE Reject
  BY <1>10 DEF Reject
<1>11. ASSUME NEW S \in SUBSET pending, Unprocessed(S)
       PROVE  TypeInv'
  <2>1. Execute(S) /\ S \subseteq 1..taken
    BY <1>11 DEF Unprocessed
  <2>2. applied' \subseteq 1..taken /\ table' \in [Keys -> 0..taken]
    BY <1>t, <2>1, ExecuteType
  <2> QED
    BY <1>11, <2>2 DEF Unprocessed
<1>12. CASE AllProcessed
  <2>1. Execute(pending) /\ pending \subseteq 1..taken
    BY <1>12 DEF AllProcessed
  <2>2. applied' \subseteq 1..taken /\ table' \in [Keys -> 0..taken]
    BY <1>t, <2>1, ExecuteType
  <2>3. Cardinality(chunk) \in Nat
    BY <1>t, ChunkCount
  <2> QED
    BY <1>12, <2>2, <2>3 DEF AllProcessed
<1>13. ASSUME NEW S \in SUBSET pending, LoseAttempt(S)
       PROVE  TypeInv'
  <2>1. Execute(S) /\ S \subseteq 1..taken
    BY <1>13 DEF LoseAttempt
  <2>2. applied' \subseteq 1..taken /\ table' \in [Keys -> 0..taken]
    BY <1>t, <2>1, ExecuteType
  <2>3. strays' \subseteq SUBSET (1..taken)
    BY <1>13 DEF LoseAttempt
  <2> QED
    BY <1>13, <2>2, <2>3 DEF LoseAttempt
<1>14. ASSUME NEW r \in strays, StrayExecutes(r)
       PROVE  TypeInv'
  <2>1. Execute(r) /\ r \in SUBSET (1..taken)
    BY <1>14 DEF StrayExecutes
  <2>2. applied' \subseteq 1..taken /\ table' \in [Keys -> 0..taken]
    BY <1>t, <2>1, ExecuteType
  <2> QED
    BY <1>14, <2>2 DEF StrayExecutes
<1>15. CASE Refuse
  BY <1>15 DEF Refuse
<1>16. CASE UNCHANGED vars
  BY <1>16
<1> QED
  BY <1>1, <1>2, <1>3, <1>4, <1>5, <1>6, <1>7, <1>8, <1>9, <1>10, <1>11, <1>12,
     <1>13, <1>14, <1>15, <1>16 DEF Next, Loader, Service

\* Every variable keeps its type: in particular a request holds rows that were
\* read and are not acknowledged, and the retry budget is respected.
THEOREM TypeCorrect == Spec => []TypeOK
<1>1. Spec => []TypeInv
  BY TypeInit, TypeStep, PTL DEF Spec
<1>2. TypeInv => TypeOK
  BY DEF TypeInv
<1> QED
  BY <1>1, <1>2, PTL

-----------------------------------------------------------------------------
(***************************************************************************)
(* No row is lost.  Acknowledged rows are executed is not inductive alone: *)
(* a JSON chunk replaces the one before, so that one must have been        *)
(* written, and import must not end with rows unread or pending.           *)
(***************************************************************************)
Kept == command # "bwrite" => Acknowledged \subseteq applied
ChunkWritten == phase = "read" /\ command \in {"json", "jsonl"} => chunk = {}
Completed == phase = "done" /\ command # "bwrite" => taken = todo /\ pending = {}

LossInv == TypeInv /\ Kept /\ ChunkWritten /\ Completed

\* Executing rows takes none back.
LEMMA ExecuteKeeps ==
  ASSUME NEW S, Execute(S)
  PROVE  applied \subseteq applied' /\ S \subseteq applied'
BY DEF Execute

\* Nothing is lost before the first request.
LEMMA LossInit == Init => LossInv
<1> SUFFICES ASSUME Init
             PROVE  LossInv
  OBVIOUS
<1>1. TypeInv
  BY TypeInit
<1>2. 1..taken = {}
  BY DEF Init
<1> QED
  BY <1>1, <1>2 DEF Init, LossInv, Kept, ChunkWritten, Completed, Acknowledged

\* No step loses a row.
LEMMA LossStep == LossInv /\ [Next]_vars => LossInv'
<1> SUFFICES ASSUME LossInv, [Next]_vars
             PROVE  LossInv'
  OBVIOUS
<1>t. TypeInv /\ TypeInv' /\ TypeOK /\ TypeOK'
  BY TypeStep DEF LossInv, TypeInv
<1>p. NothingPending
  BY <1>t DEF TypeInv
<1>n. todo \in Nat /\ taken \in Nat /\ taken <= todo /\ MaxBatch \in Nat
  BY <1>t, BatchAssumption DEF TypeOK
<1> USE DEF LossInv, Kept, ChunkWritten, Completed, Acknowledged, vars, loader,
            service
<1>1. CASE Cancel
  BY <1>1, <1>t DEF Cancel, TypeInv, NothingReadYet
<1>2. CASE OpenFails
  BY <1>2, <1>t DEF OpenFails, TypeInv, NothingReadYet
<1>3. CASE Open
  <2>1. taken = 0 /\ chunk = {}
    BY <1>3, <1>t DEF Open, TypeInv, NothingReadYet, TypeOK
  <2> QED
    BY <1>3, <1>t, <2>1 DEF Open
<1>4. CASE NextChunk
  <2>1. (1..taken') \ chunk' \subseteq 1..taken
    BY <1>4, <1>n DEF NextChunk
  <2>2. 1..taken \subseteq applied
    BY <1>4 DEF NextChunk
  <2> QED
    BY <1>4, <1>t, <2>1, <2>2 DEF NextChunk
<1>5. CASE CsvRow
  <2>1. (1..taken') \ chunk' \subseteq (1..taken) \ chunk
    BY <1>5, <1>n DEF CsvRow
  <2> QED
    BY <1>5, <1>t, <2>1 DEF CsvRow
<1>6. CASE CsvRest
  BY <1>6, <1>t DEF CsvRest
<1>7. CASE Gather
  BY <1>7, <1>t DEF Gather
<1>8. CASE Convert
  <2>1. CASE Convertible(chunk)
    BY <1>8, <1>t, <2>1 DEF Convert
  <2>2. CASE ~Convertible(chunk)
    BY <1>8, <1>t, <2>2 DEF Convert
  <2> QED
    BY <2>1, <2>2
<1>9. CASE Finish
  <2>1. pending = {} /\ chunk = {} /\ taken = todo
    BY <1>9, <1>p DEF Finish, NothingPending
  <2> QED
    BY <1>9, <1>t, <2>1 DEF Finish
<1>10. CASE Reject
  BY <1>10, <1>t DEF Reject
<1>11. ASSUME NEW S \in SUBSET pending, Unprocessed(S)
       PROVE  LossInv'
  <2>1. applied \subseteq applied' /\ S \subseteq applied'
    BY <1>11, ExecuteKeeps DEF Unprocessed
  <2> QED
    BY <1>11, <1>t, <2>1 DEF Unprocessed
<1>12. CASE AllProcessed
  <2>1. applied \subseteq applied' /\ pending \subseteq applied'
    BY <1>12, ExecuteKeeps DEF AllProcessed
  <2> QED
    BY <1>12, <1>t, <2>1 DEF AllProcessed
<1>13. ASSUME NEW S \in SUBSET pending, LoseAttempt(S)
       PROVE  LossInv'
  <2>1. applied \subseteq applied'
    BY <1>13, ExecuteKeeps DEF LoseAttempt
  <2> QED
    BY <1>13, <1>t, <2>1 DEF LoseAttempt
<1>14. ASSUME NEW r \in strays, StrayExecutes(r)
       PROVE  LossInv'
  <2>1. applied \subseteq applied'
    BY <1>14, ExecuteKeeps DEF StrayExecutes
  <2> QED
    BY <1>14, <1>t, <2>1 DEF StrayExecutes
<1>15. CASE Refuse
  BY <1>15, <1>t DEF Refuse
<1>16. CASE UNCHANGED vars
  BY <1>16, <1>t
<1> QED
  BY <1>1, <1>2, <1>3, <1>4, <1>5, <1>6, <1>7, <1>8, <1>9, <1>10, <1>11, <1>12,
     <1>13, <1>14, <1>15, <1>16 DEF Next, Loader, Service

\* import drops no row: every row it considers written was executed, whatever was
\* left unprocessed, lost or repeated, and when it returns Ok every row the parser
\* delivered was.
THEOREM NoRowIsLost == Spec => []NothingLost
<1>1. Spec => []LossInv
  BY LossInit, LossStep, PTL DEF Spec
<1>2. LossInv => NothingLost
  BY DEF LossInv, Kept, Completed, NothingLost, Acknowledged, TypeInv, TypeOK
<1> QED
  BY <1>1, <1>2, PTL
-----------------------------------------------------------------------------
(***************************************************************************)
(* Only well-formed rows are written.  What a request holds was checked in *)
(* three places: by the parser, by the conversion, and by the service.     *)
(***************************************************************************)
KindsKept == \A i \in Rows : file[i].kind \in KindsIn(command)
Parsed == command # "csv" => \A i \in 1..todo : file[i].kind # "broken"
Converted == phase = "sent" => \A i \in pending : file[i].kind \in {"item", "keyless"}
StraysAreItems == \A r \in strays : \A i \in r : file[i].kind = "item"

KindInv == /\ TypeInv /\ KindsKept /\ Parsed /\ Converted /\ StraysAreItems
           /\ OnlyItemsWritten

\* In a request whose short lines are as many as its long ones, a short line
\* being an error, no line is long: counting cells in total is enough.
LEMMA NoLongLine ==
  ASSUME TypeOK, command = "csv", Convertible(chunk)
  PROVE  OfKind(chunk, {"long"}) = {}
<1>1. OfKind(chunk, {"short"}) \subseteq OfKind(chunk, {"short", "broken"})
  BY DEF OfKind
<1>2. OfKind(chunk, {"short"}) = {}
  BY <1>1 DEF Convertible
<1>3. IsFiniteSet(OfKind(chunk, {"long"}))
  <2>1. taken \in Int
    BY DEF TypeOK
  <2>2. IsFiniteSet(1..taken)
    BY <2>1, FS_Interval
  <2>3. OfKind(chunk, {"long"}) \subseteq 1..taken
    BY DEF OfKind, TypeOK
  <2> QED
    BY <2>2, <2>3, FS_Subset
<1>4. Cardinality(OfKind(chunk, {"long"})) = 0
  BY <1>2, FS_EmptySet DEF Convertible
<1> QED
  BY <1>3, <1>4, FS_EmptySet

\* A converted request holds items, with or without their keys.
LEMMA ConvertedRows ==
  ASSUME KindInv, Convertible(chunk), NEW i \in chunk
  PROVE  file[i].kind \in {"item", "keyless"}
<1>1. i \in Rows /\ i \in 1..todo
  BY DEF KindInv, TypeInv, TypeOK, Rows
<1>2. file[i].kind \in KindsIn(command)
  BY <1>1 DEF KindInv, KindsKept
<1>3. CASE command = "csv"
  <2>1. OfKind(chunk, {"long"}) = {}
    BY <1>3, NoLongLine DEF KindInv, TypeInv
  <2>2. file[i].kind \notin {"short", "broken", "long"}
    BY <1>3, <2>1 DEF OfKind, Convertible
  <2> QED
    BY <1>2, <1>3, <2>2 DEF KindsIn, RowKinds
<1>4. CASE command # "csv"
  <2>1. file[i].kind \notin {"scalar", "broken"}
    BY <1>1, <1>4 DEF KindInv, Parsed, OfKind, Convertible
  <2> QED
    BY <1>2, <1>4, <2>1 DEF KindsIn, RowKinds
<1> QED
  BY <1>3, <1>4

\* What the service executes of a valid request is well-formed.
LEMMA ValidRows ==
  ASSUME KindInv, phase = "sent", Valid(pending), NEW i \in pending
  PROVE  file[i].kind = "item"
BY DEF KindInv, Converted, Valid

\* Nothing malformed is there at the start.
LEMMA KindInit == Init => KindInv
<1> SUFFICES ASSUME Init
             PROVE  KindInv
  OBVIOUS
<1>1. TypeInv
  BY TypeInit
<1>2. 1..todo = {}
  BY DEF Init
<1> QED
  BY <1>1, <1>2 DEF Init, KindInv, KindsKept, Parsed, Converted,
                    StraysAreItems, OnlyItemsWritten

\* No step lets a malformed row through.
LEMMA KindStep == KindInv /\ [Next]_vars => KindInv'
<1> SUFFICES ASSUME KindInv, [Next]_vars
             PROVE  KindInv'
  OBVIOUS
<1>t. TypeInv /\ TypeInv' /\ TypeOK
  BY TypeStep DEF KindInv, TypeInv
<1> USE DEF KindInv, KindsKept, Parsed, Converted, StraysAreItems, OnlyItemsWritten,
            Rows, vars, loader, service
<1>1. CASE Cancel
  BY <1>1, <1>t DEF Cancel
<1>2. CASE OpenFails
  BY <1>2, <1>t DEF OpenFails
<1>3. CASE Open
  <2>1. command # "csv" => \A i \in 1..todo' : file[i].kind # "broken"
    <3>1. CASE command \in {"json", "bwrite"}
      <4>1. Broken = {} /\ todo' \in 0..Len(file)
        BY <1>3, <3>1 DEF Open
      <4>2. Len(file) \in Nat
        BY <1>t DEF TypeOK
      <4>3. 1..todo' \subseteq 1..Len(file)
        BY <4>1, <4>2
      <4> QED
        BY <4>1, <4>3 DEF Broken
    <3>2. CASE command = "jsonl"
      <4>1. Delivered(todo') /\ todo' \in 0..Len(file)
        BY <1>3 DEF Open
      <4>2. \A i \in 1..todo' : i \notin Broken
        BY <3>2, <4>1 DEF Delivered
      <4>3. Len(file) \in Nat
        BY <1>t DEF TypeOK
      <4>4. 1..todo' \subseteq 1..Len(file)
        BY <4>1, <4>3
      <4> QED
        BY <4>2, <4>4 DEF Broken
    <3> QED
      BY <1>t, <3>1, <3>2 DEF TypeOK, Commands
  <2> QED
    BY <1>3, <1>t, <2>1 DEF Open
<1>4. CASE NextChunk
  BY <1>4, <1>t DEF NextChunk
<1>5. CASE CsvRow
  BY <1>5, <1>t DEF CsvRow
<1>6. CASE CsvRest
  BY <1>6, <1>t DEF CsvRest
<1>7. CASE Gather
  BY <1>7, <1>t DEF Gather
<1>8. CASE Convert
  <2>1. CASE Convertible(chunk)
    <3>1. \A i \in chunk : file[i].kind \in {"item", "keyless"}
      BY <2>1, ConvertedRows
    <3> QED
      BY <1>8, <1>t, <2>1, <3>1 DEF Convert
  <2>2. CASE ~Convertible(chunk)
    BY <1>8, <1>t, <2>2 DEF Convert
  <2> QED
    BY <2>1, <2>2
<1>9. CASE Finish
  BY <1>9, <1>t DEF Finish
<1>10. CASE Reject
  BY <1>10, <1>t DEF Reject
<1>11. ASSUME NEW S \in SUBSET pending, Unprocessed(S)
       PROVE  KindInv'
  <2>1. \A i \in S : file[i].kind = "item"
    BY <1>11, ValidRows DEF Unprocessed
  <2>2. applied' = applied \cup S
    BY <1>11 DEF Unprocessed, Execute
  <2> QED
    BY <1>11, <1>t, <2>1, <2>2 DEF Unprocessed
<1>12. CASE AllProcessed
  <2>1. \A i \in pending : file[i].kind = "item"
    BY <1>12, ValidRows DEF AllProcessed
  <2>2. applied' = applied \cup pending
    BY <1>12 DEF AllProcessed, Execute
  <2> QED
    BY <1>12, <1>t, <2>1, <2>2 DEF AllProcessed
<1>13. ASSUME NEW S \in SUBSET pending, LoseAttempt(S)
       PROVE  KindInv'
  <2>1. \A i \in pending : file[i].kind = "item"
    BY <1>13, ValidRows DEF LoseAttempt
  <2>2. applied' = applied \cup S /\ strays' \subseteq strays \cup {pending}
    BY <1>13 DEF LoseAttempt, Execute
  <2> QED
    BY <1>13, <1>t, <2>1, <2>2 DEF LoseAttempt
<1>14. ASSUME NEW r \in strays, StrayExecutes(r)
       PROVE  KindInv'
  <2>1. applied' = applied \cup r
    BY <1>14 DEF StrayExecutes, Execute
  <2> QED
    BY <1>14, <1>t, <2>1 DEF StrayExecutes
<1>15. CASE Refuse
  BY <1>15, <1>t DEF Refuse
<1>16. CASE UNCHANGED vars
  BY <1>16, <1>t
<1> QED
  BY <1>1, <1>2, <1>3, <1>4, <1>5, <1>6, <1>7, <1>8, <1>9, <1>10, <1>11, <1>12,
     <1>13, <1>14, <1>15, <1>16 DEF Next, Loader, Service

\* Only well-formed rows are written, in every format, by whatever attempt:
\* also when it is executed after the client gave up on it.
THEOREM MalformedIsNotWritten == Spec => []OnlyItemsWritten
<1>1. Spec => []KindInv
  BY KindInit, KindStep, PTL DEF Spec
<1>2. KindInv => OnlyItemsWritten
  BY DEF KindInv
<1> QED
  BY <1>1, <1>2, PTL
-----------------------------------------------------------------------------
(***************************************************************************)
(* Rows of a key end in file order.  A row may be executed again, but only *)
(* while its request is outstanding: all other executed rows come before   *)
(* that request, and a request of which anything was executed has no key   *)
(* twice.  bwrite executes nothing before it gathers its only request.     *)
(***************************************************************************)
NoStrays == strays = {}
TableIsApplied ==
  \A k \in Keys : table[k] # 0 => table[k] \in applied /\ file[table[k]].key = k
LastExecuted == \A i \in applied : i <= table[file[i].key]
ChunkIsLast == \A i \in chunk : \A j \in applied \ chunk : j < i
DistinctKeys(S) == \A i, j \in S : i # j => file[i].key # file[j].key
ChunkAccepted == phase = "sent" => pending = chunk \/ DistinctKeys(chunk)
NothingGathered == command = "bwrite" /\ phase = "read" => taken = 0

OrderInv == /\ TypeInv /\ NoStrays /\ TableIsApplied /\ LastExecuted /\ ChunkIsLast
            /\ ChunkAccepted /\ NothingGathered

\* A part of an outstanding valid request is executed: the table keeps, for
\* each key, its last executed row.
LEMMA ExecuteInOrder ==
  ASSUME OrderInv, phase = "sent", Valid(pending),
         NEW S \in SUBSET pending, Execute(S)
  PROVE  /\ \A k \in Keys : table'[k] # 0 => table'[k] \in applied' /\ file[table'[k]].key = k
         /\ \A i \in applied' : i <= table'[file[i].key]
         /\ \A i \in chunk : \A j \in applied' \ chunk : j < i
         /\ DistinctKeys(chunk)
<1>t. /\ TypeOK /\ S \subseteq chunk /\ chunk \subseteq 1..taken /\ taken \in Nat
      /\ applied \subseteq 1..taken /\ table \in [Keys -> 0..taken]
  BY DEF OrderInv, TypeInv, TypeOK
<1>1. DistinctKeys(chunk)
  BY DEF OrderInv, ChunkAccepted, Valid, DistinctKeys
<1>2. applied' = applied \cup S
  BY DEF Execute
<1>3. \A i \in chunk : \A j \in applied' \ chunk : j < i
  BY <1>2, <1>t DEF OrderInv, ChunkIsLast
<1>4. \A i \in 1..taken : file[i].key \in Keys
  <2>1. file \in Seq(Row) /\ 1..taken \subseteq 1..Len(file)
    BY <1>t DEF TypeOK
  <2>2. \A i \in 1..Len(file) : file[i] \in Row
    BY <2>1
  <2> QED
    BY <2>1, <2>2 DEF Row
<1>5. ASSUME NEW i \in S
      PROVE  table'[file[i].key] = i
  <2>1. file[i].key \in Keys
    BY <1>4, <1>t
  <2>2. table'[file[i].key] = CHOOSE j \in S : file[j].key = file[i].key
    BY <2>1 DEF Execute
  <2>3. \A j \in S : file[j].key = file[i].key => j = i
    BY <1>1, <1>t DEF DistinctKeys
  <2> QED
    BY <2>2, <2>3
<1>6. ASSUME NEW k \in Keys, ~ \E i \in S : file[i].key = k
      PROVE  table'[k] = table[k]
  BY <1>6 DEF Execute
<1>7. ASSUME NEW k \in Keys, table'[k] # 0
      PROVE  table'[k] \in applied' /\ file[table'[k]].key = k
  <2>1. CASE \E i \in S : file[i].key = k
    BY <1>2, <1>5, <2>1
  <2>2. CASE ~ \E i \in S : file[i].key = k
    BY <1>2, <1>6, <1>7, <2>2 DEF OrderInv, TableIsApplied
  <2> QED
    BY <2>1, <2>2
<1>8. ASSUME NEW i \in applied'
      PROVE  i <= table'[file[i].key]
  <2>0. i \in 1..taken /\ file[i].key \in Keys
    BY <1>2, <1>4, <1>t
  <2>1. ASSUME NEW s \in S, file[s].key = file[i].key
        PROVE  i <= table'[file[i].key]
    <3>1. table'[file[i].key] = s
      BY <1>5, <2>1
    <3>2. CASE i \in chunk
      <4>1. i = s
        BY <1>1, <1>t, <2>1, <3>2 DEF DistinctKeys
      <4> QED
        BY <2>0, <3>1, <4>1
    <3>3. CASE i \notin chunk
      <4>1. i < s
        BY <1>3, <1>t, <3>3
      <4>2. s \in Nat
        BY <1>t
      <4> QED
        BY <2>0, <3>1, <4>1, <4>2
    <3> QED
      BY <3>2, <3>3
  <2>2. CASE ~ \E s \in S : file[s].key = file[i].key
    <3>1. i \in applied
      BY <1>2, <2>2
    <3>2. i <= table[file[i].key]
      BY <3>1 DEF OrderInv, LastExecuted
    <3>3. table'[file[i].key] = table[file[i].key]
      BY <1>6, <2>0, <2>2
    <3> QED
      BY <3>2, <3>3
  <2> QED
    BY <2>1, <2>2
<1> QED
  BY <1>1, <1>3, <1>7, <1>8

\* An untouched table is in file order.
LEMMA OrderInit == Init => (Late \/ OrderInv)
<1> SUFFICES ASSUME Init
             PROVE  OrderInv
  OBVIOUS
<1>1. TypeInv
  BY TypeInit
<1> QED
  BY <1>1 DEF Init, OrderInv, NoStrays, TableIsApplied, LastExecuted, ChunkIsLast,
              ChunkAccepted, NothingGathered

\* No step brings back an older row, as long as nothing is executed late.
LEMMA OrderStep == ~Late /\ OrderInv /\ [Next]_vars => OrderInv'
<1> SUFFICES ASSUME ~Late, OrderInv, [Next]_vars
             PROVE  OrderInv'
  OBVIOUS
<1>t. TypeInv /\ TypeInv' /\ TypeOK /\ TypeOK'
  BY TypeStep DEF OrderInv, TypeInv
<1>n. /\ taken \in Nat /\ taken' \in Nat /\ applied \subseteq 1..taken
      /\ chunk \subseteq 1..taken /\ pending \subseteq chunk
  BY <1>t DEF TypeOK
<1> USE DEF OrderInv, NoStrays, TableIsApplied, LastExecuted, ChunkIsLast,
            ChunkAccepted, DistinctKeys, NothingGathered, vars, loader, service
<1>1. CASE Cancel
  BY <1>1, <1>t DEF Cancel
<1>2. CASE OpenFails
  BY <1>2, <1>t DEF OpenFails
<1>3. CASE Open
  BY <1>3, <1>t DEF Open, TypeInv, NothingReadYet
<1>4. CASE NextChunk
  <2>1. \A i \in chunk' : taken < i
    BY <1>4, <1>n DEF NextChunk
  <2>2. chunk' \subseteq 1..taken'
    BY <1>t DEF TypeOK
  <2>3. \A i \in chunk' : \A j \in applied' \ chunk' : j < i
    BY <1>4, <1>n, <2>1, <2>2 DEF NextChunk
  <2> QED
    BY <1>4, <1>t, <2>3 DEF NextChunk
<1>5. CASE CsvRow
  <2>1. \A i \in chunk' : \A j \in applied' \ chunk' : j < i
    BY <1>5, <1>n DEF CsvRow
  <2> QED
    BY <1>5, <1>t, <2>1 DEF CsvRow
<1>6. CASE CsvRest
  BY <1>6, <1>t DEF CsvRest
<1>7. CASE Gather
  <2>1. applied = {}
    BY <1>7, <1>n DEF Gather
  <2> QED
    BY <1>7, <1>t, <2>1 DEF Gather
<1>8. CASE Convert
  <2>1. CASE Convertible(chunk)
    BY <1>8, <1>t, <2>1 DEF Convert
  <2>2. CASE ~Convertible(chunk)
    BY <1>8, <1>t, <2>2 DEF Convert
  <2> QED
    BY <2>1, <2>2
<1>9. CASE Finish
  BY <1>9, <1>t DEF Finish
<1>10. CASE Reject
  BY <1>10, <1>t DEF Reject
<1>11. ASSUME NEW S \in SUBSET pending, Unprocessed(S)
       PROVE  OrderInv'
  <2>1. phase = "sent" /\ Valid(pending) /\ Execute(S)
    BY <1>11 DEF Unprocessed
  <2>2. /\ \A k \in Keys : table'[k] # 0 => table'[k] \in applied' /\ file[table'[k]].key = k
        /\ \A i \in applied' : i <= table'[file[i].key]
        /\ \A i \in chunk : \A j \in applied' \ chunk : j < i
        /\ \A i, j \in chunk : i # j => file[i].key # file[j].key
    BY <2>1, ExecuteInOrder
  <2> QED
    BY <1>11, <1>t, <2>2 DEF Unprocessed
<1>12. CASE AllProcessed
  <2>1. phase = "sent" /\ Valid(pending) /\ Execute(pending)
    BY <1>12 DEF AllProcessed
  <2>2. /\ \A k \in Keys : table'[k] # 0 => table'[k] \in applied' /\ file[table'[k]].key = k
        /\ \A i \in applied' : i <= table'[file[i].key]
    BY <2>1, ExecuteInOrder
  <2> QED
    BY <1>12, <1>t, <2>2 DEF AllProcessed
<1>13. ASSUME NEW S \in SUBSET pending, LoseAttempt(S)
       PROVE  OrderInv'
  <2>1. phase = "sent" /\ Valid(pending) /\ Execute(S)
    BY <1>13 DEF LoseAttempt
  <2>2. /\ \A k \in Keys : table'[k] # 0 => table'[k] \in applied' /\ file[table'[k]].key = k
        /\ \A i \in applied' : i <= table'[file[i].key]
        /\ \A i \in chunk : \A j \in applied' \ chunk : j < i
        /\ \A i, j \in chunk : i # j => file[i].key # file[j].key
    BY <2>1, ExecuteInOrder
  <2>3. strays' = {}
    BY <1>13 DEF LoseAttempt
  <2> QED
    BY <1>13, <1>t, <2>2, <2>3 DEF LoseAttempt
<1>14. ASSUME NEW r \in strays, StrayExecutes(r)
       PROVE  OrderInv'
  BY <1>14
<1>15. CASE Refuse
  BY <1>15, <1>t DEF Refuse
<1>16. CASE UNCHANGED vars
  BY <1>16, <1>t
<1> QED
  BY <1>1, <1>2, <1>3, <1>4, <1>5, <1>6, <1>7, <1>8, <1>9, <1>10, <1>11, <1>12,
     <1>13, <1>14, <1>15, <1>16 DEF Next, Loader, Service

\* Rows with the same key are written in file order, however answers are lost,
\* items returned unprocessed and requests repeated, if no attempt is executed
\* after the client gave up on it.
THEOREM FileOrderKept == Spec => []LastRowWins
<1>1. CASE Late
  <2>1. LastRowWins
    BY <1>1 DEF LastRowWins
  <2> QED
    BY <2>1, PTL
<1>2. CASE ~Late
  <2>1. Init => OrderInv
    BY <1>2, OrderInit
  <2>2. OrderInv /\ [Next]_vars => OrderInv'
    BY <1>2, OrderStep
  <2>3. OrderInv => LastRowWins
    BY DEF OrderInv, TableIsApplied, LastExecuted, LastRowWins
  <2> QED
    BY <2>1, <2>2, <2>3, PTL DEF Spec
<1> QED
  BY <1>1, <1>2

-----------------------------------------------------------------------------
(* Progress *)

\* Rows read but not counted are those of the chunk.
Counted ==
  /\ processed <= Cardinality(applied)
  /\ command # "bwrite" =>
       /\ phase \in {"start", "read", "convert", "sent"} => processed + Cardinality(chunk) = taken
       /\ phase = "done" => processed = todo

\* A set of rows can be counted, and counts no less than a part of it.
LEMMA RowsCount ==
  ASSUME NEW n \in Int, NEW T \in SUBSET (1..n), NEW S \in SUBSET T
  PROVE  /\ IsFiniteSet(S) /\ Cardinality(S) \in Nat
         /\ IsFiniteSet(T) /\ Cardinality(T) \in Nat
         /\ Cardinality(S) <= Cardinality(T)
<1>1. IsFiniteSet(1..n)
  BY FS_Interval
<1>2. IsFiniteSet(T)
  BY <1>1, FS_Subset
<1> QED
  BY <1>2, FS_Subset, FS_CardinalityType

\* Executing more is counting more.
LEMMA AppliedGrows ==
  ASSUME TypeOK, TypeOK', applied \subseteq applied', processed <= Cardinality(applied)
  PROVE  processed <= Cardinality(applied')
<1>1. taken' \in Int /\ applied' \subseteq 1..taken'
  BY DEF TypeOK
<1>2. /\ Cardinality(applied) \in Nat /\ Cardinality(applied') \in Nat
      /\ Cardinality(applied) <= Cardinality(applied')
  BY <1>1, RowsCount
<1>3. processed \in Nat
  BY DEF TypeOK
<1> QED
  BY <1>2, <1>3

\* Nothing is counted at the start.
LEMMA CountedInit == Init => Counted
<1> SUFFICES ASSUME Init PROVE Counted
  OBVIOUS
<1>1. Cardinality(applied) = 0 /\ Cardinality(chunk) = 0
  BY FS_EmptySet DEF Init
<1> QED
  BY <1>1 DEF Init, Counted

\* Each request is counted once, when nothing of it is left.
LEMMA CountedStep == LossInv /\ LossInv' /\ Counted /\ [Next]_vars => Counted'
<1> SUFFICES ASSUME LossInv, LossInv', Counted, [Next]_vars PROVE Counted'
  OBVIOUS
<1>t. /\ TypeOK /\ TypeOK' /\ taken \in Nat /\ todo \in Nat /\ processed \in Nat /\ MaxBatch \in Nat
      /\ taken <= todo /\ chunk \subseteq 1..taken
  BY BatchAssumption DEF LossInv, TypeInv, TypeOK
<1>f. IsFiniteSet(chunk) /\ Cardinality(chunk) \in Nat
  BY <1>t, RowsCount
<1> USE DEF Counted, vars, loader, service, Final
<1>1. CASE Cancel \/ OpenFails \/ Reject \/ Refuse
  BY <1>1 DEF Cancel, OpenFails, Reject, Refuse
<1>2. CASE Open
  BY <1>2 DEF Open
<1>3. CASE NextChunk
  <2>1. chunk = {} /\ processed = taken
    <3>1. chunk = {} /\ command # "bwrite" /\ phase = "read"
      BY <1>3 DEF NextChunk, LossInv, ChunkWritten
    <3>2. Cardinality(chunk) = 0
      BY <3>1, FS_EmptySet
    <3>3. processed + Cardinality(chunk) = taken
      BY <3>1
    <3> QED
      BY <1>t, <3>1, <3>2, <3>3
  <2>2. taken' \in Nat /\ taken <= taken' /\ chunk' = (taken + 1)..taken'
    BY <1>3, <1>t DEF NextChunk
  <2>3. Cardinality(chunk') = taken' - taken
    <3>1. CASE taken + 1 > taken'
      <4>1. chunk' = {} /\ taken' = taken
        BY <1>t, <2>2, <3>1
      <4> QED
        BY <1>t, <4>1, FS_EmptySet
    <3>2. CASE ~(taken + 1 > taken')
      <4>1. Cardinality((taken + 1)..taken') = taken' - (taken + 1) + 1
        BY <1>t, <2>2, <3>2, FS_Interval
      <4> QED
        BY <1>t, <2>2, <4>1
    <3> QED
      BY <3>1, <3>2
  <2>4. processed' + Cardinality(chunk') = taken'
    BY <1>3, <1>t, <2>1, <2>2, <2>3 DEF NextChunk
  <2> QED
    BY <1>3, <2>4 DEF NextChunk
<1>4. CASE CsvRow
  <2>1. taken + 1 \notin chunk
    BY <1>t
  <2>2. Cardinality(chunk') = Cardinality(chunk) + 1
    BY <1>4, <1>f, <2>1, FS_AddElement DEF CsvRow
  <2>3. processed + Cardinality(chunk) = taken
    BY <1>4 DEF CsvRow
  <2>4. processed' + Cardinality(chunk') = taken'
    BY <1>4, <1>f, <1>t, <2>2, <2>3 DEF CsvRow
  <2> QED
    BY <1>4, <2>4 DEF CsvRow
<1>5. CASE CsvRest
  BY <1>5 DEF CsvRest
<1>6. CASE Gather
  BY <1>6 DEF Gather
<1>7. CASE Convert
  BY <1>7 DEF Convert
<1>8. CASE Finish
  <2>1. processed = todo
    BY <1>8, <1>t, FS_EmptySet DEF Finish
  <2> QED
    BY <1>8, <2>1 DEF Finish
<1>9. ASSUME NEW S \in SUBSET pending, Unprocessed(S) \/ LoseAttempt(S) PROVE Counted'
  <2>1. processed <= Cardinality(applied')
    BY <1>9, <1>t, ExecuteKeeps, AppliedGrows DEF Unprocessed, LoseAttempt
  <2>2. UNCHANGED <<command, taken, todo, chunk, processed>>
    BY <1>9 DEF Unprocessed, LoseAttempt
  <2>3. phase = "sent" /\ (command # "bwrite" => phase' \in {"sent", "gaveUp"})
    BY <1>9 DEF Unprocessed, LoseAttempt
  <2> QED
    BY <2>1, <2>2, <2>3
<1>10. CASE AllProcessed
  <2>1. phase = "sent" /\ pending' = {} /\ chunk' = {} /\ UNCHANGED <<command, taken, todo>>
    BY <1>10 DEF AllProcessed
  <2>2. CASE command = "bwrite"
    <3>1. processed' = processed /\ processed <= Cardinality(applied')
      BY <1>10, <1>t, <2>2, ExecuteKeeps, AppliedGrows DEF AllProcessed
    <3> QED
      BY <2>1, <2>2, <3>1
  <2>3. CASE command # "bwrite"
    <3>1. processed' = taken /\ phase' = "read"
      BY <1>10, <2>3 DEF AllProcessed
    <3>2. 1..taken \subseteq applied'
      BY <2>1, <2>3, <3>1 DEF LossInv, Kept, Acknowledged
    <3>3. taken <= Cardinality(applied')
      <4>0. taken' \in Int /\ applied' \subseteq 1..taken'
        BY <1>t DEF TypeOK
      <4>2. Cardinality(1..taken) = taken
        BY <1>t, FS_Interval, FS_EmptySet
      <4>3. /\ Cardinality(applied') \in Nat
            /\ Cardinality(1..taken) <= Cardinality(applied')
        BY <3>2, <4>0, RowsCount
      <4> QED
        BY <4>2, <4>3
    <3>4. Cardinality(chunk') = 0
      BY <2>1, FS_EmptySet
    <3> QED
      BY <1>t, <2>1, <3>1, <3>3, <3>4
  <2> QED
    BY <2>2, <2>3
<1>11. ASSUME NEW r \in strays, StrayExecutes(r) PROVE Counted'
  <2>1. processed <= Cardinality(applied')
    BY <1>11, <1>t, ExecuteKeeps, AppliedGrows DEF StrayExecutes
  <2> QED
    BY <1>11, <2>1 DEF StrayExecutes
<1>12. CASE UNCHANGED vars
  BY <1>12
<1> QED
  BY <1>1, <1>2, <1>3, <1>4, <1>5, <1>6, <1>7, <1>8, <1>9, <1>10, <1>11, <1>12 DEF Next, Loader, Service

\* The number of items shown is never more than were written, and is all of them
\* when import returns Ok.
THEOREM ProgressIsTrue == Spec => []CountIsWritten
<1>1. Counted => CountIsWritten
  BY DEF Counted, CountIsWritten
<1> QED
  BY <1>1, LossInit, LossStep, CountedInit, CountedStep, PTL DEF Spec

-----------------------------------------------------------------------------
(* Where import stops *)

\* A file is cut only at multiples of MaxBatch; csv decides it by the number of
\* the line, the other formats by the number of rows still to come.
CutAtMultiples ==
  command # "bwrite" /\ taken < todo /\ (phase \in {"convert", "sent"} \/ command # "csv") =>
    taken % MaxBatch = 0

\* A multiple of MaxBatch up to which everything was executed, and at most one
\* request beyond it.
Resumable(b) ==
  /\ b % MaxBatch = 0
  /\ 1..b \subseteq applied
  /\ taken <= b + MaxBatch
  /\ phase = "read" /\ command = "csv" /\ taken < todo => taken < b + MaxBatch

CutInv == CutAtMultiples /\ (command # "bwrite" => \E b \in 0..taken : Resumable(b))

\* The multiple after a multiple.
LEMMA NextMultiple ==
  ASSUME NEW m \in Nat \ {0}, NEW a \in Nat, a % m = 0
  PROVE  (a + m) % m = 0
<1>1. PICK k \in Nat : a = k * m
  <2>1. a = (a \div m) * m + (a % m) /\ a \div m \in Nat
    OBVIOUS
  <2> QED
    BY <2>1
<1>2. a + m = (k + 1) * m /\ k + 1 \in Nat
  BY <1>1
<1>3. \A j \in Nat : (j * m) % m = 0
  OBVIOUS
<1> QED
  BY <1>2, <1>3

\* Nothing is cut at the start.
LEMMA CutInit == Init => CutInv
<1> SUFFICES ASSUME Init PROVE CutInv
  OBVIOUS
<1>1. taken = 0 /\ phase = "start" /\ 0 % MaxBatch = 0 /\ MaxBatch \in Nat
  BY BatchAssumption DEF Init
<1>2. Resumable(0)
  BY <1>1 DEF Resumable
<1> QED
  BY <1>1, <1>2 DEF CutInv, CutAtMultiples

\* A step that reads no row and goes to no new request leaves the cut in place.
LEMMA CutKept ==
  ASSUME LossInv, CutInv, UNCHANGED <<command, taken, todo>>, applied \subseteq applied',
         phase' = phase \/ phase' \in Final \/ (phase = "convert" /\ phase' = "sent")
  PROVE  CutInv'
<1> USE DEF Final
<1>1. CutAtMultiples'
  BY DEF CutInv, CutAtMultiples
<1>2. ASSUME command' # "bwrite" PROVE \E b \in 0..taken' : Resumable(b)'
  <2>1. PICK b \in 0..taken : Resumable(b)
    BY <1>2 DEF CutInv
  <2>2. Resumable(b)'
    BY <2>1 DEF Resumable
  <2> QED
    BY <2>1, <2>2
<1> QED
  BY <1>1, <1>2 DEF CutInv

\* Every request starts at a multiple and holds at most MaxBatch rows.
LEMMA CutStep == LossInv /\ LossInv' /\ CutInv /\ [Next]_vars => CutInv'
<1> SUFFICES ASSUME LossInv, LossInv', CutInv, [Next]_vars PROVE CutInv'
  OBVIOUS
<1>t. /\ TypeOK /\ taken \in Nat /\ todo \in Nat /\ MaxBatch \in Nat \ {0} /\ taken <= todo
  BY BatchAssumption DEF LossInv, TypeInv, TypeOK
<1> USE DEF vars, loader, service
<1>1. CASE Cancel \/ OpenFails \/ Reject \/ Refuse \/ Finish
  BY <1>1, CutKept DEF Cancel, OpenFails, Reject, Refuse, Finish, Final
<1>2. CASE Open
  <2>1. taken' = 0 /\ 0 % MaxBatch = 0 /\ phase' = "read"
    BY <1>2, <1>t DEF Open, LossInv, TypeInv, NothingReadYet
  <2>2. Resumable(0)'
    BY <1>t, <2>1 DEF Resumable
  <2> QED
    BY <2>1, <2>2 DEF CutInv, CutAtMultiples
<1>3. CASE NextChunk
  <2>1. taken % MaxBatch = 0 /\ command # "csv"
    BY <1>3 DEF NextChunk, CutInv, CutAtMultiples
  <2>2. 1..taken \subseteq applied
    BY <1>3 DEF NextChunk, LossInv, ChunkWritten, Kept, Acknowledged
  <2>3. /\ taken' \in Nat /\ taken <= taken' /\ taken' <= taken + MaxBatch
        /\ taken' < todo => taken' = taken + MaxBatch
    BY <1>3, <1>t DEF NextChunk
  <2>4. /\ command' = command /\ todo' = todo /\ applied' = applied
    BY <1>3 DEF NextChunk
  <2>5. CutAtMultiples'
    BY <1>t, <2>1, <2>3, <2>4, NextMultiple DEF CutAtMultiples
  <2>6. PICK b \in 0..taken : b = taken
    BY <1>t
  <2>7. Resumable(b)'
    BY <2>1, <2>2, <2>3, <2>4, <2>6 DEF Resumable
  <2> QED
    BY <1>t, <2>3, <2>5, <2>6, <2>7 DEF CutInv
<1>4. CASE CsvRow
  <2>1. PICK b \in 0..taken : Resumable(b)
    BY <1>4 DEF CsvRow, CutInv
  <2>2. /\ taken' = taken + 1 /\ UNCHANGED <<command, todo, applied>> /\ command = "csv"
        /\ phase' = IF (taken + 1) % MaxBatch = 0 THEN "convert" ELSE "read"
    BY <1>4 DEF CsvRow
  <2>3. taken < b + MaxBatch
    BY <1>4, <2>1 DEF CsvRow, Resumable
  <2>4. (b + MaxBatch) % MaxBatch = 0
    <3>1. b \in Nat /\ b % MaxBatch = 0
      BY <1>t, <2>1 DEF Resumable
    <3>2. MaxBatch \in Nat \ {0}
      BY <1>t
    <3> QED
      BY <3>1, <3>2, NextMultiple
  <2>5. phase' = "read" => taken + 1 # b + MaxBatch
    BY <2>2, <2>4
  <2>6. Resumable(b)'
    BY <1>t, <2>1, <2>2, <2>3, <2>5 DEF Resumable
  <2>7. CutAtMultiples'
    BY <2>2 DEF CutAtMultiples
  <2> QED
    BY <1>t, <2>1, <2>2, <2>6, <2>7 DEF CutInv
<1>5. CASE CsvRest
  <2>1. taken = todo /\ UNCHANGED <<command, todo, taken, applied>> /\ phase' = "convert"
    BY <1>5 DEF CsvRest
  <2>2. PICK b \in 0..taken : Resumable(b)
    BY <1>5 DEF CsvRest, CutInv
  <2>3. Resumable(b)'
    BY <2>1, <2>2 DEF Resumable
  <2> QED
    BY <1>t, <2>1, <2>2, <2>3 DEF CutInv, CutAtMultiples
<1>6. CASE Gather
  BY <1>6 DEF Gather, CutInv, CutAtMultiples
<1>7. CASE Convert
  BY <1>7, CutKept DEF Convert, Final
<1>8. ASSUME NEW S \in SUBSET pending, Unprocessed(S) \/ LoseAttempt(S) PROVE CutInv'
  <2>1. applied \subseteq applied'
    BY <1>8, ExecuteKeeps DEF Unprocessed, LoseAttempt
  <2>2. UNCHANGED <<command, taken, todo>> /\ (phase' = phase \/ phase' \in Final)
    BY <1>8 DEF Unprocessed, LoseAttempt, Final
  <2> QED
    BY <2>1, <2>2, CutKept
<1>9. CASE AllProcessed
  <2>1. applied \subseteq applied' /\ UNCHANGED <<command, taken, todo>> /\ phase = "sent"
    BY <1>9, ExecuteKeeps DEF AllProcessed
  <2>2. CASE command = "bwrite"
    BY <2>1, <2>2 DEF CutInv, CutAtMultiples
  <2>3. CASE command # "bwrite"
    <3>1. phase' = "read" /\ CutAtMultiples'
      BY <1>9, <2>1, <2>3 DEF AllProcessed, CutInv, CutAtMultiples
    <3>2. CASE taken < todo
      <4>1. taken % MaxBatch = 0
        BY <2>1, <2>3, <3>2 DEF CutInv, CutAtMultiples
      <4>2. 1..taken \subseteq applied'
        BY <1>9, <2>1, <2>3, <3>1 DEF AllProcessed, LossInv, Kept, Acknowledged
      <4>3. Resumable(taken)'
        BY <1>t, <2>1, <4>1, <4>2 DEF Resumable
      <4> QED
        BY <1>t, <2>1, <3>1, <4>3 DEF CutInv
    <3>3. CASE ~(taken < todo)
      <4>1. PICK b \in 0..taken : Resumable(b)
        BY <2>3 DEF CutInv
      <4>2. Resumable(b)'
        BY <2>1, <3>3, <4>1 DEF Resumable
      <4> QED
        BY <2>1, <3>1, <4>1, <4>2 DEF CutInv
    <3> QED
      BY <3>2, <3>3
  <2> QED
    BY <2>2, <2>3
<1>10. ASSUME NEW r \in strays, StrayExecutes(r) PROVE CutInv'
  BY <1>10, ExecuteKeeps, CutKept DEF StrayExecutes
<1>11. CASE UNCHANGED vars
  BY <1>11, CutKept
<1> QED
  BY <1>1, <1>2, <1>3, <1>4, <1>5, <1>6, <1>7, <1>8, <1>9, <1>10, <1>11 DEF Next, Loader, Service

\* Wherever import stops, what it wrote is a whole number of requests from the
\* start of the file and a part of the next, for every batch size: a failed
\* import can be resumed by cutting the file.
THEOREM StopIsResumable == Spec => []StopsAtOneRequest
<1>1. LossInv /\ CutInv => StopsAtOneRequest
  <2> SUFFICES ASSUME LossInv, CutInv, command # "bwrite" PROVE StopsAtOneRequest
    BY DEF StopsAtOneRequest
  <2>1. PICK b \in 0..taken : Resumable(b)
    BY DEF CutInv
  <2>2. /\ taken \in Nat /\ taken <= Len(file) /\ applied \subseteq 1..taken
        /\ Len(file) \in Nat /\ MaxBatch \in Nat
    BY BatchAssumption DEF LossInv, TypeInv, TypeOK
  <2>3. b \in 0..Len(file) /\ \A i \in applied : i <= b + MaxBatch
    BY <2>1, <2>2 DEF Resumable
  <2> QED
    BY <2>1, <2>3 DEF Resumable, StopsAtOneRequest
<1> QED
  BY <1>1, LossInit, LossStep, CutInit, CutStep, PTL DEF Spec

-----------------------------------------------------------------------------
(***************************************************************************)
(* Which requests are accepted.  A request stays within one window of      *)
(* MaxBatch rows, is not empty when it is sent, and neither is what is     *)
(* left of it.                                                             *)
(***************************************************************************)
InWindow(b) ==
  /\ b % MaxBatch = 0
  /\ chunk \subseteq (b + 1)..(b + MaxBatch)
  /\ phase = "read" /\ command = "csv" /\ taken < todo => taken \in b..(b + MaxBatch - 1)
NotEmpty == /\ phase = "convert" => chunk # {}
            /\ phase = "sent" => pending # {}

AcceptInv == (command # "bwrite" => NotEmpty /\ \E b \in 0..taken : InWindow(b)) /\ CleanFileAccepted

\* Rows of one window have the window's number.
LEMMA SameWindow ==
  ASSUME NEW m \in Nat \ {0}, NEW b \in Nat, b % m = 0, NEW i \in (b + 1)..(b + m)
  PROVE  (i - 1) \div m = b \div m
<1>1. PICK k \in Nat : b = k * m
  <2>1. b = (b \div m) * m + (b % m) /\ b \div m \in Nat
    OBVIOUS
  <2> QED
    BY <2>1
<1>2. PICK r \in 0..(m - 1) : i - 1 = k * m + r
  <2>1. i - 1 - b \in 0..(m - 1) /\ i - 1 = b + (i - 1 - b)
    OBVIOUS
  <2> QED
    BY <1>1, <2>1
<1>3. \A q \in 0..(m - 1) : (k * m + q) \div m = k
  OBVIOUS
<1> QED
  BY <1>1, <1>2, <1>3

\* What is left of a request for a clean file is accepted.
LEMMA CleanValid ==
  ASSUME LossInv, AcceptInv, command # "bwrite", Clean, phase = "sent"
  PROVE  Valid(pending)
<1>t. /\ TypeOK /\ taken \in Nat /\ pending \subseteq chunk /\ chunk \subseteq 1..taken
      /\ taken <= Len(file) /\ Len(file) \in Nat
      /\ MaxBatch \in Nat \ {0} /\ ServiceLimit \in Nat /\ MaxBatch <= ServiceLimit
  BY BatchAssumption DEF LossInv, TypeInv, TypeOK
<1>1. PICK b \in 0..taken : InWindow(b)
  BY DEF AcceptInv
<1>2. pending # {} /\ pending \subseteq (b + 1)..(b + MaxBatch) /\ pending \subseteq Rows
  BY <1>1, <1>t DEF AcceptInv, NotEmpty, InWindow, Rows
<1>3. Cardinality(pending) <= ServiceLimit
  <2>0. b + 1 \in Int /\ b + MaxBatch \in Int /\ ~(b + 1 > b + MaxBatch)
    BY <1>t
  <2>1. /\ IsFiniteSet((b + 1)..(b + MaxBatch))
        /\ Cardinality((b + 1)..(b + MaxBatch)) = (b + MaxBatch) - (b + 1) + 1
    BY <2>0, FS_Interval
  <2>2. IsFiniteSet(pending) /\ Cardinality(pending) <= Cardinality((b + 1)..(b + MaxBatch))
    BY <1>2, <2>1, FS_Subset
  <2>3. Cardinality(pending) \in Nat
    BY <2>2, FS_CardinalityType
  <2> QED
    BY <1>t, <2>1, <2>2, <2>3
<1>4. ASSUME NEW i \in pending PROVE Window(i) = b \div MaxBatch
  <2>1. b \in Nat /\ b % MaxBatch = 0 /\ i \in (b + 1)..(b + MaxBatch)
    BY <1>1, <1>2, <1>t DEF InWindow
  <2> QED
    BY <1>t, <2>1, SameWindow DEF Window
<1>5. \A i, j \in pending : i # j => file[i].key # file[j].key
  BY <1>2, <1>4 DEF Clean
<1>6. \A i \in pending : file[i].kind # "keyless"
  BY <1>2 DEF Clean
<1> QED
  BY <1>2, <1>3, <1>5, <1>6 DEF Valid

\* The rows of a clean file are converted.
LEMMA CleanConverts ==
  ASSUME TypeOK, Clean
  PROVE  Convertible(chunk)
<1>1. chunk \subseteq Rows
  BY DEF TypeOK, Rows
<1>2. \A kinds : "item" \notin kinds => OfKind(chunk, kinds) = {}
  BY <1>1 DEF OfKind, Clean
<1> QED
  BY <1>2 DEF Convertible

\* Nothing is refused at the start.
LEMMA AcceptInit == Init => AcceptInv
<1> SUFFICES ASSUME Init PROVE AcceptInv
  OBVIOUS
<1>1. InWindow(0) /\ 0 \in 0..taken
  BY BatchAssumption DEF Init, InWindow
<1>2. NotEmpty /\ CleanFileAccepted
  BY DEF Init, NotEmpty, CleanFileAccepted
<1> QED
  BY <1>1, <1>2 DEF AcceptInv

\* A step that stays with the rows it has keeps their window.
LEMMA WindowKept ==
  ASSUME AcceptInv, UNCHANGED <<command, todo, taken>>, chunk' \subseteq chunk,
         phase' # "read" \/ (phase = "read" /\ UNCHANGED chunk)
  PROVE  command' # "bwrite" => \E b \in 0..taken' : InWindow(b)'
BY DEF AcceptInv, InWindow

\* A step to a phase other than these refuses nothing.
LEMMA CleanKept ==
  ASSUME CleanFileAccepted, UNCHANGED <<file, command>>, phase' \notin {"rejected", "failed"}
  PROVE  CleanFileAccepted'
BY DEF CleanFileAccepted

\* No step cuts a request that the service does not accept from a clean file.
LEMMA AcceptStep == LossInv /\ LossInv' /\ CutInv /\ AcceptInv /\ [Next]_vars => AcceptInv'
<1> SUFFICES ASSUME LossInv, LossInv', CutInv, AcceptInv, [Next]_vars PROVE AcceptInv'
  OBVIOUS
<1>t. /\ TypeOK /\ NothingReadYet /\ CleanFileAccepted
      /\ taken \in Nat /\ todo \in Nat /\ taken <= todo /\ MaxBatch \in Nat \ {0}
  BY BatchAssumption DEF LossInv, TypeInv, TypeOK, AcceptInv
<1>c. UNCHANGED file => Clean' = Clean
  BY DEF Clean, Rows, Window
<1> USE DEF vars, loader, service, NotEmpty
<1>1. CASE Cancel \/ OpenFails
  <2>1. CleanFileAccepted'
    BY <1>1, <1>t, <1>c DEF Cancel, OpenFails, NothingReadYet, CleanFileAccepted
  <2> QED
    BY <1>1, <2>1, WindowKept DEF Cancel, OpenFails, AcceptInv
<1>2. CASE Open
  <2>1. InWindow(0)' /\ 0 \in 0..taken'
    BY <1>2, <1>t DEF Open, NothingReadYet, InWindow, TypeOK
  <2> QED
    BY <1>2, <1>t, <2>1, CleanKept DEF Open, AcceptInv
<1>3. CASE NextChunk
  <2>1. taken % MaxBatch = 0
    BY <1>3 DEF NextChunk, CutInv, CutAtMultiples
  <2>2. /\ taken' \in Nat /\ taken < taken' /\ taken' <= taken + MaxBatch
        /\ chunk' = (taken + 1)..taken' /\ phase' = "convert"
    BY <1>3, <1>t DEF NextChunk
  <2>3. chunk' # {} /\ chunk' \subseteq (taken + 1)..(taken + MaxBatch)
    BY <1>t, <2>2
  <2>4. PICK b \in 0..taken' : b = taken
    BY <1>t, <2>2
  <2>5. InWindow(b)'
    BY <2>1, <2>2, <2>3, <2>4 DEF InWindow
  <2> QED
    BY <1>3, <1>t, <2>2, <2>3, <2>4, <2>5, CleanKept DEF NextChunk, AcceptInv
<1>4. CASE CsvRow
  <2>1. PICK b \in 0..taken : InWindow(b)
    BY <1>4 DEF CsvRow, AcceptInv
  <2>2. taken \in b..(b + MaxBatch - 1) /\ chunk \subseteq (b + 1)..(b + MaxBatch) /\ b % MaxBatch = 0
    BY <1>4, <2>1 DEF CsvRow, InWindow
  <2>3. /\ taken' = taken + 1 /\ chunk' = chunk \cup {taken + 1}
        /\ phase' = IF (taken + 1) % MaxBatch = 0 THEN "convert" ELSE "read"
    BY <1>4 DEF CsvRow
  <2>4. (b + MaxBatch) % MaxBatch = 0
    <3>1. b \in Nat /\ b % MaxBatch = 0 /\ MaxBatch \in Nat \ {0}
      BY <1>t, <2>2
    <3> QED
      BY <3>1, NextMultiple
  <2>5. phase' = "read" => taken + 1 # b + MaxBatch
    BY <2>3, <2>4
  <2>6. InWindow(b)' /\ b \in 0..taken'
    BY <1>t, <2>2, <2>3, <2>5 DEF InWindow
  <2> QED
    BY <1>4, <1>t, <2>3, <2>6, CleanKept DEF CsvRow, AcceptInv
<1>5. CASE CsvRest
  BY <1>5, <1>t, WindowKept, CleanKept DEF CsvRest, AcceptInv
<1>6. CASE Gather
  BY <1>6 DEF Gather, AcceptInv, CleanFileAccepted
<1>7. CASE Convert
  <2>1. UNCHANGED <<file, command, todo, taken, chunk>> /\ phase' # "read"
    BY <1>7 DEF Convert
  <2>2. command' # "bwrite" => \E b \in 0..taken' : InWindow(b)'
    BY <2>1, WindowKept
  <2>3. command # "bwrite" => NotEmpty'
    BY <1>7 DEF Convert, AcceptInv
  <2>4. CleanFileAccepted'
    <3>1. CASE Clean
      <4>1. phase' = "sent"
        BY <1>7, <1>t, <3>1, CleanConverts DEF Convert
      <4> QED
        BY <1>t, <2>1, <4>1, CleanKept
    <3>2. CASE ~Clean
      BY <1>c, <2>1, <3>2 DEF CleanFileAccepted
    <3> QED
      BY <3>1, <3>2
  <2> QED
    BY <2>1, <2>2, <2>3, <2>4 DEF AcceptInv
<1>8. CASE Finish
  BY <1>8, <1>t, WindowKept, CleanKept DEF Finish, AcceptInv
<1>9. CASE Reject
  <2>1. UNCHANGED <<file, command, todo, taken, chunk>> /\ phase = "sent" /\ ~Valid(pending)
        /\ phase' = "rejected"
    BY <1>9 DEF Reject
  <2>2. ~(command # "bwrite" /\ Clean)
    BY <2>1, CleanValid
  <2> QED
    BY <1>c, <2>1, <2>2, WindowKept DEF AcceptInv, CleanFileAccepted
<1>10. CASE Refuse
  BY <1>10, <1>t, WindowKept, CleanKept DEF Refuse, AcceptInv
<1>11. ASSUME NEW S \in SUBSET pending, Unprocessed(S) PROVE AcceptInv'
  <2>1. /\ UNCHANGED <<file, command, todo, taken, chunk>> /\ pending' # {}
        /\ phase' \in {"done", "sent"}
    BY <1>11 DEF Unprocessed
  <2> QED
    BY <1>t, <2>1, WindowKept, CleanKept DEF AcceptInv
<1>12. ASSUME NEW S \in SUBSET pending, LoseAttempt(S) PROVE AcceptInv'
  <2>1. /\ UNCHANGED <<file, command, todo, taken, chunk, pending>>
        /\ phase = "sent" /\ phase' \in {"gaveUp", "sent"}
    BY <1>12 DEF LoseAttempt
  <2> QED
    BY <1>t, <2>1, WindowKept, CleanKept DEF AcceptInv
<1>13. CASE AllProcessed
  <2>1. /\ UNCHANGED <<file, command, todo, taken>> /\ chunk' = {} /\ phase = "sent"
        /\ phase' = IF command = "bwrite" THEN "done" ELSE "read"
    BY <1>13 DEF AllProcessed
  <2>2. ASSUME command # "bwrite" PROVE \E b \in 0..taken' : InWindow(b)'
    <3>1. CASE taken < todo
      <4>1. taken % MaxBatch = 0
        BY <2>1, <2>2, <3>1 DEF CutInv, CutAtMultiples
      <4>2. PICK b \in 0..taken' : b = taken
        BY <1>t, <2>1
      <4>3. InWindow(b)'
        BY <1>t, <2>1, <4>1, <4>2 DEF InWindow
      <4> QED
        BY <4>3
    <3>2. CASE ~(taken < todo)
      BY <2>1, <2>2, <3>2 DEF AcceptInv, InWindow
    <3> QED
      BY <3>1, <3>2
  <2> QED
    BY <1>t, <2>1, <2>2, CleanKept DEF AcceptInv
<1>14. ASSUME NEW r \in strays, StrayExecutes(r) PROVE AcceptInv'
  BY <1>14, <1>c DEF StrayExecutes, AcceptInv, InWindow, CleanFileAccepted
<1>15. CASE UNCHANGED vars
  BY <1>15, <1>c DEF AcceptInv, InWindow, CleanFileAccepted
<1> QED
  BY <1>1, <1>2, <1>3, <1>4, <1>5, <1>6, <1>7, <1>8, <1>9, <1>10, <1>11, <1>12, <1>13, <1>14, <1>15
     DEF Next, Loader, Service

\* A well-formed file with no key twice in a window is never refused by the
\* service or by the conversion, whatever is left unprocessed or lost: no request
\* is empty, too large, or puts rows together that are not accepted together.
THEOREM CleanIsAccepted == Spec => []CleanFileAccepted
<1>1. AcceptInv => CleanFileAccepted
  BY DEF AcceptInv
<1> QED
  BY <1>1, LossInit, LossStep, CutInit, CutStep, AcceptInit, AcceptStep, PTL DEF Spec

-----------------------------------------------------------------------------
(***************************************************************************)
(* import loads a table as KeyedLoad says.  The rows the parser will       *)
(* deliver are determined by the file before it is opened, which is what   *)
(* the abstract source consists of.                                        *)
(***************************************************************************)
Opened == Delivered(todo) \/ (taken = 0 /\ phase \in {"start", "cancelled", "failed"})

LoadInv == LossInv /\ OrderInv /\ Opened

\* A set of row numbers has a least one: the ranges up to its elements have a
\* smallest one.
LEMMA LeastRow ==
  ASSUME NEW n \in Nat, NEW T \in SUBSET (1..n), T # {}
  PROVE  \E x \in T : \A y \in T : x <= y
<1> DEFINE R == {1..x : x \in T}
<1>1. R # {} /\ R \subseteq SUBSET (1..n)
  <2>1. ASSUME NEW x \in T PROVE 1..x \in SUBSET (1..n)
    BY <2>1
  <2> QED
    BY <2>1
<1>2. IsFiniteSet(1..n)
  BY FS_Interval
<1>3. R \subseteq FiniteSubsetsOf(1..n)
  BY <1>1, <1>2, FS_FiniteSubsetsOfFinite
<1>4. PICK r \in R : \A s \in R : <<s, r>> \notin StrictSubsetOrdering(1..n)
  <2> HIDE DEF R
  <2>1. IsWellFoundedOn(StrictSubsetOrdering(1..n), FiniteSubsetsOf(1..n))
    BY FS_StrictSubsetOrderingWellFounded
  <2> QED
    BY <1>1, <1>3, <2>1, WFMin
<1>5. PICK x \in T : r = 1..x
  OBVIOUS
<1>6. ASSUME NEW y \in T, ~(x <= y) PROVE FALSE
  <2>1. 1..y \in R /\ 1..y \subseteq 1..x /\ x \in 1..x /\ x \notin 1..y
    BY <1>6
  <2>2. <<1..y, r>> \in StrictSubsetOrdering(1..n)
    BY <1>1, <1>5, <2>1 DEF StrictSubsetOrdering
  <2> QED
    BY <1>4, <2>1, <2>2
<1> QED
  BY <1>6

\* The parser delivers the rows before the first it cannot read; how many these
\* are is determined by the file.
LEMMA PromisedRows ==
  ASSUME file \in Seq(Row), command \in Commands
  PROVE  /\ Promised \in 0..Len(file)
         /\ \A n \in 0..Len(file) : Delivered(n) => n = Promised
<1>1. Len(file) \in Nat
  OBVIOUS
<1>2. \E n \in 0..Len(file) : Delivered(n)
  <2>1. CASE command = "jsonl" /\ Broken # {}
    <3>1. PICK x \in Broken : \A y \in Broken : x <= y
      BY <1>1, <2>1, LeastRow DEF Broken, Rows
    <3>2. x \in 1..Len(file)
      BY DEF Broken, Rows
    <3>3. Delivered(x - 1)
      BY <1>1, <2>1, <3>1, <3>2 DEF Delivered, Broken
    <3> QED
      BY <1>1, <3>2, <3>3
  <2>2. CASE ~(command = "jsonl" /\ Broken # {})
    <3>1. Delivered(Len(file))
      BY <1>1, <2>2 DEF Delivered
    <3> QED
      BY <1>1, <3>1
  <2> QED
    BY <2>1, <2>2
<1>3. ASSUME NEW m \in 0..Len(file), NEW n \in 0..Len(file), Delivered(m), Delivered(n) PROVE m = n
  <2>1. ASSUME NEW a \in 0..Len(file), NEW b \in 0..Len(file), Delivered(a), Delivered(b), a < b PROVE FALSE
    <3>1. a + 1 \in 1..b /\ a < Len(file)
      BY <1>1, <2>1
    <3> QED
      BY <2>1, <3>1 DEF Delivered
  <2> QED
    BY <1>1, <1>3, <2>1
<1>4. Promised \in 0..Len(file) /\ Delivered(Promised)
  BY <1>2 DEF Promised
<1> QED
  BY <1>3, <1>4

\* The abstract source is a sequence of keys, and the table holds rows of it.
LEMMA SourceType ==
  ASSUME TypeOK, Opened
  PROVE  /\ [i \in 1..Promised |-> file[i].key] \in Seq(Keys)
         /\ Len([i \in 1..Promised |-> file[i].key]) = Promised
         /\ Promised \in Nat
         /\ table \in [Keys -> 0..Promised]
         /\ phase \notin {"start", "cancelled", "failed"} => todo = Promised
         /\ taken \in Nat /\ taken <= Promised
<1>1. file \in Seq(Row) /\ command \in Commands /\ Len(file) \in Nat
  BY DEF TypeOK
<1>2. Promised \in 0..Len(file) /\ \A n \in 0..Len(file) : Delivered(n) => n = Promised
  BY <1>1, PromisedRows
<1>3. \A i \in 1..Promised : file[i].key \in Keys
  <2>1. \A i \in 1..Len(file) : file[i] \in Row
    BY <1>1
  <2> QED
    BY <1>1, <1>2, <2>1 DEF Row
<1>4. todo = Promised \/ (taken = 0 /\ phase \in {"start", "cancelled", "failed"})
  BY <1>2 DEF Opened, TypeOK
<1>5. taken \in Nat /\ taken <= Promised
  BY <1>1, <1>2, <1>4 DEF TypeOK
<1>6. 0..taken \subseteq 0..Promised
  BY <1>2, <1>5
<1>7. table \in [Keys -> 0..Promised]
  <2>1. table \in [Keys -> 0..taken]
    BY DEF TypeOK
  <2> QED
    BY <1>6, <2>1
<1> QED
  BY <1>1, <1>2, <1>3, <1>4, <1>5, <1>7

\* Executing a part of a valid request moves keys on to later rows of theirs.
LEMMA ExecuteAdvances ==
  ASSUME LoadInv, LoadInv', UNCHANGED <<file, command, taken>>,
         phase = "sent", Valid(pending), NEW S \in SUBSET pending, Execute(S)
  PROVE  Abstract!Advance
<1>t. TypeOK /\ Opened /\ TypeOK'
  BY DEF LoadInv, LossInv, TypeInv
<1>1. /\ table \in [Keys -> 0..Promised] /\ Promised \in Nat /\ taken \in Nat /\ taken <= Promised
      /\ Len([i \in 1..Promised |-> file[i].key]) = Promised
  BY <1>t, SourceType
<1>2. table' \in [Keys -> 0..Promised]
  <2>1. table' \in [Keys -> 0..taken] /\ 0..taken \subseteq 0..Promised
    BY <1>t, <1>1 DEF TypeOK
  <2> QED
    BY <2>1
<1>3. /\ \A k \in Keys : table'[k] # 0 => table'[k] \in applied' /\ file[table'[k]].key = k
      /\ \A i \in applied' : i <= table'[file[i].key]
  BY ExecuteInOrder DEF LoadInv
<1>4. applied \subseteq applied'
  BY ExecuteKeeps
<1>5. ASSUME NEW k \in Keys, table'[k] # table[k]
      PROVE  table'[k] > table[k] /\ [i \in 1..Promised |-> file[i].key][table'[k]] = k
  <2>1. table[k] \in 0..Promised /\ table'[k] \in 0..Promised
    BY <1>1, <1>2
  <2>2. table[k] # 0 => table[k] \in applied /\ file[table[k]].key = k
    BY DEF LoadInv, OrderInv, TableIsApplied
  <2>3. table[k] # 0 => table[k] <= table'[k]
    BY <1>3, <1>4, <2>2
  <2>4. table'[k] > table[k]
    BY <1>1, <1>5, <2>1, <2>3
  <2>5. table'[k] \in 1..Promised /\ file[table'[k]].key = k
    BY <1>1, <1>3, <2>1, <2>4
  <2> QED
    BY <2>4, <2>5
<1> QED
  BY <1>1, <1>2, <1>5 DEF Abstract!Advance

\* What does not touch the table leaves the abstract one alone.
LEMMA NothingAdvances ==
  ASSUME LoadInv, UNCHANGED table
  PROVE  Abstract!Advance
<1>1. TypeOK /\ Opened
  BY DEF LoadInv, LossInv, TypeInv
<1>2. table \in [Keys -> 0..Promised] /\ Len([i \in 1..Promised |-> file[i].key]) = Promised
  BY <1>1, SourceType
<1> QED
  BY <1>2 DEF Abstract!Advance

\* What the parser delivers is settled when the input is opened.
LEMMA OpenedStep ==
  ASSUME Opened, NothingReadYet, [Next]_vars
  PROVE  Opened'
<1> USE DEF Opened, Delivered, Broken, Rows, vars, loader, service
<1>1. CASE Open
  BY <1>1 DEF Open
<1>2. CASE Cancel \/ OpenFails
  BY <1>2 DEF Cancel, OpenFails, NothingReadYet
<1>3. CASE NextChunk \/ CsvRow \/ CsvRest \/ Gather \/ Convert \/ Finish
  BY <1>3 DEF NextChunk, CsvRow, CsvRest, Gather, Convert, Finish
<1>4. CASE Reject \/ AllProcessed \/ Refuse
  BY <1>4 DEF Reject, AllProcessed, Refuse
<1>5. ASSUME NEW S, Unprocessed(S) \/ LoseAttempt(S) \/ StrayExecutes(S) PROVE Opened'
  BY <1>5 DEF Unprocessed, LoseAttempt, StrayExecutes
<1>6. CASE UNCHANGED vars
  BY <1>6
<1> QED
  BY <1>1, <1>2, <1>3, <1>4, <1>5, <1>6 DEF Next, Loader, Service

\* Every step is one of KeyedLoad, or none.
LEMMA LoadStep ==
  ASSUME ~Late, LoadInv, LoadInv', [Next]_vars
  PROVE  [Abstract!Next]_(Abstract!vars)
<1>t. /\ TypeOK /\ Opened /\ command \in Commands
      /\ phase = "read" => todo = Promised
  BY SourceType DEF LoadInv, LossInv, TypeInv, TypeOK
<1>s. UNCHANGED <<file, command>> => UNCHANGED [i \in 1..Promised |-> file[i].key]
  BY DEF Promised, Delivered, Broken, Rows
<1> USE DEF vars, loader, service
<1>a. ASSUME UNCHANGED <<file, command>>, Abstract!Advance, Status = "running", Status' = "running"
      PROVE  Abstract!Next
  BY <1>s, <1>a DEF Abstract!Next, Abstract!Put
<1>b. ASSUME UNCHANGED <<file, command>>, Abstract!Advance, Status = "running", Status' = "aborted"
      PROVE  Abstract!Next
  BY <1>s, <1>b DEF Abstract!Next, Abstract!Abort
<1>1. CASE Cancel \/ OpenFails \/ Reject \/ Refuse
  <2>1. UNCHANGED <<file, command, table>> /\ Status = "running" /\ Status' = "aborted"
    BY <1>1 DEF Cancel, OpenFails, Reject, Refuse, Status, Final
  <2> QED
    BY <1>b, <2>1, NothingAdvances
<1>2. CASE Open \/ NextChunk \/ CsvRow \/ CsvRest \/ Gather
  <2>1. UNCHANGED <<file, command, table>> /\ Status = "running" /\ Status' = "running"
    BY <1>2 DEF Open, NextChunk, CsvRow, CsvRest, Gather, Status, Final
  <2> QED
    BY <1>a, <2>1, NothingAdvances
<1>3. CASE Convert
  <2>1. UNCHANGED <<file, command, table>> /\ Status = "running" /\ Status' \in {"running", "aborted"}
    BY <1>3 DEF Convert, Status, Final
  <2> QED
    BY <1>a, <1>b, <2>1, NothingAdvances
<1>4. CASE Finish
  <2>1. UNCHANGED <<file, command, table>> /\ Status = "running" /\ Status' = "complete"
    BY <1>4 DEF Finish, Status, Final
  <2>2. applied = 1..todo
    <3>1. applied' = 1..todo'
      BY <1>4 DEF Finish, LoadInv, LossInv, Kept, Completed, Acknowledged, TypeInv, TypeOK
    <3> QED
      BY <1>4, <3>1 DEF Finish
  <2>3. \A i \in 1..Promised : table[[j \in 1..Promised |-> file[j].key][i]] >= i
    BY <1>4, <1>t, <2>2 DEF Finish, LoadInv, OrderInv, LastExecuted
  <2>4. Len([i \in 1..Promised |-> file[i].key]) = Promised
    BY <1>t, SourceType
  <2> QED
    BY <1>s, <2>1, <2>3, <2>4 DEF Abstract!Next, Abstract!Complete
<1>5. ASSUME NEW S \in SUBSET pending, Unprocessed(S) \/ LoseAttempt(S) PROVE Abstract!Next
  <2>1. /\ UNCHANGED <<file, command, taken>> /\ phase = "sent" /\ Valid(pending) /\ Execute(S)
        /\ Status = "running" /\ Status' \in {"running", "aborted"}
    BY <1>5 DEF Unprocessed, LoseAttempt, Status, Final
  <2> QED
    BY <1>a, <1>b, <2>1, ExecuteAdvances
<1>6. CASE AllProcessed
  <2>1. /\ UNCHANGED <<file, command, taken>> /\ phase = "sent" /\ Valid(pending) /\ Execute(pending)
        /\ Status = "running" /\ Status' \in {"running", "aborted"}
    BY <1>6 DEF AllProcessed, Status, Final
  <2> QED
    BY <1>a, <1>b, <2>1, ExecuteAdvances
<1>7. ASSUME NEW r \in strays, StrayExecutes(r) PROVE Abstract!Next
  BY DEF LoadInv, OrderInv, NoStrays
<1>8. CASE UNCHANGED vars
  BY <1>8, <1>s DEF Abstract!vars, Status
<1> QED
  BY <1>1, <1>2, <1>3, <1>4, <1>5, <1>6, <1>7, <1>8 DEF Next, Loader, Service

\* import and bwrite implement KeyedLoad, if no attempt is executed after the
\* client gave up on it: whatever the service leaves unprocessed, loses or is sent
\* again, no key goes back to an earlier row, and import completes only with every
\* key at its last row.
THEOREM LoadsKeyed ==
  ASSUME ~Late
  PROVE  Spec => ImplementsKeyedLoad
<1>1. Init => LoadInv /\ Abstract!Init
  <2> SUFFICES ASSUME Init PROVE LoadInv /\ Abstract!Init
    OBVIOUS
  <2>1. LoadInv
    BY LossInit, OrderInit DEF Init, LoadInv, Opened
  <2>2. [i \in 1..Promised |-> file[i].key] \in Seq(Keys)
    BY <2>1, SourceType DEF LoadInv, LossInv, TypeInv
  <2> QED
    BY <2>1, <2>2 DEF Init, Abstract!Init, Status, Final
<1>2. LoadInv /\ [Next]_vars => LoadInv'
  <2> SUFFICES ASSUME LoadInv, [Next]_vars PROVE Opened'
    BY LossStep, OrderStep DEF LoadInv
  <2>1. Opened /\ NothingReadYet
    BY DEF LoadInv, LossInv, TypeInv
  <2> QED
    BY <2>1, OpenedStep
<1>3. LoadInv /\ LoadInv' /\ [Next]_vars => [Abstract!Next]_(Abstract!vars)
  BY LoadStep
<1> QED
  BY <1>1, <1>2, <1>3, PTL DEF Spec, ImplementsKeyedLoad, Abstract!Spec
=============================================================================
