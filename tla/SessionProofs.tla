---------------------------- MODULE SessionProofs ----------------------------
(***************************************************************************)
(* Proofs about Session, and about TableAdmin, whose commands it has.  For *)
(* all tables, units and other users: update keeps the units it was not    *)
(* told to change, and restore makes copies of what was named.  For all    *)
(* scripts, command lines and conversions: the commands on tables behave   *)
(* in a session as TableAdmin has them, the settings of a command are its  *)
(* own or those last made in its run, tables are well kept, counters       *)
(* count, and what was typed is stored.                                    *)
(***************************************************************************)
EXTENDS Session, TextFormsProofs, FiniteSetTheorems

-----------------------------------------------------------------------------
(* The commands on tables *)

\* Tables and backups have the shape the service describes them in.
Typed ==
  /\ \A n \in DOMAIN tables : IsTable(tables[n])
  /\ \A i \in DOMAIN backups : IsBackup(backups[i])

\* What is sent is the request of the command being executed.
Asked ==
  cmd # None /\ cmd.do \in AdminCommands /\ step = "request" =>
    request.api = cmd.do /\ tried \in Nat

\* What `update` has seen is still true of a table nobody has touched since, and
\* so what it fills into its request are units the table has, or with a mode what
\* goes with that.
UpdateKnows ==
  cmd # None /\ cmd.do = "update" =>
    /\ cmd.mode \in Modes \cup {None}
    /\ step = "looked" /\ cmd.table \notin touched =>
         /\ cmd.table \in DOMAIN tables
         /\ seen.rcu = tables[cmd.table].rcu /\ seen.wcu = tables[cmd.table].wcu
    /\ step = "request" =>
         /\ request.mode = cmd.mode
         /\ cmd.mode = "PROVISIONED" =>
              request.units = [rcu |-> Or(cmd.rcu, DefaultUnits), wcu |-> Or(cmd.wcu, DefaultUnits)]
         /\ cmd.mode = "PAY_PER_REQUEST" => request.units = None
         /\ cmd.mode = None /\ request.units # None /\ cmd.table \notin touched =>
              /\ cmd.table \in DOMAIN tables
              /\ request.units.rcu \in {cmd.rcu, tables[cmd.table].rcu}
              /\ request.units.wcu \in {cmd.wcu, tables[cmd.table].wcu}

\* What `restore` has listed are backups of its table, and what it asks for is one
\* of the name it was given.
RestoreKnows ==
  cmd # None /\ cmd.do = "restore" =>
    /\ step = "looked" =>
         \A i \in seen.of : i \in DOMAIN backups /\ backups[i].table = cmd.table
    /\ step = "request" =>
         /\ request.arn \in DOMAIN backups
         /\ backups[request.arn].table = cmd.table
         /\ cmd.backup # None => backups[request.arn].name = cmd.backup

Inv == Typed /\ Asked /\ UpdateKnows /\ RestoreKnows

-----------------------------------------------------------------------------
(* What goes on around a handler *)

\* A table nobody else has touched keeps its units.
RatesStay ==
  /\ touched \subseteq touched'
  /\ \A n \in DOMAIN tables :
       n \notin touched' => /\ n \in DOMAIN tables'
                            /\ tables'[n].rcu = tables[n].rcu
                            /\ tables'[n].wcu = tables[n].wcu

\* A backup keeps its name and its table, and stays listed under its ARN.
BackupsStay ==
  \A i \in DOMAIN backups : /\ i \in DOMAIN backups'
                            /\ backups'[i].table = backups[i].table
                            /\ backups'[i].name = backups[i].name

\* No step of the service's own makes more of a table than it was.
LEMMA SettleStays ==
  ASSUME Typed, Settle
  PROVE  Typed' /\ RatesStay /\ BackupsStay /\ DOMAIN tables' = DOMAIN tables
<1>1. ASSUME NEW n \in DOMAIN tables, tables' = [tables EXCEPT ![n].busy = FALSE], UNCHANGED backups
      PROVE  Typed' /\ RatesStay /\ BackupsStay /\ DOMAIN tables' = DOMAIN tables
  <2>1. DOMAIN tables' = DOMAIN tables
    BY <1>1
  <2>2. \A m \in DOMAIN tables : /\ DOMAIN tables'[m] = DOMAIN tables[m]
                                 /\ tables'[m].rcu = tables[m].rcu
                                 /\ tables'[m].wcu = tables[m].wcu
    BY <1>1 DEF Typed, IsTable, TableFields
  <2>3. RatesStay
    BY <2>1, <2>2 DEF RatesStay, Settle
  <2> QED
    BY <1>1, <2>1, <2>2, <2>3 DEF Typed, IsTable, TableFields, BackupsStay
<1>2. ASSUME NEW i \in DOMAIN backups, backups' = [backups EXCEPT ![i].status = Available], UNCHANGED tables
      PROVE  Typed' /\ RatesStay /\ BackupsStay /\ DOMAIN tables' = DOMAIN tables
  <2>1. \A j \in DOMAIN backups : /\ DOMAIN backups'[j] = DOMAIN backups[j]
                                  /\ backups'[j].image = backups[j].image
                                  /\ backups'[j].table = backups[j].table
                                  /\ backups'[j].name = backups[j].name
    BY <1>2 DEF Typed, IsBackup
  <2>2. DOMAIN backups' = DOMAIN backups
    BY <1>2
  <2> QED
    BY <1>2, <2>1, <2>2 DEF Typed, IsBackup, RatesStay, BackupsStay, Settle
<1> QED
  BY <1>1, <1>2 DEF Settle

\* An update changes the mode and the units of a table, and nothing of its shape.
LEMMA UpdatedTable ==
  ASSUME NEW t, IsTable(t), NEW mode, NEW units
  PROVE  LET u == Updated(t, mode, units)
         IN /\ IsTable(u)
            /\ u.billing = IF mode = None THEN t.billing ELSE mode
            /\ u.rcu = IF units = None THEN 0 ELSE units.rcu
            /\ u.wcu = IF units = None THEN 0 ELSE units.wcu
BY DEF Updated, IsTable, TableFields

\* The service takes an update with units for a provisioned table, or one that is
\* to be, and one without for any other if it says so.
LEMMA PossibleUpdate ==
  ASSUME NEW t, NEW mode, NEW units, CanUpdate(t, mode, units)
  PROVE  IF Or(mode, Mode(t)) = "PAY_PER_REQUEST" THEN mode # None /\ units = None
         ELSE units # None /\ units.rcu \in Nat \ {0} /\ units.wcu \in Nat \ {0}
<1>1. CASE Or(mode, Mode(t)) = "PAY_PER_REQUEST"
  BY <1>1 DEF CanUpdate
<1>2. CASE Or(mode, Mode(t)) # "PAY_PER_REQUEST"
  <2>1. units # None /\ {units.rcu, units.wcu} \subseteq Nat \ {0}
    BY <1>2, Zenon DEF CanUpdate
  <2> QED
    BY <1>2, <2>1
<1> QED
  BY <1>1, <1>2

\* Other items do not change the shape of a table, or its units.
LEMMA OtherItems ==
  ASSUME NEW t, IsTable(t), NEW u, SameButItems(t, u)
  PROVE  IsTable(u) /\ u.rcu = t.rcu /\ u.wcu = t.wcu
BY DEF IsTable, TableFields, SameButItems

\* Other users change the table they touch and no other.
LEMMA OthersStay ==
  ASSUME Typed, NEW n \in DOMAIN tables, OtherUpdates(n) \/ OtherDeletes(n) \/ OtherWrites(n)
  PROVE  Typed' /\ RatesStay /\ BackupsStay /\ DOMAIN tables' \subseteq DOMAIN tables
<1>1. CASE OtherUpdates(n)
  <2>1. PICK mode, units : tables' = [tables EXCEPT ![n] = Updated(@, mode, units)]
    BY <1>1 DEF OtherUpdates
  <2>2. IsTable(Updated(tables[n], mode, units))
    BY UpdatedTable DEF Typed
  <2>3. \A m \in DOMAIN tables : m # n => tables'[m] = tables[m]
    BY <2>1
  <2>4. DOMAIN tables' = DOMAIN tables /\ tables'[n] = Updated(tables[n], mode, units)
    BY <2>1
  <2> QED
    BY <1>1, <2>2, <2>3, <2>4 DEF OtherUpdates, Other, Typed, RatesStay, BackupsStay
<1>2. CASE OtherDeletes(n)
  BY <1>2 DEF OtherDeletes, Other, Without, Typed, RatesStay, BackupsStay
<1>3. CASE OtherWrites(n)
  <2>1. \A m \in DOMAIN tables : /\ IsTable(tables'[m])
                                 /\ tables'[m].rcu = tables[m].rcu
                                 /\ tables'[m].wcu = tables[m].wcu
    BY <1>3, OtherItems DEF OtherWrites, ItemsOnly, Typed
  <2> QED
    BY <1>3, <2>1 DEF OtherWrites, ItemsOnly, Other, Typed, RatesStay, BackupsStay
<1> QED
  BY <1>1, <1>2, <1>3

\* Dropping a backup changes its status only.
LEMMA DropStays ==
  ASSUME Typed, OtherDropsBackup
  PROVE  Typed' /\ RatesStay /\ BackupsStay /\ DOMAIN tables' = DOMAIN tables
<1>1. PICK i \in Existing : backups' = [backups EXCEPT ![i].status = "DELETED"]
  BY DEF OtherDropsBackup
<1>2. DOMAIN backups' = DOMAIN backups
  BY <1>1
<1>3. \A j \in DOMAIN backups : /\ DOMAIN backups'[j] = DOMAIN backups[j]
                                /\ backups'[j].image = backups[j].image
                                /\ backups'[j].table = backups[j].table
                                /\ backups'[j].name = backups[j].name
  BY <1>1 DEF Typed, IsBackup
<1> QED
  BY <1>2, <1>3 DEF OtherDropsBackup, Typed, IsBackup, RatesStay, BackupsStay

\* Whatever happens around a handler leaves what it knows true.
LEMMA AroundKeeps ==
  ASSUME Inv, Typed', RatesStay, BackupsStay, UNCHANGED handler
  PROVE  Inv'
<1>1. Asked'
  BY DEF Inv, Asked, handler
<1>2. UpdateKnows'
  BY DEF Inv, UpdateKnows, handler, RatesStay
<1>3. RestoreKnows'
  BY DEF Inv, RestoreKnows, handler, BackupsStay
<1> QED
  BY <1>1, <1>2, <1>3 DEF Inv

-----------------------------------------------------------------------------
(* The handler's own steps *)

\* Its steps before the request and after it leave tables and backups alone.
LEMMA HandlersKeep ==
  ASSUME Inv, Handlers
  PROVE  Inv'
<1> USE DEF Inv
<1>1. tables' = tables /\ backups' = backups
  BY DEF Handlers, Create, Update, Describe, Delete, Backup, ListBackups, LookForBackups, Restore, service
<1>2. Typed'
  BY <1>1 DEF Typed
<1>3. cmd' = cmd
  BY DEF Handlers, Create, Update, Describe, Delete, Backup, ListBackups, LookForBackups, Restore, End, Ask, Look
<1>4. CASE step' = "ended"
  BY <1>2, <1>3, <1>4 DEF Asked, UpdateKnows, RestoreKnows
<1>5. CASE Create
  <2>1. CASE step' # "ended"
    <3>1. /\ step' = "request" /\ tried' = 0 /\ request'.api = cmd.do
          /\ cmd.do \in {"create table", "create index"}
      <4>1. \E s, d : Ask([api |-> cmd.do, name |-> cmd.name, schema |-> s, definitions |-> d])
        BY <1>5, <2>1 DEF Create, End
      <4>2. step' = "request" /\ tried' = 0 /\ request'.api = cmd.do
        BY <4>1 DEF Ask
      <4>3. cmd.do \in {"create table", "create index"}
        BY <1>5 DEF Create
      <4> QED
        BY <4>2, <4>3
    <3> QED
      BY <1>2, <1>3, <3>1 DEF Asked, UpdateKnows, RestoreKnows
  <2> QED
    BY <1>4, <2>1
<1>6. CASE Update
  <2>1. CASE step = "start" /\ Describe(cmd.table)
    BY <1>2, <1>4, <1>6, <2>1 DEF Update, Describe, Look, End, Asked, UpdateKnows, RestoreKnows
  <2>2. CASE /\ step = "looked" /\ cmd.do = "update"
             /\ Ask([api |-> "update", mode |-> cmd.mode, units |-> Throughput(cmd, seen)])
             /\ UNCHANGED service
    <3>1. Asked' /\ RestoreKnows'
      BY <2>2 DEF Ask, Asked, RestoreKnows
    <3>2. ASSUME cmd.mode = None, Throughput(cmd, seen) # None
          PROVE  /\ Throughput(cmd, seen).rcu \in {cmd.rcu, seen.rcu}
                 /\ Throughput(cmd, seen).wcu \in {cmd.wcu, seen.wcu}
      <4>1. cmd.mode \notin Modes
        BY <3>2, AdminAssumption
      <4>2. Mode(seen) = "PROVISIONED" \/ Mode(seen) = "PAY_PER_REQUEST"
        BY DEF Mode
      <4>3. Throughput(cmd, seen) = [rcu |-> Or(cmd.rcu, seen.rcu), wcu |-> Or(cmd.wcu, seen.wcu)]
        BY <3>2, <4>1, <4>2 DEF Throughput, Modes
      <4> QED
        BY <4>3 DEF Or
    <3>3. cmd.mode = "PROVISIONED" =>
            Throughput(cmd, seen) = [rcu |-> Or(cmd.rcu, DefaultUnits), wcu |-> Or(cmd.wcu, DefaultUnits)]
      <4>1. "PROVISIONED" # None
        BY AdminAssumption DEF Modes
      <4> QED
        BY <4>1 DEF Throughput
    <3>4. cmd.mode = "PAY_PER_REQUEST" => Throughput(cmd, seen) = None
      <4>1. "PAY_PER_REQUEST" # None
        BY AdminAssumption DEF Modes
      <4> QED
        BY <4>1 DEF Throughput
    <3>5. UpdateKnows'
      BY <1>3, <2>2, <3>2, <3>3, <3>4 DEF Ask, UpdateKnows, service
    <3> QED
      BY <1>2, <3>1, <3>5
  <2> QED
    BY <1>6, <2>1, <2>2 DEF Update
<1>7. CASE Delete
  BY <1>2, <1>4, <1>7 DEF Delete, Ask, End, Asked, UpdateKnows, RestoreKnows
<1>8. CASE Backup
  BY <1>2, <1>8 DEF Backup, Ask, Asked, UpdateKnows, RestoreKnows
<1>9. CASE ListBackups
  BY <1>4, <1>9 DEF ListBackups
<1>10. CASE LookForBackups
  <2>1. CASE step' = "looked"
    <3>1. /\ seen' = [of |-> {i \in Listed(cmd.table, FALSE) : backups[i].status = Available}]
          /\ cmd.do = "restore"
      BY <1>10, <2>1 DEF LookForBackups, Look, End
    <3>2. RestoreKnows'
      BY <1>1, <1>3, <2>1, <3>1 DEF RestoreKnows, Listed, Existing
    <3> QED
      BY <1>2, <1>3, <2>1, <3>1, <3>2 DEF Asked, UpdateKnows
  <2> QED
    BY <1>4, <1>10, <2>1 DEF LookForBackups, Look, End
<1>11. CASE Restore
  <2>1. CASE step' # "ended"
    <3>1. PICK i \in Candidates :
            Ask([api |-> "restore", arn |-> i, name |-> Or(cmd.as, cmd.table \o <<"restore", now>>)])
      BY <1>11, <2>1 DEF Restore, End
    <3>2. /\ cmd # None =>
               /\ i \in DOMAIN backups
               /\ backups[i].table = cmd.table
               /\ cmd.backup # None => backups[i].name = cmd.backup
      BY <1>11 DEF Restore, Candidates, RestoreKnows
    <3>3. RestoreKnows'
      BY <1>1, <3>1, <3>2 DEF Ask, RestoreKnows
    <3> QED
      BY <1>2, <1>11, <3>1, <3>3 DEF Restore, Ask, Asked, UpdateKnows
  <2> QED
    BY <1>4, <2>1
<1> QED
  BY <1>5, <1>6, <1>7, <1>8, <1>9, <1>10, <1>11 DEF Handlers
-----------------------------------------------------------------------------
(* Requests *)

\* A request belongs to the command of its name, and either was executed, being
\* possible, or changed nothing.
LEMMA AttemptEffect ==
  ASSUME Inv, NEW possible, NEW ts, NEW bs, Attempt(possible, ts, bs)
  PROVE  /\ step = "request" /\ step' \in {"request", "ended"}
         /\ UNCHANGED <<cmd, seen, request, touched>>
         /\ cmd # None /\ cmd.do \in AdminCommands => request.api = cmd.do /\ tried' \in Nat
         /\ \/ possible /\ tables' = ts /\ backups' = bs
            \/ UNCHANGED <<tables, backups>>
<1>1. step = "request" /\ UNCHANGED <<cmd, seen, request, touched>>
  BY DEF Attempt, AttemptOr
<1>2. PICK executed, answered \in BOOLEAN :
        /\ executed => possible
        /\ IF executed THEN tables' = ts /\ backups' = bs ELSE UNCHANGED <<tables, backups>>
        /\ tried' = tried + 1
        /\ IF Final(answered, tried')
           THEN step' = "ended" /\ outcome' = IF answered /\ executed THEN "ok" ELSE "exit"
           ELSE UNCHANGED <<step, outcome>>
  BY DEF Attempt, AttemptOr
<1>3. cmd # None /\ cmd.do \in AdminCommands => request.api = cmd.do /\ tried' \in Nat
  BY <1>1, <1>2 DEF Inv, Asked
<1>4. step' \in {"request", "ended"}
  BY <1>1, <1>2
<1> QED
  BY <1>1, <1>2, <1>3, <1>4

\* Creating, changing and deleting tables leaves tables.
LEMMA TableRequestsTyped ==
  ASSUME Inv, CreateTable \/ CreateIndex \/ UpdateTable \/ DeleteTable
  PROVE  Typed' /\ BackupsStay
<1> USE DEF Inv
<1>1. CASE CreateTable
  <2> DEFINE new == Table(request.schema, request.definitions, "PAY_PER_REQUEST", 0, 0, {})
  <2>1. \/ tables' = With(request.name, new) /\ backups' = backups
        \/ UNCHANGED <<tables, backups>>
    BY <1>1, AttemptEffect DEF CreateTable
  <2>2. IsTable(new)
    BY DEF IsTable, TableFields, Table
  <2> QED
    BY <2>1, <2>2 DEF With, Typed, BackupsStay
<1>2. CASE CreateIndex
  <2>1. PICK possible, ts : /\ Attempt(possible, ts, backups)
                            /\ \E x : ts = [tables EXCEPT ![cmd.table].indexes = x, ![cmd.table].busy = TRUE]
    BY <1>2 DEF CreateIndex
  <2>2. (tables' = ts /\ backups' = backups) \/ UNCHANGED <<tables, backups>>
    BY <2>1, AttemptEffect
  <2> QED
    BY <2>1, <2>2 DEF IsTable, Typed, BackupsStay
<1>3. CASE UpdateTable
  <2>1. \/ /\ tables' = [tables EXCEPT ![cmd.table] = Updated(@, request.mode, request.units)]
           /\ backups' = backups
        \/ UNCHANGED <<tables, backups>>
    BY <1>3, AttemptEffect DEF UpdateTable
  <2>2. \A n \in DOMAIN tables : IsTable(Updated(tables[n], request.mode, request.units))
    BY UpdatedTable DEF Typed
  <2> QED
    BY <2>1, <2>2 DEF Typed, BackupsStay
<1>4. CASE DeleteTable
  <2>1. (tables' = Without(cmd.table) /\ backups' = backups) \/ UNCHANGED <<tables, backups>>
    BY <1>4, AttemptEffect DEF DeleteTable
  <2> QED
    BY <2>1 DEF Without, Typed, BackupsStay
<1> QED
  BY <1>1, <1>2, <1>3, <1>4

\* So does restoring one, and a new backup replaces none.
LEMMA BackupRequestsTyped ==
  ASSUME Inv, CreateBackup \/ RestoreTable
  PROVE  Typed' /\ BackupsStay
<1> USE DEF Inv
<1>1. CASE CreateBackup
  <2> DEFINE b == [name |-> request.name, table |-> cmd.table, status |-> "CREATING",
                   image |-> tables[cmd.table]]
  <2>1. \/ Ready(cmd.table) /\ tables' = tables /\ backups' = Saved(b)
        \/ UNCHANGED <<tables, backups>>
    BY <1>1, AttemptEffect DEF CreateBackup
  <2>2. Ready(cmd.table) => IsBackup(b)
    BY DEF IsBackup, Ready, Typed
  <2> QED
    BY <2>1, <2>2 DEF Saved, Typed, BackupsStay
<1>2. CASE RestoreTable
  <2> DEFINE new == [backups[request.arn].image EXCEPT !.busy = TRUE]
  <2>1. \/ request.arn \in DOMAIN backups /\ tables' = With(request.name, new) /\ backups' = backups
        \/ UNCHANGED <<tables, backups>>
    BY <1>2, AttemptEffect DEF RestoreTable
  <2>2. request.arn \in DOMAIN backups => IsTable(new)
    BY DEF Typed, IsBackup, IsTable
  <2> QED
    BY <2>1, <2>2 DEF With, Typed, BackupsStay
<1> QED
  BY <1>1, <1>2

\* An update that was executed without an answer, and is sent again, still holds
\* the units of the table: they are now the ones it set.
LEMMA UpdateRepeats ==
  ASSUME Inv, UpdateTable, cmd # None, cmd.do = "update"
  PROVE  UpdateKnows'
<1> DEFINE t == tables[cmd.table]
           ts == [tables EXCEPT ![cmd.table] = Updated(@, request.mode, request.units)]
<1>1. /\ step = "request" /\ step' \in {"request", "ended"}
      /\ UNCHANGED <<cmd, seen, request, touched>>
      /\ (Ready(cmd.table) /\ tables' = ts) \/ UNCHANGED tables
  BY AttemptEffect DEF UpdateTable
<1>2. CASE Ready(cmd.table) /\ tables' = ts
  <2>1. /\ cmd.table \in DOMAIN tables /\ DOMAIN tables' = DOMAIN tables
        /\ tables'[cmd.table] = Updated(t, request.mode, request.units)
    BY <1>2 DEF Ready
  <2>2. request.units # None => /\ tables'[cmd.table].rcu = request.units.rcu
                                /\ tables'[cmd.table].wcu = request.units.wcu
    BY <2>1, UpdatedTable DEF Inv, Typed
  <2> QED
    BY <1>1, <2>1, <2>2 DEF Inv, UpdateKnows
<1>3. CASE UNCHANGED tables
  BY <1>1, <1>3 DEF Inv, UpdateKnows
<1> QED
  BY <1>1, <1>2, <1>3

\* What a request does, and that it may be sent again, is what its handler knows.
LEMMA RequestsKeep ==
  ASSUME Inv, Requests
  PROVE  Inv'
<1>1. Typed' /\ BackupsStay
  BY TableRequestsTyped, BackupRequestsTyped DEF Requests
<1>2. /\ step = "request" /\ step' \in {"request", "ended"}
      /\ UNCHANGED <<cmd, seen, request, touched>>
      /\ cmd # None /\ cmd.do \in AdminCommands => request.api = cmd.do /\ tried' \in Nat
  BY AttemptEffect
     DEF Requests, CreateTable, CreateIndex, UpdateTable, DeleteTable, CreateBackup, RestoreTable
<1>3. Asked'
  BY <1>2 DEF Asked
<1>4. RestoreKnows'
  BY <1>1, <1>2 DEF Inv, RestoreKnows, BackupsStay
<1>5. UpdateKnows'
  <2>1. CASE cmd # None /\ cmd.do = "update"
    <3>1. request.api = "update"
      BY <1>2, <2>1 DEF AdminCommands
    <3>2. UpdateTable
      BY <3>1 DEF Requests, CreateTable, CreateIndex, DeleteTable, CreateBackup, RestoreTable
    <3> QED
      BY <2>1, <3>2, UpdateRepeats
  <2>2. CASE ~(cmd # None /\ cmd.do = "update")
    BY <1>2, <2>2 DEF UpdateKnows
  <2> QED
    BY <2>1, <2>2
<1> QED
  BY <1>1, <1>3, <1>4, <1>5 DEF Inv

-----------------------------------------------------------------------------
(* The invariant *)

\* When a process starts no command knows anything yet.
LEMMA InvInit == AdminInit => Inv
<1> SUFFICES ASSUME AdminInit PROVE Inv
  OBVIOUS
<1>1. Typed
  <2>1. PICK w \in Worlds : tables = w.tables /\ backups = w.backups
    BY DEF AdminInit
  <2> QED
    BY <2>1, AdminAssumption DEF Typed
<1> QED
  BY <1>1 DEF AdminInit, Inv, Asked, UpdateKnows, RestoreKnows

\* A command on items keeps the shape of tables, and is not one of these commands.
LEMMA ItemCommandKeeps ==
  ASSUME Inv, ItemCommand
  PROVE  Inv' /\ DOMAIN tables' = DOMAIN tables
<1>1. cmd' # None /\ cmd'.do \notin AdminCommands
  BY DEF ItemCommand, OnItems
<1>2. DOMAIN tables' = DOMAIN tables /\ UNCHANGED backups
  BY DEF ItemCommand, ItemsOnly
<1>3. \A n \in DOMAIN tables : IsTable(tables'[n])
  BY OtherItems DEF Inv, Typed, ItemCommand, ItemsOnly
<1>4. Typed'
  BY <1>2, <1>3 DEF Inv, Typed
<1>5. Asked' /\ UpdateKnows' /\ RestoreKnows'
  BY <1>1 DEF Asked, UpdateKnows, RestoreKnows, AdminCommands
<1> QED
  BY <1>2, <1>4, <1>5 DEF Inv

\* Every step of the service, its users and the commands keeps it.
LEMMA InvNext == Inv /\ [AdminNext]_adminVars => Inv'
<1> SUFFICES ASSUME Inv, [AdminNext]_adminVars PROVE Inv'
  OBVIOUS
<1>1. ASSUME NEW c \in Commands, Begin(c) PROVE Inv'
  <2>1. c.do = "update" => c.mode \in Modes \cup {None}
    BY ModeAssumption
  <2> QED
    BY <1>1, <2>1 DEF Begin, service, Inv, Typed, Asked, UpdateKnows, RestoreKnows
<1>2. CASE Handlers
  BY <1>2, HandlersKeep
<1>3. CASE Requests
  BY <1>3, RequestsKeep
<1>4. CASE Surroundings
  <2>1. Typed' /\ RatesStay /\ BackupsStay
    <3>1. CASE Settle
      BY <3>1, SettleStays DEF Inv
    <3>2. CASE Tick
      BY <3>2 DEF Tick, Inv, Typed, RatesStay, BackupsStay
    <3>3. CASE \E n \in DOMAIN tables : OtherUpdates(n) \/ OtherDeletes(n)
      BY <3>3, OthersStay DEF Inv
    <3>4. CASE OtherDropsBackup
      BY <3>4, DropStays DEF Inv
    <3> QED
      BY <1>4, <3>1, <3>2, <3>3, <3>4 DEF Surroundings
  <2>2. UNCHANGED handler
    BY <1>4 DEF Surroundings, Settle, Tick, OtherUpdates, OtherDeletes, Other, OtherDropsBackup
  <2> QED
    BY <2>1, <2>2, AroundKeeps
<1>5. CASE Conclude
  BY <1>5 DEF Conclude, service, Inv, Typed, Asked, UpdateKnows, RestoreKnows
<1>6. CASE ItemCommand
  BY <1>6, ItemCommandKeeps
<1>7. ASSUME NEW n \in DOMAIN tables, OtherWrites(n) PROVE Inv'
  <2>1. Typed' /\ RatesStay /\ BackupsStay
    BY <1>7, OthersStay DEF Inv
  <2>2. UNCHANGED handler
    BY <1>7 DEF OtherWrites, Other
  <2> QED
    BY <2>1, <2>2, AroundKeeps
<1>8. CASE UNCHANGED adminVars
  BY <1>8 DEF adminVars, service, handler, Inv, Typed, Asked, UpdateKnows, RestoreKnows
<1> QED
  BY <1>1, <1>2, <1>3, <1>4, <1>5, <1>6, <1>7, <1>8 DEF AdminNext

-----------------------------------------------------------------------------
(* The theorems *)

\* Nothing but an update of the command's own changes a table while its request
\* is sent.
LEMMA FollowsOptionsStep == Inv /\ [AdminNext]_adminVars => FollowsOptions
<1> DEFINE Follows(n, unit) ==
             \/ tables'[n][unit] \in {tables[n][unit], cmd[unit]}
             \/ cmd.mode = None /\ n \in touched
             \/ cmd.mode = "PROVISIONED" /\ cmd[unit] = None /\ tables'[n][unit] = DefaultUnits
             \/ cmd.mode = "PAY_PER_REQUEST" /\ tables'[n][unit] = 0
<1> SUFFICES ASSUME Inv, [AdminNext]_adminVars,
                    cmd # None, cmd.do = "update", step = "request", tried' = tried + 1
             PROVE  \A n \in DOMAIN tables :
                      /\ n \in DOMAIN tables'
                      /\ n # cmd.table => tables'[n] = tables[n]
                      /\ tables'[n].billing # tables[n].billing => tables'[n].billing = cmd.mode
                      /\ Follows(n, "rcu") /\ Follows(n, "wcu")
  BY DEF FollowsOptions
<1>1. request.api = "update" /\ tried \in Nat
  BY DEF Inv, Asked, AdminCommands
<1>2. UpdateTable
  <2>1. tried' # tried
    BY <1>1
  <2>2. ~Handlers
    BY DEF Handlers, Create, Update, Delete, Backup, ListBackups, LookForBackups, Restore
  <2>3. ~Surroundings
    BY <2>1 DEF Surroundings, Settle, Tick, OtherUpdates, OtherDeletes, Other, OtherDropsBackup, handler
  <2>4. ~ItemCommand /\ ~Conclude /\ ~\E c \in Commands : Begin(c)
    BY DEF ItemCommand, OnItems, AdminCommands, Conclude, Begin
  <2>5. ~\E n \in DOMAIN tables : OtherWrites(n)
    BY <2>1 DEF OtherWrites, Other, handler
  <2>6. Requests
    BY <2>1, <2>2, <2>3, <2>4, <2>5 DEF AdminNext, adminVars, handler
  <2> QED
    BY <1>1, <2>6 DEF Requests, CreateTable, CreateIndex, DeleteTable, CreateBackup, RestoreTable
<1> DEFINE t == tables[cmd.table]
           ts == [tables EXCEPT ![cmd.table] = Updated(@, request.mode, request.units)]
<1>3. \/ Ready(cmd.table) /\ CanUpdate(t, request.mode, request.units) /\ tables' = ts
      \/ UNCHANGED tables
  BY <1>2, AttemptEffect DEF UpdateTable
<1>4. CASE Ready(cmd.table) /\ CanUpdate(t, request.mode, request.units) /\ tables' = ts
  <2>1. cmd.table \in DOMAIN tables /\ IsTable(t) /\ request.mode = cmd.mode
    BY <1>4 DEF Ready, Inv, Typed, UpdateKnows
  <2>2. DOMAIN tables' = DOMAIN tables /\ \A n \in DOMAIN tables : n # cmd.table => tables'[n] = tables[n]
    BY <1>4
  <2>3. tables'[cmd.table] = Updated(t, request.mode, request.units)
    BY <1>4, <2>1
  <2>4. tables'[cmd.table].billing = IF cmd.mode = None THEN t.billing ELSE cmd.mode
    BY <2>1, <2>3, UpdatedTable
  <2>5. /\ tables'[cmd.table].rcu = IF request.units = None THEN 0 ELSE request.units.rcu
        /\ tables'[cmd.table].wcu = IF request.units = None THEN 0 ELSE request.units.wcu
    BY <2>1, <2>3, UpdatedTable
  <2>6. ASSUME cmd.mode = None
        PROVE  Follows(cmd.table, "rcu") /\ Follows(cmd.table, "wcu")
    \* Without a mode and without units there is nothing to update.
    <3>1. request.units # None
      BY <1>4, <2>1, <2>6, PossibleUpdate
    <3>2. cmd.table \notin touched =>
            request.units.rcu \in {t.rcu, cmd.rcu} /\ request.units.wcu \in {t.wcu, cmd.wcu}
      BY <2>6, <3>1 DEF Inv, UpdateKnows
    <3> QED
      BY <2>5, <2>6, <3>1, <3>2
  <2>7. ASSUME cmd.mode = "PROVISIONED"
        PROVE  Follows(cmd.table, "rcu") /\ Follows(cmd.table, "wcu")
    <3>1. /\ request.units.rcu = Or(cmd.rcu, DefaultUnits)
          /\ request.units.wcu = Or(cmd.wcu, DefaultUnits)
      BY <2>7 DEF Inv, UpdateKnows
    <3>2. request.units # None
      <4>1. Or(cmd.mode, Mode(t)) = "PROVISIONED"
        BY <2>7, AdminAssumption DEF Modes, Or
      <4> QED
        BY <1>4, <2>1, <4>1, PossibleUpdate
    <3>3. /\ tables'[cmd.table].rcu = Or(cmd.rcu, DefaultUnits)
          /\ tables'[cmd.table].wcu = Or(cmd.wcu, DefaultUnits)
      BY <2>5, <3>1, <3>2
    <3> QED
      BY <2>7, <3>3 DEF Or
  <2>8. ASSUME cmd.mode = "PAY_PER_REQUEST"
        PROVE  Follows(cmd.table, "rcu") /\ Follows(cmd.table, "wcu")
    <3>1. request.units = None
      BY <2>8 DEF Inv, UpdateKnows
    <3> QED
      BY <2>5, <2>8, <3>1
  <2>9. cmd.mode \in Modes \cup {None}
    BY DEF Inv, UpdateKnows
  <2> QED
    BY <2>2, <2>4, <2>6, <2>7, <2>8, <2>9 DEF Modes
<1>5. CASE UNCHANGED tables
  BY <1>5
<1> QED
  BY <1>3, <1>4, <1>5

\* `update` makes of every unit and mode what its options say, `--mode provisioned`
\* that units not given are the default; without a mode they stay, unless the table
\* was changed by others after update_table described it.
THEOREM UpdateFollowsOptions == AdminSpec => UpdatesFollowOptions
<1> QED
  BY InvInit, InvNext, FollowsOptionsStep, PTL DEF AdminSpec, UpdatesFollowOptions

\* Only `create table` and `restore` make tables.
LEMMA MakesCopiesStep == Inv /\ [AdminNext]_adminVars => MakesCopies
<1> SUFFICES ASSUME Inv, [AdminNext]_adminVars, cmd # None, cmd.do = "restore",
                    NEW n \in DOMAIN tables' \ DOMAIN tables
             PROVE  \E i \in DOMAIN backups :
                      /\ backups[i].table = cmd.table
                      /\ backups[i].status = Available
                      /\ cmd.backup # None => backups[i].name = cmd.backup
                      /\ tables'[n] = [backups[i].image EXCEPT !.busy = TRUE]
  BY DEF MakesCopies
<1>1. RestoreTable
  <2>1. ~Handlers /\ ~Conclude /\ ~\E c \in Commands : Begin(c)
    BY DEF Handlers, Create, Update, Describe, Delete, Backup, ListBackups, LookForBackups, Restore,
           Conclude, Begin, service
  <2>2. ~Surroundings /\ ~\E m \in DOMAIN tables : OtherWrites(m)
    BY SettleStays, OthersStay, DropStays DEF Inv, Surroundings, Tick
  <2>3. ~ItemCommand
    BY ItemCommandKeeps
  <2>4. Requests
    BY <2>1, <2>2, <2>3 DEF AdminNext, adminVars, service
  <2>5. request.api = "restore"
    BY <2>4, AttemptEffect
       DEF AdminCommands, Requests, CreateTable, CreateIndex, UpdateTable, DeleteTable, CreateBackup, RestoreTable
  <2> QED
    BY <2>4, <2>5 DEF Requests, CreateTable, CreateIndex, UpdateTable, DeleteTable, CreateBackup
<1> DEFINE copy == [backups[request.arn].image EXCEPT !.busy = TRUE]
<1>2. \/ /\ request.arn \in DOMAIN backups /\ backups[request.arn].status = Available
         /\ tables' = With(request.name, copy)
      \/ UNCHANGED tables
  BY <1>1, AttemptEffect DEF RestoreTable
<1>3. tables'[n] = copy /\ request.arn \in DOMAIN backups /\ backups[request.arn].status = Available
  BY <1>2 DEF With
<1>4. /\ backups[request.arn].table = cmd.table
      /\ cmd.backup # None => backups[request.arn].name = cmd.backup
  BY <1>1 DEF RestoreTable, Inv, RestoreKnows
<1> QED
  BY <1>3, <1>4

\* `restore` makes copies of available backups of the table and the name it was
\* called with, whatever is backed up, dropped or repeated between its calls.
THEOREM RestoreMakesCopies == AdminSpec => RestoresWhatWasNamed
<1> QED
  BY InvInit, InvNext, MakesCopiesStep, PTL DEF AdminSpec, RestoresWhatWasNamed

-----------------------------------------------------------------------------
(* Commands *)

Printing == {"scan", "query", "get", "desc"}

\* The options that matter below are those of the commands that have them.
LEMMA WhichOptions ==
  ASSUME NEW do \in DOMAIN ItemOptions \cup AdminCommands
  PROVE  /\ "output" \in OptionsOf(do) <=> do \in Printing
         /\ "strict" \in OptionsOf(do) <=> do = "query"
         /\ "mode" \in OptionsOf(do) <=> do = "update"
<1>1. CASE do \in AdminCommands
  <2>1. OptionsOf(do) = AdminOptions(do)
    BY <1>1 DEF OptionsOf
  <2>2. CASE do \in {"create table", "create index"}
    <3>1. AdminOptions(do) = {"name", "keys"}
      BY <2>2 DEF AdminOptions
    <3>2. do \notin Printing /\ do # "query" /\ do # "update"
      BY <2>2 DEF Printing
    <3> QED
      BY <2>1, <3>1, <3>2
  <2>3. CASE do = "update"
    BY <2>1, <2>3 DEF AdminOptions, Printing
  <2>4. CASE do \in {"delete", "backup", "list backups", "restore"}
    <3>1. AdminOptions(do) \in {{"table", "yes"}, {}, {"all"}, {"backup", "as"}}
      <4>1. /\ do = "delete" => AdminOptions(do) = {"table", "yes"}
            /\ do = "backup" => AdminOptions(do) = {}
            /\ do = "list backups" => AdminOptions(do) = {"all"}
            /\ do = "restore" => AdminOptions(do) = {"backup", "as"}
        BY DEF AdminOptions
      <4> QED
        BY <2>4, <4>1
    <3>2. do \notin Printing /\ do # "query" /\ do # "update"
      BY <2>4 DEF Printing
    <3> QED
      BY <2>1, <3>1, <3>2
  <2> QED
    BY <1>1, <2>2, <2>3, <2>4 DEF AdminCommands
<1>2. CASE do \notin AdminCommands
  <2>1. OptionsOf(do) = ItemOptions[do] /\ do \in DOMAIN ItemOptions
    BY <1>2 DEF OptionsOf
  <2>2. CASE do \in {"scan", "get", "desc"}
    BY <2>1, <2>2 DEF ItemOptions, Printing
  <2>3. CASE do = "query"
    BY <2>1, <2>3 DEF ItemOptions, Printing
  <2>4. CASE do \in {"put", "del", "upd", "export", "import", "bwrite"}
    <3>1. ItemOptions[do] \subseteq {"pval", "sval", "item", "set", "remove", "counter", "infer"}
      BY <2>4 DEF ItemOptions
    <3> QED
      BY <2>1, <2>4, <3>1 DEF Printing
  <2> QED
    BY <2>1, <2>2, <2>3, <2>4 DEF ItemOptions
<1> QED
  BY <1>1, <1>2

\* What is known of a command once clap has accepted it.
LEMMA CommandFacts ==
  ASSUME NEW r, NEW c \in CommandsOf(r)
  PROVE  /\ c.do \in DOMAIN ItemOptions \cup AdminCommands
         /\ "output" \in DOMAIN c <=> c.do \in Printing
         /\ c.do \in Printing => c.output \in Forms[c.do] \cup {None}
         /\ "strict" \in DOMAIN c <=> c.do = "query"
         /\ c.do = "query" => {c.strict, c.nonstrict} \subseteq BOOLEAN /\ ~(c.strict /\ c.nonstrict)
         /\ c.do = "update" => c.mode \in Modes \cup {None}
<1>1. PICK w : c = OnTable(ParseArgs(w), r.table) /\ ParseArgs(w) # None
  BY DEF CommandsOf
<1> DEFINE d == ParseArgs(w)
<1>2. Accepted(d)
  BY <1>1 DEF ParseArgs
<1> HIDE DEF d
<1>3. /\ DOMAIN c = DOMAIN d \cup {"table"} \/ DOMAIN c = DOMAIN d
      /\ \A x \in DOMAIN d : c[x] = d[x]
  BY <1>1 DEF OnTable, d
<1>4. DOMAIN d = {"do"} \cup OptionsOf(d.do) /\ d.do \in DOMAIN ItemOptions \cup AdminCommands
  BY <1>2 DEF Accepted
<1>5. c.do = d.do
  BY <1>3, <1>4
<1>6. /\ "output" \in DOMAIN d <=> d.do \in Printing
      /\ "strict" \in DOMAIN d <=> d.do = "query"
      /\ "mode" \in DOMAIN d <=> d.do = "update"
  BY <1>4, WhichOptions
<1>7. d.do \in Printing => c.output = d.output /\ d.output \in Forms[d.do] \cup {None}
  BY <1>2, <1>3, <1>6 DEF Accepted
<1>8. d.do = "update" => c.mode = d.mode /\ d.mode \in Modes \cup {None}
  BY <1>2, <1>3, <1>6 DEF Accepted
<1>9. d.do = "query" =>
        /\ c.strict = d.strict /\ c.nonstrict = d.nonstrict
        /\ {d.strict, d.nonstrict} \subseteq BOOLEAN /\ ~(d.strict /\ d.nonstrict)
  <2> SUFFICES ASSUME d.do = "query"
               PROVE  /\ c.strict = d.strict /\ c.nonstrict = d.nonstrict
                      /\ {d.strict, d.nonstrict} \subseteq BOOLEAN /\ ~(d.strict /\ d.nonstrict)
    OBVIOUS
  <2>1. "strict" \in DOMAIN d /\ "nonstrict" \in DOMAIN d
    BY <1>4 DEF OptionsOf, ItemOptions, AdminCommands
  <2>2. c.strict = d.strict /\ c.nonstrict = d.nonstrict
    BY <1>3, <2>1
  <2>3. {d.strict, d.nonstrict} \subseteq BOOLEAN /\ ~(d.strict /\ d.nonstrict)
    BY <1>2, <2>1, Zenon DEF Accepted
  <2> QED
    BY <2>2, <2>3
<1> QED
  BY <1>3, <1>4, <1>5, <1>6, <1>7, <1>8, <1>9

-----------------------------------------------------------------------------
(* Where a session is *)

AllRuns == UNION {ToSet(s.runs) : s \in Scripts}

\* The runs to come and the lines to be read are those of a script, and the command
\* being executed is one of them.
Scripted ==
  /\ script \in Seq(AllRuns)
  /\ run # None => /\ run \in AllRuns
                   /\ lines \in Seq(ToSet(run.lines))
                   /\ ~run.shell => ParseArgs(run.args) # None
  /\ cmd # None => run # None /\ cmd \in CommandsOf(run)
  /\ step = "idle" <=> cmd = None

\* Every run is one of a script's.
LEMMA RunsAreRuns == \A r \in AllRuns : IsRun(r)
BY ScriptsAssumption DEF AllRuns

\* A line that is not passed over is one of the run's commands.
LEMMA LinesAreCommands ==
  ASSUME NEW r \in AllRuns, NEW line \in ToSet(r.lines), Words(line) # None, ParseArgs(Words(line)) # None
  PROVE  OnTable(ParseArgs(Words(line)), r.table) \in CommandsOf(r)
<1>1. PICK i \in DOMAIN r.lines : line = r.lines[i]
  BY DEF ToSet
<1> QED
  BY <1>1 DEF CommandsOf

\* Nor are arguments.
LEMMA ArgsAreCommands ==
  ASSUME NEW r \in AllRuns, ParseArgs(r.args) # None
  PROVE  OnTable(ParseArgs(r.args), r.table) \in CommandsOf(r)
BY DEF CommandsOf

-----------------------------------------------------------------------------
(* Sessions implement TableAdmin *)

\* A step of a command on items that changes no table is one of ItemCommand.
LEMMA QuietItemCommand ==
  ASSUME Typed, cmd # None, cmd.do \notin AdminCommands, UNCHANGED <<tables, backups, now, others, cmd>>,
         touched' \subseteq touched
  PROVE  ItemCommand
<1>1. \A n \in DOMAIN tables : SameButItems(tables[n], tables'[n])
  BY DEF Typed, IsTable, SameButItems
<1> QED
  BY <1>1 DEF ItemCommand, OnItems, ItemsOnly

\* One that writes changes the items of a table.
LEMMA WritingItemCommand ==
  ASSUME Typed, cmd # None, cmd.do \notin AdminCommands, UNCHANGED <<backups, now, others, touched, cmd>>,
         NEW items, NEW n, tables' = [tables EXCEPT ![n].items = items]
  PROVE  ItemCommand
<1>1. DOMAIN tables' = DOMAIN tables
  OBVIOUS
<1>2. ASSUME NEW m \in DOMAIN tables PROVE SameButItems(tables[m], tables'[m])
  <2>1. IsTable(tables[m])
    BY DEF Typed
  <2>2. tables'[m] = tables[m] \/ tables'[m] = [tables[m] EXCEPT !.items = items]
    OBVIOUS
  <2> QED
    BY <2>1, <2>2 DEF IsTable, TableFields, SameButItems
<1> QED
  BY <1>1, <1>2 DEF ItemCommand, OnItems, ItemsOnly

\* The beginning of a command.
LEMMA BeginsOne ==
  ASSUME Typed, NEW r, IsRun(r), NEW c \in CommandsOf(r), Begin(c)
  PROVE  AdminNext
<1>1. CASE c.do \in AdminCommands
  BY <1>1 DEF IsRun, AdminNext
<1>2. CASE c.do \notin AdminCommands
  <2>1. \A n \in DOMAIN tables : SameButItems(tables[n], tables'[n])
    BY DEF Typed, IsTable, SameButItems, Begin, service
  <2>2. c # None /\ cmd' = c /\ step = "idle" /\ UNCHANGED service
    BY DEF IsRun, Begin
  <2> QED
    BY <1>2, <2>1, <2>2 DEF ItemCommand, OnItems, ItemsOnly, service, AdminNext
<1> QED
  BY <1>1, <1>2

\* What `main` and the loop of the shell do between commands is nothing to tables.
LEMMA ProcessRefines ==
  ASSUME Typed, Scripted, Process
  PROVE  [AdminNext]_adminVars
<1>1. CASE Launch
  BY <1>1 DEF Launch
<1>2. CASE Command
  <2>1. run # None /\ run \in AllRuns /\ IsRun(run) /\ ParseArgs(run.args) # None
    BY <1>2, RunsAreRuns DEF Command, Scripted
  <2> QED
    BY <1>2, <2>1, ArgsAreCommands, BeginsOne DEF Command, Dispatch
<1>3. CASE ReadLine
  <2>1. run \in AllRuns /\ IsRun(run) /\ lines \in Seq(ToSet(run.lines))
    BY <1>3, RunsAreRuns DEF ReadLine, Scripted
  <2>2. CASE UNCHANGED adminVars
    BY <2>2
  <2>3. CASE ~UNCHANGED adminVars
    <3> DEFINE line == Head(lines)
               c == ParseArgs(Words(line))
    <3>1. /\ lines # <<>> /\ Words(line) # None /\ c # None
          /\ Dispatch(OnTable(c, run.table))
      BY <1>3, <2>3 DEF ReadLine
    <3>2. line \in ToSet(run.lines)
      BY <2>1, <3>1
    <3> QED
      BY <2>1, <3>1, <3>2, LinesAreCommands, BeginsOne DEF Dispatch
  <2> QED
    BY <2>2, <2>3
<1>4. CASE Ended
  BY <1>4 DEF Ended, AdminNext
<1> QED
  BY <1>1, <1>2, <1>3, <1>4 DEF Process

\* The handlers of the commands on items look and ask.
LEMMA ItemHandlersRefine ==
  ASSUME Typed, Scripted, ItemHandlers
  PROVE  ItemCommand
<1>1. cmd # None /\ cmd.do \notin AdminCommands
  BY DEF ItemHandlers, RefuseOptions, OptionsMissing, FetchSchema, ItemCommands, Readers, AskForAll, Cancel, Get,
         Query, Desc, Put, Del, Upd, Import, Bwrite, AdminCommands, Scripted
<1>2. UNCHANGED <<tables, backups, now, others, cmd>> /\ touched' \subseteq touched
  <2>1. CASE FetchSchema
    BY <2>1 DEF FetchSchema, Describe, Look, End, service
  <2>2. CASE RefuseOptions \/ AskForAll \/ Cancel \/ Get \/ Put \/ Del
    BY <2>2 DEF RefuseOptions, AskForAll, Cancel, Get, Put, Del, WithTarget, Stay, End, Ask, service
  <2>3. CASE Query
    BY <2>3 DEF Query, Stay, End, Ask, service
  <2>4. CASE Upd \/ Bwrite \/ Desc
    BY <2>4 DEF Upd, Bwrite, Desc, WithTarget, Stay, End, Ask, service
  <2>5. CASE Import
    BY <2>5 DEF Import, Stay, End, Ask, service
  <2> QED
    BY <2>1, <2>2, <2>3, <2>4, <2>5 DEF ItemHandlers
<1> QED
  BY <1>1, <1>2, QuietItemCommand

\* A request that writes either was executed or changed nothing.
LEMMA WriteRefines ==
  ASSUME Typed, cmd # None, cmd.do \notin AdminCommands, NEW failure, NEW possible, NEW items,
         Write(failure, possible, items)
  PROVE  ItemCommand
<1>1. /\ UNCHANGED <<cmd, now, others, touched, backups>>
      /\ tables' = [tables EXCEPT ![cmd.table].items = items] \/ UNCHANGED tables
  BY DEF Write, AttemptOr
<1> QED
  BY <1>1, QuietItemCommand, WritingItemCommand

\* So do their requests, or they change items.
LEMMA ItemRequestsRefine ==
  ASSUME Typed, Scripted, ItemRequests
  PROVE  ItemCommand
<1>1. cmd # None /\ cmd.do \notin AdminCommands
  BY DEF ItemRequests, Answer, Readers, WriteItem, ExportAnswer, WriteBatch, AdminCommands, Scripted
<1>2. CASE Answer \/ ExportAnswer
  BY <1>1, <1>2, QuietItemCommand DEF Answer, ExportAnswer, service
<1>3. CASE WriteItem
  <2>1. \E possible, items : Write("exit", possible, items)
    BY <1>3 DEF WriteItem
  <2> QED
    BY <1>1, <2>1, WriteRefines
<1>4. CASE WriteBatch
  <2>1. \E possible, items : Write("error", possible, items)
    BY <1>4 DEF WriteBatch
  <2> QED
    BY <1>1, <2>1, WriteRefines
<1> QED
  BY <1>2, <1>3, <1>4 DEF ItemRequests

\* Counting an item up changes the items of a table.
LEMMA CountsRefine ==
  ASSUME Typed, NEW n \in DOMAIN tables, OtherCounts(n)
  PROVE  OtherWrites(n)
<1>1. PICK items : tables' = [tables EXCEPT ![n].items = items]
  BY DEF OtherCounts
<1>2. ASSUME NEW m \in DOMAIN tables PROVE SameButItems(tables[m], tables'[m])
  <2>1. IsTable(tables[m])
    BY DEF Typed
  <2>2. tables'[m] = tables[m] \/ tables'[m] = [tables[m] EXCEPT !.items = items]
    BY <1>1
  <2> QED
    BY <2>1, <2>2 DEF IsTable, TableFields, SameButItems
<1> QED
  BY <1>1, <1>2 DEF OtherCounts, OtherWrites, ItemsOnly, Other

\* Every step of a session is one of TableAdmin, or none.
LEMMA NextRefines ==
  ASSUME Typed, Scripted, [Next]_vars
  PROVE  [AdminNext]_adminVars
<1>1. CASE Process
  BY <1>1, ProcessRefines
<1>2. CASE (Handlers \/ Requests \/ Surroundings) /\ UNCHANGED local
  BY <1>2 DEF AdminNext
<1>3. CASE ItemHandlers
  BY <1>3, ItemHandlersRefine DEF AdminNext
<1>4. CASE ItemRequests
  BY <1>4, ItemRequestsRefine DEF AdminNext
<1>5. CASE \E n \in DOMAIN tables : OtherCounts(n)
  BY <1>5, CountsRefine DEF AdminNext, OtherCounts, Other
<1>6. CASE UNCHANGED vars
  BY <1>6 DEF vars
<1> QED
  BY <1>1, <1>2, <1>3, <1>4, <1>5, <1>6 DEF Next

-----------------------------------------------------------------------------
(* The steps of a session, sorted by what they do to the command *)

Ends == Outcomes \ {"unsupported"}

\* A handler looks something up, asks for something, asks again, or ends; what is
\* printed is in the command's format, and strict mode is asked for and minded.
Looks == step = "start" /\ step' = "looked" /\ UNCHANGED <<request, tried, outcome, printed>>
Asks ==
  /\ step' = "request" /\ step \in {"start", "looked"}
  /\ tried' = 0 /\ UNCHANGED <<outcome, printed>>
  /\ cmd.do = "query" /\ cmd.sort = "loose" => ~Strict
AsksAgain ==
  /\ step = "request" /\ step' = "request" /\ tried' = tried + 1 /\ tried' < MaxAttempts
  /\ UNCHANGED <<request, outcome, printed>>
Returns ==
  /\ step' = "ended" /\ outcome' \in Ends /\ UNCHANGED request
  /\ tried' = tried \/ (step = "request" /\ tried' = tried + 1)
  /\ printed' # printed => cmd.do \in Printing /\ printed'.form = Or(cmd.output, Default[cmd.do])
  /\ outcome' = "unparsed" /\ cmd.do = "query" => Strict
Works ==
  /\ step \in {"start", "looked", "request"} /\ UNCHANGED <<cmd, session>>
  /\ Looks \/ Asks \/ AsksAgain \/ Returns

\* The world around it changes.
Around == UNCHANGED <<handler, session, printed>>

\* A command that prints does so in the format dispatch has set.
FormatSet == cmd # None /\ cmd.do \in Printing => context.output = cmd.output

\* The end of a handler, or its request, in a module's own words.
LEMMA EndReturns ==
  ASSUME NEW how \in Ends \ {"unparsed"}, End(how), UNCHANGED printed
  PROVE  Returns
BY DEF End, Returns

\* An admin command says nothing of strict mode.
LEMMA AskAsks ==
  ASSUME step \in {"start", "looked"}, NEW r, Ask(r), UNCHANGED printed, cmd.do # "query"
  PROVE  Asks
BY DEF Ask, Asks

\* The handlers of commands on tables and backups.
LEMMA HandlersWork ==
  ASSUME Handlers, UNCHANGED local
  PROVE  Works
<1> USE DEF local, Ends, Outcomes
<1>1. UNCHANGED <<cmd, session, printed>> /\ step \in {"start", "looked"}
  BY DEF Handlers, Create, Update, Describe, Delete, Backup, ListBackups, LookForBackups, Restore, End, Ask, Look
<1>2. CASE Create
  BY <1>1, <1>2, EndReturns, AskAsks DEF Create, Works
<1>3. CASE Update
  BY <1>1, <1>3, EndReturns, AskAsks DEF Update, Describe, Look, Looks, Works
<1>4. CASE Delete
  BY <1>1, <1>4, EndReturns, AskAsks DEF Delete, Works
<1>5. CASE Backup
  BY <1>1, <1>5, AskAsks DEF Backup, Works
<1>6. CASE ListBackups
  BY <1>1, <1>6 DEF ListBackups, Returns, Works
<1>7. CASE LookForBackups
  BY <1>1, <1>7, EndReturns DEF LookForBackups, Look, Looks, Works
<1>8. CASE Restore
  BY <1>1, <1>8, EndReturns, AskAsks DEF Restore, Works
<1> QED
  BY <1>2, <1>3, <1>4, <1>5, <1>6, <1>7, <1>8 DEF Handlers

\* One time a request is sent.
LEMMA AttemptWorks ==
  ASSUME tried \in Nat, NEW failure \in {"exit", "error"}, NEW possible, NEW ts, NEW bs,
         AttemptOr(failure, possible, ts, bs), UNCHANGED <<session, printed>>
  PROVE  Works
<1>1. step = "request" /\ UNCHANGED <<cmd, request>>
  BY DEF AttemptOr
<1>2. PICK executed, answered \in BOOLEAN :
        /\ tried' = tried + 1
        /\ IF Final(answered, tried')
           THEN step' = "ended" /\ outcome' = IF answered /\ executed THEN "ok" ELSE failure
           ELSE UNCHANGED <<step, outcome>>
  BY DEF AttemptOr
<1>3. CASE Final(answered, tried')
  BY <1>1, <1>2, <1>3 DEF Works, Returns, Ends, Outcomes
<1>4. CASE ~Final(answered, tried')
  BY <1>1, <1>2, <1>4, AdminAssumption DEF Final, Works, AsksAgain
<1> QED
  BY <1>3, <1>4

\* The requests of commands on tables and backups.
LEMMA RequestsWork ==
  ASSUME tried \in Nat, Requests, UNCHANGED local
  PROVE  Works
<1>1. \E possible, ts, bs : Attempt(possible, ts, bs)
  BY DEF Requests, CreateTable, CreateIndex, UpdateTable, DeleteTable, CreateBackup, RestoreTable
<1> QED
  BY <1>1, AttemptWorks DEF Attempt, local

\* The handlers of commands on items that ask with a key.
LEMMA WithTargetWorks ==
  ASSUME step = "looked", cmd.do # "query", NEW r, WithTarget(r)
  PROVE  Works
<1>1. UNCHANGED <<session, printed>>
  BY DEF WithTarget, Stay, local
<1>2. CASE KeyFailure(seen, cmd) # None
  <2>1. KeyFailure(seen, cmd) \in {"panic", "exit"}
    BY <1>2 DEF KeyFailure
  <2> QED
    BY <1>1, <1>2, <2>1, EndReturns DEF WithTarget, Ends, Outcomes, Works, End
<1>3. CASE KeyFailure(seen, cmd) = None
  BY <1>1, <1>3, AskAsks DEF WithTarget, Works, Ask
<1> QED
  BY <1>2, <1>3

\* What is shown is shown in the command's format.
LEMMA ShowReturns ==
  ASSUME Scripted, FormatSet, cmd # None, cmd.do \in Printing, NEW items, Show(items)
  PROVE  outcome' = "ok" /\ printed'.form = Or(cmd.output, Default[cmd.do])
<1>1. cmd.output \in Forms[cmd.do] \cup {None} /\ context.output = cmd.output
  BY CommandFacts DEF Scripted, FormatSet
<1>2. Default[cmd.do] \in Forms[cmd.do]
  BY DEF Default, Forms, Printing
<1>3. Or(context.output, Default[cmd.do]) \in Forms[cmd.do]
  BY <1>1, <1>2 DEF Or
<1> QED
  BY <1>1, <1>3 DEF Show

\* A sort key condition accepted by the loose mode only is refused in strict mode.
LEMMA QueryWorks ==
  ASSUME Query
  PROVE  Works
<1> DEFINE pk == TypedKey("HASH", seen)
           sk == TypedKey("RANGE", seen)
<1>1. step = "looked" /\ cmd.do = "query" /\ UNCHANGED <<session, printed>>
  BY DEF Query, Stay, local
<1>2. CASE pk.type = "B"
  BY <1>1, <1>2, EndReturns DEF Query, Ends, Outcomes, Works, End
<1>3. CASE pk.type # "B" /\ cmd.sort # None /\ sk = None
  BY <1>1, <1>3, EndReturns DEF Query, Ends, Outcomes, Works, End
<1>4. CASE pk.type # "B" /\ cmd.sort = "loose" /\ sk # None /\ Strict
  <2>1. End("unparsed") /\ Strict
    BY <1>4 DEF Query
  <2> QED
    BY <1>1, <2>1 DEF End, Returns, Ends, Outcomes, Works
<1>5. CASE /\ pk.type # "B" /\ ~(cmd.sort # None /\ sk = None)
           /\ ~(cmd.sort = "loose" /\ sk # None /\ Strict)
  <2>1. \E r : Ask(r)
    BY <1>5 DEF Query
  <2>2. cmd.sort = "loose" => ~Strict
    <3>1. None \notin BOOLEAN \cup {"loose"}
      BY ScriptsAssumption
    <3> QED
      BY <1>5, <3>1
  <2> QED
    BY <1>1, <2>1, <2>2 DEF Ask, Asks, Works
<1> QED
  BY <1>2, <1>3, <1>4, <1>5

\* The handlers of the commands on items.
LEMMA ItemHandlersWork ==
  ASSUME Scripted, FormatSet, ItemHandlers
  PROVE  Works
<1>1. CASE RefuseOptions
  BY <1>1, EndReturns DEF RefuseOptions, OptionsMissing, Stay, local, Ends, Outcomes, Works, End
<1>2. CASE FetchSchema
  BY <1>2, EndReturns DEF FetchSchema, Describe, Look, Looks, local, Ends, Outcomes, Works, End
<1>3. CASE AskForAll
  BY <1>3, EndReturns, AskAsks DEF AskForAll, Stay, local, Ends, Outcomes, Works, End, Ask
<1>4. CASE Cancel
  BY <1>4, EndReturns DEF Cancel, Stay, local, Ends, Outcomes, Works, End
<1>5. CASE Get \/ Del
  BY <1>5, WithTargetWorks DEF Get, Del
<1>6. CASE Query
  BY <1>6, QueryWorks
<1>7. CASE Desc
  <2>1. CASE outcome' = "exit" /\ UNCHANGED <<printed, file>>
    BY <1>7, <2>1 DEF Desc, Returns, Ends, Outcomes, Works
  <2>2. CASE Show(<<>>)
    BY <1>7, <2>2, ShowReturns DEF Desc, Scripted, Printing, Returns, Ends, Outcomes, Works
  <2> QED
    BY <1>7, <2>1, <2>2 DEF Desc
<1>8. CASE Put
  <2>1. CASE End("unparsed") /\ Stay
    BY <1>8, <2>1 DEF Put, End, Stay, local, Returns, Ends, Outcomes, Works
  <2>2. CASE \E r : WithTarget(r)
    BY <1>8, <2>2, WithTargetWorks DEF Put
  <2> QED
    BY <1>8, <2>1, <2>2 DEF Put
<1>9. CASE Upd
  <2>1. CASE End("panic") /\ Stay
    BY <1>9, <2>1, EndReturns DEF Upd, Stay, local, Ends, Outcomes, Works, End
  <2>2. CASE \E r : WithTarget(r)
    BY <1>9, <2>2, WithTargetWorks DEF Upd
  <2> QED
    BY <1>9, <2>1, <2>2 DEF Upd
<1>10. CASE Import
  <2>1. \/ \E how \in {"exit", "panic", "ok"} : End(how)
        \/ \E r : Ask(r)
    <3> DEFINE items == FromPlain(file.content, cmd.infer)
               bad == \E i \in DOMAIN items : \E a \in DOMAIN items[i] : Unreadable(items[i][a])
    <3>1. CASE file = None
      BY <1>10, <3>1 DEF Import
    <3>2. CASE file # None /\ bad
      BY <1>10, <3>2, Zenon DEF Import
    <3>3. CASE file # None /\ ~bad /\ items = <<>>
      BY <1>10, <3>3, Zenon DEF Import
    <3>4. CASE file # None /\ ~bad /\ items # <<>>
      <4>1. Ask([api |-> "batch", items |-> items])
        BY <1>10, <3>4, Zenon DEF Import
      <4> QED
        BY <4>1
    <3> QED
      BY <3>1, <3>2, <3>3, <3>4
  <2> QED
    BY <1>10, <2>1, EndReturns, AskAsks DEF Import, Stay, local, Ends, Outcomes, Works, End, Ask
<1>11. CASE Bwrite
  BY <1>11, EndReturns, AskAsks DEF Bwrite, Stay, local, Ends, Outcomes, Works, End, Ask
<1> QED
  BY <1>1, <1>2, <1>3, <1>4, <1>5, <1>6, <1>7, <1>8, <1>9, <1>10, <1>11 DEF ItemHandlers

\* The requests of the commands on items.
LEMMA ItemRequestsWork ==
  ASSUME tried \in Nat, Scripted, FormatSet, ItemRequests
  PROVE  Works
<1>1. CASE Answer
  <2>1. /\ step = "request" /\ step' = "ended" /\ tried' = tried + 1
        /\ UNCHANGED <<cmd, request, session>>
        /\ cmd # None /\ cmd.do \in Printing
    BY <1>1 DEF Answer, Scripted, Readers, Printing
  <2>2. \/ \E items : Show(items)
        \/ outcome' \in {"ok", "exit"} /\ UNCHANGED printed
    BY <1>1 DEF Answer
  <2>3. outcome' \in {"ok", "exit"}
    BY <2>1, <2>2, ShowReturns
  <2>4. printed' # printed => printed'.form = Or(cmd.output, Default[cmd.do])
    BY <2>1, <2>2, ShowReturns
  <2> QED
    BY <2>1, <2>3, <2>4 DEF Returns, Ends, Outcomes, Works
<1>2. CASE WriteItem
  <2>1. \E possible, items : Write("exit", possible, items)
    BY <1>2 DEF WriteItem
  <2> QED
    BY <2>1, AttemptWorks DEF Write, local
<1>3. CASE ExportAnswer
  BY <1>3 DEF ExportAnswer, Returns, Ends, Outcomes, Works
<1>4. CASE WriteBatch
  <2>1. \E possible, items : Write("error", possible, items)
    BY <1>4 DEF WriteBatch
  <2> QED
    BY <2>1, AttemptWorks DEF Write, local
<1> QED
  BY <1>1, <1>2, <1>3, <1>4 DEF ItemRequests

\* Every step is one of `main`, of a handler or its request, or around them.
LEMMA NextSorts ==
  ASSUME tried \in Nat, Scripted, FormatSet, [Next]_vars
  PROVE  Process \/ Works \/ Around
<1>1. CASE (Handlers \/ Requests) /\ UNCHANGED local
  BY <1>1, HandlersWork, RequestsWork
<1>2. CASE Surroundings /\ UNCHANGED local
  BY <1>2 DEF Surroundings, Settle, Tick, OtherUpdates, OtherDeletes, Other, OtherDropsBackup, local, Around
<1>3. CASE ItemHandlers \/ ItemRequests
  BY <1>3, ItemHandlersWork, ItemRequestsWork
<1>4. CASE \E n \in DOMAIN tables : OtherCounts(n)
  BY <1>4 DEF OtherCounts, Other, Around
<1>5. CASE UNCHANGED vars
  BY <1>5 DEF vars, adminVars, local, Around
<1> QED
  BY <1>1, <1>2, <1>3, <1>4, <1>5 DEF Next

-----------------------------------------------------------------------------
(* What is known of a session *)

\* Where the command is, and what it has sent.
Stepped ==
  /\ step \in Steps
  /\ tried \in 0..MaxAttempts /\ (step = "request" => tried < MaxAttempts)
  /\ step \in {"idle", "start", "looked"} => request = None /\ tried = 0
  /\ outcome \in Outcomes \cup {None} /\ (step = "ended" => outcome \in Ends)

\* The format and the mode it was given are those it has used.
Formatted ==
  /\ FormatSet
  /\ cmd # None /\ printed # None => cmd.do \in Printing /\ printed.form = Or(cmd.output, Default[cmd.do])
StrictMinded ==
  cmd # None /\ cmd.do = "query" =>
    /\ step = "ended" /\ outcome = "unparsed" => Strict
    /\ cmd.sort = "loose" /\ request # None => ~Strict

\* The commands up to the i-th of the history that chose a mode in the n-th run from
\* the end, and the last of some.
GivenIn(h, n, i) == {j \in 1..i : /\ h[j].nth = n
                                  /\ h[j].cmd.do = "query"
                                  /\ h[j].cmd.strict \/ h[j].cmd.nonstrict}
LastOf(js) == CHOOSE j \in js : \A k \in js : k <= j

Past == GivenIn(history, Len(script), Len(history))
Chooses(c) == c.do = "query" /\ (c.strict \/ c.nonstrict)

\* Runs are told apart by the number of those to come.
Remembered ==
  /\ \E E : history \in Seq(E)
  /\ \A j \in DOMAIN history :
       LET e == history[j]
       IN /\ e.nth \in Nat /\ e.nth >= Len(script)
          /\ run # None /\ e.nth = Len(script) => e.run = run
          /\ e.cmd.do = "query" => {e.cmd.strict, e.cmd.nonstrict} \subseteq BOOLEAN
          /\ e.outcome \in Ends /\ e.tried \in 0..MaxAttempts

\* The Context has the mode that was chosen last in the run, if any.
ChoiceKept ==
  run # None =>
    /\ Past # {} => LastOf(Past) \in Past
    /\ context.strict = IF cmd # None /\ Chooses(cmd) THEN cmd.strict
                        ELSE IF Past = {} THEN None ELSE history[LastOf(Past)].cmd.strict

SessionInv ==
  /\ Inv /\ Scripted /\ Stepped /\ Formatted /\ StrictMinded /\ Remembered /\ ChoiceKept
  /\ context.strict \in BOOLEAN \cup {None}

-----------------------------------------------------------------------------
(* Sequences *)

\* Appending adds one element at the end.
LEMMA Appended ==
  ASSUME NEW S, NEW h \in Seq(S), NEW e
  PROVE  /\ Append(h, e) \in Seq(S \cup {e})
         /\ Len(h) \in Nat /\ DOMAIN h = 1..Len(h)
         /\ Len(Append(h, e)) = Len(h) + 1 /\ DOMAIN Append(h, e) = 1..(Len(h) + 1)
         /\ \A i \in 1..Len(h) : Append(h, e)[i] = h[i]
         /\ Append(h, e)[Len(h) + 1] = e
<1> h \in Seq(S \cup {e})
  OBVIOUS
<1> QED
  OBVIOUS

\* The choices of a history do not change when it grows.
LEMMA ChoicesBefore ==
  ASSUME NEW S, NEW h \in Seq(S), NEW e, NEW n, NEW i \in 1..Len(h)
  PROVE  GivenIn(h, n, i) = GivenIn(Append(h, e), n, i)
BY Appended DEF GivenIn

\* An entry that chooses is the last choice, one that does not is none.
LEMMA ChoicesAfter ==
  ASSUME NEW S, NEW h \in Seq(S), NEW e, NEW n
  PROVE  LET old == GivenIn(h, n, Len(h))
             new == GivenIn(Append(h, e), n, Len(h) + 1)
         IN IF e.nth = n /\ Chooses(e.cmd) THEN new # {} /\ LastOf(new) = Len(h) + 1 /\ Len(h) + 1 \in new
            ELSE new = old
<1> DEFINE old == GivenIn(h, n, Len(h))
           new == GivenIn(Append(h, e), n, Len(h) + 1)
<1> SUFFICES IF e.nth = n /\ Chooses(e.cmd) THEN new # {} /\ LastOf(new) = Len(h) + 1 /\ Len(h) + 1 \in new
             ELSE new = old
  OBVIOUS
<1>1. old \subseteq 1..Len(h) /\ new \subseteq 1..(Len(h) + 1) /\ Len(h) \in Nat
  BY DEF GivenIn
<1>2. \A j \in 1..Len(h) : j \in new <=> j \in old
  BY Appended DEF GivenIn
<1>3. Len(h) + 1 \in new <=> e.nth = n /\ Chooses(e.cmd)
  BY Appended DEF GivenIn, Chooses
<1> HIDE DEF old, new
<1>4. CASE Len(h) + 1 \in new
  <2>1. \A j \in new : (\A k \in new : k <= j) <=> j = Len(h) + 1
    BY <1>1, <1>4
  <2>2. LastOf(new) = Len(h) + 1
    BY <1>4, <2>1 DEF LastOf
  <2> QED
    BY <1>3, <1>4, <2>2
<1>5. CASE Len(h) + 1 \notin new
  <2>1. new = old
    <3>1. \A j \in 1..(Len(h) + 1) : j \in new => j \in 1..Len(h)
      BY <1>1, <1>5
    <3> QED
      BY <1>1, <1>2, <3>1
  <2> QED
    BY <1>3, <1>5, <2>1
<1> QED
  BY <1>4, <1>5

-----------------------------------------------------------------------------
(* The invariant is kept *)

\* At the start nothing has been done.
LEMMA SessionInit == Init => SessionInv /\ AdminInit
<1> SUFFICES ASSUME Init PROVE SessionInv /\ AdminInit
  OBVIOUS
<1>1. PICK s \in Scripts : /\ script = s.runs /\ tables = s.tables /\ backups = s.backups
                           /\ now = MaxTime - s.ticks /\ others = MaxOthers - s.others
  BY DEF Init
<1>2. /\ [tables |-> s.tables, backups |-> s.backups] \in Worlds
      /\ s.ticks \in 0..MaxTime /\ s.others \in 0..MaxOthers
      /\ s.runs \in Seq(ToSet(s.runs))
  BY ScriptsAssumption
<1>3. AdminInit
  <2>1. \E w \in Worlds : tables = w.tables /\ backups = w.backups
    BY <1>1, <1>2
  <2>2. now \in 0..MaxTime /\ others \in 0..MaxOthers
    BY <1>1, <1>2, AdminAssumption
  <2> QED
    BY <2>1, <2>2 DEF Init, AdminInit
<1>4. script \in Seq(AllRuns)
  <2>1. ToSet(s.runs) \subseteq AllRuns
    BY DEF AllRuns
  <2> QED
    BY <1>1, <1>2, <2>1
<1>5. Scripted
  BY <1>4 DEF Init, Scripted
<1>6. Stepped
  BY AdminAssumption DEF Init, Stepped, Steps
<1>7. Remembered
  <2>1. history \in Seq({}) /\ DOMAIN history = {}
    BY DEF Init
  <2> QED
    BY <2>1 DEF Remembered
<1>8. Inv
  BY <1>3, InvInit
<1> QED
  BY <1>3, <1>5, <1>6, <1>7, <1>8
     DEF Init, SessionInv, Formatted, FormatSet, StrictMinded, ChoiceKept, NewContext

\* The kinds of steps of `main` and the shell.
Launches ==
  /\ run = None /\ script # <<>> /\ step = "idle" /\ UNCHANGED <<adminVars, printed, history>>
  /\ script' = Tail(script) /\ context' = NewContext
  /\ \/ /\ Head(script).shell \/ ParseArgs(Head(script).args) # None
        /\ run' = Head(script) /\ lines' = Head(script).lines
     \/ UNCHANGED <<run, lines>>
PassesOver ==
  /\ run # None /\ step = "idle" /\ UNCHANGED <<script, context, printed, history, adminVars>>
  /\ run' = None \/ (run' = run /\ lines' = Tail(lines) /\ lines # <<>>)
Gives(c) ==
  /\ Dispatch(c) /\ run # None /\ UNCHANGED <<script, run>>
  /\ lines' = lines \/ (lines' = Tail(lines) /\ lines # <<>>)

\* They are one of these, or the end of a command.
LEMMA ProcessSorts ==
  ASSUME Scripted, Process
  PROVE  \/ Launches \/ PassesOver \/ Ended
         \/ \E c \in CommandsOf(run) : Gives(c)
<1>1. CASE Launch
  BY <1>1 DEF Launch, Launches
<1>2. CASE Command
  <2>1. run # None /\ run \in AllRuns /\ ParseArgs(run.args) # None
    BY <1>2 DEF Command, Scripted
  <2> QED
    BY <1>2, <2>1, ArgsAreCommands DEF Command, Gives
<1>3. CASE ReadLine
  <2>1. run # None /\ run \in AllRuns /\ lines \in Seq(ToSet(run.lines)) /\ step = "idle"
    BY <1>3 DEF ReadLine, Scripted
  <2> DEFINE line == Head(lines)
             c == IF Words(line) = None THEN None ELSE ParseArgs(Words(line))
             ends == lines = <<>> \/ TrimEnd(line) = Exit
  <2>2. CASE ends
    BY <1>3, <2>1, <2>2 DEF ReadLine, PassesOver
  <2>3. CASE ~ends /\ c = None
    BY <1>3, <2>1, <2>3 DEF ReadLine, PassesOver
  <2>4. CASE ~ends /\ c # None
    <3>1. Dispatch(OnTable(c, run.table)) /\ lines # <<>> /\ lines' = Tail(lines) /\ UNCHANGED <<script, run>>
      BY <1>3, <2>4 DEF ReadLine
    <3>2. line \in ToSet(run.lines)
      BY <2>1, <3>1
    <3>3. OnTable(c, run.table) \in CommandsOf(run)
      BY <2>1, <2>4, <3>2, LinesAreCommands
    <3> QED
      BY <2>1, <3>1, <3>3 DEF Gives
  <2> QED
    BY <2>2, <2>3, <2>4
<1> QED
  BY <1>1, <1>2, <1>3 DEF Process

\* The end of a command is remembered, and the run goes on or is over.
LEMMA EndedFacts ==
  ASSUME Scripted, Ended
  PROVE  /\ step = "ended" /\ step' = "idle" /\ cmd' = None /\ request' = None /\ tried' = 0
         /\ run' \in {run, None} /\ cmd # None /\ run # None /\ cmd \in CommandsOf(run)
         /\ UNCHANGED <<script, lines, context, outcome, printed>>
BY DEF Ended, Conclude, Scripted

\* What is to come is still what a script says.
LEMMA ScriptedNext ==
  ASSUME Scripted, Process \/ Works \/ Around
  PROVE  Scripted'
<1>1. CASE Works
  BY <1>1 DEF Works, Looks, Asks, AsksAgain, Returns, session, Scripted
<1>2. CASE Around
  BY <1>2 DEF Around, handler, session, Scripted
<1>3. CASE Ended
  BY <1>3, EndedFacts DEF Scripted
<1>4. CASE Launches
  <2>1. script \in Seq(AllRuns) /\ script # <<>>
    BY <1>4 DEF Launches, Scripted
  <2>2. Head(script) \in AllRuns /\ Tail(script) \in Seq(AllRuns)
    BY <2>1
  <2>3. IsRun(Head(script))
    BY <2>2, RunsAreRuns
  <2>4. Head(script).lines \in Seq(ToSet(Head(script).lines)) /\ Head(script) # None
    BY <2>3 DEF IsRun
  <2>5. cmd = None /\ cmd' = None /\ step' = "idle"
    BY <1>4 DEF Launches, adminVars, handler, Scripted
  <2> QED
    BY <1>4, <2>2, <2>4, <2>5 DEF Launches, Scripted
<1>5. CASE PassesOver
  <2>1. run # None => lines \in Seq(ToSet(run.lines))
    BY DEF Scripted
  <2>2. lines # <<>> /\ run # None => Tail(lines) \in Seq(ToSet(run.lines))
    BY <2>1
  <2> QED
    BY <1>5, <2>2 DEF PassesOver, adminVars, handler, Scripted
<1>6. ASSUME NEW c \in CommandsOf(run), Gives(c) PROVE Scripted'
  <2>1. run # None /\ lines \in Seq(ToSet(run.lines)) /\ run \in AllRuns
    BY <1>6 DEF Gives, Scripted
  <2>2. lines # <<>> => Tail(lines) \in Seq(ToSet(run.lines))
    BY <2>1
  <2>3. c # None
    BY <2>1, RunsAreRuns DEF IsRun
  <2>4. cmd' = c /\ step' = "start"
    BY <1>6 DEF Gives, Dispatch, Begin
  <2> QED
    BY <1>6, <2>1, <2>2, <2>3, <2>4 DEF Gives, Scripted
<1> QED
  BY <1>1, <1>2, <1>3, <1>4, <1>5, <1>6, ProcessSorts

\* Where the command is.
LEMMA SteppedNext ==
  ASSUME Scripted, Stepped, Process \/ Works \/ Around
  PROVE  Stepped'
<1> USE AdminAssumption DEF Stepped, Steps
<1>1. CASE Works
  <2>1. CASE Looks
    BY <1>1, <2>1 DEF Works, Looks
  <2>2. CASE Asks
    BY <1>1, <2>2 DEF Works, Asks
  <2>3. CASE AsksAgain
    BY <1>1, <2>3 DEF Works, AsksAgain
  <2>4. CASE Returns
    BY <1>1, <2>4 DEF Works, Returns, Ends
  <2> QED
    BY <1>1, <2>1, <2>2, <2>3, <2>4 DEF Works
<1>2. CASE Around
  BY <1>2 DEF Around, handler
<1>3. CASE Ended
  BY <1>3, EndedFacts
<1>4. CASE Launches
  BY <1>4 DEF Launches, adminVars, handler
<1>5. CASE PassesOver
  BY <1>5 DEF PassesOver, adminVars, handler
<1>6. ASSUME NEW c \in CommandsOf(run), Gives(c) PROVE Stepped'
  BY <1>6 DEF Gives, Dispatch, Begin
<1> QED
  BY <1>1, <1>2, <1>3, <1>4, <1>5, <1>6, ProcessSorts

\* Dispatch sets the format of a command that has one, and the mode if it is given.
LEMMA SettingsMade ==
  ASSUME Scripted, run # None, NEW c \in CommandsOf(run), context' = Settings(c, context)
  PROVE  /\ c.do \in Printing => context'.output = c.output
         /\ context'.strict = IF Chooses(c) THEN c.strict ELSE context.strict
         /\ c.do = "query" => {c.strict, c.nonstrict} \subseteq BOOLEAN
<1>1. /\ "output" \in DOMAIN c <=> c.do \in Printing
      /\ "strict" \in DOMAIN c <=> c.do = "query"
      /\ c.do = "query" => {c.strict, c.nonstrict} \subseteq BOOLEAN /\ ~(c.strict /\ c.nonstrict)
  BY CommandFacts
<1>2. /\ context'.output = IF "output" \in DOMAIN c THEN c.output ELSE context.output
      /\ context'.strict = IF "strict" \in DOMAIN c /\ (c.strict \/ c.nonstrict)
                           THEN c.strict \/ ~c.nonstrict ELSE context.strict
  BY DEF Settings
<1>3. CASE c.do = "query" /\ (c.strict \/ c.nonstrict)
  <2>1. context'.strict = (c.strict \/ ~c.nonstrict)
    BY <1>1, <1>2, <1>3
  <2>2. c.strict \in BOOLEAN /\ c.nonstrict \in BOOLEAN /\ ~(c.strict /\ c.nonstrict)
    BY <1>1, <1>3
  <2>3. (c.strict \/ ~c.nonstrict) = c.strict
    BY <1>3, <2>2
  <2> QED
    BY <1>1, <1>2, <1>3, <2>1, <2>3 DEF Chooses
<1>4. CASE ~(c.do = "query" /\ (c.strict \/ c.nonstrict))
  BY <1>1, <1>2, <1>4 DEF Chooses
<1> QED
  BY <1>3, <1>4

\* What the command has printed, and the mode it has minded.
LEMMA FormattedNext ==
  ASSUME Scripted, Stepped, Formatted, StrictMinded, Process \/ Works \/ Around
  PROVE  Formatted' /\ StrictMinded'
<1> USE DEF Formatted, FormatSet, StrictMinded
<1>1. CASE Works
  <2>1. UNCHANGED <<cmd, context, run>> /\ (Strict' <=> Strict)
    BY <1>1 DEF Works, session, Strict
  <2>2. CASE Looks \/ AsksAgain
    BY <2>1, <2>2 DEF Looks, AsksAgain
  <2>3. CASE Asks
    BY <2>1, <2>3 DEF Asks
  <2>4. CASE Returns
    BY <2>1, <2>4 DEF Returns
  <2> QED
    BY <1>1, <2>2, <2>3, <2>4 DEF Works
<1>2. CASE Around
  BY <1>2 DEF Around, handler, session, Strict
<1>3. CASE Ended
  BY <1>3, EndedFacts
<1>4. CASE Launches
  BY <1>4 DEF Launches, adminVars, handler, Scripted
<1>5. CASE PassesOver
  BY <1>5 DEF PassesOver, adminVars, handler, Scripted
<1>6. ASSUME NEW c \in CommandsOf(run), Gives(c) PROVE Formatted' /\ StrictMinded'
  <2>1. step = "idle" /\ cmd' = c /\ step' = "start" /\ printed' = None /\ UNCHANGED request
    BY <1>6 DEF Gives, Dispatch, Begin
  <2>2. request' = None
    BY <2>1 DEF Stepped
  <2>3. c.do \in Printing => context'.output = c.output
    BY <1>6, SettingsMade DEF Gives, Dispatch
  <2> QED
    BY <2>1, <2>2, <2>3
<1> QED
  BY <1>1, <1>2, <1>3, <1>4, <1>5, <1>6, ProcessSorts

\* What a command that ends leaves in the history.
Entry == [cmd |-> cmd, run |-> run, nth |-> Len(script), outcome |-> outcome, request |-> request,
          tried |-> tried, printed |-> printed, file |-> file]

\* The history grows by the commands that end.
LEMMA HistoryGrows ==
  ASSUME Remembered, Process \/ Works \/ Around
  PROVE  UNCHANGED history \/ (Ended /\ history' = Append(history, Entry))
BY DEF Process, Launch, Command, Dispatch, ReadLine, Ended, Entry, Works, Around, session

\* What it says of a command that ends is what its handler has kept to.
LEMMA RememberedNext ==
  ASSUME Scripted, Stepped, Remembered, Process \/ Works \/ Around
  PROVE  Remembered'
<1>1. PICK E : history \in Seq(E)
  BY DEF Remembered
<1>2. DOMAIN history = 1..Len(history) /\ Len(history) \in Nat /\ Len(script) \in Nat
  BY <1>1 DEF Scripted
<1>3. CASE Ended
  <2>1. history' = Append(history, Entry)
    BY <1>3 DEF Ended, Entry
  <2>2. /\ history' \in Seq(E \cup {Entry}) /\ DOMAIN history' = 1..(Len(history) + 1)
        /\ \A j \in 1..Len(history) : history'[j] = history[j]
        /\ history'[Len(history) + 1] = Entry
    BY <1>1, <2>1, Appended
  <2>3. /\ step = "ended" /\ cmd \in CommandsOf(run) /\ run' \in {run, None} /\ run # None /\ UNCHANGED script
    BY <1>3, EndedFacts
  <2>4. /\ Entry.nth = Len(script) /\ Entry.run = run /\ Entry.cmd = cmd
        /\ Entry.outcome = outcome /\ Entry.tried = tried
    BY DEF Entry
  <2>5. /\ cmd.do = "query" => {cmd.strict, cmd.nonstrict} \subseteq BOOLEAN
        /\ outcome \in Ends /\ tried \in 0..MaxAttempts
    BY <2>3, CommandFacts DEF Stepped
  <2>6. ASSUME NEW j \in DOMAIN history'
        PROVE  LET e == history'[j]
               IN /\ e.nth \in Nat /\ e.nth >= Len(script')
                  /\ run' # None /\ e.nth = Len(script') => e.run = run'
                  /\ e.cmd.do = "query" => {e.cmd.strict, e.cmd.nonstrict} \subseteq BOOLEAN
                  /\ e.outcome \in Ends /\ e.tried \in 0..MaxAttempts
    <3>1. CASE j = Len(history) + 1
      BY <1>2, <2>2, <2>3, <2>4, <2>5, <3>1
    <3>2. CASE j \in 1..Len(history)
      BY <1>2, <2>2, <2>3, <3>2 DEF Remembered
    <3> QED
      BY <1>2, <2>2, <3>1, <3>2
  <2> QED
    BY <2>2, <2>6 DEF Remembered
<1>4. CASE Launches
  <2>1. UNCHANGED history /\ script # <<>> /\ script' = Tail(script)
    BY <1>4 DEF Launches
  <2>2. Len(script') = Len(script) - 1
    BY <2>1 DEF Scripted
  <2>3. \A j \in DOMAIN history : history[j].nth > Len(script')
    BY <1>2, <2>2 DEF Remembered
  <2> QED
    BY <1>2, <2>1, <2>2, <2>3 DEF Remembered
<1>5. CASE PassesOver \/ Works \/ Around \/ \E c \in CommandsOf(run) : Gives(c)
  <2>1. UNCHANGED <<script, history>> /\ (run' = run \/ run' = None)
    BY <1>5 DEF PassesOver, Works, Around, Gives, Dispatch, session
  <2> QED
    BY <2>1 DEF Remembered
<1> QED
  BY <1>3, <1>4, <1>5, ProcessSorts

\* The Context has the last choice of the run.
LEMMA ChoiceKeptNext ==
  ASSUME Scripted, Stepped, Remembered, ChoiceKept, Process \/ Works \/ Around
  PROVE  ChoiceKept'
<1>1. PICK E : history \in Seq(E)
  BY DEF Remembered
<1>2. CASE Ended
  <2>1. history' = Append(history, Entry) /\ UNCHANGED <<script, context>> /\ cmd' = None /\ run # None
        /\ cmd # None /\ run' \in {run, None}
    BY <1>2, EndedFacts DEF Ended, Entry
  <2>2. /\ Len(history') = Len(history) + 1 /\ Len(history) \in Nat
        /\ \A j \in 1..Len(history) : history'[j] = history[j]
        /\ history'[Len(history) + 1] = Entry
    BY <1>1, <2>1, Appended
  <2>3. Entry.nth = Len(script) /\ Entry.cmd = cmd
    BY DEF Entry
  <2>4. Past' = GivenIn(Append(history, Entry), Len(script), Len(history) + 1)
    BY <2>1, <2>2 DEF Past
  <2>5. CASE Chooses(cmd)
    <3>1. Past' # {} /\ LastOf(Past') = Len(history) + 1 /\ LastOf(Past') \in Past'
      BY <1>1, <2>3, <2>4, <2>5, ChoicesAfter
    <3>2. context'.strict = history'[LastOf(Past')].cmd.strict
      BY <2>1, <2>2, <2>3, <2>5, <3>1 DEF ChoiceKept
    <3> QED
      BY <2>1, <3>1, <3>2 DEF ChoiceKept
  <2>6. CASE ~Chooses(cmd)
    <3>1. Past' = Past
      BY <1>1, <2>3, <2>4, <2>6, ChoicesAfter DEF Past
    <3>2. Past \subseteq 1..Len(history)
      BY DEF Past, GivenIn
    <3>3. Past # {} => history'[LastOf(Past)] = history[LastOf(Past)]
      BY <2>1, <2>2, <3>2 DEF ChoiceKept
    <3> QED
      BY <2>1, <2>6, <3>1, <3>3 DEF ChoiceKept
  <2> QED
    BY <2>5, <2>6
<1>3. CASE Launches
  <2>1. /\ UNCHANGED history /\ script # <<>> /\ script' = Tail(script) /\ context'.strict = None
        /\ cmd' = cmd /\ step = "idle"
    BY <1>3 DEF Launches, NewContext, adminVars, handler
  <2>2. Len(script') = Len(script) - 1 /\ Len(script) \in Nat
    BY <2>1 DEF Scripted
  <2>3. \A j \in DOMAIN history : history[j].nth # Len(script')
    BY <2>2 DEF Remembered
  <2>4. Past' = {}
    BY <1>1, <2>1, <2>3 DEF Past, GivenIn
  <2>5. cmd' = None
    BY <2>1 DEF Scripted
  <2> QED
    BY <2>1, <2>4, <2>5 DEF ChoiceKept
<1>4. CASE PassesOver \/ Works \/ Around
  <2>1. UNCHANGED <<script, history, context, cmd>> /\ (run' = run \/ run' = None)
    BY <1>4 DEF PassesOver, Works, Around, adminVars, handler, session
  <2>2. Past' = Past
    BY <2>1 DEF Past
  <2> QED
    BY <2>1, <2>2 DEF ChoiceKept
<1>5. ASSUME NEW c \in CommandsOf(run), Gives(c) PROVE ChoiceKept'
  <2>1. /\ UNCHANGED <<script, history, run>> /\ run # None /\ cmd' = c /\ step = "idle"
        /\ context' = Settings(c, context)
    BY <1>5 DEF Gives, Dispatch, Begin
  <2>2. c # None
    BY <2>1, RunsAreRuns DEF IsRun, Scripted
  <2>3. Past' = Past
    BY <2>1 DEF Past
  <2>4. context'.strict = IF Chooses(c) THEN c.strict ELSE context.strict
    BY <2>1, SettingsMade
  <2>5. cmd = None
    BY <2>1 DEF Scripted
  <2> QED
    BY <2>1, <2>2, <2>3, <2>4, <2>5 DEF ChoiceKept
<1> QED
  BY <1>2, <1>3, <1>4, <1>5, ProcessSorts

\* The mode in the Context is one, or none.
LEMMA StrictNext ==
  ASSUME Scripted, context.strict \in BOOLEAN \cup {None}, Process \/ Works \/ Around
  PROVE  context'.strict \in BOOLEAN \cup {None}
<1>1. ASSUME NEW c \in CommandsOf(run), Gives(c) PROVE context'.strict \in BOOLEAN \cup {None}
  <2>1. /\ context'.strict = IF Chooses(c) THEN c.strict ELSE context.strict
        /\ c.do = "query" => {c.strict, c.nonstrict} \subseteq BOOLEAN
    BY <1>1, SettingsMade DEF Gives, Dispatch
  <2> QED
    BY <2>1 DEF Chooses
<1>2. CASE Launches
  BY <1>2 DEF Launches, NewContext
<1>3. CASE PassesOver \/ Ended \/ Works \/ Around
  BY <1>3, EndedFacts DEF PassesOver, Works, Around, session
<1> QED
  BY <1>1, <1>2, <1>3, ProcessSorts

\* Every step of a session keeps all of it.
LEMMA SessionNext == SessionInv /\ [Next]_vars => SessionInv' /\ [AdminNext]_adminVars
<1> SUFFICES ASSUME SessionInv, [Next]_vars PROVE SessionInv' /\ [AdminNext]_adminVars
  OBVIOUS
<1>1. [AdminNext]_adminVars
  BY NextRefines DEF SessionInv, Inv
<1>2. Inv'
  BY <1>1, InvNext DEF SessionInv
<1>3. Process \/ Works \/ Around
  BY NextSorts DEF SessionInv, Stepped, Formatted
<1> QED
  BY <1>1, <1>2, <1>3, ScriptedNext, SteppedNext, FormattedNext, RememberedNext, ChoiceKeptNext, StrictNext
     DEF SessionInv

-----------------------------------------------------------------------------
(* Sessions implement TableAdmin, and have what it promises *)

\* A session is a behaviour of TableAdmin: whatever is typed, and whatever items
\* hold, commands on items leave all of a table but its items alone.
THEOREM SessionsImplementTableAdmin == Spec => ImplementsTableAdmin
<1> QED
  BY SessionInit, SessionNext, PTL DEF Spec, ImplementsTableAdmin, AdminSpec

\* So `update` in a session makes of units and modes what its options say.
THEOREM SessionFollowsOptions == Spec => UpdatesFollowOptions
<1> QED
  BY SessionsImplementTableAdmin, UpdateFollowsOptions, PTL DEF ImplementsTableAdmin

\* And `restore` makes copies of backups it was told to.
THEOREM SessionMakesCopies == Spec => RestoresWhatWasNamed
<1> QED
  BY SessionsImplementTableAdmin, RestoreMakesCopies, PTL DEF ImplementsTableAdmin

-----------------------------------------------------------------------------
(* Settings are a command's own *)

\* The mode that counts for the i-th command of a history.
ChoiceOf(h, i) ==
  LET given == GivenIn(h, h[i].nth, i)
  IN IF given = {} THEN h[i].run.strict ELSE h[LastOf(given)].cmd.strict

\* The i-th command kept to its own settings.
OwnSettings(h, i) ==
  LET e == h[i]
  IN /\ e.outcome # "unsupported"
     /\ e.printed # None => e.printed.form = Or(e.cmd.output, Default[e.cmd.do])
     /\ e.outcome = "unparsed" /\ e.cmd.do = "query" => ChoiceOf(h, i)
     /\ e.cmd.do = "query" /\ e.cmd.sort = "loose" /\ e.request # None => ~ChoiceOf(h, i)
ChosenBefore(h, i) ==
  LET given == GivenIn(h, h[i].nth, i) IN given # {} => LastOf(given) \in given

OwnInv == \A i \in DOMAIN history : OwnSettings(history, i) /\ ChosenBefore(history, i)

\* What was so of a command stays so when the history grows.
LEMMA OwnBefore ==
  ASSUME NEW S, NEW h \in Seq(S), NEW e, NEW i \in 1..Len(h), OwnSettings(h, i), ChosenBefore(h, i)
  PROVE  OwnSettings(Append(h, e), i) /\ ChosenBefore(Append(h, e), i)
<1> DEFINE g == Append(h, e)
           given == GivenIn(h, h[i].nth, i)
<1>1. g[i] = h[i] /\ \A j \in 1..Len(h) : g[j] = h[j]
  BY Appended
<1>2. GivenIn(g, g[i].nth, i) = given
  BY <1>1, ChoicesBefore
<1>3. given \subseteq 1..Len(h)
  BY DEF GivenIn
<1>4. given # {} => LastOf(given) \in given
  BY DEF ChosenBefore
<1>5. given # {} => g[LastOf(given)] = h[LastOf(given)]
  BY <1>1, <1>3, <1>4
<1> HIDE DEF g, given
<1>6. ChoiceOf(g, i) = ChoiceOf(h, i)
  BY <1>1, <1>2, <1>5 DEF ChoiceOf, given
<1>7. ChosenBefore(g, i)
  BY <1>2, <1>4 DEF ChosenBefore
<1>8. OwnSettings(g, i)
  BY <1>1, <1>6 DEF OwnSettings
<1> QED
  BY <1>7, <1>8 DEF g

\* The mode `query` minds is the last one chosen in its run.
LEMMA StrictIsLast ==
  ASSUME SessionInv, Ended, NEW h, h = Append(history, Entry), NEW n, n = Len(history) + 1
  PROVE  ChosenBefore(h, n) /\ (cmd.do = "query" => ChoiceOf(h, n) = Strict)
<1> USE DEF SessionInv
<1>1. PICK E : history \in Seq(E)
  BY DEF Remembered
<1>2. h[n] = Entry /\ Len(history) \in Nat /\ \A j \in 1..Len(history) : h[j] = history[j]
  BY <1>1, Appended
<1>3. Entry.nth = Len(script) /\ Entry.cmd = cmd /\ Entry.run = run
  BY DEF Entry
<1>4. run # None /\ cmd # None /\ cmd \in CommandsOf(run)
  BY EndedFacts
<1> DEFINE given == GivenIn(h, Len(script), n)
<1>5. /\ ChosenBefore(h, n) <=> (given # {} => LastOf(given) \in given)
      /\ ChoiceOf(h, n) = IF given = {} THEN run.strict ELSE h[LastOf(given)].cmd.strict
  BY <1>2, <1>3 DEF ChosenBefore, ChoiceOf
<1>6. Past \subseteq DOMAIN history /\ \A j \in Past : history[j].cmd.do = "query"
  BY <1>1 DEF Past, GivenIn
<1> HIDE DEF given
<1>7. CASE Chooses(cmd)
  <2>1. given # {} /\ LastOf(given) = n /\ n \in given
    BY <1>1, <1>3, <1>7, ChoicesAfter DEF given
  <2>2. context.strict = cmd.strict
    BY <1>4, <1>7 DEF ChoiceKept
  <2>3. cmd.strict \in BOOLEAN
    BY <1>4, <1>7, CommandFacts DEF Chooses
  <2>4. Strict = cmd.strict
    BY <2>2, <2>3, ScriptsAssumption DEF Strict, Or
  <2> QED
    BY <1>2, <1>3, <1>5, <2>1, <2>4
<1>8. CASE ~Chooses(cmd)
  <2>1. given = Past
    BY <1>1, <1>3, <1>8, ChoicesAfter DEF given, Past
  <2>2. CASE Past = {}
    <3>1. context.strict = None
      BY <1>4, <1>8, <2>2 DEF ChoiceKept
    <3> QED
      BY <1>5, <2>1, <2>2, <3>1 DEF Strict, Or
  <2>3. CASE Past # {}
    <3>1. LastOf(Past) \in Past /\ context.strict = history[LastOf(Past)].cmd.strict
      BY <1>4, <1>8, <2>3 DEF ChoiceKept
    <3>2. LastOf(Past) \in 1..Len(history)
      BY <1>1, <1>6, <3>1
    <3>3. context.strict \in BOOLEAN
      BY <1>6, <3>1 DEF Remembered
    <3>4. Strict = context.strict
      BY <3>3, ScriptsAssumption DEF Strict, Or
    <3>5. h[LastOf(given)].cmd.strict = context.strict
      BY <1>2, <2>1, <3>1, <3>2
    <3> QED
      BY <1>5, <2>1, <2>3, <3>1, <3>4, <3>5
  <2> QED
    BY <2>2, <2>3
<1> QED
  BY <1>7, <1>8

\* Every step keeps it.
LEMMA OwnNext == SessionInv /\ OwnInv /\ [Next]_vars => OwnInv'
<1> SUFFICES ASSUME SessionInv, OwnInv, [Next]_vars PROVE OwnInv'
  OBVIOUS
<1>1. UNCHANGED history \/ (Ended /\ history' = Append(history, Entry))
  BY NextSorts, HistoryGrows DEF SessionInv, Stepped, Formatted
<1>2. CASE UNCHANGED history
  BY <1>2 DEF OwnInv
<1>3. CASE Ended /\ history' = Append(history, Entry)
  <2> DEFINE h == Append(history, Entry)
             n == Len(history) + 1
  <2>1. PICK E : history \in Seq(E)
    BY DEF SessionInv, Remembered
  <2>2. DOMAIN h = 1..n /\ DOMAIN history = 1..Len(history) /\ Len(history) \in Nat /\ h[n] = Entry
    BY <2>1, Appended
  <2>3. ChosenBefore(h, n) /\ (cmd.do = "query" => ChoiceOf(h, n) = Strict)
    BY <1>3, StrictIsLast
  <2>4. step = "ended" /\ cmd # None
    BY <1>3, EndedFacts DEF SessionInv
  <2>5. /\ outcome # "unsupported"
        /\ printed # None => printed.form = Or(cmd.output, Default[cmd.do])
        /\ outcome = "unparsed" /\ cmd.do = "query" => Strict
        /\ cmd.do = "query" /\ cmd.sort = "loose" /\ request # None => ~Strict
    BY <2>4 DEF SessionInv, Stepped, Ends, Formatted, StrictMinded
  <2>6. OwnSettings(h, n)
    BY <2>2, <2>3, <2>5 DEF OwnSettings, Entry
  <2>7. \A i \in 1..Len(history) : OwnSettings(h, i) /\ ChosenBefore(h, i)
    BY <2>1, <2>2, OwnBefore DEF OwnInv
  <2> QED
    BY <1>3, <2>2, <2>3, <2>6, <2>7 DEF OwnInv
<1> QED
  BY <1>1, <1>2, <1>3

\* A command prints in the format it asked for and minds the mode last chosen in its
\* run, by query's options or else by config.yml: of what dispatch sets in the
\* Context nothing else reaches the next command of a shell session.
THEOREM SettingsStayOwn == Spec => []SettingsAreOwn
<1>1. Init => OwnInv
  BY DEF Init, OwnInv
<1>2. OwnInv => SettingsAreOwn
  BY DEF OwnInv, OwnSettings, SettingsAreOwn, LastChoice, ChoiceOf, GivenIn, LastOf
<1> QED
  BY <1>1, <1>2, SessionInit, SessionNext, OwnNext, PTL DEF Spec

-----------------------------------------------------------------------------
(* The type invariant *)

\* A table's mode and units fit together.
ModeKept(t) ==
  /\ t.billing \in Modes \cup {None} /\ t.busy \in BOOLEAN
  /\ {t.rcu, t.wcu} \subseteq (IF Mode(t) = "PROVISIONED" THEN Nat \ {0} ELSE {0})

\* Its items are storable, and its keys tell them apart.
ItemsKept(t) ==
  /\ \A i, j \in t.items : KeyOf(t, i) = KeyOf(t, j) => i = j
  /\ \A i \in t.items : Storable(t, i)

\* Keys, and what can be stored, are a matter of the schema and the definitions.
LEMMA SameKeys ==
  ASSUME NEW t, NEW u, u.schema = t.schema, u.definitions = t.definitions
  PROVE  \A i : KeyOf(u, i) = KeyOf(t, i) /\ (Storable(u, i) <=> Storable(t, i))
<1>1. KeyNames(u) = KeyNames(t)
  BY DEF KeyNames
<1>2. \A role : TypedKey(role, u) = TypedKey(role, t)
  BY DEF TypedKey
<1>3. \A i : HasKey(u, i) <=> HasKey(t, i)
  BY <1>1, <1>2 DEF HasKey
<1> QED
  BY <1>1, <1>3 DEF KeyOf, Storable

\* So a table with the items of another is as well kept.
LEMMA SameItems ==
  ASSUME NEW t, NEW u, ItemsKept(t), u.schema = t.schema, u.definitions = t.definitions, u.items \subseteq t.items
  PROVE  ItemsKept(u)
BY SameKeys DEF ItemsKept

\* Items written take the places of those with their keys.
LEMMA ReplacedKept ==
  ASSUME NEW t, IsTable(t), WellKept(t), NEW items,
         \A i \in items : Storable(t, i),
         \A i, j \in items : KeyOf(t, i) = KeyOf(t, j) => i = j
  PROVE  WellKept([t EXCEPT !.items = Replaced(t, items)])
<1> DEFINE u == [t EXCEPT !.items = Replaced(t, items)]
<1>1. /\ u.schema = t.schema /\ u.definitions = t.definitions /\ u.billing = t.billing
      /\ u.rcu = t.rcu /\ u.wcu = t.wcu /\ u.busy = t.busy /\ u.items = Replaced(t, items)
  BY DEF IsTable, TableFields
<1>2. \A i \in Replaced(t, items) : i \in items \/ (i \in t.items /\ \A j \in items : KeyOf(t, i) # KeyOf(t, j))
  BY DEF Replaced
<1> HIDE DEF u
<1>3. \A i \in u.items : Storable(t, i)
  BY <1>1, <1>2 DEF WellKept
<1>4. ASSUME NEW i \in u.items, NEW j \in u.items, KeyOf(t, i) = KeyOf(t, j) PROVE i = j
  BY <1>1, <1>2, <1>4 DEF WellKept
<1>5. ItemsKept(u)
  BY <1>1, <1>3, <1>4, SameKeys DEF ItemsKept
<1>6. ModeKept(u)
  BY <1>1 DEF WellKept, ModeKept, Mode
<1> QED
  BY <1>5, <1>6 DEF u, WellKept, ItemsKept, ModeKept

\* Without some of its items, busy or not, with other indexes, a table is as well kept.
LEMMA FewerKept ==
  ASSUME NEW t, WellKept(t), NEW u, u.schema = t.schema, u.definitions = t.definitions, u.billing = t.billing,
         u.rcu = t.rcu, u.wcu = t.wcu, u.busy \in BOOLEAN, u.items \subseteq t.items
  PROVE  WellKept(u)
<1>1. ItemsKept(t)
  BY DEF WellKept, ItemsKept
<1>2. ItemsKept(u)
  BY <1>1, SameItems
<1>3. ModeKept(u)
  BY DEF WellKept, ModeKept, Mode
<1> QED
  BY <1>2, <1>3 DEF WellKept, ItemsKept, ModeKept

\* What the service makes of an update it can execute has units if and only if it
\* is provisioned.
LEMMA UpdatedKept ==
  ASSUME NEW t, IsTable(t), WellKept(t), NEW mode \in Modes \cup {None}, NEW units, CanUpdate(t, mode, units)
  PROVE  WellKept(Updated(t, mode, units))
<1> DEFINE u == Updated(t, mode, units)
<1>1. /\ u.schema = t.schema /\ u.definitions = t.definitions /\ u.items = t.items /\ u.busy = TRUE
      /\ u.billing = IF mode = None THEN t.billing ELSE mode
      /\ u.rcu = IF units = None THEN 0 ELSE units.rcu
      /\ u.wcu = IF units = None THEN 0 ELSE units.wcu
  BY DEF IsTable, TableFields, Updated
<1> HIDE DEF u
<1>2. None \notin Modes
  BY AdminAssumption
<1>3. t.billing \in Modes \cup {None}
  BY DEF WellKept
<1>4. ASSUME Or(mode, Mode(t)) = "PAY_PER_REQUEST" PROVE ModeKept(u)
  <2>1. mode # None /\ units = None
    BY <1>4, PossibleUpdate
  <2> QED
    BY <1>1, <1>4, <2>1 DEF ModeKept, Mode, Or, Modes
<1>5. ASSUME Or(mode, Mode(t)) # "PAY_PER_REQUEST" PROVE ModeKept(u)
  <2>1. units # None /\ units.rcu \in Nat \ {0} /\ units.wcu \in Nat \ {0}
    BY <1>5, PossibleUpdate
  <2>2. u.billing # "PAY_PER_REQUEST" /\ u.billing \in Modes \cup {None}
    BY <1>1, <1>3, <1>5 DEF Or, Mode
  <2> QED
    BY <1>1, <2>1, <2>2 DEF ModeKept, Mode
<1>6. ModeKept(u)
  BY <1>4, <1>5
<1>7. ItemsKept(u)
  <2>1. ItemsKept(t)
    BY DEF WellKept, ItemsKept
  <2> QED
    BY <1>1, <2>1, SameItems
<1> QED
  BY <1>6, <1>7 DEF u, WellKept, ItemsKept, ModeKept

\* Tables and the images of backups are well kept, now and when `update` is sent.
Kept ==
  /\ \A n \in DOMAIN tables : WellKept(tables[n])
  /\ \A i \in DOMAIN backups : WellKept(backups[i].image) /\ backups[i].status \in Statuses
UpdateAsked == step = "request" /\ request.api = "update" => request.mode \in Modes \cup {None}
Bounded == now \in 0..MaxTime /\ others \in 0..MaxOthers /\ Len(bumps) \in 0..others /\ \E E : bumps \in Seq(E)
KeptInv == Kept /\ UpdateAsked /\ Bounded

\* A step that leaves one table well kept and the others as they are.
LEMMA OneKept ==
  ASSUME Kept, NEW n, DOMAIN tables' \subseteq DOMAIN tables \cup {n},
         \A m \in DOMAIN tables' : m # n => tables'[m] = tables[m],
         n \in DOMAIN tables' => WellKept(tables'[n]), UNCHANGED backups
  PROVE  Kept'
BY DEF Kept

\* Between commands, in handlers and in requests that read nothing is changed.
LEMMA QuietSteps ==
  ASSUME Process \/ (Handlers /\ UNCHANGED local) \/ ItemHandlers \/ Answer \/ ExportAnswer
  PROVE  UNCHANGED <<tables, backups, now, others, bumps>>
<1>1. CASE Process
  <2>1. CASE Launch \/ Ended
    BY <2>1 DEF Launch, Ended, Conclude, adminVars, service
  <2>2. CASE Command
    BY <2>2 DEF Command, Dispatch, Begin, service
  <2>3. CASE ReadLine
    BY <2>3 DEF ReadLine, Dispatch, Begin, adminVars, service
  <2> QED
    BY <1>1, <2>1, <2>2, <2>3 DEF Process
<1>2. CASE Handlers /\ UNCHANGED local
  BY <1>2 DEF Handlers, Create, Update, Describe, Delete, Backup, ListBackups, LookForBackups, Restore, End,
              service, local
<1>3. CASE ItemHandlers
  <2>1. CASE FetchSchema
    BY <2>1 DEF FetchSchema, Describe, Look, End, service, local
  <2>2. CASE RefuseOptions \/ AskForAll \/ Cancel \/ Get \/ Put \/ Del
    BY <2>2 DEF RefuseOptions, AskForAll, Cancel, Get, Put, Del, WithTarget, Stay, End, Ask, service, local
  <2>3. CASE Query \/ Upd \/ Bwrite \/ Desc \/ Import
    BY <2>3 DEF Query, Upd, Bwrite, Desc, Import, WithTarget, Stay, service, local
  <2> QED
    BY <1>3, <2>1, <2>2, <2>3 DEF ItemHandlers
<1>4. CASE Answer \/ ExportAnswer
  BY <1>4 DEF Answer, ExportAnswer, service
<1> QED
  BY <1>1, <1>2, <1>3, <1>4

\* No request moves the clock or counts for another user.
LEMMA RequestsCountNothing ==
  ASSUME (Requests /\ UNCHANGED local) \/ ItemRequests
  PROVE  UNCHANGED <<now, others, bumps>>
<1>1. CASE Requests /\ UNCHANGED local
  BY <1>1 DEF Requests, CreateTable, CreateIndex, UpdateTable, DeleteTable, CreateBackup, RestoreTable, Attempt,
              AttemptOr, local
<1>2. CASE Answer \/ ExportAnswer
  BY <1>2, QuietSteps
<1>3. CASE WriteItem \/ WriteBatch
  <2>1. \E failure, possible, items : Write(failure, possible, items)
    BY <1>3 DEF WriteItem, WriteBatch
  <2> QED
    BY <2>1 DEF Write, AttemptOr, local
<1> QED
  BY <1>1, <1>2, <1>3 DEF ItemRequests

\* The clock and the steps of others stay within their bounds.
LEMMA BoundedNext ==
  ASSUME Bounded, [Next]_vars
  PROVE  Bounded'
<1> USE AdminAssumption DEF Bounded
<1>1. CASE Process \/ ((Handlers \/ Requests) /\ UNCHANGED local) \/ ItemHandlers \/ ItemRequests
  <2>1. UNCHANGED <<now, others, bumps>>
    BY <1>1, QuietSteps, RequestsCountNothing
  <2> QED
    BY <2>1
<1>2. CASE Surroundings /\ UNCHANGED local
  <2>1. UNCHANGED bumps
    BY <1>2 DEF local
  <2>2. \/ UNCHANGED <<now, others>>
        \/ now < MaxTime /\ now' = now + 1 /\ UNCHANGED others
        \/ others < MaxOthers /\ others' = others + 1 /\ UNCHANGED now
    BY <1>2 DEF Surroundings, Settle, Tick, OtherUpdates, OtherDeletes, Other, OtherDropsBackup
  <2> QED
    BY <2>1, <2>2
<1>3. CASE \E n \in DOMAIN tables : OtherCounts(n)
  <2>1. PICK e : others < MaxOthers /\ others' = others + 1 /\ bumps' = Append(bumps, e) /\ UNCHANGED now
    BY <1>3 DEF OtherCounts, Other
  <2>2. PICK E : bumps \in Seq(E)
    OBVIOUS
  <2>3. bumps' \in Seq(E \cup {e}) /\ Len(bumps') = Len(bumps) + 1
    BY <2>1, <2>2, Appended
  <2> QED
    BY <2>1, <2>3
<1>4. CASE UNCHANGED vars
  BY <1>4 DEF vars, adminVars, service, local
<1> QED
  BY <1>1, <1>2, <1>3, <1>4 DEF Next

\* Only `update` asks for an update, in a mode that there is.
LEMMA WhoUpdates ==
  ASSUME Scripted, (Handlers /\ UNCHANGED local) \/ ItemHandlers, step' = "request"
  PROVE  request'.api = "update" => request'.mode \in Modes \cup {None}
<1>1. CASE Update
  <2>1. request'.mode = cmd.mode /\ cmd.do = "update" /\ cmd # None
    BY <1>1 DEF Update, Describe, Look, End, Ask, Scripted
  <2> QED
    BY <2>1, CommandFacts DEF Scripted
<1>2. CASE Create
  <2>1. \E schema, definitions :
          request' = [api |-> cmd.do, name |-> cmd.name, schema |-> schema, definitions |-> definitions]
    BY <1>2 DEF Create, Ask, End
  <2>2. cmd.do # "update"
    BY <1>2 DEF Create
  <2> QED
    BY <2>1, <2>2
<1>3. CASE Delete \/ Backup \/ ListBackups
  BY <1>3 DEF Delete, Backup, ListBackups, Ask, End
<1>4. CASE LookForBackups \/ Restore
  BY <1>4 DEF LookForBackups, Restore, Look, Ask, End
<1>5. CASE RefuseOptions \/ FetchSchema \/ AskForAll \/ Cancel \/ Get \/ Desc
  BY <1>5 DEF RefuseOptions, FetchSchema, Describe, AskForAll, Cancel, Get, Desc, WithTarget, Look, Ask, End
<1>6. CASE Query
  BY <1>6 DEF Query, Ask, End
<1>7. CASE Put \/ Del
  BY <1>7 DEF Put, Del, WithTarget, Ask, End
<1>8. CASE Upd
  BY <1>8 DEF Upd, WithTarget, Ask, End
<1>9. CASE Import \/ Bwrite
  BY <1>9 DEF Import, Bwrite, Ask, End
<1> QED
  BY <1>1, <1>2, <1>3, <1>4, <1>5, <1>6, <1>7, <1>8, <1>9 DEF Handlers, ItemHandlers

\* And it is sent again as it was.
LEMMA UpdateAskedNext ==
  ASSUME Scripted, UpdateAsked, [Next]_vars
  PROVE  UpdateAsked'
<1> USE DEF UpdateAsked
<1>1. CASE (Handlers /\ UNCHANGED local) \/ ItemHandlers
  BY <1>1, WhoUpdates
<1>2. CASE Process
  <2>1. UNCHANGED <<step, request>> \/ step' \in {"idle", "start"}
    BY <1>2 DEF Process, Launch, Command, ReadLine, Ended, Conclude, Dispatch, Begin, adminVars, handler
  <2> QED
    BY <2>1
<1>3. CASE (Requests /\ UNCHANGED local) \/ ItemRequests
  <2>1. step = "request" /\ UNCHANGED request
    <3>1. CASE Requests
      BY <3>1 DEF Requests, CreateTable, CreateIndex, UpdateTable, DeleteTable, CreateBackup, RestoreTable, Attempt,
                  AttemptOr
    <3>2. CASE Answer \/ ExportAnswer
      BY <3>2 DEF Answer, ExportAnswer
    <3>3. CASE WriteItem \/ WriteBatch
      <4>1. \E failure, possible, items : Write(failure, possible, items)
        BY <3>3 DEF WriteItem, WriteBatch
      <4> QED
        BY <4>1 DEF Write, AttemptOr
    <3> QED
      BY <1>3, <3>1, <3>2, <3>3 DEF ItemRequests
  <2> QED
    BY <2>1
<1>4. CASE Surroundings \/ \E n \in DOMAIN tables : OtherCounts(n)
  BY <1>4 DEF Surroundings, Settle, Tick, OtherUpdates, OtherDeletes, Other, OtherDropsBackup, OtherCounts, handler
<1>5. CASE UNCHANGED vars
  BY <1>5 DEF vars, adminVars, handler
<1> QED
  BY <1>1, <1>2, <1>3, <1>4, <1>5 DEF Next

\* A request is executed, if it can be, or changes nothing.
LEMMA Executed ==
  ASSUME NEW failure, NEW possible, NEW ts, NEW bs, AttemptOr(failure, possible, ts, bs)
  PROVE  (possible /\ tables' = ts /\ backups' = bs) \/ UNCHANGED <<tables, backups>>
BY DEF AttemptOr

\* What is created or restored has no items, or those of a backup.
LEMMA NewTablesKept ==
  ASSUME Typed, Kept, CreateTable \/ RestoreTable
  PROVE  Kept'
<1>1. CASE CreateTable
  <2> DEFINE new == Table(request.schema, request.definitions, "PAY_PER_REQUEST", 0, 0, {})
  <2>1. WellKept(new)
    BY DEF Table, WellKept, Mode, Modes
  <2>2. \/ tables' = With(request.name, new) /\ backups' = backups
        \/ UNCHANGED <<tables, backups>>
    BY <1>1, Executed DEF CreateTable, Attempt
  <2> HIDE DEF new
  <2>3. CASE tables' = With(request.name, new) /\ backups' = backups
    BY <2>1, <2>3 DEF Kept, With
  <2> QED
    BY <2>2, <2>3 DEF Kept
<1>2. CASE RestoreTable
  <2> DEFINE image == backups[request.arn].image
             new == [image EXCEPT !.busy = TRUE]
  <2>1. \/ request.arn \in DOMAIN backups /\ tables' = With(request.name, new) /\ backups' = backups
        \/ UNCHANGED <<tables, backups>>
    BY <1>2, Executed DEF RestoreTable, Attempt
  <2>2. CASE request.arn \in DOMAIN backups /\ tables' = With(request.name, new) /\ backups' = backups
    <3>1. IsTable(image) /\ WellKept(image)
      BY <2>2 DEF Typed, IsBackup, Kept
    <3>2. /\ new.schema = image.schema /\ new.definitions = image.definitions /\ new.billing = image.billing
          /\ new.rcu = image.rcu /\ new.wcu = image.wcu /\ new.items = image.items /\ new.busy = TRUE
      BY <3>1 DEF IsTable, TableFields
    <3> HIDE DEF image, new
    <3>3. WellKept(new)
      BY <3>1, <3>2, FewerKept
    <3> QED
      BY <2>2, <3>3 DEF Kept, With
  <2> QED
    BY <2>1, <2>2 DEF Kept
<1> QED
  BY <1>1, <1>2

\* What is updated or gets an index keeps its items, what is deleted loses them.
LEMMA OldTablesKept ==
  ASSUME Typed, Kept, UpdateAsked, CreateIndex \/ UpdateTable \/ DeleteTable
  PROVE  Kept'
<1> DEFINE t == tables[cmd.table]
<1>1. ASSUME cmd.table \in DOMAIN tables PROVE IsTable(t) /\ WellKept(t)
  BY <1>1 DEF Typed, Kept
<1>2. CASE CreateIndex
  <2>1. PICK index :
          \/ /\ Ready(cmd.table) /\ backups' = backups
             /\ tables' = [tables EXCEPT ![cmd.table].indexes = @ \cup {index}, ![cmd.table].busy = TRUE]
          \/ UNCHANGED <<tables, backups>>
    BY <1>2, Executed DEF CreateIndex, Attempt
  <2>2. CASE /\ Ready(cmd.table) /\ backups' = backups
             /\ tables' = [tables EXCEPT ![cmd.table].indexes = @ \cup {index}, ![cmd.table].busy = TRUE]
    <3> DEFINE u == tables'[cmd.table]
    <3>1. cmd.table \in DOMAIN tables /\ DOMAIN tables' = DOMAIN tables
          /\ \A m \in DOMAIN tables : m # cmd.table => tables'[m] = tables[m]
      BY <2>2 DEF Ready
    <3>2. u = [t EXCEPT !.indexes = @ \cup {index}, !.busy = TRUE]
      BY <2>2, <3>1
    <3>3. IsTable(t) /\ WellKept(t)
      BY <1>1, <3>1
    <3> HIDE DEF t
    <3>4. /\ u.schema = t.schema /\ u.definitions = t.definitions /\ u.billing = t.billing
          /\ u.rcu = t.rcu /\ u.wcu = t.wcu /\ u.items = t.items /\ u.busy = TRUE
      BY <3>2, <3>3 DEF IsTable, TableFields
    <3> HIDE DEF u
    <3>5. WellKept(u)
      BY <3>3, <3>4, FewerKept
    <3> QED
      BY <2>2, <3>1, <3>5, OneKept DEF u
  <2> QED
    BY <2>1, <2>2 DEF Kept
<1>3. CASE UpdateTable
  <2>1. step = "request" /\ request.api = "update"
    BY <1>3 DEF UpdateTable
  <2>2. \/ /\ Ready(cmd.table) /\ CanUpdate(t, request.mode, request.units) /\ backups' = backups
           /\ tables' = [tables EXCEPT ![cmd.table] = Updated(@, request.mode, request.units)]
        \/ UNCHANGED <<tables, backups>>
    BY <1>3, Executed DEF UpdateTable, Attempt
  <2>3. CASE /\ Ready(cmd.table) /\ CanUpdate(t, request.mode, request.units) /\ backups' = backups
             /\ tables' = [tables EXCEPT ![cmd.table] = Updated(@, request.mode, request.units)]
    <3>1. cmd.table \in DOMAIN tables /\ DOMAIN tables' = DOMAIN tables
          /\ (\A m \in DOMAIN tables : m # cmd.table => tables'[m] = tables[m])
          /\ tables'[cmd.table] = Updated(t, request.mode, request.units)
      BY <2>3 DEF Ready
    <3>2. WellKept(Updated(t, request.mode, request.units))
      BY <1>1, <2>1, <2>3, <3>1, UpdatedKept DEF UpdateAsked
    <3> QED
      BY <2>3, <3>1, <3>2, OneKept
  <2> QED
    BY <2>2, <2>3 DEF Kept
<1>4. CASE DeleteTable
  <2>1. (tables' = Without(cmd.table) /\ backups' = backups) \/ UNCHANGED <<tables, backups>>
    BY <1>4, Executed DEF DeleteTable, Attempt
  <2> QED
    BY <2>1 DEF Without, Kept
<1> QED
  BY <1>2, <1>3, <1>4

\* A backup is of a table as it is.
LEMMA BackupsKept ==
  ASSUME Kept, CreateBackup
  PROVE  Kept'
<1> DEFINE b == [name |-> request.name, table |-> cmd.table, status |-> "CREATING", image |-> tables[cmd.table]]
<1>1. \/ Ready(cmd.table) /\ tables' = tables /\ backups' = Saved(b)
      \/ UNCHANGED <<tables, backups>>
  BY Executed DEF CreateBackup, Attempt
<1>2. CASE Ready(cmd.table) /\ tables' = tables /\ backups' = Saved(b)
  <2>1. WellKept(b.image) /\ b.status \in Statuses
    BY <1>2 DEF Ready, Kept, Statuses
  <2> HIDE DEF b
  <2> QED
    BY <1>2, <2>1 DEF Saved, Kept
<1> QED
  BY <1>1, <1>2 DEF Kept

\* The service and other users keep tables well.
LEMMA SurroundingsKept ==
  ASSUME Typed, Kept, Surroundings
  PROVE  Kept'
<1>1. ASSUME NEW n \in DOMAIN tables, tables' = [tables EXCEPT ![n].busy = FALSE], UNCHANGED backups PROVE Kept'
  <2> DEFINE t == tables[n]
             u == tables'[n]
  <2>1. DOMAIN tables' = DOMAIN tables /\ u = [t EXCEPT !.busy = FALSE]
        /\ \A m \in DOMAIN tables : m # n => tables'[m] = tables[m]
    BY <1>1
  <2>2. IsTable(t) /\ WellKept(t)
    BY DEF Typed, Kept
  <2> HIDE DEF t
  <2>3. /\ u.schema = t.schema /\ u.definitions = t.definitions /\ u.billing = t.billing
        /\ u.rcu = t.rcu /\ u.wcu = t.wcu /\ u.items = t.items /\ u.busy = FALSE
    BY <2>1, <2>2 DEF IsTable, TableFields
  <2> HIDE DEF u
  <2>4. WellKept(u)
    BY <2>2, <2>3, FewerKept
  <2> QED
    BY <1>1, <2>1, <2>4, OneKept DEF u
<1>2. ASSUME NEW i \in DOMAIN backups, NEW status \in Statuses, backups' = [backups EXCEPT ![i].status = status],
             UNCHANGED tables
      PROVE  Kept'
  <2>1. DOMAIN backups' = DOMAIN backups /\ \A j \in DOMAIN backups : j # i => backups'[j] = backups[j]
    BY <1>2
  <2>2. IsBackup(backups[i]) /\ backups'[i] = [backups[i] EXCEPT !.status = status]
    BY <1>2 DEF Typed
  <2>3. backups'[i].image = backups[i].image /\ backups'[i].status = status
    BY <2>2 DEF IsBackup
  <2> QED
    BY <1>2, <2>1, <2>3 DEF Kept
<1>3. CASE Settle
  BY <1>1, <1>2, <1>3 DEF Settle, Statuses, Available
<1>4. CASE OtherDropsBackup
  BY <1>2, <1>4 DEF OtherDropsBackup, Existing, Statuses
<1>5. CASE Tick
  BY <1>5 DEF Tick, Kept
<1>6. ASSUME NEW n \in DOMAIN tables, OtherUpdates(n) PROVE Kept'
  <2>1. \E mode \in Modes : \E units :
          /\ CanUpdate(tables[n], mode, units) /\ UNCHANGED backups
          /\ tables' = [tables EXCEPT ![n] = Updated(@, mode, units)]
    BY <1>6 DEF OtherUpdates
  <2> PICK mode \in Modes : \E units :
        /\ CanUpdate(tables[n], mode, units) /\ UNCHANGED backups
        /\ tables' = [tables EXCEPT ![n] = Updated(@, mode, units)]
    BY <2>1
  <2> PICK units : /\ CanUpdate(tables[n], mode, units) /\ UNCHANGED backups
                   /\ tables' = [tables EXCEPT ![n] = Updated(@, mode, units)]
    OBVIOUS
  <2>2. WellKept(Updated(tables[n], mode, units))
    BY UpdatedKept DEF Typed, Kept
  <2> QED
    BY <2>2, OneKept
<1>7. ASSUME NEW n \in DOMAIN tables, OtherDeletes(n) PROVE Kept'
  BY <1>7 DEF OtherDeletes, Without, Kept
<1> QED
  BY <1>3, <1>4, <1>5, <1>6, <1>7 DEF Surroundings

\* Items written to a table keep it well if the table with them is well kept.
LEMMA WrittenKept ==
  ASSUME Kept, NEW failure, NEW possible, NEW items, Write(failure, possible, items),
         possible /\ cmd.table \in DOMAIN tables => WellKept([tables[cmd.table] EXCEPT !.items = items])
  PROVE  Kept'
<1>1. \/ cmd.table \in DOMAIN tables /\ possible /\ tables' = [tables EXCEPT ![cmd.table].items = items]
         /\ backups' = backups
      \/ UNCHANGED <<tables, backups>>
  BY Executed DEF Write
<1>2. CASE /\ cmd.table \in DOMAIN tables /\ possible /\ backups' = backups
           /\ tables' = [tables EXCEPT ![cmd.table].items = items]
  <2>1. /\ DOMAIN tables' = DOMAIN tables /\ \A m \in DOMAIN tables : m # cmd.table => tables'[m] = tables[m]
        /\ tables'[cmd.table] = [tables[cmd.table] EXCEPT !.items = items]
    BY <1>2
  <2>2. WellKept(tables'[cmd.table])
    BY <1>2, <2>1
  <2> QED
    BY <1>2, <2>1, <2>2, OneKept
<1> QED
  BY <1>1, <1>2 DEF Kept

\* An item put or changed takes the place of the one with its key.
LEMMA WriteItemKept ==
  ASSUME Typed, Kept, WriteItem
  PROVE  Kept'
<1> DEFINE t == tables[cmd.table]
<1>1. ASSUME cmd.table \in DOMAIN tables PROVE IsTable(t) /\ WellKept(t)
  BY <1>1 DEF Typed, Kept
<1>2. ASSUME NEW item, cmd.table \in DOMAIN tables, Storable(t, item)
      PROVE  WellKept([t EXCEPT !.items = Replaced(t, {item})])
  <2>1. \A i \in {item} : Storable(t, i)
    BY <1>2
  <2>2. \A i, j \in {item} : KeyOf(t, i) = KeyOf(t, j) => i = j
    OBVIOUS
  <2>3. IsTable(t) /\ WellKept(t)
    BY <1>1, <1>2
  <2> HIDE DEF t
  <2> QED
    BY <2>1, <2>2, <2>3, ReplacedKept
<1>3. CASE Write("exit", Storable(t, request.item), Replaced(t, {request.item}))
  BY <1>2, <1>3, WrittenKept
<1>4. CASE Write("exit", IsKey(t, request.key), t.items \ At(t, request.key))
  <2> DEFINE u == [t EXCEPT !.items = t.items \ At(t, request.key)]
  <2>1. ASSUME cmd.table \in DOMAIN tables PROVE WellKept(u)
    <3>1. IsTable(t) /\ WellKept(t)
      BY <1>1, <2>1
    <3>2. /\ u.schema = t.schema /\ u.definitions = t.definitions /\ u.billing = t.billing
          /\ u.rcu = t.rcu /\ u.wcu = t.wcu /\ u.busy = t.busy /\ u.items \subseteq t.items
      BY <3>1 DEF IsTable, TableFields
    <3> HIDE DEF t, u
    <3>3. u.busy \in BOOLEAN
      BY <3>1, <3>2, Zenon DEF WellKept
    <3> QED
      BY <3>1, <3>2, <3>3, FewerKept
  <2> QED
    BY <1>4, <2>1, WrittenKept
<1>5. ASSUME NEW new, NEW possible, Write("exit", possible /\ Storable(t, new), Replaced(t, {new})) PROVE Kept'
  BY <1>2, <1>5, WrittenKept
<1>6. \/ Write("exit", Storable(t, request.item), Replaced(t, {request.item}))
      \/ Write("exit", IsKey(t, request.key), t.items \ At(t, request.key))
      \/ \E new : Write("exit", (IsKey(t, request.key) /\ CanChange(t, request.key, request.change))
                                /\ Storable(t, new), Replaced(t, {new}))
  BY Zenon DEF WriteItem
<1> QED
  BY <1>3, <1>4, <1>5, <1>6

\* A batch is of items with keys of their own.
LEMMA WriteBatchKept ==
  ASSUME Typed, Kept, WriteBatch
  PROVE  Kept'
<1> DEFINE t == tables[cmd.table]
           items == request.items
           distinct == /\ \A i \in DOMAIN items : Storable(t, items[i])
                       /\ \A i, j \in DOMAIN items : KeyOf(t, items[i]) = KeyOf(t, items[j]) => i = j
<1>1. Write("error", items # <<>> /\ distinct, Replaced(t, ToSet(items)))
  BY Zenon DEF WriteBatch
<1>2. ASSUME cmd.table \in DOMAIN tables, distinct PROVE WellKept([t EXCEPT !.items = Replaced(t, ToSet(items))])
  <2>1. \A i \in ToSet(items) : Storable(t, i)
    BY <1>2 DEF ToSet
  <2>2. \A i, j \in ToSet(items) : KeyOf(t, i) = KeyOf(t, j) => i = j
    BY <1>2 DEF ToSet
  <2>3. IsTable(t) /\ WellKept(t)
    BY <1>2 DEF Typed, Kept
  <2> HIDE DEF t, items
  <2> QED
    BY <2>1, <2>2, <2>3, ReplacedKept
<1> HIDE DEF t, items, distinct
<1> QED
  BY <1>1, <1>2, WrittenKept DEF t

\* An item counted up has its key.
LEMMA CountsKept ==
  ASSUME Typed, Kept, NEW n \in DOMAIN tables, OtherCounts(n)
  PROVE  Kept'
<1> DEFINE t == tables[n]
<1>1. PICK i \in t.items :
        LET new == [i EXCEPT !["c"].N = @ + 2]
        IN /\ "c" \in DOMAIN i \ KeyNames(t) /\ Storable(t, new)
           /\ tables' = [tables EXCEPT ![n].items = (@ \ {i}) \cup {new}]
  BY DEF OtherCounts
<1> DEFINE new == [i EXCEPT !["c"].N = @ + 2]
<1>2. IsTable(t) /\ WellKept(t)
  BY DEF Typed, Kept
<1>3. Storable(t, new) /\ tables' = [tables EXCEPT ![n].items = (@ \ {i}) \cup {new}] /\ "c" \notin KeyNames(t)
  BY <1>1
<1>4. \A a \in KeyNames(t) : new[a] = i[a]
  <2>1. KeyNames(t) \subseteq DOMAIN i
    BY <1>2 DEF WellKept, Storable, HasKey
  <2> HIDE DEF t
  <2> QED
    BY <1>3, <2>1
<1> HIDE DEF new
<1>5. KeyOf(t, new) = KeyOf(t, i)
  BY <1>4 DEF KeyOf
<1>6. /\ DOMAIN tables' = DOMAIN tables /\ \A m \in DOMAIN tables : m # n => tables'[m] = tables[m]
      /\ tables'[n] = [t EXCEPT !.items = (@ \ {i}) \cup {new}]
  BY <1>3
<1> DEFINE u == tables'[n]
<1> HIDE DEF t
<1>7. /\ u.schema = t.schema /\ u.definitions = t.definitions /\ u.billing = t.billing
      /\ u.rcu = t.rcu /\ u.wcu = t.wcu /\ u.busy = t.busy /\ u.items = (t.items \ {i}) \cup {new}
  BY <1>2, <1>6 DEF IsTable, TableFields
<1> HIDE DEF u
<1>8. ItemsKept(u)
  <2>1. ItemsKept(t)
    BY <1>2 DEF WellKept, ItemsKept
  <2>2. \A j, k \in u.items : KeyOf(t, j) = KeyOf(t, k) => j = k
    BY <1>5, <1>7, <2>1 DEF ItemsKept
  <2>3. \A j \in u.items : Storable(t, j)
    BY <1>3, <1>7, <2>1 DEF ItemsKept
  <2> QED
    BY <1>7, <2>2, <2>3, SameKeys DEF ItemsKept
<1>9. ModeKept(u)
  BY <1>2, <1>7 DEF WellKept, ModeKept, Mode
<1>10. WellKept(u)
  BY <1>8, <1>9 DEF WellKept, ItemsKept, ModeKept
<1> QED
  BY <1>6, <1>10, OneKept DEF u, t, OtherCounts

\* Every step keeps tables and backups well.
LEMMA KeptNext == SessionInv /\ KeptInv /\ [Next]_vars => KeptInv'
<1> SUFFICES ASSUME SessionInv, KeptInv, [Next]_vars PROVE KeptInv'
  OBVIOUS
<1>1. Typed /\ Kept /\ UpdateAsked /\ Bounded /\ Scripted
  BY DEF SessionInv, Inv, KeptInv
<1>2. Kept'
  <2>1. CASE Process \/ (Handlers /\ UNCHANGED local) \/ ItemHandlers \/ Answer \/ ExportAnswer
    BY <1>1, <2>1, QuietSteps DEF Kept
  <2>2. CASE Requests
    BY <1>1, <2>2, NewTablesKept, OldTablesKept, BackupsKept DEF Requests
  <2>3. CASE Surroundings
    BY <1>1, <2>3, SurroundingsKept
  <2>4. CASE WriteItem \/ WriteBatch
    BY <1>1, <2>4, WriteItemKept, WriteBatchKept
  <2>5. CASE \E n \in DOMAIN tables : OtherCounts(n)
    BY <1>1, <2>5, CountsKept
  <2>6. CASE UNCHANGED vars
    BY <1>1, <2>6 DEF vars, adminVars, service, Kept
  <2> QED
    BY <2>1, <2>2, <2>3, <2>4, <2>5, <2>6 DEF Next, ItemRequests
<1> QED
  BY <1>1, <1>2, UpdateAskedNext, BoundedNext DEF KeptInv

\* At the start the world is a script's.
LEMMA KeptInit == Init => KeptInv
<1> SUFFICES ASSUME Init PROVE KeptInv
  OBVIOUS
<1>1. PICK s \in Scripts : /\ script = s.runs /\ tables = s.tables /\ backups = s.backups
                           /\ now = MaxTime - s.ticks /\ others = MaxOthers - s.others
  BY DEF Init
<1>2. Kept
  BY <1>1, ScriptsAssumption DEF Kept
<1>3. Bounded
  <2>1. s.ticks \in 0..MaxTime /\ s.others \in 0..MaxOthers
    BY ScriptsAssumption
  <2>2. bumps \in Seq({}) /\ Len(bumps) = 0
    BY DEF Init
  <2> QED
    BY <1>1, <2>1, <2>2, AdminAssumption DEF Bounded
<1> QED
  BY <1>2, <1>3 DEF Init, KeptInv, UpdateAsked

\* Whatever commands are typed, and whatever others do in between, every table has the
\* units of its mode and items that its keys tell apart and the service can store, so
\* has every backup, and a request is sent no more often than the SDK may.
THEOREM SessionTyped == Spec => []TypeOK
<1>1. SessionInv /\ KeptInv => TypeOK
  <2> SUFFICES ASSUME SessionInv, KeptInv PROVE TypeOK
    OBVIOUS
  <2>1. \A n \in DOMAIN tables : WellKept(tables[n])
    BY DEF KeptInv, Kept
  <2>2. \A i \in DOMAIN backups : WellKept(backups[i].image) /\ backups[i].status \in Statuses
    BY DEF KeptInv, Kept
  <2>3. \A e \in ToSet(history) : e.outcome \in Outcomes /\ e.tried \in 0..MaxAttempts
    BY DEF SessionInv, Remembered, Ends, ToSet
  <2>4. /\ step \in Steps /\ (step = "idle" <=> cmd = None) /\ tried \in 0..MaxAttempts
        /\ outcome \in Outcomes \cup {None}
    BY DEF SessionInv, Stepped, Scripted
  <2>5. run = None => step = "idle"
    BY DEF SessionInv, Scripted
  <2>6. context.strict \in BOOLEAN \cup {None}
    BY DEF SessionInv
  <2> QED
    BY <2>1, <2>2, <2>3, <2>4, <2>5, <2>6 DEF TypeOK, KeptInv, Bounded
<1> QED
  BY <1>1, SessionInit, SessionNext, KeptInit, KeptNext, PTL DEF Spec

-----------------------------------------------------------------------------
(* Counting *)

\* A counter stands where the commands of h and the increments b of others have left
\* it, counters of a table's items do, and no command of h has written otherwise.
Between(v, n, key, h, b) ==
  LET bumped == Cardinality(Bumped(b, n, key))
  IN /\ v >= 2 * (bumped + Cardinality(Reported(h, n, key)))
     /\ v <= 2 * (bumped + Cardinality(Sent(h, n, key)))
CountersStand(t, n, h, b) ==
  \A x \in t.items :
    "c" \in DOMAIN x => \E v \in Int : x["c"] = [N |-> v] /\ Between(v, n, KeyOf(t, x), h, b)
OnlyCounts(h) == \A i \in DOMAIN h : ~Rewrites(h[i].cmd)

\* What is asked for is what the command does, of which nothing is known until then.
AskedBy ==
  step = "request" =>
    /\ request.api \in {"put", "upd", "restore"} => cmd.do = request.api
    /\ cmd.do = "upd" => request.api = "upd" /\ request.change = Change(cmd)
Silent == step \in {"start", "looked", "request"} => outcome = None

Standing == OnlyCounts(Done) => \A n \in DOMAIN tables : CountersStand(tables[n], n, Done, bumps)
CountingInv == AskedBy /\ Silent /\ Standing

\* A history that has sent more and has had no more successes than another.
More(h, k, n, key) == Reported(k, n, key) \subseteq Reported(h, n, key) /\ Sent(h, n, key) \subseteq Sent(k, n, key)

\* The numbers of requests and increments are numbers.
LEMMA Numbers ==
  ASSUME NEW S, NEW h \in Seq(S), NEW n, NEW key
  PROVE  /\ IsFiniteSet(Reported(h, n, key)) /\ IsFiniteSet(Sent(h, n, key)) /\ IsFiniteSet(Bumped(h, n, key))
         /\ Cardinality(Reported(h, n, key)) \in Nat /\ Cardinality(Sent(h, n, key)) \in Nat
         /\ Cardinality(Bumped(h, n, key)) \in Nat
<1>1. DOMAIN h = 1..Len(h) /\ Len(h) \in Nat
  OBVIOUS
<1>2. IsFiniteSet(DOMAIN h)
  BY <1>1, FS_Interval
<1>3. IsFiniteSet(1..MaxAttempts)
  BY AdminAssumption, FS_Interval
<1>4. IsFiniteSet((DOMAIN h) \X (1..MaxAttempts))
  BY <1>2, <1>3, FS_Product
<1>5. /\ Reported(h, n, key) \subseteq DOMAIN h /\ Bumped(h, n, key) \subseteq DOMAIN h
      /\ Sent(h, n, key) \subseteq (DOMAIN h) \X (1..MaxAttempts)
  BY DEF Reported, Bumped, Sent
<1>6. IsFiniteSet(Reported(h, n, key)) /\ IsFiniteSet(Sent(h, n, key)) /\ IsFiniteSet(Bumped(h, n, key))
  BY <1>2, <1>4, <1>5, FS_Subset
<1> QED
  BY <1>6, FS_CardinalityType

\* So a counter stands as well as before when only more was sent.
LEMMA MoreStands ==
  ASSUME NEW S, NEW h \in Seq(S), NEW k \in Seq(S), NEW B, NEW b \in Seq(B), NEW n, NEW key, NEW v \in Int,
         Between(v, n, key, h, b), More(h, k, n, key)
  PROVE  Between(v, n, key, k, b)
<1>1. /\ Cardinality(Reported(k, n, key)) <= Cardinality(Reported(h, n, key))
      /\ Cardinality(Sent(h, n, key)) <= Cardinality(Sent(k, n, key))
  BY Numbers, FS_Subset DEF More
<1>2. Cardinality(Bumped(b, n, key)) \in Nat
  BY Numbers
<1>3. /\ Cardinality(Reported(k, n, key)) \in Nat /\ Cardinality(Reported(h, n, key)) \in Nat
      /\ Cardinality(Sent(k, n, key)) \in Nat /\ Cardinality(Sent(h, n, key)) \in Nat
  BY Numbers
<1> DEFINE bn == Cardinality(Bumped(b, n, key))
           rh == Cardinality(Reported(h, n, key))
           rk == Cardinality(Reported(k, n, key))
           sh == Cardinality(Sent(h, n, key))
           sk == Cardinality(Sent(k, n, key))
<1>4. v >= 2 * (bn + rh) /\ v <= 2 * (bn + sh)
  BY DEF Between
<1> SUFFICES v >= 2 * (bn + rk) /\ v <= 2 * (bn + sk)
  BY DEF Between
<1> HIDE DEF bn, rh, rk, sh, sk
<1> QED
  BY <1>1, <1>2, <1>3, <1>4 DEF bn, rh, rk, sh, sk

\* The last entry changes.
LEMMA LastChanges ==
  ASSUME NEW S, NEW h \in Seq(S), NEW e, NEW n, NEW key
  PROVE  LET m == Len(h) + 1
         IN /\ Reported(Append(h, e), n, key) =
                 Reported(h, n, key) \cup (IF CountsUp(e, n, key) /\ e.outcome = "ok" THEN {m} ELSE {})
            /\ Sent(Append(h, e), n, key) =
                 Sent(h, n, key) \cup {s \in {m} \X (1..MaxAttempts) : CountsUp(e, n, key) /\ s[2] <= e.tried}
<1> DEFINE k == Append(h, e)
           m == Len(h) + 1
<1>1. /\ Len(h) \in Nat /\ DOMAIN h = 1..Len(h) /\ DOMAIN k = 1..m
      /\ (\A i \in DOMAIN h : k[i] = h[i]) /\ k[m] = e
  BY Appended
<1>2. DOMAIN k = DOMAIN h \cup {m} /\ m \notin DOMAIN h
  BY <1>1
<1> SUFFICES /\ Reported(k, n, key) =
                  Reported(h, n, key) \cup (IF CountsUp(e, n, key) /\ e.outcome = "ok" THEN {m} ELSE {})
             /\ Sent(k, n, key) =
                  Sent(h, n, key) \cup {s \in {m} \X (1..MaxAttempts) : CountsUp(e, n, key) /\ s[2] <= e.tried}
  OBVIOUS
<1> HIDE DEF k, m
<1>3. Reported(k, n, key) =
        Reported(h, n, key) \cup (IF CountsUp(e, n, key) /\ e.outcome = "ok" THEN {m} ELSE {})
  BY <1>1, <1>2 DEF Reported
<1>4. Sent(k, n, key) =
        Sent(h, n, key) \cup {s \in {m} \X (1..MaxAttempts) : CountsUp(e, n, key) /\ s[2] <= e.tried}
  BY <1>1, <1>2 DEF Sent
<1> QED
  BY <1>3, <1>4

\* A last entry that was sent as often and has had no more success.
LEMMA EntryMore ==
  ASSUME NEW S, NEW h \in Seq(S), NEW e, NEW f, NEW n, NEW key,
         CountsUp(e, n, key) => CountsUp(f, n, key) /\ {e.tried, f.tried} \subseteq Nat /\ e.tried <= f.tried,
         CountsUp(f, n, key) /\ f.outcome = "ok" => CountsUp(e, n, key) /\ e.outcome = "ok"
  PROVE  More(Append(h, e), Append(h, f), n, key)
<1> DEFINE m == Len(h) + 1
           sent(g) == {s \in {m} \X (1..MaxAttempts) : CountsUp(g, n, key) /\ s[2] <= g.tried}
<1>1. sent(e) \subseteq sent(f)
  BY AdminAssumption
<1>2. Reported(Append(h, f), n, key) \subseteq Reported(Append(h, e), n, key)
  BY LastChanges
<1>3. /\ Sent(Append(h, e), n, key) = Sent(h, n, key) \cup sent(e)
      /\ Sent(Append(h, f), n, key) = Sent(h, n, key) \cup sent(f)
  BY LastChanges
<1> HIDE DEF sent
<1> QED
  BY <1>1, <1>2, <1>3 DEF More

\* A new entry of no success yet.
LEMMA EntryNew ==
  ASSUME NEW S, NEW h \in Seq(S), NEW e, NEW n, NEW key, ~(CountsUp(e, n, key) /\ e.outcome = "ok")
  PROVE  More(h, Append(h, e), n, key)
BY LastChanges DEF More

\* A set with at most, or at least, one element more than another.
LEMMA OneElement ==
  ASSUME NEW A, NEW B, NEW x, IsFiniteSet(A), IsFiniteSet(B)
  PROVE  /\ Cardinality(A) \in Nat /\ Cardinality(B) \in Nat
         /\ B \subseteq A \cup {x} => Cardinality(B) <= Cardinality(A) + 1
         /\ A \cup {x} \subseteq B /\ x \notin A => Cardinality(B) >= Cardinality(A) + 1
<1>1. /\ IsFiniteSet(A \cup {x})
      /\ Cardinality(A \cup {x}) = IF x \in A THEN Cardinality(A) ELSE Cardinality(A) + 1
  BY FS_AddElement
<1>2. Cardinality(A) \in Nat /\ Cardinality(B) \in Nat
  BY FS_CardinalityType
<1>3. /\ B \subseteq A \cup {x} => Cardinality(B) <= Cardinality(A \cup {x})
      /\ A \cup {x} \subseteq B => Cardinality(A \cup {x}) <= Cardinality(B)
  BY <1>1, FS_Subset
<1> QED
  BY <1>1, <1>2, <1>3

\* One that is sent once more, and may have been executed for that.
LEMMA SentOnce ==
  ASSUME NEW S, NEW h \in Seq(S), NEW e, NEW f, NEW n, NEW key, NEW v \in Int, NEW B, NEW b \in Seq(B),
         CountsUp(f, n, key),
         e.tried \in 0..MaxAttempts, e.tried < MaxAttempts, f.tried = e.tried + 1,
         Between(v, n, key, Append(h, e), b)
  PROVE  Between(v + 2, n, key, Append(h, f), b)
<1> DEFINE m == Len(h) + 1
           new == <<m, f.tried>>
           sent(g) == {s \in {m} \X (1..MaxAttempts) : CountsUp(g, n, key) /\ s[2] <= g.tried}
           se == Sent(Append(h, e), n, key)
           sf == Sent(Append(h, f), n, key)
           re == Reported(Append(h, e), n, key)
           rf == Reported(Append(h, f), n, key)
           bn == Cardinality(Bumped(b, n, key))
<1>1. Append(h, e) \in Seq(S \cup {e}) /\ Append(h, f) \in Seq(S \cup {f})
  BY Appended
<1>2. /\ IsFiniteSet(se) /\ IsFiniteSet(sf) /\ IsFiniteSet(re) /\ IsFiniteSet(rf)
      /\ Cardinality(se) \in Nat /\ Cardinality(sf) \in Nat /\ Cardinality(re) \in Nat /\ Cardinality(rf) \in Nat
      /\ bn \in Nat
  BY <1>1, Numbers
<1>3. rf \subseteq re \cup {m}
  BY LastChanges
<1>4. Cardinality(rf) <= Cardinality(re) + 1
  BY <1>2, <1>3, OneElement
<1>5. se \cup {new} \subseteq sf /\ new \notin se
  <2>1. se = Sent(h, n, key) \cup sent(e) /\ sf = Sent(h, n, key) \cup sent(f)
    BY LastChanges
  <2>2. f.tried \in 1..MaxAttempts /\ ~(f.tried <= e.tried)
    BY AdminAssumption
  <2>3. new \notin Sent(h, n, key)
    <3>1. m \notin DOMAIN h
      BY Appended
    <3>2. \A s \in Sent(h, n, key) : s[1] \in DOMAIN h
      BY DEF Sent
    <3> QED
      BY <3>1, <3>2
  <2>4. new \notin sent(e) /\ new \in sent(f)
    BY <2>2
  <2>5. sent(e) \subseteq sent(f)
    BY <2>2, AdminAssumption
  <2> HIDE DEF se, sf, sent, new
  <2> QED
    BY <2>1, <2>3, <2>4, <2>5
<1>6. Cardinality(sf) >= Cardinality(se) + 1
  BY <1>2, <1>5, OneElement
<1>7. v >= 2 * (bn + Cardinality(re)) /\ v <= 2 * (bn + Cardinality(se))
  BY DEF Between
<1> SUFFICES v + 2 >= 2 * (bn + Cardinality(rf)) /\ v + 2 <= 2 * (bn + Cardinality(sf))
  BY DEF Between
<1> DEFINE cre == Cardinality(re)
           crf == Cardinality(rf)
           cse == Cardinality(se)
           csf == Cardinality(sf)
<1>8. /\ bn \in Nat /\ cre \in Nat /\ crf \in Nat /\ cse \in Nat /\ csf \in Nat
      /\ crf <= cre + 1 /\ csf >= cse + 1 /\ v >= 2 * (bn + cre) /\ v <= 2 * (bn + cse)
  BY <1>2, <1>4, <1>6, <1>7
<1> SUFFICES v + 2 >= 2 * (bn + crf) /\ v + 2 <= 2 * (bn + csf)
  OBVIOUS
<1> HIDE DEF bn, cre, crf, cse, csf
<1> QED
  BY <1>8

\* An increment of another user is one of the item it was made to.
LEMMA BumpedOnce ==
  ASSUME NEW S, NEW h \in Seq(S), NEW n, NEW key, NEW v \in Int, NEW B, NEW b \in Seq(B), NEW e,
         Between(v, n, key, h, b)
  PROVE  IF e = [table |-> n, key |-> key] THEN Between(v + 2, n, key, h, Append(b, e))
         ELSE Between(v, n, key, h, Append(b, e))
<1> DEFINE m == Len(b) + 1
           old == Bumped(b, n, key)
           new == Bumped(Append(b, e), n, key)
           rn == Cardinality(Reported(h, n, key))
           sn == Cardinality(Sent(h, n, key))
<1>1. m \notin DOMAIN b /\ new = old \cup (IF e = [table |-> n, key |-> key] THEN {m} ELSE {})
  BY Appended DEF Bumped
<1>2. m \notin old
  BY <1>1 DEF Bumped
<1>3. IsFiniteSet(old) /\ Cardinality(old) \in Nat /\ rn \in Nat /\ sn \in Nat
  BY Numbers
<1>4. v >= 2 * (Cardinality(old) + rn) /\ v <= 2 * (Cardinality(old) + sn)
  BY DEF Between
<1>5. CASE e = [table |-> n, key |-> key]
  <2>1. Cardinality(new) = Cardinality(old) + 1
    <3> HIDE DEF old, new
    <3> QED
      BY <1>1, <1>2, <1>3, <1>5, FS_AddElement
  <2> SUFFICES v + 2 >= 2 * (Cardinality(new) + rn) /\ v + 2 <= 2 * (Cardinality(new) + sn)
    BY <1>5 DEF Between
  <2> HIDE DEF old, new, rn, sn
  <2> QED
    BY <1>3, <1>4, <2>1
<1>6. CASE e # [table |-> n, key |-> key]
  BY <1>1, <1>6 DEF Between
<1> QED
  BY <1>5, <1>6

\* A table that has lost items, or none, in the light of a history that has sent more.
LEMMA FewerStand ==
  ASSUME NEW S, NEW h \in Seq(S), NEW k \in Seq(S), NEW B, NEW b \in Seq(B), NEW n, NEW t, NEW u,
         CountersStand(t, n, h, b), \A key : More(h, k, n, key),
         u.schema = t.schema, u.items \subseteq t.items
  PROVE  CountersStand(u, n, k, b)
<1> SUFFICES ASSUME NEW x \in u.items, "c" \in DOMAIN x
             PROVE  \E v \in Int : x["c"] = [N |-> v] /\ Between(v, n, KeyOf(u, x), k, b)
  BY DEF CountersStand
<1>1. KeyOf(u, x) = KeyOf(t, x)
  BY DEF KeyOf, KeyNames
<1>2. PICK v \in Int : x["c"] = [N |-> v] /\ Between(v, n, KeyOf(t, x), h, b)
  BY DEF CountersStand
<1> QED
  BY <1>1, <1>2, MoreStands

\* The command being executed as the last of those so far.
Current == [cmd |-> cmd, outcome |-> outcome, request |-> request, tried |-> tried]

\* It has no new success to report of counting.
Calm == cmd.do = "upd" /\ tried' > 0 => outcome' # "ok"

\* What is done grows: it has sent more, and but for a success no more has been reported.
Grows ==
  /\ \E S : Done \in Seq(S) /\ Done' \in Seq(S)
  /\ \A n, key : More(Done, Done', n, key)
  /\ OnlyCounts(Done') => OnlyCounts(Done)

\* Histories that end in the same command.
LEMMA SameCommands ==
  ASSUME NEW S, NEW h \in Seq(S), NEW e, NEW f, e.cmd = f.cmd, OnlyCounts(Append(h, f))
  PROVE  OnlyCounts(Append(h, e)) /\ OnlyCounts(h) /\ ~Rewrites(e.cmd)
<1>1. /\ Len(h) \in Nat /\ DOMAIN h = 1..Len(h)
      /\ DOMAIN Append(h, e) = 1..(Len(h) + 1) /\ DOMAIN Append(h, f) = 1..(Len(h) + 1)
      /\ \A i \in 1..Len(h) : Append(h, e)[i] = h[i] /\ Append(h, f)[i] = h[i]
      /\ Append(h, e)[Len(h) + 1] = e /\ Append(h, f)[Len(h) + 1] = f
  BY Appended
<1>2. \A i \in 1..(Len(h) + 1) : i \in 1..Len(h) \/ i = Len(h) + 1
  BY <1>1
<1>3. \A i \in 1..(Len(h) + 1) : Append(h, e)[i].cmd = Append(h, f)[i].cmd
  BY <1>1, <1>2
<1>4. OnlyCounts(Append(h, e))
  BY <1>1, <1>3 DEF OnlyCounts
<1>5. OnlyCounts(h)
  <2>1. \A i \in 1..Len(h) : i \in 1..(Len(h) + 1)
    BY <1>1
  <2> QED
    BY <1>1, <2>1 DEF OnlyCounts
<1>6. Len(h) + 1 \in 1..(Len(h) + 1)
  BY <1>1
<1> QED
  BY <1>1, <1>4, <1>5, <1>6 DEF OnlyCounts

\* Whether an entry counts up is a matter of its command and its request.
LEMMA SameCounting ==
  ASSUME NEW e, NEW f, e.cmd = f.cmd, e.request = f.request, e.tried = f.tried
  PROVE  \A n, key : CountsUp(e, n, key) <=> CountsUp(f, n, key)
BY DEF CountsUp

\* A handler's step, or one of the service for it.
LEMMA WorksGrow ==
  ASSUME Scripted, Stepped, Remembered, Silent, Works, Calm
  PROVE  Grows
<1>1. PICK E : history \in Seq(E)
  BY DEF Remembered
<1>2. cmd # None /\ cmd' = cmd /\ history' = history
  BY DEF Works, Scripted, session
<1>3. Done = Append(history, Current) /\ Done' = Append(history, Current')
  BY <1>2 DEF Done, Current
<1>4. tried \in Nat /\ step \in {"start", "looked", "request"} /\ outcome = None
  BY DEF Stepped, Works, Silent
<1>5. ASSUME NEW n, NEW key
      PROVE  /\ CountsUp(Current, n, key) => /\ CountsUp(Current', n, key)
                                          /\ {Current.tried, Current'.tried} \subseteq Nat
                                          /\ Current.tried <= Current'.tried
             /\ CountsUp(Current', n, key) /\ Current'.outcome = "ok" =>
                  CountsUp(Current, n, key) /\ Current.outcome = "ok"
  <2>1. /\ Current.cmd = cmd /\ Current'.cmd = cmd /\ Current.tried = tried /\ Current'.tried = tried'
        /\ Current.request = request /\ Current'.request = request'
        /\ Current.outcome = outcome /\ Current'.outcome = outcome'
    BY <1>2 DEF Current
  <2>2. CASE Asks
    <3>1. tried = 0 /\ outcome' = None
      BY <1>4, <2>2 DEF Asks, Stepped
    <3>2. None # "ok"
      BY ScriptsAssumption
    <3> QED
      BY <2>1, <3>1, <3>2 DEF CountsUp
  <2>3. CASE Looks \/ AsksAgain \/ Returns
    <3>1. request' = request /\ tried' \in Nat /\ tried <= tried'
      BY <1>4, <2>3 DEF Looks, AsksAgain, Returns
    <3>2. cmd.do = "upd" /\ tried' > 0 => outcome' # "ok"
      BY DEF Calm
    <3> QED
      BY <1>4, <2>1, <3>1, <3>2 DEF CountsUp
  <2> QED
    BY <2>2, <2>3 DEF Works
<1>6. \A n, key : More(Done, Done', n, key)
  BY <1>1, <1>3, <1>5, EntryMore
<1>7. OnlyCounts(Done') => OnlyCounts(Done)
  BY <1>1, <1>2, <1>3, SameCommands DEF Current
<1>8. \E S : Done \in Seq(S) /\ Done' \in Seq(S)
  <2>1. history \in Seq(E \cup {Current, Current'})
    BY <1>1
  <2>2. Done \in Seq(E \cup {Current, Current'}) /\ Done' \in Seq(E \cup {Current, Current'})
    BY <1>3, <2>1
  <2> QED
    BY <2>2
<1> QED
  BY <1>6, <1>7, <1>8 DEF Grows

\* A step of `main` or the shell.
LEMMA ProcessGrows ==
  ASSUME Scripted, Stepped, Remembered, Process
  PROVE  Grows
<1>1. PICK E : history \in Seq(E)
  BY DEF Remembered
<1>2. CASE Launches \/ PassesOver
  <2>1. step = "idle" /\ cmd = None /\ cmd' = None /\ history' = history
    BY <1>2 DEF Launches, PassesOver, Scripted, adminVars, handler
  <2>2. Done = history /\ Done' = history
    BY <2>1 DEF Done
  <2> QED
    BY <1>1, <2>2 DEF Grows, More
<1>3. ASSUME NEW c \in CommandsOf(run), Gives(c) PROVE Grows
  <2>1. step = "idle" /\ cmd = None /\ cmd' = c /\ history' = history /\ outcome' = None
    BY <1>3 DEF Gives, Dispatch, Begin, Scripted
  <2>2. c # None
    BY <1>3, RunsAreRuns DEF Gives, Scripted, IsRun
  <2>3. Done = history /\ Done' = Append(history, Current')
    BY <2>1, <2>2 DEF Done, Current
  <2>4. Current'.outcome # "ok"
    BY <2>1, ScriptsAssumption DEF Current
  <2>5. \A n, key : More(Done, Done', n, key)
    BY <1>1, <2>3, <2>4, EntryNew
  <2>6. OnlyCounts(Done') => OnlyCounts(Done)
    BY <1>1, <2>3, SameCommands
  <2>7. history \in Seq(E \cup {Current'}) /\ Append(history, Current') \in Seq(E \cup {Current'})
    BY <1>1, Appended
  <2> QED
    BY <2>3, <2>5, <2>6, <2>7 DEF Grows
<1>4. CASE Ended
  <2>1. cmd # None /\ cmd' = None /\ history' = Append(history, Entry) /\ tried \in Nat
    BY <1>4, EndedFacts DEF Ended, Entry, Stepped
  <2>2. Done = Append(history, Current) /\ Done' = Append(history, Entry)
    BY <2>1 DEF Done, Current
  <2>3. /\ Current.cmd = Entry.cmd /\ Current.request = Entry.request /\ Current.outcome = Entry.outcome
        /\ Current.tried = Entry.tried /\ Current.tried \in Nat
    BY <2>1 DEF Current, Entry
  <2>4. \A n, key : More(Done, Done', n, key)
    <3>1. \A n, key : CountsUp(Current, n, key) <=> CountsUp(Entry, n, key)
      BY <2>3, SameCounting
    <3> QED
      BY <1>1, <2>2, <2>3, <3>1, EntryMore
  <2>5. OnlyCounts(Done') => OnlyCounts(Done)
    BY <1>1, <2>2, <2>3, SameCommands
  <2>6. /\ history \in Seq(E \cup {Current, Entry}) /\ Append(history, Current) \in Seq(E \cup {Current, Entry})
        /\ Append(history, Entry) \in Seq(E \cup {Current, Entry})
    BY <1>1
  <2> QED
    BY <2>2, <2>4, <2>5, <2>6 DEF Grows
<1> QED
  BY <1>2, <1>3, <1>4, ProcessSorts

\* Nor does anything happen to it around the handlers.
LEMMA AroundGrows ==
  ASSUME Remembered, Around \/ UNCHANGED vars
  PROVE  Grows
<1>1. PICK E : history \in Seq(E)
  BY DEF Remembered
<1>2. Done' = Done
  BY DEF Done, Around, vars, adminVars, handler, local, session
<1>3. Done \in Seq(E \cup {Current})
  BY <1>1, Appended DEF Done, Current
<1> QED
  BY <1>2, <1>3 DEF Grows, More

\* Every table keeps items it had, or has none.
ItemsStay ==
  \A n \in DOMAIN tables' :
    \/ tables'[n].items = {}
    \/ /\ n \in DOMAIN tables
       /\ tables'[n].schema = tables[n].schema /\ tables'[n].items \subseteq tables[n].items

\* Then counters stand as they did.
LEMMA StayStands ==
  ASSUME Grows, Standing, UNCHANGED bumps, NEW B, bumps \in Seq(B), ItemsStay
  PROVE  Standing'
<1> SUFFICES ASSUME OnlyCounts(Done'), NEW n \in DOMAIN tables'
             PROVE  CountersStand(tables'[n], n, Done', bumps)
  BY DEF Standing
<1>1. CASE tables'[n].items = {}
  BY <1>1 DEF CountersStand
<1>2. CASE /\ n \in DOMAIN tables
           /\ tables'[n].schema = tables[n].schema /\ tables'[n].items \subseteq tables[n].items
  <2>1. CountersStand(tables[n], n, Done, bumps)
    BY <1>2 DEF Grows, Standing
  <2> QED
    BY <1>2, <2>1, FewerStand DEF Grows
<1> QED
  BY <1>1, <1>2 DEF ItemsStay

\* One time a request is sent: it is executed, or its success is not reported.
LEMMA AttemptSplits ==
  ASSUME NEW failure \in {"exit", "error"}, NEW possible, NEW ts, NEW bs, AttemptOr(failure, possible, ts, bs),
         Silent
  PROVE  /\ step = "request" /\ tried' = tried + 1 /\ UNCHANGED <<cmd, request>>
         /\ (possible /\ tables' = ts) \/ (UNCHANGED tables /\ outcome' # "ok")
<1>1. step = "request" /\ tried' = tried + 1 /\ UNCHANGED <<cmd, request>> /\ outcome # "ok"
  BY ScriptsAssumption DEF AttemptOr, Silent
<1>2. PICK executed, answered \in BOOLEAN :
        /\ executed => possible
        /\ IF executed THEN tables' = ts /\ backups' = bs ELSE UNCHANGED <<tables, backups>>
        /\ IF Final(answered, tried')
           THEN step' = "ended" /\ outcome' = IF answered /\ executed THEN "ok" ELSE failure
           ELSE UNCHANGED <<step, outcome>>
  BY DEF AttemptOr
<1>3. CASE executed
  BY <1>1, <1>2, <1>3
<1>4. CASE ~executed
  <2>1. outcome' # "ok"
    BY <1>1, <1>2, <1>4
  <2> QED
    BY <1>1, <1>2, <1>4, <2>1
<1> QED
  BY <1>3, <1>4

\* Requests of commands on tables leave items where they are, but for restore.
LEMMA RequestsStay ==
  ASSUME Typed, Silent, Requests, cmd.do # "restore", AskedBy
  PROVE  ItemsStay
<1> DEFINE t == tables[cmd.table]
<1>1. CASE UNCHANGED tables
  BY <1>1 DEF ItemsStay
<1>2. CASE CreateTable
  <2> DEFINE new == Table(request.schema, request.definitions, "PAY_PER_REQUEST", 0, 0, {})
  <2>1. tables' = With(request.name, new) \/ UNCHANGED tables
    BY <1>2, Executed DEF CreateTable, Attempt
  <2>2. new.items = {}
    BY DEF Table
  <2> HIDE DEF new
  <2> QED
    BY <1>1, <2>1, <2>2 DEF With, ItemsStay
<1>3. CASE CreateIndex
  <2>1. PICK index : \/ /\ Ready(cmd.table)
                        /\ tables' = [tables EXCEPT ![cmd.table].indexes = @ \cup {index}, ![cmd.table].busy = TRUE]
                     \/ UNCHANGED tables
    BY <1>3, Executed DEF CreateIndex, Attempt
  <2>2. CASE /\ Ready(cmd.table)
             /\ tables' = [tables EXCEPT ![cmd.table].indexes = @ \cup {index}, ![cmd.table].busy = TRUE]
    <3>1. IsTable(t) /\ DOMAIN tables' = DOMAIN tables
          /\ \A m \in DOMAIN tables : m # cmd.table => tables'[m] = tables[m]
      BY <2>2 DEF Ready, Typed
    <3>2. tables'[cmd.table] = [t EXCEPT !.indexes = @ \cup {index}, !.busy = TRUE]
      BY <2>2 DEF Ready
    <3>3. tables'[cmd.table].items = t.items /\ tables'[cmd.table].schema = t.schema
      BY <3>1, <3>2 DEF IsTable, TableFields
    <3> QED
      BY <3>1, <3>3 DEF ItemsStay
  <2> QED
    BY <1>1, <2>1, <2>2
<1>4. CASE UpdateTable
  <2> DEFINE new == Updated(t, request.mode, request.units)
  <2>1. (Ready(cmd.table) /\ tables' = [tables EXCEPT ![cmd.table] = new]) \/ UNCHANGED tables
    BY <1>4, Executed DEF UpdateTable, Attempt
  <2>2. ASSUME Ready(cmd.table) PROVE new.items = t.items /\ new.schema = t.schema
    BY <2>2 DEF Ready, Typed, IsTable, TableFields, Updated
  <2> HIDE DEF new
  <2> QED
    BY <1>1, <2>1, <2>2 DEF ItemsStay
<1>5. CASE DeleteTable
  BY <1>5, Executed DEF DeleteTable, Attempt, Without, ItemsStay
<1>6. CASE CreateBackup
  BY <1>1, <1>6, Executed DEF CreateBackup, Attempt
<1>7. CASE RestoreTable
  BY <1>7 DEF RestoreTable, AskedBy
<1> QED
  BY <1>2, <1>3, <1>4, <1>5, <1>6, <1>7 DEF Requests

\* So do the service and the other users, when they do not count.
LEMMA SurroundingsStay ==
  ASSUME Typed, Surroundings
  PROVE  ItemsStay
<1>1. CASE UNCHANGED tables
  BY <1>1 DEF ItemsStay
<1>2. ASSUME NEW n \in DOMAIN tables, NEW new, tables' = [tables EXCEPT ![n] = new],
             new.items = tables[n].items, new.schema = tables[n].schema
      PROVE  ItemsStay
  BY <1>2 DEF ItemsStay
<1>3. CASE Settle
  <2>1. ASSUME NEW n \in DOMAIN tables, tables' = [tables EXCEPT ![n].busy = FALSE] PROVE ItemsStay
    <3>1. tables' = [tables EXCEPT ![n] = [@ EXCEPT !.busy = FALSE]]
      BY <2>1
    <3> DEFINE new == [tables[n] EXCEPT !.busy = FALSE]
    <3>2. new.items = tables[n].items /\ new.schema = tables[n].schema
      BY DEF Typed, IsTable, TableFields
    <3>3. tables' = [tables EXCEPT ![n] = new]
      BY <3>1
    <3> HIDE DEF new
    <3> QED
      BY <1>2, <3>2, <3>3
  <2> QED
    BY <1>1, <1>3, <2>1 DEF Settle
<1>4. CASE Tick \/ OtherDropsBackup
  BY <1>1, <1>4 DEF Tick, OtherDropsBackup
<1>5. ASSUME NEW n \in DOMAIN tables, OtherUpdates(n) PROVE ItemsStay
  <2>1. PICK mode, units : tables' = [tables EXCEPT ![n] = Updated(@, mode, units)]
    BY <1>5 DEF OtherUpdates
  <2> DEFINE new == Updated(tables[n], mode, units)
  <2>2. new.items = tables[n].items /\ new.schema = tables[n].schema
    BY DEF Typed, IsTable, TableFields, Updated
  <2>3. tables' = [tables EXCEPT ![n] = new]
    BY <2>1
  <2> HIDE DEF new
  <2> QED
    BY <1>2, <2>2, <2>3
<1>6. ASSUME NEW n \in DOMAIN tables, OtherDeletes(n) PROVE ItemsStay
  BY <1>6 DEF OtherDeletes, Without, ItemsStay
<1> QED
  BY <1>3, <1>4, <1>5, <1>6 DEF Surroundings

\* A command that goes on with nothing but counting so far is one that counts.
LEMMA CurrentCounts ==
  ASSUME Remembered, cmd # None, UNCHANGED <<cmd, history>>, OnlyCounts(Done')
  PROVE  ~Rewrites(cmd)
<1>1. PICK E : history \in Seq(E)
  BY DEF Remembered
<1>2. Done' = Append(history, Current') /\ Current'.cmd = cmd
  BY DEF Done, Current
<1> QED
  BY <1>1, <1>2, SameCommands

\* What counting makes of an item of a table.
LEMMA CountedUp ==
  ASSUME NEW t, WellKept(t), NEW key, NEW change, NEW name, change = Counting(name),
         IsKey(t, key), CanChange(t, key, change), NEW new, new = Changed(Image(t, key), change)
  PROVE  /\ Image(t, key) \in t.items /\ KeyOf(t, Image(t, key)) = key /\ KeyOf(t, new) = key
         /\ DOMAIN new = DOMAIN Image(t, key)
         /\ \A v \in Int : name = "c" /\ Image(t, key)["c"] = [N |-> v] => new["c"] = [N |-> v + 2]
         /\ name # "c" /\ "c" \in DOMAIN new => new["c"] = Image(t, key)["c"]
         /\ name \in DOMAIN new
<1> DEFINE i == Image(t, key)
<1>1. /\ change.kind = "add" /\ change.name = name /\ change.value.N = 2
  BY DEF Counting
<1>2. name \notin DOMAIN key /\ name \in DOMAIN i
  BY <1>1 DEF CanChange
<1>3. i \in At(t, key)
  BY <1>2 DEF Image
<1>4. i \in t.items /\ KeyOf(t, i) = key
  BY <1>3 DEF At
<1> HIDE DEF i
<1>5. new = [i EXCEPT ![name].N = @ + 2]
  BY <1>1 DEF Changed, i
<1>6. DOMAIN key = KeyNames(t)
  BY <1>4 DEF KeyOf
<1>7. \A a \in KeyNames(t) : a # name
  BY <1>2, <1>6
<1>8. DOMAIN new = DOMAIN i /\ \A a \in DOMAIN i : a # name => new[a] = i[a]
  BY <1>5
<1>9. KeyOf(t, new) = KeyOf(t, i)
  <2>1. KeyNames(t) \subseteq DOMAIN i
    BY <1>4 DEF WellKept, Storable, HasKey
  <2> QED
    BY <1>7, <1>8, <2>1 DEF KeyOf
<1>10. ASSUME NEW v \in Int, name = "c", i["c"] = [N |-> v] PROVE new["c"] = [N |-> v + 2]
  <2>1. new["c"] = [i["c"] EXCEPT !.N = @ + 2]
    BY <1>2, <1>5, <1>10
  <2> QED
    BY <1>10, <2>1
<1> QED
  BY <1>2, <1>4, <1>8, <1>9, <1>10 DEF i

\* An item is counted up, and the request has been sent once more.
LEMMA CountedStands ==
  ASSUME Typed, Kept, Scripted, Stepped, Remembered, Silent, Standing, OnlyCounts(Done'), NEW B, bumps \in Seq(B),
         UNCHANGED <<cmd, history, request, bumps>>, step = "request", tried' = tried + 1, tried \in Nat,
         tried < MaxAttempts,
         cmd # None, cmd.do = "upd", request.change = Counting(cmd.counter),
         NEW t, cmd.table \in DOMAIN tables, t = tables[cmd.table],
         IsKey(t, request.key), CanChange(t, request.key, request.change),
         NEW new, new = Changed(Image(t, request.key), request.change),
         tables' = [tables EXCEPT ![cmd.table].items = Replaced(t, {new})]
  PROVE  Standing'
<1> DEFINE e == Current
           f == Current'
           key == request.key
           i == Image(t, key)
<1>1. PICK E : history \in Seq(E)
  BY DEF Remembered
<1>2. Done = Append(history, e) /\ Done' = Append(history, f)
  BY DEF Done, Current
<1>3. /\ e.cmd = cmd /\ f.cmd = cmd /\ e.request = request /\ f.request = request
      /\ e.tried = tried /\ f.tried = tried + 1
  BY DEF Current
<1> HIDE DEF e, f
<1>4. \A n, k : /\ CountsUp(e, n, k) => CountsUp(f, n, k)
                /\ CountsUp(f, n, k) <=> cmd.counter = "c" /\ n = cmd.table /\ k = key
  BY <1>3 DEF CountsUp
<1>5. ASSUME NEW n \in DOMAIN tables PROVE CountersStand(tables[n], n, Append(history, e), bumps)
  <2>1. OnlyCounts(Done)
    BY <1>1, <1>2, <1>3, SameCommands
  <2> QED
    BY <1>2, <2>1 DEF Standing
<1>6. Append(history, e) \in Seq(E \cup {e, f}) /\ Append(history, f) \in Seq(E \cup {e, f})
  <2>1. history \in Seq(E \cup {e, f})
    BY <1>1
  <2> QED
    BY <2>1
<1>7. \A n, k : ~CountsUp(f, n, k) => More(Append(history, e), Append(history, f), n, k)
  BY <1>1, <1>4, EntryMore
<1>8. /\ i \in t.items /\ KeyOf(t, i) = key /\ KeyOf(t, new) = key /\ DOMAIN new = DOMAIN i
      /\ \A v \in Int : cmd.counter = "c" /\ i["c"] = [N |-> v] => new["c"] = [N |-> v + 2]
      /\ cmd.counter # "c" /\ "c" \in DOMAIN new => new["c"] = i["c"]
      /\ cmd.counter \in DOMAIN new
  BY CountedUp DEF Kept
<1>9. /\ DOMAIN tables' = DOMAIN tables /\ \A n \in DOMAIN tables : n # cmd.table => tables'[n] = tables[n]
      /\ tables'[cmd.table].items = Replaced(t, {new}) /\ tables'[cmd.table].schema = t.schema
  <2>1. IsTable(t) /\ tables'[cmd.table] = [t EXCEPT !.items = Replaced(t, {new})]
    BY DEF Typed
  <2> QED
    BY <2>1 DEF IsTable, TableFields
<1>10. ASSUME NEW n \in DOMAIN tables' PROVE CountersStand(tables'[n], n, Append(history, f), bumps)
  <2>1. CASE n # cmd.table
    <3>1. \A k : More(Append(history, e), Append(history, f), n, k)
      BY <1>4, <1>7, <2>1
    <3> QED
      BY <1>5, <1>6, <1>9, <2>1, <3>1, FewerStand
  <2>2. CASE n = cmd.table
    <3> SUFFICES ASSUME NEW x \in tables'[n].items, "c" \in DOMAIN x
                 PROVE  \E v \in Int : /\ x["c"] = [N |-> v]
                                       /\ Between(v, n, KeyOf(tables'[n], x), Append(history, f), bumps)
      BY DEF CountersStand
    <3>1. KeyOf(tables'[n], x) = KeyOf(t, x)
      BY <1>9, <2>2 DEF KeyOf, KeyNames
    <3>2. CASE x = new
      <4>1. "c" \in DOMAIN i
        BY <1>8, <3>2
      <4>2. PICK v \in Int : i["c"] = [N |-> v] /\ Between(v, n, key, Append(history, e), bumps)
        BY <1>5, <1>8, <2>2, <4>1 DEF CountersStand
      <4>3. CASE cmd.counter = "c"
        <5>1. new["c"] = [N |-> v + 2]
          BY <1>8, <4>2, <4>3
        <5>2. Between(v + 2, n, key, Append(history, f), bumps)
          <6>1. CountsUp(f, n, key)
            BY <1>4, <2>2, <4>3
          <6>2. e.tried \in 0..MaxAttempts /\ e.tried < MaxAttempts /\ f.tried = e.tried + 1
            BY <1>3, AdminAssumption
          <6> QED
            BY <1>1, <4>2, <6>1, <6>2, SentOnce
        <5> QED
          BY <1>8, <3>1, <3>2, <5>1, <5>2
      <4>4. CASE cmd.counter # "c"
        <5>1. Between(v, n, key, Append(history, f), bumps)
          BY <1>4, <1>6, <1>7, <4>2, <4>4, MoreStands
        <5> QED
          BY <1>8, <3>1, <3>2, <4>2, <4>4, <5>1
      <4> QED
        BY <4>3, <4>4
    <3>3. CASE x # new
      <4>1. x \in t.items /\ KeyOf(t, x) # key
        BY <1>8, <1>9, <2>2, <3>3 DEF Replaced
      <4>2. PICK v \in Int : x["c"] = [N |-> v] /\ Between(v, n, KeyOf(t, x), Append(history, e), bumps)
        BY <1>5, <2>2, <4>1 DEF CountersStand
      <4>3. Between(v, n, KeyOf(t, x), Append(history, f), bumps)
        BY <1>4, <1>6, <1>7, <4>1, <4>2, MoreStands
      <4> QED
        BY <3>1, <4>2, <4>3
    <3> QED
      BY <3>2, <3>3
  <2> QED
    BY <2>1, <2>2
<1> QED
  BY <1>2, <1>10 DEF Standing

\* Another user counts an item up.
LEMMA BumpedStands ==
  ASSUME Typed, Kept, Grows, Done' = Done, Standing, NEW B, bumps \in Seq(B), NEW n \in DOMAIN tables, OtherCounts(n)
  PROVE  Standing'
<1> DEFINE t == tables[n]
<1>1. PICK i \in t.items :
        LET new == [i EXCEPT !["c"].N = @ + 2]
        IN /\ "c" \in DOMAIN i \ KeyNames(t) /\ Storable(t, new)
           /\ tables' = [tables EXCEPT ![n].items = (@ \ {i}) \cup {new}]
           /\ bumps' = Append(bumps, [table |-> n, key |-> KeyOf(t, i)])
  BY DEF OtherCounts
<1> DEFINE new == [i EXCEPT !["c"].N = @ + 2]
           key == KeyOf(t, i)
           bump == [table |-> n, key |-> key]
<1>2. /\ "c" \in DOMAIN i /\ "c" \notin KeyNames(t) /\ bumps' = Append(bumps, bump)
      /\ tables' = [tables EXCEPT ![n].items = (t.items \ {i}) \cup {new}]
  BY <1>1
<1>3. IsTable(t) /\ WellKept(t)
  BY DEF Typed, Kept
<1>4. KeyOf(t, new) = key
  <2>1. KeyNames(t) \subseteq DOMAIN i
    BY <1>3 DEF WellKept, Storable, HasKey
  <2>2. \A a \in KeyNames(t) : new[a] = i[a]
    <3> HIDE DEF t
    <3> QED
      BY <1>2, <2>1
  <2> HIDE DEF new
  <2> QED
    BY <2>2 DEF KeyOf
<1>5. \A v \in Int : i["c"] = [N |-> v] => new["c"] = [N |-> v + 2]
  <2>1. new["c"] = [i["c"] EXCEPT !.N = @ + 2]
    BY <1>2
  <2> HIDE DEF new
  <2> QED
    BY <2>1
<1>6. /\ DOMAIN tables' = DOMAIN tables /\ \A m \in DOMAIN tables : m # n => tables'[m] = tables[m]
      /\ tables'[n].items = (t.items \ {i}) \cup {new} /\ tables'[n].schema = t.schema
  <2>1. tables'[n] = [t EXCEPT !.items = (t.items \ {i}) \cup {new}]
    BY <1>2
  <2> QED
    BY <1>2, <1>3, <2>1 DEF IsTable, TableFields
<1> HIDE DEF new, key, bump
<1> SUFFICES ASSUME OnlyCounts(Done), NEW m \in DOMAIN tables, NEW x \in tables'[m].items, "c" \in DOMAIN x
             PROVE  \E v \in Int : x["c"] = [N |-> v] /\ Between(v, m, KeyOf(tables'[m], x), Done, bumps')
  BY <1>6 DEF Standing, CountersStand
<1>7. CountersStand(tables[m], m, Done, bumps)
  BY DEF Standing
<1>8. PICK S : Done \in Seq(S)
  BY DEF Grows
<1>9. \A k : \A v \in Int : Between(v, m, k, Done, bumps) =>
        IF bump = [table |-> m, key |-> k] THEN Between(v + 2, m, k, Done, bumps')
        ELSE Between(v, m, k, Done, bumps')
  BY <1>2, <1>8, BumpedOnce
<1>10. KeyOf(tables'[m], x) = KeyOf(tables[m], x)
  BY <1>6 DEF KeyOf, KeyNames
<1>11. CASE m = n /\ x = new
  <2>1. PICK v \in Int : i["c"] = [N |-> v] /\ Between(v, n, key, Done, bumps)
    BY <1>2, <1>7, <1>11 DEF CountersStand, key
  <2>2. Between(v + 2, n, key, Done, bumps')
    BY <1>9, <1>11, <2>1 DEF bump
  <2> QED
    BY <1>4, <1>5, <1>10, <1>11, <2>1, <2>2
<1>12. CASE ~(m = n /\ x = new)
  <2>1. x \in tables[m].items
    BY <1>6, <1>12
  <2>2. PICK v \in Int : x["c"] = [N |-> v] /\ Between(v, m, KeyOf(tables[m], x), Done, bumps)
    BY <1>7, <2>1 DEF CountersStand
  <2>3. bump # [table |-> m, key |-> KeyOf(tables[m], x)]
    <3>1. CASE m # n
      BY <3>1 DEF bump
    <3>2. CASE m = n
      <4>1. x \in t.items /\ x # i
        BY <1>6, <1>12, <2>1, <3>2
      <4>2. KeyOf(t, x) # KeyOf(t, i)
        BY <1>3, <4>1 DEF WellKept
      <4> QED
        BY <3>2, <4>2 DEF bump, key
    <3> QED
      BY <3>1, <3>2
  <2>4. Between(v, m, KeyOf(tables[m], x), Done, bumps')
    BY <1>9, <2>2, <2>3
  <2> QED
    BY <1>10, <2>2, <2>4
<1> QED
  BY <1>11, <1>12

\* What a handler asks for.
LEMMA WhoAsks ==
  ASSUME (Handlers /\ UNCHANGED local) \/ ItemHandlers, step' = "request"
  PROVE  AskedBy'
<1>1. CASE Create
  <2>1. \E schema, definitions :
          request' = [api |-> cmd.do, name |-> cmd.name, schema |-> schema, definitions |-> definitions]
    BY <1>1 DEF Create, Ask, End
  <2>2. cmd.do \in {"create table", "create index"} /\ cmd' = cmd
    BY <1>1 DEF Create, Ask, End
  <2>3. request'.api = cmd.do
    BY <2>1
  <2>4. request'.api \notin {"put", "upd", "restore"} /\ cmd'.do # "upd"
    BY <2>2, <2>3
  <2> QED
    BY <2>4 DEF AskedBy
<1>2. CASE Update \/ Delete \/ Backup \/ ListBackups
  BY <1>2 DEF Update, Describe, Delete, Backup, ListBackups, Look, Ask, End, AskedBy
<1>3. CASE LookForBackups \/ Restore
  BY <1>3 DEF LookForBackups, Restore, Look, Ask, End, AskedBy
<1>4. CASE RefuseOptions \/ FetchSchema \/ AskForAll \/ Cancel \/ Get \/ Desc
  BY <1>4 DEF RefuseOptions, FetchSchema, Describe, AskForAll, Cancel, Get, Desc, WithTarget, Look, Ask, End,
              AskedBy
<1>5. CASE Query
  BY <1>5 DEF Query, Ask, End, AskedBy
<1>6. CASE Put \/ Del
  BY <1>6 DEF Put, Del, WithTarget, Ask, End, AskedBy
<1>7. CASE Upd
  BY <1>7 DEF Upd, WithTarget, Ask, End, AskedBy
<1>8. CASE Import
  <2>1. /\ cmd.do = "import" /\ cmd' = cmd /\ request'.api = "batch"
    BY <1>8 DEF Import, Ask, End
  <2> QED
    BY <2>1 DEF AskedBy
<1>9. CASE Bwrite
  BY <1>9 DEF Bwrite, Ask, End, AskedBy
<1> QED
  BY <1>1, <1>2, <1>3, <1>4, <1>5, <1>6, <1>7, <1>8, <1>9 DEF Handlers, ItemHandlers

\* And what it is when it is sent again.
LEMMA AskedByNext ==
  ASSUME Scripted, AskedBy, [Next]_vars
  PROVE  AskedBy'
<1>1. CASE (Handlers /\ UNCHANGED local) \/ ItemHandlers
  BY <1>1, WhoAsks DEF AskedBy
<1>2. CASE Process
  <2>1. UNCHANGED <<step, request, cmd>> \/ step' \in {"idle", "start"}
    BY <1>2 DEF Process, Launch, Command, ReadLine, Ended, Conclude, Dispatch, Begin, adminVars, handler
  <2> QED
    BY <2>1 DEF AskedBy
<1>3. CASE (Requests /\ UNCHANGED local) \/ ItemRequests
  <2>1. step = "request" /\ UNCHANGED <<request, cmd>>
    <3>1. CASE Requests
      BY <3>1 DEF Requests, CreateTable, CreateIndex, UpdateTable, DeleteTable, CreateBackup, RestoreTable, Attempt,
                  AttemptOr
    <3>2. CASE Answer \/ ExportAnswer
      BY <3>2 DEF Answer, ExportAnswer
    <3>3. CASE WriteItem \/ WriteBatch
      <4>1. \E failure, possible, items : Write(failure, possible, items)
        BY <3>3 DEF WriteItem, WriteBatch
      <4> QED
        BY <4>1 DEF Write, AttemptOr
    <3> QED
      BY <1>3, <3>1, <3>2, <3>3 DEF ItemRequests
  <2> QED
    BY <2>1 DEF AskedBy
<1>4. CASE (Surroundings \/ \E n \in DOMAIN tables : OtherCounts(n)) \/ UNCHANGED vars
  <2>1. UNCHANGED <<step, request, cmd>>
    BY <1>4 DEF Surroundings, Settle, Tick, OtherUpdates, OtherDeletes, Other, OtherDropsBackup, OtherCounts, vars,
                adminVars, handler
  <2> QED
    BY <2>1 DEF AskedBy
<1> QED
  BY <1>1, <1>2, <1>3, <1>4 DEF Next

\* Nothing is known of a command before its request has an answer.
LEMMA SilentNext ==
  ASSUME Scripted, Silent, Process \/ Works \/ Around
  PROVE  Silent'
<1>1. CASE Works
  BY <1>1 DEF Works, Looks, Asks, AsksAgain, Returns, Silent
<1>2. CASE Around
  BY <1>2 DEF Around, handler, Silent
<1>3. CASE Ended
  BY <1>3, EndedFacts DEF Silent
<1>4. CASE Launches \/ PassesOver
  BY <1>4 DEF Launches, PassesOver, adminVars, handler, Silent
<1>5. ASSUME NEW c \in CommandsOf(run), Gives(c) PROVE Silent'
  BY <1>5 DEF Gives, Dispatch, Begin, Silent
<1> QED
  BY <1>1, <1>2, <1>3, <1>4, <1>5, ProcessSorts

\* What is known of the state in the steps below.
Known == /\ Typed /\ Kept /\ Scripted /\ Stepped /\ Formatted /\ Remembered
         /\ AskedBy /\ Silent /\ Standing /\ \E E : bumps \in Seq(E)

\* A step of a handler or a request that leaves items where they are, and has no new
\* success of counting to report.
LEMMA CalmStands ==
  ASSUME Known, Works, Calm, UNCHANGED bumps, ItemsStay
  PROVE  Standing'
<1>1. Grows
  BY WorksGrow DEF Known
<1> QED
  BY <1>1, StayStands DEF Known

\* An upd that has changed or refused an item.
LEMMA UpdStands ==
  ASSUME Known, Works, WriteItem, cmd.do = "upd"
  PROVE  Standing'
<1> DEFINE t == tables[cmd.table]
           new == Changed(Image(t, request.key), request.change)
           possible == /\ IsKey(t, request.key) /\ CanChange(t, request.key, request.change)
                       /\ Storable(t, new)
<1>1. /\ step = "request" /\ request.api = "upd" /\ request.change = Change(cmd)
      /\ UNCHANGED <<cmd, history, bumps>>
  BY DEF WriteItem, Known, AskedBy, Works, session, Write, local
<1>2. Write("exit", possible, Replaced(t, {new}))
  BY <1>1, Zenon DEF WriteItem
<1> HIDE DEF possible
<1>3. /\ tried' = tried + 1 /\ request' = request
      /\ \/ /\ cmd.table \in DOMAIN tables /\ possible
            /\ tables' = [tables EXCEPT ![cmd.table].items = Replaced(t, {new})]
         \/ UNCHANGED tables /\ outcome' # "ok"
  BY <1>2, AttemptSplits DEF Write, Known
<1>4. CASE UNCHANGED tables /\ outcome' # "ok"
  BY <1>1, <1>4, CalmStands DEF Calm, ItemsStay
<1>5. CASE /\ cmd.table \in DOMAIN tables /\ possible
           /\ tables' = [tables EXCEPT ![cmd.table].items = Replaced(t, {new})]
  <2> SUFFICES ASSUME OnlyCounts(Done') PROVE Standing'
    BY DEF Standing
  <2>1. cmd # None /\ tried \in Nat /\ tried < MaxAttempts
    BY <1>1 DEF Known, Scripted, Stepped
  <2>2. cmd.counter # None
    BY <1>1, <2>1, CurrentCounts DEF Known, Rewrites
  <2>3. request.change = Counting(cmd.counter)
    BY <1>1, <2>2 DEF Change
  <2>4. IsKey(t, request.key) /\ CanChange(t, request.key, request.change)
    BY <1>5 DEF possible
  <2> HIDE DEF t, new
  <2> QED
    BY <1>1, <1>3, <1>5, <2>1, <2>3, <2>4, CountedStands DEF Known, t, new
<1> QED
  BY <1>3, <1>4, <1>5

\* A request that may write items.
LEMMA WriteItemStands ==
  ASSUME Known, Works, WriteItem
  PROVE  Standing'
<1> DEFINE t == tables[cmd.table]
<1>1. /\ step = "request" /\ UNCHANGED <<cmd, history, bumps>> /\ cmd # None
  BY DEF WriteItem, Known, Works, session, Write, local, Scripted
<1>2. CASE cmd.do = "upd"
  BY <1>2, UpdStands
<1>3. CASE cmd.do = "put"
  BY <1>1, <1>3, CurrentCounts DEF Known, Standing, Rewrites
<1>4. CASE cmd.do = "del"
  <2>1. Write("exit", IsKey(t, request.key), t.items \ At(t, request.key))
    <3>1. request.api \notin {"put", "upd"}
      BY <1>1, <1>4 DEF Known, AskedBy
    <3> QED
      BY <3>1, Zenon DEF WriteItem
  <2>2. \/ cmd.table \in DOMAIN tables /\ tables' = [tables EXCEPT ![cmd.table].items = t.items \ At(t, request.key)]
        \/ UNCHANGED tables
    BY <2>1, Executed DEF Write
  <2>3. ItemsStay
    <3>1. CASE /\ cmd.table \in DOMAIN tables
               /\ tables' = [tables EXCEPT ![cmd.table].items = t.items \ At(t, request.key)]
      <4>1. /\ DOMAIN tables' = DOMAIN tables /\ \A m \in DOMAIN tables : m # cmd.table => tables'[m] = tables[m]
            /\ tables'[cmd.table] = [t EXCEPT !.items = t.items \ At(t, request.key)]
        BY <3>1
      <4>2. IsTable(t)
        BY <3>1 DEF Known, Typed
      <4>3. tables'[cmd.table].items \subseteq t.items /\ tables'[cmd.table].schema = t.schema
        BY <4>1, <4>2 DEF IsTable, TableFields
      <4> QED
        BY <4>1, <4>3 DEF ItemsStay
    <3> QED
      BY <2>2, <3>1 DEF ItemsStay
  <2> QED
    BY <1>1, <1>4, <2>3, CalmStands DEF Calm
<1> QED
  BY <1>2, <1>3, <1>4 DEF WriteItem

\* Every step keeps counters where they belong.
LEMMA StandingNext ==
  ASSUME Known, [Next]_vars
  PROVE  Standing'
<1>1. PICK E : bumps \in Seq(E)
  BY DEF Known
<1>2. CASE Process
  <2>1. Grows /\ UNCHANGED <<tables, bumps>>
    BY <1>2, ProcessGrows, QuietSteps DEF Known
  <2> QED
    BY <1>1, <2>1, StayStands DEF Known, ItemsStay
<1>3. CASE (Handlers /\ UNCHANGED local) \/ ItemHandlers
  <2>1. Works /\ UNCHANGED <<tables, bumps>>
    BY <1>3, HandlersWork, ItemHandlersWork, QuietSteps DEF Known, Formatted
  <2>2. step \in {"start", "looked"}
    BY <1>3 DEF Handlers, Create, Update, Delete, Backup, ListBackups, LookForBackups, Restore, ItemHandlers,
                RefuseOptions, FetchSchema, AskForAll, Cancel, Get, Query, Desc, Put, Del, Upd, Import, Bwrite
  <2>3. ~(tried' > 0)
    BY <2>1, <2>2 DEF Known, Stepped, Works, Looks, Asks, AsksAgain, Returns
  <2> QED
    BY <2>1, <2>3, CalmStands DEF Calm, ItemsStay
<1>4. CASE Requests /\ UNCHANGED local
  <2>1. Works /\ UNCHANGED bumps
    BY <1>4, RequestsWork DEF Known, Stepped, local
  <2>2. step = "request" /\ request.api \in {"create table", "create index", "update", "delete", "backup", "restore"}
    BY <1>4 DEF Requests, CreateTable, CreateIndex, UpdateTable, DeleteTable, CreateBackup, RestoreTable
  <2>3. Calm
    BY <2>2 DEF Known, AskedBy, Calm
  <2>4. CASE cmd.do = "restore"
    <3>1. cmd # None /\ UNCHANGED <<cmd, history>>
      BY <2>1, <2>2 DEF Works, session, Known, Scripted
    <3> QED
      BY <2>4, <3>1, CurrentCounts DEF Known, Standing, Rewrites
  <2>5. CASE cmd.do # "restore"
    BY <1>4, <2>1, <2>3, <2>5, RequestsStay, CalmStands DEF Known
  <2> QED
    BY <2>4, <2>5
<1>5. CASE Surroundings /\ UNCHANGED local
  <2>1. Around
    BY <1>5 DEF Surroundings, Settle, Tick, OtherUpdates, OtherDeletes, Other, OtherDropsBackup, local, Around
  <2>2. Grows /\ UNCHANGED bumps /\ ItemsStay
    BY <1>5, <2>1, AroundGrows, SurroundingsStay DEF Known, local
  <2> QED
    BY <1>1, <2>2, StayStands DEF Known
<1>6. CASE Answer \/ ExportAnswer
  <2>1. Works /\ UNCHANGED <<tables, bumps>>
    BY <1>6, ItemRequestsWork, QuietSteps DEF Known, Formatted, Stepped, ItemRequests
  <2>2. Calm
    BY <1>6 DEF Answer, ExportAnswer, Readers, Calm
  <2> QED
    BY <2>1, <2>2, CalmStands DEF ItemsStay
<1>7. CASE WriteItem
  <2>1. Works
    BY <1>7, ItemRequestsWork DEF Known, Formatted, Stepped, ItemRequests
  <2> QED
    BY <1>7, <2>1, WriteItemStands
<1>8. CASE WriteBatch
  <2>1. Works
    BY <1>8, ItemRequestsWork DEF Known, Formatted, Stepped, ItemRequests
  <2>2. cmd # None /\ UNCHANGED <<cmd, history>> /\ cmd.do \in {"import", "bwrite"}
    BY <1>8, <2>1 DEF WriteBatch, Works, session, Known, Scripted
  <2> QED
    BY <2>2, CurrentCounts DEF Known, Standing, Rewrites
<1>9. CASE \E n \in DOMAIN tables : OtherCounts(n)
  <2>1. Around
    BY <1>9 DEF OtherCounts, Other, Around
  <2>2. Grows /\ Done' = Done
    BY <2>1, AroundGrows DEF Known, Around, Done, handler, session
  <2> QED
    BY <1>1, <1>9, <2>2, BumpedStands DEF Known
<1>10. CASE UNCHANGED vars
  BY <1>1, <1>10, AroundGrows, StayStands DEF Known, vars, adminVars, service, local, ItemsStay
<1> QED
  BY <1>2, <1>3, <1>4, <1>5, <1>6, <1>7, <1>8, <1>9, <1>10 DEF Next, ItemRequests

\* Every step keeps all of it.
LEMMA CountingNext == SessionInv /\ KeptInv /\ CountingInv /\ [Next]_vars => CountingInv'
<1> SUFFICES ASSUME SessionInv, KeptInv, CountingInv, [Next]_vars PROVE CountingInv'
  OBVIOUS
<1>1. Known
  BY DEF SessionInv, Inv, KeptInv, CountingInv, Known, Bounded
<1>2. Process \/ Works \/ Around
  BY <1>1, NextSorts DEF Known, Stepped, Formatted
<1> QED
  BY <1>1, <1>2, StandingNext, AskedByNext, SilentNext DEF Known, CountingInv

\* At the start counters stand at zero.
LEMMA CountingInit == Init => CountingInv
<1> SUFFICES ASSUME Init PROVE CountingInv
  OBVIOUS
<1>1. PICK s \in Scripts : tables = s.tables
  BY DEF Init
<1>2. Done = <<>> /\ bumps = <<>>
  BY DEF Init, Done
<1>3. ASSUME NEW n, NEW key PROVE Between(0, n, key, Done, bumps)
  <2>1. Reported(<<>>, n, key) = {} /\ Sent(<<>>, n, key) = {} /\ Bumped(<<>>, n, key) = {}
    BY DEF Reported, Sent, Bumped
  <2>2. Cardinality({}) = 0
    BY FS_EmptySet
  <2>3. /\ Cardinality(Reported(Done, n, key)) = 0 /\ Cardinality(Sent(Done, n, key)) = 0
        /\ Cardinality(Bumped(bumps, n, key)) = 0
    BY <1>2, <2>1, <2>2, Zenon
  <2> QED
    BY <2>3 DEF Between
<1>4. \A n \in DOMAIN tables : \A i \in tables[n].items : "c" \in DOMAIN i => i["c"] = [N |-> 0]
  BY <1>1, ScriptsAssumption
<1>5. Standing
  BY <1>3, <1>4 DEF Standing, CountersStand
<1> QED
  BY <1>5 DEF CountingInv, AskedBy, Silent, Init

\* As long as commands write items by counting alone, an item's counter is what others
\* have added to it, what dy has reported to have added, and at most what dy has sent
\* requests for: `upd --atomic-counter` leaves the addition to the service, and a
\* request the SDK repeats may count again.
THEOREM CountersCount == Spec => []CounterCounts
<1>1. SessionInv /\ KeptInv /\ CountingInv => CounterCounts
  <2> SUFFICES ASSUME CountingInv, \A i \in DOMAIN Done : ~Rewrites(Done[i].cmd),
                      NEW n \in DOMAIN tables, NEW x \in tables[n].items, "c" \in DOMAIN x
               PROVE  LET key == KeyOf(tables[n], x)
                          bumped == Cardinality(Bumped(bumps, n, key))
                      IN /\ x["c"].N >= 2 * (bumped + Cardinality(Reported(Done, n, key)))
                         /\ x["c"].N <= 2 * (bumped + Cardinality(Sent(Done, n, key)))
    BY DEF CounterCounts
  <2>1. PICK v \in Int : x["c"] = [N |-> v] /\ Between(v, n, KeyOf(tables[n], x), Done, bumps)
    BY DEF CountingInv, Standing, OnlyCounts, CountersStand
  <2>2. x["c"].N = v
    BY <2>1
  <2> QED
    BY <2>1, <2>2 DEF Between
<1> QED
  BY <1>1, SessionInit, SessionNext, KeptInit, KeptNext, CountingInit, CountingNext, PTL DEF Spec

-----------------------------------------------------------------------------
(* What is typed *)

MeantPut(r) == ParseArgs(WordsOf(r.meant.parts))
MeantRequest(r) == [api |-> "put", item |-> r.meant.item]

\* The table of a run, if it is there, has the key the run is meant for.
Stands(r, ts) == r.table \in DOMAIN ts => MeansFor(r, ts[r.table])

\* What is known of a run that types a put, and of its command.
MeantRun ==
  /\ TypesPut(run) /\ Stands(run, tables)
  /\ lines \in {run.lines, <<>>} /\ (~run.shell => lines = run.lines)
  /\ cmd # None => cmd = OnTable(MeantPut(run), run.table)
  /\ step = "looked" => MeansFor(run, seen)
  /\ step = "request" => request = MeantRequest(run)
  /\ step = "ended" => outcome # "unparsed" /\ request \in {None, MeantRequest(run)}
  /\ step = "idle" /\ lines # run.lines => history # <<>>

\* And of a command that has ended.
MeantEntry(e) ==
  e.run.meant # None => e.outcome # "unparsed" /\ (e.request # None => e.request.item = e.run.meant.item)

\* A run that types is the only one of its script.
MeantInv ==
  /\ \A r \in ToSet(script) : r.meant # None => script = <<r>> /\ run = None /\ TypesPut(r) /\ Stands(r, tables)
  /\ run # None /\ run.meant # None => MeantRun
  /\ \A e \in ToSet(history) : MeantEntry(e)

\* Tables keep their keys, as long as they are there.
KeysStay ==
  /\ DOMAIN tables' \subseteq DOMAIN tables
  /\ \A n \in DOMAIN tables' :
       tables'[n].schema = tables[n].schema /\ tables'[n].definitions = tables[n].definitions

\* What a run is meant for is a matter of the schema and the definitions.
LEMMA SameMeaning ==
  ASSUME NEW r, NEW t, NEW u, u.schema = t.schema, u.definitions = t.definitions, MeansFor(r, t)
  PROVE  MeansFor(r, u)
<1>1. \A role : TypedKey(role, u) = TypedKey(role, t)
  BY DEF TypedKey
<1> QED
  BY <1>1 DEF MeansFor

\* Then they are those the run is meant for.
LEMMA KeysStand ==
  ASSUME KeysStay
  PROVE  \A r : Stands(r, tables) => Stands(r, tables')
<1> SUFFICES ASSUME NEW r, Stands(r, tables), r.table \in DOMAIN tables' PROVE MeansFor(r, tables'[r.table])
  BY DEF Stands
<1> DEFINE t == tables[r.table]
           u == tables'[r.table]
<1>1. MeansFor(r, t) /\ u.schema = t.schema /\ u.definitions = t.definitions
  BY DEF Stands, KeysStay
<1> HIDE DEF t, u
<1>2. MeansFor(r, u)
  BY <1>1, SameMeaning
<1> QED
  BY <1>2 DEF u

\* The put that is typed.
LEMMA PutMeant ==
  ASSUME NEW r, TypesPut(r)
  PROVE  LET d == MeantPut(r)
             c == OnTable(d, r.table)
         IN /\ d # None /\ c.do = "put" /\ c.table = r.table
            /\ c.sval = None /\ c.item # None /\ c.item = d.item /\ c.pval = d.pval
            /\ Literal(c.item.text) = r.meant.value /\ r.meant.value # None
<1> DEFINE d == MeantPut(r)
           c == OnTable(d, r.table)
           m == r.meant
<1>1. /\ d # None /\ d.do = "put" /\ d.sval = None /\ d.item # None
      /\ Typable(m.value) /\ d.item.text \in LiteralsOf(m.value) /\ m.value # None
  BY DEF TypesPut, MeantPut
<1>2. Accepted(d)
  BY <1>1 DEF ParseArgs, MeantPut
<1> HIDE DEF d, m
<1>3. DOMAIN d = {"do", "pval", "sval", "item"}
  <2>1. OptionsOf("put") = {"pval", "sval", "item"}
    BY DEF OptionsOf, AdminCommands, ItemOptions
  <2> QED
    BY <1>1, <1>2, <2>1 DEF Accepted
<1>4. c = [x \in DOMAIN d \cup {"table"} |-> IF x = "table" THEN r.table ELSE d[x]]
  BY <1>3 DEF OnTable
<1>5. c.do = d.do /\ c.sval = d.sval /\ c.item = d.item /\ c.pval = d.pval /\ c.table = r.table
  BY <1>3, <1>4
<1>6. None \notin Nat
  BY AdminAssumption
<1>7. Literal(d.item.text) = m.value
  BY <1>1, <1>6, LiteralsMean
<1> HIDE DEF c
<1> QED
  BY <1>1, <1>5, <1>7 DEF d, c, m

\* The put asks for the item that is meant.
LEMMA PutAsks ==
  ASSUME NEW r, TypesPut(r), cmd = OnTable(MeantPut(r), r.table), MeansFor(r, seen), Put
  PROVE  step' = "request" /\ request' = MeantRequest(r) /\ UNCHANGED <<cmd, seen, outcome, local, service>>
<1> DEFINE d == MeantPut(r)
           pk == TypedKey("HASH", seen)
<1>1. /\ d # None /\ cmd.sval = None /\ cmd.item # None /\ cmd.item = d.item /\ cmd.pval = d.pval
      /\ Literal(cmd.item.text) = r.meant.value /\ r.meant.value # None
  BY PutMeant
<1>2. pk.type = "S" /\ r.meant.item = (d.item.name :> r.meant.value) @@ (pk.name :> [S |-> d.pval])
  BY DEF MeansFor, MeantPut
<1> HIDE DEF d, pk
<1>3. KeyFailure(seen, cmd) = None
  <2>1. cmd.sval = None /\ TypedKey("HASH", seen).type # "B"
    BY <1>1, <1>2 DEF pk
  <2> QED
    BY <2>1 DEF KeyFailure
<1>4. Target(seen, cmd) = (pk.name :> [S |-> d.pval])
  BY <1>1, <1>2 DEF Target, Scalar, pk
<1>5. Parsed(cmd.item) = (d.item.name :> r.meant.value)
  BY <1>1 DEF Parsed
<1>6. WithTarget(MeantRequest(r))
  BY <1>1, <1>2, <1>3, <1>4, <1>5 DEF Put, MeantRequest
<1> QED
  BY <1>3, <1>6 DEF WithTarget, Ask, Stay

\* Commands on items leave the keys alone.
LEMMA ItemsOnlyKeep ==
  ASSUME Typed, ItemsOnly
  PROVE  KeysStay
<1>1. DOMAIN tables' = DOMAIN tables
  BY DEF ItemsOnly
<1>2. ASSUME NEW n \in DOMAIN tables
      PROVE  tables'[n].schema = tables[n].schema /\ tables'[n].definitions = tables[n].definitions
  <2> DEFINE t == tables[n]
             items == tables'[n].items
  <2>1. IsTable(t)
    BY DEF Typed
  <2>2. tables'[n] = [t EXCEPT !.items = items]
    BY DEF ItemsOnly, SameButItems
  <2> HIDE DEF t, items
  <2>3. [t EXCEPT !.items = items].schema = t.schema /\ [t EXCEPT !.items = items].definitions = t.definitions
    BY <2>1 DEF IsTable, TableFields
  <2> QED
    BY <2>2, <2>3 DEF t
<1> QED
  BY <1>1, <1>2 DEF KeysStay

\* So do the service and the other users.
LEMMA SurroundingsKeep ==
  ASSUME Typed, Surroundings
  PROVE  KeysStay
<1>1. CASE UNCHANGED tables
  BY <1>1 DEF KeysStay
<1>2. ASSUME NEW n \in DOMAIN tables, NEW new, tables' = [tables EXCEPT ![n] = new],
             new.schema = tables[n].schema, new.definitions = tables[n].definitions
      PROVE  KeysStay
  BY <1>2 DEF KeysStay
<1>3. CASE Settle
  <2>1. ASSUME NEW n \in DOMAIN tables, tables' = [tables EXCEPT ![n].busy = FALSE] PROVE KeysStay
    <3>1. tables' = [tables EXCEPT ![n] = [@ EXCEPT !.busy = FALSE]]
      BY <2>1
    <3> DEFINE new == [tables[n] EXCEPT !.busy = FALSE]
    <3>2. new.definitions = tables[n].definitions /\ new.schema = tables[n].schema
      BY DEF Typed, IsTable, TableFields
    <3>3. tables' = [tables EXCEPT ![n] = new]
      BY <3>1
    <3> HIDE DEF new
    <3> QED
      BY <1>2, <3>2, <3>3
  <2> QED
    BY <1>1, <1>3, <2>1 DEF Settle
<1>4. CASE Tick \/ OtherDropsBackup
  BY <1>1, <1>4 DEF Tick, OtherDropsBackup
<1>5. ASSUME NEW n \in DOMAIN tables, OtherUpdates(n) PROVE KeysStay
  <2>1. PICK mode, units : tables' = [tables EXCEPT ![n] = Updated(@, mode, units)]
    BY <1>5 DEF OtherUpdates
  <2> DEFINE new == Updated(tables[n], mode, units)
  <2>2. new.definitions = tables[n].definitions /\ new.schema = tables[n].schema
    BY DEF Typed, IsTable, TableFields, Updated
  <2>3. tables' = [tables EXCEPT ![n] = new]
    BY <2>1
  <2> HIDE DEF new
  <2> QED
    BY <1>2, <2>2, <2>3
<1>6. ASSUME NEW n \in DOMAIN tables, OtherDeletes(n) PROVE KeysStay
  BY <1>6 DEF OtherDeletes, Without, KeysStay
<1> QED
  BY <1>3, <1>4, <1>5, <1>6 DEF Surroundings

\* The steps around a handler change nothing the run is meant for.
LEMMA QuietKeeps ==
  ASSUME Typed, (Surroundings /\ UNCHANGED local) \/ (\E n \in DOMAIN tables : OtherCounts(n)) \/ UNCHANGED vars
  PROVE  KeysStay /\ UNCHANGED <<handler, session>>
<1>1. CASE Surroundings /\ UNCHANGED local
  BY <1>1, SurroundingsKeep DEF Surroundings, Settle, Tick, OtherUpdates, OtherDeletes, Other, OtherDropsBackup, local
<1>2. ASSUME NEW n \in DOMAIN tables, OtherCounts(n) PROVE KeysStay /\ UNCHANGED <<handler, session>>
  <2>1. ItemsOnly
    BY <1>2, CountsRefine DEF OtherWrites
  <2> QED
    BY <1>2, <2>1, ItemsOnlyKeep DEF OtherCounts, Other
<1>3. CASE UNCHANGED vars
  BY <1>3 DEF vars, adminVars, service, local, KeysStay
<1> QED
  BY <1>1, <1>2, <1>3

\* What a command that is typed does.
LEMMA PutWorks ==
  ASSUME Typed, Scripted, Stepped, run # None, run.meant # None, MeantRun, cmd # None,
         \/ (Handlers \/ Requests) /\ UNCHANGED local
         \/ ItemHandlers
         \/ ItemRequests
  PROVE  /\ KeysStay /\ UNCHANGED <<cmd, session>>
         /\ step' \in {"looked", "request", "ended"}
         /\ step' = "looked" => MeansFor(run, seen')
         /\ step' = "request" => request' = MeantRequest(run)
         /\ step' = "ended" => outcome' # "unparsed" /\ request' \in {None, MeantRequest(run)}
<1>1. TypesPut(run) /\ Stands(run, tables) /\ cmd = OnTable(MeantPut(run), run.table)
  BY DEF MeantRun
<1>2. cmd.do = "put" /\ cmd.table = run.table
  BY <1>1, PutMeant
<1>3. step = "request" => request.api = "put" /\ request = MeantRequest(run)
  BY DEF MeantRun, MeantRequest
<1>4. ~Handlers
  BY <1>2 DEF Handlers, Create, Update, Delete, Backup, ListBackups, LookForBackups, Restore
<1>5. ~Requests
  BY <1>3 DEF Requests, CreateTable, CreateIndex, UpdateTable, DeleteTable, CreateBackup, RestoreTable, Attempt,
              AttemptOr
<1>6. CASE ItemHandlers
  <2>1. ItemCommand
    BY <1>6, ItemHandlersRefine
  <2>2. KeysStay
    <3>1. ItemsOnly
      BY <2>1 DEF ItemCommand
    <3> QED
      BY <3>1, ItemsOnlyKeep
  <2>3. FetchSchema \/ Put
    BY <1>2, <1>6 DEF ItemHandlers, RefuseOptions, OptionsMissing, FetchSchema, AskForAll, Cancel, Get, Query, Desc,
                      Put, Del, Upd, Import, Bwrite
  <2>4. CASE FetchSchema
    <3>1. request = None /\ UNCHANGED <<cmd, session, request>>
      BY <2>4 DEF FetchSchema, Describe, Look, End, local, Stepped
    <3>2. \/ step' = "looked" /\ seen' = tables[cmd.table] /\ cmd.table \in DOMAIN tables
          \/ step' = "ended" /\ outcome' = "exit"
      BY <2>4 DEF FetchSchema, Describe, Look, End
    <3> QED
      BY <1>1, <1>2, <2>2, <3>1, <3>2 DEF Stands
  <2>5. CASE Put
    <3>1. MeansFor(run, seen)
      BY <2>5 DEF Put, MeantRun
    <3>2. step' = "request" /\ request' = MeantRequest(run) /\ UNCHANGED <<cmd, seen, outcome, local, service>>
      BY <1>1, <2>5, <3>1, PutAsks
    <3> QED
      BY <2>2, <3>2 DEF local
  <2> QED
    BY <2>3, <2>4, <2>5
<1>7. CASE ItemRequests
  <2>1. ItemCommand
    BY <1>7, ItemRequestsRefine
  <2>2. KeysStay
    <3>1. ItemsOnly
      BY <2>1 DEF ItemCommand
    <3> QED
      BY <3>1, ItemsOnlyKeep
  <2>3. WriteItem
    BY <1>2, <1>7 DEF ItemRequests, Answer, Readers, ExportAnswer, WriteBatch
  <2>4. PICK possible, items : Write("exit", possible, items)
    BY <2>3 DEF WriteItem
  <2>5. /\ step = "request" /\ UNCHANGED <<cmd, request, local>>
        /\ \/ step' = "ended" /\ outcome' \in {"ok", "exit"}
           \/ step' = step
    BY <2>4 DEF Write, AttemptOr
  <2> QED
    BY <1>3, <2>2, <2>5 DEF local
<1> QED
  BY <1>4, <1>5, <1>6, <1>7

\* It is so at the start.
LEMMA MeantInit == Init => MeantInv
<1> SUFFICES ASSUME Init PROVE MeantInv
  OBVIOUS
<1>1. PICK s \in Scripts : script = s.runs /\ tables = s.tables
  BY DEF Init
<1>2. run = None /\ history = <<>>
  BY DEF Init
<1>3. ASSUME NEW r \in ToSet(script), r.meant # None
      PROVE  script = <<r>> /\ run = None /\ TypesPut(r) /\ Stands(r, tables)
  <2>1. r \in ToSet(s.runs)
    BY <1>1, <1>3
  <2>2. s.runs = <<r>> /\ TypesPut(r) /\ (r.table \in DOMAIN s.tables => MeansFor(r, s.tables[r.table]))
    BY <1>3, <2>1, TypingAssumption
  <2> QED
    BY <1>1, <1>2, <2>2 DEF Stands
<1>4. ToSet(history) = {}
  BY <1>2 DEF ToSet
<1> QED
  BY <1>2, <1>3, <1>4 DEF MeantInv

\* What becomes of a run that types when its command begins.
LEMMA MeantBegins ==
  ASSUME Typed, Stepped, run # None, MeantRun, Dispatch(OnTable(MeantPut(run), run.table)), UNCHANGED run,
         lines' \in {run.lines, <<>>}, ~run.shell => lines' = run.lines
  PROVE  MeantRun'
<1>1. cmd' = OnTable(MeantPut(run), run.table) /\ step' = "start" /\ UNCHANGED <<tables, run>>
  BY DEF Dispatch, Begin, service
<1>2. TypesPut(run) /\ Stands(run, tables)
  BY DEF MeantRun
<1>3. TypesPut(run') /\ Stands(run', tables')
  BY <1>1, <1>2
<1> QED
  BY <1>1, <1>3 DEF MeantRun

\* What `main` and the shell make of a run that types.
LEMMA MeantProcess ==
  ASSUME Typed, Scripted, Stepped, Remembered, MeantInv, Process
  PROVE  MeantInv'
<1>1. KeysStay /\ UNCHANGED tables
  BY DEF Process, Launch, Command, ReadLine, Ended, Conclude, Dispatch, Begin, adminVars, service, KeysStay
<1>2. \A r : Stands(r, tables) => Stands(r, tables')
  BY <1>1, KeysStand
<1>3. CASE Launch
  <2>1. /\ run = None /\ script # <<>> /\ step = "idle" /\ script' = Tail(script) /\ UNCHANGED <<history, adminVars>>
        /\ \/ run' = Head(script) /\ lines' = Head(script).lines
           \/ run' = run
    BY <1>3 DEF Launch
  <2>2. script \in Seq(AllRuns) /\ cmd = None
    BY <2>1 DEF Scripted
  <2>3. Head(script) \in ToSet(script) /\ ToSet(Tail(script)) \subseteq ToSet(script)
    BY <2>1, <2>2 DEF ToSet
  <2>4. ASSUME NEW r \in ToSet(script'), r.meant # None PROVE FALSE
    <3>1. script = <<r>>
      BY <2>1, <2>3, <2>4 DEF MeantInv
    <3>2. script' = <<>>
      BY <2>1, <3>1
    <3> QED
      BY <3>2 DEF ToSet
  <2>5. run' # None /\ run'.meant # None => MeantRun'
    <3> SUFFICES ASSUME run' # None, run'.meant # None PROVE MeantRun'
      OBVIOUS
    <3>1. run' = Head(script) /\ lines' = run'.lines
      BY <2>1
    <3>2. TypesPut(run') /\ Stands(run', tables')
      BY <1>2, <2>3, <3>1 DEF MeantInv
    <3>3. cmd' = None /\ step' = "idle"
      BY <2>1, <2>2 DEF adminVars, handler
    <3> QED
      BY <3>1, <3>2, <3>3 DEF MeantRun
  <2> QED
    BY <2>1, <2>4, <2>5 DEF MeantInv
<1>4. ASSUME run # None, UNCHANGED script
      PROVE  \A r \in ToSet(script') : r.meant # None => script' = <<r>> /\ run' = None /\ TypesPut(r) /\ Stands(r, tables')
  BY <1>4 DEF MeantInv
<1>5. CASE Command
  <2>1. /\ run # None /\ ~run.shell /\ UNCHANGED <<script, run, lines, history>>
        /\ Dispatch(OnTable(ParseArgs(run.args), run.table))
    BY <1>5 DEF Command, Dispatch
  <2>2. run.meant # None => MeantRun'
    <3> SUFFICES ASSUME run.meant # None PROVE MeantRun'
      OBVIOUS
    <3>1. MeantRun
      BY <2>1 DEF MeantInv
    <3>2. ParseArgs(run.args) = MeantPut(run)
      BY <2>1, <3>1 DEF MeantRun, TypesPut, MeantPut
    <3>3. lines' \in {run.lines, <<>>} /\ (~run.shell => lines' = run.lines)
      BY <2>1, <3>1 DEF MeantRun
    <3> QED
      BY <2>1, <3>1, <3>2, <3>3, MeantBegins
  <2> QED
    BY <1>4, <2>1, <2>2 DEF MeantInv
<1>6. CASE ReadLine
  <2>1. run # None /\ run.shell /\ step = "idle" /\ UNCHANGED <<script, history>> /\ run' \in {run, None}
    BY <1>6 DEF ReadLine, Dispatch
  <2>2. run' # None /\ run.meant # None => MeantRun'
    <3> SUFFICES ASSUME run' # None, run.meant # None PROVE MeantRun'
      OBVIOUS
    <3> DEFINE parts == run.meant.parts
               line == Head(lines)
               c == IF Words(line) = None THEN None ELSE ParseArgs(Words(line))
    <3>1. MeantRun
      BY <2>1 DEF MeantInv
    <3>2. IsLine(parts) /\ run.lines = <<Line(parts)>> /\ None \notin {WordsOf(parts), run.meant.value}
          /\ MeantPut(run) # None
      BY <2>1, <3>1 DEF MeantRun, TypesPut, MeantPut
    <3>3. /\ run' = run /\ lines # <<>> /\ lines' = Tail(lines)
          /\ c = None \/ Dispatch(OnTable(c, run.table))
      BY <1>6, <2>1 DEF ReadLine
    <3>4. lines = <<Line(parts)>>
      BY <3>1, <3>2, <3>3 DEF MeantRun
    <3>5. line = Line(parts) /\ lines' = <<>>
      BY <3>3, <3>4
    <3>6. Words(line) = WordsOf(parts)
      <4> HIDE DEF line, parts
      <4>1. Words(Line(parts)) = WordsOf(parts)
        BY <3>2, LineRead
      <4> QED
        BY <3>5, <4>1
    <3>7. c = MeantPut(run)
      BY <3>2, <3>6 DEF MeantPut
    <3> HIDE DEF c
    <3>8. Dispatch(OnTable(MeantPut(run), run.table))
      BY <3>2, <3>3, <3>7
    <3> QED
      BY <2>1, <3>1, <3>3, <3>5, <3>8, MeantBegins
  <2> QED
    BY <1>4, <2>1, <2>2 DEF MeantInv
<1>7. CASE Ended
  <2>1. /\ step = "ended" /\ step' = "idle" /\ cmd' = None /\ run' \in {run, None} /\ run # None
        /\ UNCHANGED <<script, lines>> /\ history' = Append(history, Entry)
    BY <1>7, EndedFacts DEF Ended, Entry
  <2>2. PICK E : history \in Seq(E)
    BY DEF Remembered
  <2>3. /\ history' \in Seq(E \cup {Entry}) /\ DOMAIN history' = 1..(Len(history) + 1) /\ DOMAIN history = 1..Len(history)
        /\ \A j \in 1..Len(history) : history'[j] = history[j]
        /\ history'[Len(history) + 1] = Entry /\ Len(history) \in Nat
    BY <2>1, <2>2, Appended
  <2>4. history' # <<>>
    BY <2>3
  <2>5. MeantEntry(Entry)
    <3>1. Entry.run = run /\ Entry.outcome = outcome /\ Entry.request = request
      BY DEF Entry
    <3>2. run.meant # None => outcome # "unparsed" /\ request \in {None, MeantRequest(run)}
      BY <2>1 DEF MeantInv, MeantRun
    <3>3. MeantRequest(run).item = run.meant.item
      BY DEF MeantRequest
    <3> HIDE DEF Entry
    <3> QED
      BY <3>1, <3>2, <3>3 DEF MeantEntry
  <2>6. \A e \in ToSet(history') : MeantEntry(e)
    <3> SUFFICES ASSUME NEW j \in DOMAIN history' PROVE MeantEntry(history'[j])
      BY DEF ToSet
    <3>1. CASE j = Len(history) + 1
      BY <2>3, <2>5, <3>1
    <3>2. CASE j \in 1..Len(history)
      <4>1. history[j] \in ToSet(history)
        BY <2>3, <3>2 DEF ToSet
      <4> QED
        BY <2>3, <3>2, <4>1 DEF MeantInv
    <3> QED
      BY <2>3, <3>1, <3>2
  <2>7. run' # None /\ run'.meant # None => MeantRun'
    <3> SUFFICES ASSUME run' = run, run.meant # None PROVE MeantRun'
      BY <2>1
    <3>1. MeantRun
      BY <2>1 DEF MeantInv
    <3> QED
      BY <1>2, <2>1, <2>4, <3>1 DEF MeantRun
  <2> QED
    BY <1>4, <2>1, <2>6, <2>7 DEF MeantInv
<1> QED
  BY <1>3, <1>5, <1>6, <1>7 DEF Process

\* And every step.
LEMMA MeantNext == SessionInv /\ MeantInv /\ [Next]_vars => MeantInv'
<1> SUFFICES ASSUME SessionInv, MeantInv, [Next]_vars PROVE MeantInv'
  OBVIOUS
<1>1. Typed /\ Scripted /\ Stepped /\ Remembered
  BY DEF SessionInv, Inv
<1>2. CASE Process
  BY <1>1, <1>2, MeantProcess
<1>3. CASE \/ (Handlers \/ Requests) /\ UNCHANGED local
           \/ ItemHandlers
           \/ ItemRequests
  <2>1. cmd # None /\ run # None
    <3>1. Works
      BY <1>1, <1>3, HandlersWork, RequestsWork, ItemHandlersWork, ItemRequestsWork
         DEF SessionInv, Formatted, Stepped
    <3> QED
      BY <1>1, <3>1 DEF Works, Scripted
  <2>2. UNCHANGED session
    BY <1>1, <1>3, HandlersWork, RequestsWork, ItemHandlersWork, ItemRequestsWork
       DEF SessionInv, Formatted, Stepped, Works
  <2>3. run.meant # None => MeantRun'
    <3> SUFFICES ASSUME run.meant # None PROVE MeantRun'
      OBVIOUS
    <3>1. MeantRun
      BY <2>1 DEF MeantInv
    <3>2. /\ KeysStay /\ UNCHANGED <<cmd, session>>
          /\ step' \in {"looked", "request", "ended"}
          /\ step' = "looked" => MeansFor(run, seen')
          /\ step' = "request" => request' = MeantRequest(run)
          /\ step' = "ended" => outcome' # "unparsed" /\ request' \in {None, MeantRequest(run)}
      BY <1>1, <1>3, <2>1, <3>1, PutWorks
    <3>3. \A r : Stands(r, tables) => Stands(r, tables')
      BY <3>2, KeysStand
    <3> QED
      BY <3>1, <3>2, <3>3 DEF MeantRun, session
  <2> QED
    BY <2>1, <2>2, <2>3 DEF MeantInv, session
<1>4. CASE \/ Surroundings /\ UNCHANGED local
           \/ \E n \in DOMAIN tables : OtherCounts(n)
           \/ UNCHANGED vars
  <2>1. KeysStay /\ UNCHANGED <<handler, session>>
    BY <1>1, <1>4, QuietKeeps
  <2>2. \A r : Stands(r, tables) => Stands(r, tables')
    BY <2>1, KeysStand
  <2>3. MeantRun => MeantRun'
    BY <2>1, <2>2 DEF MeantRun, handler, session
  <2> QED
    BY <2>1, <2>2, <2>3 DEF MeantInv, session
<1> QED
  BY <1>2, <1>3, <1>4 DEF Next

\* What is typed, with the escapes of a literal inside the quotes of the shell, is what
\* put asks the service to store (TypedIsStored): for every value of characters or
\* octets, every way to write it, and every table with a string for a key.
THEOREM TypedAreStored == Spec => []TypedIsStored
<1>1. MeantInv => TypedIsStored
  BY DEF MeantInv, MeantRun, MeantEntry, TypedIsStored
<1>2. Init => SessionInv /\ MeantInv
  BY SessionInit, MeantInit
<1>3. SessionInv /\ MeantInv /\ [Next]_vars => SessionInv' /\ MeantInv'
  BY SessionNext, MeantNext
<1> QED
  BY <1>1, <1>2, <1>3, PTL DEF Spec
=============================================================================
