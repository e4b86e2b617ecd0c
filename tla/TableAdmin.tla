----------------------------- MODULE TableAdmin -----------------------------
(***************************************************************************)
(* The commands on tables and backups (control.rs), one after the other,   *)
(* against the DynamoDB service and its other users.  A command looks      *)
(* something up, computes a request from it, and sends the request, which  *)
(* the SDK repeats when no answer arrives; others change the tables in     *)
(* between.  Of the commands on items this module says only that they      *)
(* leave all of a table but its items alone; Session has them.             *)
(*                                                                         *)
(* Names are tuples, as the code makes new ones by appending to old ones.  *)
(***************************************************************************)
EXTENDS Integers, Sequences, FiniteSets, Options

CONSTANTS
  Commands,      \* the commands on tables and backups that may be given
  Worlds,        \* tables and backups there may be at the start
  Units,         \* capacity units others set
  DefaultUnits,  \* what `--mode provisioned` fills in (5)
  MaxAttempts,   \* times the SDK sends a request
  MaxOthers,     \* bound: steps of other users
  MaxTime        \* bound: the clock

AdminCommands ==
  {"create table", "create index", "update", "delete", "backup", "list backups", "restore"}

Modes == {"PROVISIONED", "PAY_PER_REQUEST"}

TableFields == {"schema", "definitions", "billing", "rcu", "wcu", "indexes", "items", "busy"}
IsTable(t) == t = [f \in TableFields |-> t[f]]
IsBackup(b) == DOMAIN b = {"name", "table", "status", "image"} /\ IsTable(b.image)

ASSUME AdminAssumption ==
  /\ \A w \in Worlds : /\ \A n \in DOMAIN w.tables : IsTable(w.tables[n])
                       /\ \A i \in DOMAIN w.backups : IsBackup(w.backups[i])
  /\ None \notin Commands /\ \A c \in Commands : c.do \in AdminCommands
  /\ Units \subseteq Nat \ {0} /\ DefaultUnits \in Nat \ {0}
  /\ MaxAttempts \in Nat \ {0} /\ MaxOthers \in Nat /\ MaxTime \in Nat
  /\ None \notin Nat \cup Modes

\* The value_parser of --mode takes nothing else.
ASSUME ModeAssumption == \A c \in Commands : c.do = "update" => c.mode \in Modes \cup {None}

VARIABLES
  tables,    \* the tables of the account and region, by name
  backups,   \* all backups ever made, by ARN
  now,       \* the clock, in seconds
  others,    \* steps other users have taken
  touched,   \* tables others changed since this command looked at them
  cmd,       \* the command being executed
  step,      \* where its handler is
  seen,      \* what the handler has looked up
  request,   \* what it asks of the service
  tried,     \* times that was sent
  outcome    \* how the last command ended

service == <<tables, backups, now, others, touched>>
handler == <<cmd, step, seen, request, tried, outcome>>
adminVars == <<service, handler>>

Steps == {"idle", "start", "looked", "request", "ended"}

\* billing is the mode of the BillingModeSummary, which a table may not have.
Table(schema, definitions, billing, rcu, wcu, items) ==
  [schema |-> schema, definitions |-> definitions, billing |-> billing, rcu |-> rcu, wcu |-> wcu,
   indexes |-> {}, items |-> items, busy |-> TRUE]

\* extract_mode.
Mode(table) == IF table.billing = "PAY_PER_REQUEST" THEN "PAY_PER_REQUEST" ELSE "PROVISIONED"

AdminInit ==
  /\ \E w \in Worlds : tables = w.tables /\ backups = w.backups
  /\ now \in 0..MaxTime /\ others \in 0..MaxOthers /\ touched = {}
  /\ cmd = None /\ step = "idle" /\ seen = None /\ request = None /\ tried = 0 /\ outcome = None

-----------------------------------------------------------------------------
(* Steps every handler is made of *)

Begin(c) ==
  /\ step = "idle"
  /\ cmd' = c /\ step' = "start" /\ outcome' = None
  /\ UNCHANGED <<seen, request, tried, service>>

\* The handler returns ("ok"), exits, or panics.
End(how) ==
  /\ step' = "ended" /\ outcome' = how
  /\ UNCHANGED <<cmd, seen, request, tried>>

Conclude ==
  /\ step = "ended"
  /\ cmd' = None /\ step' = "idle" /\ seen' = None /\ request' = None /\ tried' = 0
  /\ UNCHANGED <<outcome, service>>

Look(what) ==
  /\ seen' = what /\ step' = "looked"
  /\ UNCHANGED <<cmd, request, tried, outcome>>

Ask(r) ==
  /\ request' = r /\ step' = "request" /\ tried' = 0
  /\ UNCHANGED <<cmd, seen, outcome>>

\* describe_table_api; any failure ends the process.
Describe(name) ==
  \/ /\ name \in DOMAIN tables
     /\ Look(tables[name])
     /\ touched' = touched \ {name}
     /\ UNCHANGED <<tables, backups, now, others>>
  \/ End("exit") /\ UNCHANGED service

\* Mutation of Final: one time too many.
FinalLate(answered, sent) == answered \/ sent > MaxAttempts

\* The SDK does not send the request again.
Final(answered, sent) == answered \/ sent >= MaxAttempts

\* One time the request is sent.  The service executes it (tables and backups
\* become ts and bs) if it can, and may refuse it all the same; the answer may get
\* lost, or the request, and is then repeated until the attempts are used up.
AttemptOr(failure, possible, ts, bs) ==
  /\ step = "request"
  /\ UNCHANGED <<cmd, seen, request, now, others, touched>>
  /\ \E executed, answered \in BOOLEAN :
       /\ executed => possible
       /\ IF executed THEN tables' = ts /\ backups' = bs ELSE UNCHANGED <<tables, backups>>
       /\ tried' = tried + 1
       /\ IF Final(answered, tried')
          THEN step' = "ended" /\ outcome' = IF answered /\ executed THEN "ok" ELSE failure
          ELSE UNCHANGED <<step, outcome>>

Attempt(possible, ts, bs) == AttemptOr("exit", possible, ts, bs)

With(name, table) == [n \in DOMAIN tables \cup {name} |-> IF n = name THEN table ELSE tables[n]]
Without(name) == [n \in DOMAIN tables \ {name} |-> tables[n]]
Ready(name) == name \in DOMAIN tables /\ ~tables[name].busy

-----------------------------------------------------------------------------
(* create table, create index *)

\* A key as it was given, split at the commas.
WellFormed(keys) == Len(keys) \in 1..2 /\ \A i \in DOMAIN keys : Len(keys[i]) < 3
Upper(type) == CASE type = "s" -> "S" [] type = "n" -> "N" [] type = "b" -> "B" [] OTHER -> type

\* generate_essential_key_definitions.
KeySchema(keys) == [i \in DOMAIN keys |-> [name |-> keys[i][1], role |-> IF i = 1 THEN "HASH" ELSE "RANGE"]]
Definitions(keys) ==
  [i \in DOMAIN keys |-> [name |-> keys[i][1], type |-> IF Len(keys[i]) = 2 THEN Upper(keys[i][2]) ELSE "S"]]

Create ==
  /\ step = "start" /\ cmd.do \in {"create table", "create index"}
  /\ IF ~WellFormed(cmd.keys) THEN End("exit")
     ELSE Ask([api |-> cmd.do, name |-> cmd.name, schema |-> KeySchema(cmd.keys),
               definitions |-> Definitions(cmd.keys)])
  /\ UNCHANGED service

Types(definitions) == {definitions[i].type : i \in DOMAIN definitions}

CreateTable ==
  /\ step = "request" /\ request.api = "create table"
  /\ Attempt(request.name \notin DOMAIN tables /\ Types(request.definitions) \subseteq {"S", "N", "B"},
             With(request.name, Table(request.schema, request.definitions, "PAY_PER_REQUEST", 0, 0, {})),
             backups)

\* The definitions of a table and its indexes must agree on types.  Without units
\* of its own an index can be made on an on-demand table only.
Agree(ds, es) == \A i \in DOMAIN ds, j \in DOMAIN es : ds[i].name = es[j].name => ds[i] = es[j]

CreateIndex ==
  /\ step = "request" /\ request.api = "create index"
  /\ LET t == tables[cmd.table]
         index == [name |-> request.name, schema |-> request.schema, definitions |-> request.definitions]
     IN Attempt(/\ Ready(cmd.table)
                /\ Mode(t) = "PAY_PER_REQUEST"
                /\ Types(request.definitions) \subseteq {"S", "N", "B"}
                /\ Agree(request.definitions, t.definitions)
                /\ \A x \in t.indexes : x.name # index.name /\ Agree(x.definitions, index.definitions),
                [tables EXCEPT ![cmd.table].indexes = @ \cup {index}, ![cmd.table].busy = TRUE],
                backups)

-----------------------------------------------------------------------------
(* update table *)

\* Mutation of Throughput: units not given are filled in whether or not the mode
\* is switched.
ThroughputDefault(c, table) ==
  IF Or(c.mode, Mode(table)) = "PAY_PER_REQUEST" THEN None
  ELSE [rcu |-> Or(c.rcu, DefaultUnits), wcu |-> Or(c.wcu, DefaultUnits)]

\* Units not given are those of the table, or the default if a mode is given.
Throughput(c, table) ==
  CASE c.mode = None /\ Mode(table) = "PAY_PER_REQUEST" -> None
    [] c.mode = None /\ Mode(table) = "PROVISIONED" ->
         [rcu |-> Or(c.rcu, table.rcu), wcu |-> Or(c.wcu, table.wcu)]
    [] c.mode = "PAY_PER_REQUEST" -> None
    [] c.mode = "PROVISIONED" -> [rcu |-> Or(c.rcu, DefaultUnits), wcu |-> Or(c.wcu, DefaultUnits)]

Update ==
  \/ step = "start" /\ cmd.do = "update" /\ Describe(cmd.table)
  \/ /\ step = "looked" /\ cmd.do = "update"
     /\ Ask([api |-> "update", mode |-> cmd.mode, units |-> Throughput(cmd, seen)])
     /\ UNCHANGED service

\* What the service can do with an update: units go with the provisioned mode and
\* with it only, something must change, and the indexes need units as well.
CanUpdate(t, mode, units) ==
  CASE Or(mode, Mode(t)) = "PAY_PER_REQUEST" -> mode # None /\ units = None
    [] OTHER -> /\ units # None /\ {units.rcu, units.wcu} \subseteq Nat \ {0}
                /\ (Mode(t) = "PAY_PER_REQUEST" => t.indexes = {})
                /\ (Mode(t) = "PROVISIONED" => <<units.rcu, units.wcu>> # <<t.rcu, t.wcu>>)

Updated(t, mode, units) ==
  [t EXCEPT !.billing = IF mode = None THEN @ ELSE mode,
            !.rcu = IF units = None THEN 0 ELSE units.rcu,
            !.wcu = IF units = None THEN 0 ELSE units.wcu,
            !.busy = TRUE]

UpdateTable ==
  /\ step = "request" /\ request.api = "update"
  /\ Attempt(Ready(cmd.table) /\ CanUpdate(tables[cmd.table], request.mode, request.units),
             [tables EXCEPT ![cmd.table] = Updated(@, request.mode, request.units)],
             backups)

-----------------------------------------------------------------------------
(* delete table *)

\* Without --yes the user is asked, and may say no.
Delete ==
  /\ step = "start" /\ cmd.do = "delete"
  /\ \/ Ask([api |-> "delete"])
     \/ ~cmd.yes /\ End("ok")
  /\ UNCHANGED service

DeleteTable ==
  /\ step = "request" /\ request.api = "delete"
  /\ Attempt(Ready(cmd.table), Without(cmd.table), backups)

-----------------------------------------------------------------------------
(* backup, restore *)

\* --all-tables is ignored.
Backup ==
  /\ step = "start" /\ cmd.do = "backup"
  /\ Ask([api |-> "backup", name |-> cmd.table \o <<"dynein", now>>])
  /\ UNCHANGED service

Saved(b) == [i \in DOMAIN backups \cup {Cardinality(DOMAIN backups) + 1} |->
               IF i \in DOMAIN backups THEN backups[i] ELSE b]

CreateBackup ==
  /\ step = "request" /\ request.api = "backup"
  /\ Attempt(Ready(cmd.table), tables,
             Saved([name |-> request.name, table |-> cmd.table, status |-> "CREATING",
                    image |-> tables[cmd.table]]))

Available == "AVAILABLE"
Statuses == {"CREATING", Available, "DELETED"}
Existing == {i \in DOMAIN backups : backups[i].status # "DELETED"}

\* Mutation of Listed: the backups of all tables.
ListedAll(table, all) == Existing

\* list_backups_api.
Listed(table, all) == {i \in Existing : all \/ backups[i].table = table}

\* `backup --list`.
ListBackups ==
  /\ step = "start" /\ cmd.do = "list backups"
  /\ seen' = Listed(cmd.table, cmd.all)
  /\ \E how \in {"ok", "exit"} : step' = "ended" /\ outcome' = how
  /\ UNCHANGED <<cmd, request, tried, service>>

\* The list and its filter; with nothing left the command says so and exits.
LookForBackups ==
  /\ step = "start" /\ cmd.do = "restore"
  /\ LET found == {i \in Listed(cmd.table, FALSE) : backups[i].status = Available}
     IN IF found = {} THEN End("exit") ELSE Look([of |-> found]) \/ End("exit")
  /\ UNCHANGED service

\* The backups the user or the name can pick: of a name given, the first in the
\* list, whose order is the service's; find panics if there is none.
Candidates == IF cmd.backup = None THEN seen.of ELSE {i \in seen.of : backups[i].name = cmd.backup}

\* The clock is read after the user has chosen.
Restore ==
  /\ step = "looked" /\ cmd.do = "restore"
  /\ IF Candidates = {} THEN End("panic")
     ELSE \E i \in Candidates :
            Ask([api |-> "restore", arn |-> i, name |-> Or(cmd.as, cmd.table \o <<"restore", now>>)])
  /\ UNCHANGED service

RestoreTable ==
  /\ step = "request" /\ request.api = "restore"
  /\ Attempt(/\ request.name \notin DOMAIN tables
             /\ request.arn \in DOMAIN backups /\ backups[request.arn].status = Available,
             With(request.name, [backups[request.arn].image EXCEPT !.busy = TRUE]),
             backups)

-----------------------------------------------------------------------------
(* The service's own steps, and its other users *)

\* A table becomes ACTIVE, a backup AVAILABLE.
Settle ==
  /\ \/ \E n \in DOMAIN tables :
          tables[n].busy /\ tables' = [tables EXCEPT ![n].busy = FALSE] /\ UNCHANGED backups
     \/ \E i \in DOMAIN backups :
          /\ backups[i].status = "CREATING"
          /\ backups' = [backups EXCEPT ![i].status = Available]
          /\ UNCHANGED tables
  /\ UNCHANGED <<now, others, touched, handler>>

Tick == now < MaxTime /\ now' = now + 1 /\ UNCHANGED <<tables, backups, others, touched, handler>>

Other(n) ==
  /\ others < MaxOthers
  /\ others' = others + 1 /\ touched' = touched \cup {n}
  /\ UNCHANGED <<now, handler>>

OtherUpdates(n) ==
  /\ Ready(n) /\ Other(n)
  /\ \E mode \in Modes, rcu, wcu \in Units :
       LET units == IF mode = "PROVISIONED" THEN [rcu |-> rcu, wcu |-> wcu] ELSE None
       IN /\ CanUpdate(tables[n], mode, units)
          /\ tables' = [tables EXCEPT ![n] = Updated(@, mode, units)]
  /\ UNCHANGED backups

OtherDeletes(n) == Ready(n) /\ Other(n) /\ tables' = Without(n) /\ UNCHANGED backups

OtherDropsBackup ==
  /\ others < MaxOthers /\ others' = others + 1
  /\ \E i \in Existing : backups' = [backups EXCEPT ![i].status = "DELETED"]
  /\ UNCHANGED <<tables, now, touched, handler>>

-----------------------------------------------------------------------------
(* Commands on items *)

SameButItems(t, u) == u = [t EXCEPT !.items = u.items]
ItemsOnly ==
  /\ DOMAIN tables' = DOMAIN tables
  /\ \A n \in DOMAIN tables : SameButItems(tables[n], tables'[n])
  /\ UNCHANGED <<backups, now>>

OnItems(c) == c # None /\ c.do \notin AdminCommands

\* A step of a command on items, the first one included.
ItemCommand ==
  /\ \/ step = "idle" /\ OnItems(cmd')
     \/ OnItems(cmd) /\ cmd' = cmd
  /\ ItemsOnly /\ touched' \subseteq touched /\ UNCHANGED others

OtherWrites(n) == ItemsOnly /\ Other(n)

-----------------------------------------------------------------------------

Handlers == Create \/ Update \/ Delete \/ Backup \/ ListBackups \/ LookForBackups \/ Restore
Requests == CreateTable \/ CreateIndex \/ UpdateTable \/ DeleteTable \/ CreateBackup \/ RestoreTable
Surroundings ==
  \/ Settle
  \/ Tick
  \/ \E n \in DOMAIN tables : OtherUpdates(n) \/ OtherDeletes(n)
  \/ OtherDropsBackup

AdminNext ==
  \/ \E c \in Commands : Begin(c)
  \/ Handlers
  \/ Requests
  \/ Surroundings
  \/ Conclude
  \/ ItemCommand
  \/ \E n \in DOMAIN tables : OtherWrites(n)

AdminSpec == AdminInit /\ [][AdminNext]_adminVars

-----------------------------------------------------------------------------
(* Properties *)

\* An update changes its own table only, whose mode becomes the one given.  A unit is
\* then the one given; without one it is what it was, or the default if the options
\* are `--mode provisioned`, whatever the mode was before, or none with `--mode
\* ondemand`.  Without a mode that is so unless another user changed the table after
\* it was described: update_table fills the request in from that description.
FollowsOptions ==
  cmd # None /\ cmd.do = "update" /\ step = "request" /\ tried' = tried + 1 =>
    \A n \in DOMAIN tables :
      /\ n \in DOMAIN tables'
      /\ n # cmd.table => tables'[n] = tables[n]
      /\ tables'[n].billing # tables[n].billing => tables'[n].billing = cmd.mode
      /\ \A unit \in {"rcu", "wcu"} :
           \/ tables'[n][unit] \in {tables[n][unit], cmd[unit]}
           \/ cmd.mode = None /\ n \in touched
           \/ cmd.mode = "PROVISIONED" /\ cmd[unit] = None /\ tables'[n][unit] = DefaultUnits
           \/ cmd.mode = "PAY_PER_REQUEST" /\ tables'[n][unit] = 0
UpdatesFollowOptions == [][FollowsOptions]_adminVars

\* What `restore` makes is a copy of a backup of the table it was called for, and
\* of the name it was given, although backups of other tables have that name and
\* others come and go between the list, the user's choice and the request.
MakesCopies ==
  cmd # None /\ cmd.do = "restore" =>
    \A n \in DOMAIN tables' \ DOMAIN tables :
      \E i \in DOMAIN backups :
        /\ backups[i].table = cmd.table
        /\ backups[i].status = Available
        /\ cmd.backup # None => backups[i].name = cmd.backup
        /\ tables'[n] = [backups[i].image EXCEPT !.busy = TRUE]
RestoresWhatWasNamed == [][MakesCopies]_adminVars
=============================================================================
