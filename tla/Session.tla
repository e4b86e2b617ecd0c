------------------------------ MODULE Session ------------------------------
(***************************************************************************)
(* Runs of dy one after the other, each a single command or a shell that   *)
(* reads lines: what main.rs keeps between the commands, and the commands  *)
(* on items (data.rs), which look up the schema of the table, build a      *)
(* request from it and print what comes back.  The commands on tables are  *)
(* those of TableAdmin.  How values are written and read is left open: the *)
(* conversions are parameters, for which ItemValues has the definitions.   *)
(***************************************************************************)
EXTENDS TableAdmin, TextForms

CONSTANTS
  Scripts,          \* runs of dy with what is there at the start
  Clap(_),          \* the command that words spell, or None
  ToPlain(_),       \* items as plain JSON, ...
  FromPlain(_, _),  \* ... and plain JSON as items, with set inference or without;
  Unreadable(_),    \*   of the values that makes, those on which it panics
  ToRaw(_),         \* items as typed JSON
  FromRaw(_),       \* typed JSON as items
  Allowed(_)        \* DynamoDB stores this value

VARIABLES
  script,   \* the runs to come
  run,      \* the run under way, or None
  lines,    \* what its standard input still holds
  context,  \* its Context: the fields commands change
  printed,  \* what the command printed: a form and items
  file,     \* the file the user keeps, and the items it was made from
  bumps,    \* the items others have counted up, each time
  history   \* the commands concluded, with what they asked for

session == <<script, run, lines, context, history>>
local == <<session, printed, file, bumps>>
vars == <<adminVars, local>>

NewContext == [output |-> None, strict |-> None]

Init ==
  /\ \E s \in Scripts :
       /\ script = s.runs /\ tables = s.tables /\ backups = s.backups
       /\ now = MaxTime - s.ticks /\ others = MaxOthers - s.others
  /\ touched = {}
  /\ cmd = None /\ step = "idle" /\ seen = None /\ request = None /\ tried = 0 /\ outcome = None
  /\ run = None /\ lines = <<>> /\ context = NewContext /\ printed = None /\ file = None
  /\ bumps = <<>> /\ history = <<>>

-----------------------------------------------------------------------------
(* The command line (cmd.rs): the options of the commands, as far as they are  *)
(* modelled, and which of them clap accepts together.                          *)

ItemOptions ==
  [scan |-> {"output"}, desc |-> {"output"}, get |-> {"pval", "sval", "output"},
   query |-> {"pval", "sort", "strict", "nonstrict", "output"},
   put |-> {"pval", "sval", "item"}, del |-> {"pval", "sval"},
   upd |-> {"pval", "sval", "set", "remove", "counter"},
   export |-> {}, import |-> {"infer"}, bwrite |-> {}]

AdminOptions(do) ==
  CASE do \in {"create table", "create index"} -> {"name", "keys"}
    [] do = "update" -> {"table", "mode", "rcu", "wcu"}
    [] do = "delete" -> {"table", "yes"}
    [] do = "backup" -> {}
    [] do = "list backups" -> {"all"}
    [] do = "restore" -> {"backup", "as"}

OptionsOf(do) == IF do \in AdminCommands THEN AdminOptions(do) ELSE ItemOptions[do]

Forms == [scan |-> {"table", "json", "raw"}, query |-> {"table", "json", "raw"},
          get |-> {"json", "yaml", "raw"}, desc |-> {"yaml"}]

\* value_parser, conflicts_with and num_args.
Accepted(c) ==
  /\ c.do \in DOMAIN ItemOptions \cup AdminCommands
  /\ DOMAIN c = {"do"} \cup OptionsOf(c.do)
  /\ "output" \in DOMAIN c => c.output \in Forms[c.do] \cup {None}
  /\ "strict" \in DOMAIN c => {c.strict, c.nonstrict} \subseteq BOOLEAN /\ ~(c.strict /\ c.nonstrict)
  /\ "set" \in DOMAIN c => None \in {c.set, c.remove}
  /\ "mode" \in DOMAIN c => c.mode \in Modes \cup {None}
  /\ "keys" \in DOMAIN c => Len(c.keys) \in 1..2

ParseArgs(words) == IF Clap(words) # None /\ Accepted(Clap(words)) THEN Clap(words) ELSE None

-----------------------------------------------------------------------------
(* main *)

\* Mutation of Settings: an output format not given is that of the command before.
SettingsStale(c, old) ==
  [output |-> IF "output" \in DOMAIN c /\ c.output # None THEN c.output ELSE old.output,
   strict |-> IF "strict" \in DOMAIN c /\ (c.strict \/ c.nonstrict) THEN c.strict \/ ~c.nonstrict ELSE old.strict]

\* What dispatch sets in the Context before it calls the handler.
Settings(c, old) ==
  [output |-> IF "output" \in DOMAIN c THEN c.output ELSE old.output,
   strict |-> IF "strict" \in DOMAIN c /\ (c.strict \/ c.nonstrict) THEN c.strict \/ ~c.nonstrict ELSE old.strict]

\* Mutation of Dispatch: the command before it is not awaited.
DispatchUnawaited(c) ==
  /\ cmd' = c /\ step' = "start" /\ outcome' = None
  /\ context' = Settings(c, context)
  /\ printed' = None
  /\ UNCHANGED <<seen, request, tried, service, file, bumps, history>>

Dispatch(c) ==
  /\ Begin(c)
  /\ context' = Settings(c, context)
  /\ printed' = None
  /\ UNCHANGED <<file, bumps, history>>

\* Commands are for the table of --table; update and delete name their own.
OnTable(c, table) ==
  IF "table" \in DOMAIN c THEN c
  ELSE [x \in DOMAIN c \cup {"table"} |-> IF x = "table" THEN table ELSE c[x]]

\* A run without --shell is its arguments' command; wrong arguments end it.
Launch ==
  /\ run = None /\ script # <<>> /\ step = "idle"
  /\ script' = Tail(script)
  /\ UNCHANGED <<printed, file, bumps, history, adminVars>>
  /\ context' = NewContext
  /\ IF Head(script).shell \/ ParseArgs(Head(script).args) # None
     THEN run' = Head(script) /\ lines' = Head(script).lines
     ELSE UNCHANGED <<run, lines>>

Command ==
  /\ run # None /\ ~run.shell
  /\ Dispatch(OnTable(ParseArgs(run.args), run.table))
  /\ UNCHANGED <<script, run, lines>>

Exit == <<101, 120, 105, 116>>

\* read_line and the loop around it: exit and the end of the input end the run, a
\* line that makes no command is passed over.
ReadLine ==
  /\ run # None /\ run.shell /\ step = "idle"
  /\ UNCHANGED script
  /\ IF lines = <<>> \/ TrimEnd(Head(lines)) = Exit
     THEN run' = None /\ lines' = <<>> /\ UNCHANGED <<context, printed, file, bumps, history, adminVars>>
     ELSE LET words == Words(Head(lines))
              c == IF words = None THEN None ELSE ParseArgs(words)
          IN /\ lines' = Tail(lines) /\ UNCHANGED run
             /\ IF c = None THEN UNCHANGED <<context, printed, file, bumps, history, adminVars>>
                ELSE Dispatch(OnTable(c, run.table))

\* A command that exits or panics ends the run; a shell goes on after one that
\* returns, with an error ("error") or without.  Of the ways to exit, "unparsed"
\* is over the syntax of an argument, "unsupported" over the output format.
Ended ==
  /\ Conclude
  /\ history' = Append(history, [cmd |-> cmd, run |-> run, nth |-> Len(script), outcome |-> outcome,
                                 request |-> request, tried |-> tried, printed |-> printed, file |-> file])
  /\ run' = IF run.shell /\ outcome \in {"ok", "error"} THEN run ELSE None
  /\ UNCHANGED <<script, lines, context, printed, file, bumps>>

-----------------------------------------------------------------------------
(* What the commands on items have in common *)

Readers == {"scan", "query", "get"}
ItemCommands == Readers \cup {"put", "del", "upd", "export", "import"}

Stay == UNCHANGED <<local, service>>

\* typed_key: the first key of a role, with its type.
First(found) == CHOOSE i \in found : \A j \in found : i <= j
TypedKey(role, t) ==
  LET keys == {i \in DOMAIN t.schema : t.schema[i].role = role}
      defined == {i \in DOMAIN t.definitions : t.definitions[i].name = t.schema[First(keys)].name}
  IN IF keys = {} THEN None ELSE t.definitions[First(defined)]

\* build_attrval_scalar, for the types it knows.  The service reads the text of a
\* number; here it has one digit.
NumberOf(text) == IF Len(text) = 1 /\ text[1] \in Digits THEN 2 * (text[1] - 48) ELSE None
Scalar(type, text) == IF type = "S" THEN [S |-> text] ELSE [N |-> NumberOf(text)]

\* identify_target, and how it ends when there is no key.
KeyFailure(t, c) ==
  LET pk == TypedKey("HASH", t)
      sk == TypedKey("RANGE", t)
  IN CASE pk.type = "B" \/ (c.sval # None /\ sk # None /\ sk.type = "B") -> "panic"
       [] pk.type # "B" /\ c.sval # None /\ sk = None -> "exit"
       [] OTHER -> None

Target(t, c) ==
  LET pk == TypedKey("HASH", t)
      sk == TypedKey("RANGE", t)
      hash == pk.name :> Scalar(pk.type, c.pval)
  IN IF c.sval = None THEN hash ELSE hash @@ (sk.name :> Scalar(sk.type, c.sval))

\* What the handler does with its key: asks for something, or ends.
WithTarget(r) ==
  /\ Stay
  /\ IF KeyFailure(seen, cmd) # None THEN End(KeyFailure(seen, cmd)) ELSE Ask(r)

\* upd needs one of --set and --remove, and --atomic-counter neither.
OptionsMissing(c) == c.do = "upd" /\ (c.set = None /\ c.remove = None <=> c.counter = None)

RefuseOptions ==
  /\ step = "start" /\ OptionsMissing(cmd)
  /\ End("exit") /\ Stay

\* app::table_schema of a run with --table: the service is asked.
FetchSchema ==
  /\ step = "start" /\ cmd.do \in ItemCommands /\ ~OptionsMissing(cmd)
  /\ Describe(cmd.table)
  /\ UNCHANGED local

\* The service's view of items and keys.
KeyNames(t) == {t.schema[i].name : i \in DOMAIN t.schema}
HasKey(t, item) ==
  /\ KeyNames(t) \subseteq DOMAIN item
  /\ \A i \in DOMAIN t.schema :
       LET key == TypedKey(t.schema[i].role, t)
       IN /\ DOMAIN item[key.name] = {key.type}
          /\ item[key.name][key.type] # IF key.type = "N" THEN None ELSE <<>>
KeyOf(t, item) == [a \in KeyNames(t) |-> item[a]]
At(t, key) == {i \in t.items : KeyOf(t, i) = key}
IsKey(t, key) == HasKey(t, key) /\ KeyOf(t, key) = key
Storable(t, item) == HasKey(t, item) /\ \A a \in DOMAIN item : Allowed(item[a])
Replaced(t, items) == {i \in t.items : \A j \in items : KeyOf(t, i) # KeyOf(t, j)} \cup items

-----------------------------------------------------------------------------
(* scan, query, get, desc *)

\* scan_api looks the schema up once more.
AskForAll ==
  /\ step = "looked" /\ cmd.do \in {"scan", "export"}
  /\ Stay
  /\ \/ cmd.table \in DOMAIN tables /\ Ask([api |-> "scan"])
     \/ End("exit")

\* export asks before it reads a provisioned table, import before it writes one.
Cancel ==
  /\ step = "looked" /\ cmd.do \in {"export", "import"} /\ Mode(seen) = "PROVISIONED"
  /\ End(IF cmd.do = "export" THEN "exit" ELSE "ok") /\ Stay

Get == step = "looked" /\ cmd.do = "get" /\ WithTarget([api |-> "get", key |-> Target(seen, cmd)])

\* should_strict_for_query: the options' choice, or query.strict_mode of config.yml.
Strict == Or(context.strict, run.strict)

\* A sort key condition is accepted by both modes or by the loose one only.
Query ==
  /\ step = "looked" /\ cmd.do = "query"
  /\ Stay
  /\ LET pk == TypedKey("HASH", seen)
     IN CASE pk.type = "B" -> End("panic")
          [] pk.type # "B" /\ cmd.sort # None /\ TypedKey("RANGE", seen) = None -> End("exit")
          [] pk.type # "B" /\ cmd.sort = "loose" /\ TypedKey("RANGE", seen) # None /\ Strict -> End("unparsed")
          [] OTHER -> Ask([api |-> "query", key |-> pk.name :> Scalar(pk.type, cmd.pval)])

Found ==
  LET t == tables[cmd.table]
  IN CASE cmd.do = "scan" -> {t.items}
       [] cmd.do = "get" -> {At(t, request.key)}
       [] cmd.do = "query" ->
            LET same == {i \in t.items : \A a \in DOMAIN request.key : i[a] = request.key[a]}
            IN IF cmd.sort = None THEN {same} ELSE SUBSET same

Default == [scan |-> "table", query |-> "table", get |-> "json", desc |-> "yaml"]

\* How items are shown; the cells of a table are not modelled.
Contents(form, items) ==
  CASE form = "raw" -> ToRaw(items)
    [] form \in {"json", "yaml"} -> ToPlain(items)
    [] form = "table" -> items

\* The user may keep raw output in a file, as the input of bwrite.
Show(items) ==
  LET form == Or(context.output, Default[cmd.do])
  IN IF form \notin Forms[cmd.do] THEN outcome' = "unsupported" /\ UNCHANGED <<printed, file>>
     ELSE /\ outcome' = "ok"
          /\ printed' = [form |-> form, content |-> Contents(form, items)]
          /\ file' = IF run.keep THEN [form |-> form, content |-> printed'.content, of |-> ToSet(items)]
                     ELSE file

Answer ==
  /\ step = "request" /\ cmd.do \in Readers
  /\ step' = "ended" /\ tried' = tried + 1
  /\ UNCHANGED <<cmd, seen, request, service, session, bumps>>
  /\ \/ /\ cmd.table \in DOMAIN tables
        /\ cmd.do = "get" => IsKey(tables[cmd.table], request.key)
        /\ \E found \in Found :
             IF cmd.do = "get" /\ found = {}
             THEN outcome' = "ok" /\ UNCHANGED <<printed, file>>   \* "No item found."
             ELSE Show(SetToSeq(found))
     \/ outcome' = "exit" /\ UNCHANGED <<printed, file>>

Desc ==
  /\ step = "start" /\ cmd.do = "desc"
  /\ step' = "ended"
  /\ \/ cmd.table \in DOMAIN tables /\ Show(<<>>)
     \/ outcome' = "exit" /\ UNCHANGED <<printed, file>>
  /\ UNCHANGED <<cmd, seen, request, tried, service, session, bumps>>

-----------------------------------------------------------------------------
(* put, del, upd *)

\* An --item of one attribute.
Parsed(item) == item.name :> Literal(item.text)

\* An attribute of --item takes the place of the key's.
Put ==
  /\ step = "looked" /\ cmd.do = "put"
  /\ IF cmd.item # None /\ KeyFailure(seen, cmd) = None /\ Literal(cmd.item.text) = None
     THEN End("unparsed") /\ Stay
     ELSE WithTarget([api |-> "put",
                      item |-> IF cmd.item = None THEN Target(seen, cmd)
                               ELSE Parsed(cmd.item) @@ Target(seen, cmd)])

Del == step = "looked" /\ cmd.do = "del" /\ WithTarget([api |-> "del", key |-> Target(seen, cmd)])

\* Mutation of Counting: the handler adds to the value it has seen.
CountingSeen(name) ==
  LET at == {i \in At(seen, Target(seen, cmd)) : name \in DOMAIN i}
  IN [kind |-> "set", name |-> name,
      value |-> [N |-> IF at = {} THEN 2 ELSE (CHOOSE i \in at : TRUE)[name].N + 2]]

\* "name = name + 1".
Counting(name) == [kind |-> "add", name |-> name, value |-> [N |-> 2]]

Change(c) ==
  CASE c.counter # None -> Counting(c.counter)
    [] c.counter = None /\ c.remove # None -> [kind |-> "remove", name |-> c.remove]
    [] OTHER -> [kind |-> "set", name |-> c.set.name, value |-> Literal(c.set.text)]

\* The expect of generate_update_expressions.
Upd ==
  /\ step = "looked" /\ cmd.do = "upd"
  /\ IF cmd.set # None /\ KeyFailure(seen, cmd) = None /\ Literal(cmd.set.text) = None
     THEN End("panic") /\ Stay
     ELSE WithTarget([api |-> "upd", key |-> Target(seen, cmd), change |-> Change(cmd)])

\* The item at the key, or the key alone, changed.
Image(t, key) == IF At(t, key) = {} THEN key ELSE CHOOSE i \in At(t, key) : TRUE
Changed(item, c) ==
  CASE c.kind = "set" -> [a \in DOMAIN item \cup {c.name} |-> IF a = c.name THEN c.value ELSE item[a]]
    [] c.kind = "add" -> [item EXCEPT ![c.name].N = @ + c.value.N]
    [] c.kind = "remove" -> [a \in DOMAIN item \ {c.name} |-> item[a]]
CanChange(t, key, c) ==
  /\ c.name \notin DOMAIN key
  /\ c.kind = "add" => c.name \in DOMAIN Image(t, key) /\ DOMAIN Image(t, key)[c.name] = {"N"}

Write(failure, possible, items) ==
  /\ AttemptOr(failure, cmd.table \in DOMAIN tables /\ possible,
               [tables EXCEPT ![cmd.table].items = items], backups)
  /\ UNCHANGED local

WriteItem ==
  /\ step = "request" /\ cmd.do \in {"put", "del", "upd"}
  /\ LET t == tables[cmd.table]
         new == Changed(Image(t, request.key), request.change)
     IN \/ /\ request.api = "put"
           /\ Write("exit", Storable(t, request.item), Replaced(t, {request.item}))
        \/ /\ request.api = "del"
           /\ Write("exit", IsKey(t, request.key), t.items \ At(t, request.key))
        \/ /\ request.api = "upd"
           /\ Write("exit", /\ IsKey(t, request.key) /\ CanChange(t, request.key, request.change)
                            /\ Storable(t, new),
                    Replaced(t, {new}))

-----------------------------------------------------------------------------
(* export, import, bwrite: what they do to the values; Export and BatchLoad  *)
(* have their loops.  A file is at most one page and one request.            *)

ExportAnswer ==
  /\ step = "request" /\ cmd.do = "export"
  /\ step' = "ended" /\ tried' = tried + 1
  /\ \/ /\ cmd.table \in DOMAIN tables
        /\ outcome' = "ok"
        /\ file' = [form |-> "json", content |-> ToPlain(SetToSeq(tables[cmd.table].items)),
                    of |-> tables[cmd.table].items]
     \/ outcome' = "exit" /\ UNCHANGED file
  /\ UNCHANGED <<cmd, seen, request, service, session, printed, bumps>>

Import ==
  /\ step = "looked" /\ cmd.do = "import"
  /\ Stay
  /\ IF file = None THEN End("exit")
     ELSE LET items == FromPlain(file.content, cmd.infer)
          IN CASE \E i \in DOMAIN items : \E a \in DOMAIN items[i] : Unreadable(items[i][a]) -> End("panic")
               [] items = <<>> -> End("ok")
               [] OTHER -> Ask([api |-> "batch", items |-> items])

\* With --input alone bwrite needs no schema.
Bwrite ==
  /\ step = "start" /\ cmd.do = "bwrite"
  /\ Stay
  /\ IF file = None THEN End("error") ELSE Ask([api |-> "batch", items |-> FromRaw(file.content)])

WriteBatch ==
  /\ step = "request" /\ cmd.do \in {"import", "bwrite"}
  /\ LET t == tables[cmd.table]
         items == request.items
     IN Write("error",
              /\ items # <<>>
              /\ \A i \in DOMAIN items : Storable(t, items[i])
              /\ \A i, j \in DOMAIN items : KeyOf(t, items[i]) = KeyOf(t, items[j]) => i = j,
              Replaced(t, ToSet(items)))

-----------------------------------------------------------------------------

\* Another user counts an item up.
OtherCounts(n) ==
  /\ Other(n)
  /\ \E i \in tables[n].items :
       LET new == [i EXCEPT !["c"].N = @ + 2]
       IN /\ "c" \in DOMAIN i \ KeyNames(tables[n]) /\ Storable(tables[n], new)
          /\ tables' = [tables EXCEPT ![n].items = (@ \ {i}) \cup {new}]
          /\ bumps' = Append(bumps, [table |-> n, key |-> KeyOf(tables[n], i)])
  /\ UNCHANGED <<backups, session, printed, file>>

Process == Launch \/ Command \/ ReadLine \/ Ended
ItemHandlers ==
  \/ RefuseOptions \/ FetchSchema \/ AskForAll \/ Cancel \/ Get \/ Query \/ Desc
  \/ Put \/ Del \/ Upd \/ Import \/ Bwrite
ItemRequests == Answer \/ WriteItem \/ ExportAnswer \/ WriteBatch

Next ==
  \/ Process
  \/ (Handlers \/ Requests \/ Surroundings) /\ UNCHANGED local
  \/ ItemHandlers
  \/ ItemRequests
  \/ \E n \in DOMAIN tables : OtherCounts(n)

Spec == Init /\ [][Next]_vars

-----------------------------------------------------------------------------
(* What there may be at the start *)

\* A table has units if it is provisioned, items that its keys tell apart and the
\* service can store.  Counters start at zero.
WellKept(t) ==
  /\ t.billing \in Modes \cup {None} /\ t.busy \in BOOLEAN
  /\ {t.rcu, t.wcu} \subseteq (IF Mode(t) = "PROVISIONED" THEN Nat \ {0} ELSE {0})
  /\ \A i, j \in t.items : KeyOf(t, i) = KeyOf(t, j) => i = j
  /\ \A i \in t.items : Storable(t, i)

\* The commands a run can come to.
CommandsOf(r) ==
  LET read == {Words(r.lines[i]) : i \in DOMAIN r.lines} \ {None}
  IN {OnTable(c, r.table) : c \in {ParseArgs(w) : w \in read \cup {r.args}} \ {None}}

IsRun(r) ==
  /\ r # None /\ {r.shell, r.strict} \subseteq BOOLEAN
  /\ r.lines \in Seq(ToSet(r.lines))
  /\ None \notin CommandsOf(r)
  /\ \A c \in CommandsOf(r) : c.do \in AdminCommands => c \in Commands

ASSUME ScriptsAssumption ==
  /\ None \notin BOOLEAN /\ None \notin {"loose", "ok"}
  /\ \A s \in Scripts :
       /\ [tables |-> s.tables, backups |-> s.backups] \in Worlds
       /\ \A n \in DOMAIN s.tables :
            /\ WellKept(s.tables[n])
            /\ \A i \in s.tables[n].items : "c" \in DOMAIN i => i["c"] = [N |-> 0]
       /\ \A i \in DOMAIN s.backups : WellKept(s.backups[i].image) /\ s.backups[i].status \in Statuses
       /\ s.ticks \in 0..MaxTime /\ s.others \in 0..MaxOthers
       /\ s.runs \in Seq(ToSet(s.runs)) /\ \A r \in ToSet(s.runs) : IsRun(r)

\* A run with meant types a put of a literal of that value, in a line of a shell or as
\* arguments, and what that means for a table whose key is a string.
TypesPut(r) ==
  LET m == r.meant
      c == ParseArgs(WordsOf(m.parts))
  IN /\ IF r.shell THEN IsLine(m.parts) /\ r.lines = <<Line(m.parts)>> ELSE r.args = WordsOf(m.parts)
     /\ c # None /\ c.do = "put" /\ c.sval = None /\ c.item # None
     /\ Typable(m.value) /\ c.item.text \in LiteralsOf(m.value)
     /\ None \notin {WordsOf(m.parts), m.value}

MeansFor(r, t) ==
  LET c == ParseArgs(WordsOf(r.meant.parts))
      pk == TypedKey("HASH", t)
  IN pk.type = "S" /\ r.meant.item = (c.item.name :> r.meant.value) @@ (pk.name :> [S |-> c.pval])

ASSUME TypingAssumption ==
  \A s \in Scripts : \A r \in ToSet(s.runs) : r.meant # None =>
    /\ s.runs = <<r>> /\ TypesPut(r)
    /\ r.table \in DOMAIN s.tables => MeansFor(r, s.tables[r.table])

-----------------------------------------------------------------------------
(* Properties *)

Outcomes == {"ok", "error", "exit", "panic", "unparsed", "unsupported"}

\* The type invariant.
TypeOK ==
  /\ \A n \in DOMAIN tables : WellKept(tables[n])
  /\ \A i \in DOMAIN backups : WellKept(backups[i].image) /\ backups[i].status \in Statuses
  /\ now \in 0..MaxTime /\ others \in 0..MaxOthers /\ Len(bumps) \in 0..others
  /\ step \in Steps /\ (step = "idle" <=> cmd = None)
  /\ tried \in 0..MaxAttempts
  /\ outcome \in Outcomes \cup {None}
  /\ run = None => step = "idle"
  /\ context.strict \in BOOLEAN \cup {None}
  /\ \A e \in ToSet(history) : e.outcome \in Outcomes /\ e.tried \in 0..MaxAttempts

\* Commands on tables behave in a session as TableAdmin has them, whatever the
\* commands on items do between them, and those leave all but the items alone.
ImplementsTableAdmin == AdminSpec

\* What was typed in a line of the shell, with the escapes of a literal inside the
\* quotes of the shell, is what put asks the service to store, at the key that was
\* typed: the two readings of the text (shell.rs parse, parser.rs) take away
\* exactly what the writer has added.
TypedIsStored ==
  /\ \A e \in ToSet(history) : e.run.meant # None =>
       /\ e.outcome # "unparsed"
       /\ e.request # None => e.request.item = e.run.meant.item
  /\ run # None /\ run.meant # None /\ lines # run.lines /\ step = "idle" => history # <<>>

\* Settings of one command do not reach the next one of a shell session, except
\* --strict and --non-strict of query, of which the last one given counts, and
\* config.yml if none was: every command prints in the format it asked for, and
\* the format of another never makes it fail.
LastChoice(i) ==
  LET given == {j \in 1..i : /\ history[j].nth = history[i].nth
                             /\ history[j].cmd.do = "query"
                             /\ history[j].cmd.strict \/ history[j].cmd.nonstrict}
  IN IF given = {} THEN history[i].run.strict
     ELSE history[CHOOSE j \in given : \A k \in given : k <= j].cmd.strict
SettingsAreOwn ==
  \A i \in DOMAIN history :
    LET e == history[i]
    IN /\ e.outcome # "unsupported"
       /\ e.printed # None => e.printed.form = Or(e.cmd.output, Default[e.cmd.do])
       /\ e.outcome = "unparsed" /\ e.cmd.do = "query" => LastChoice(i)
       /\ e.cmd.do = "query" /\ e.cmd.sort = "loose" /\ e.request # None => ~LastChoice(i)

\* What an item is counted up to: the increments of others to it, at least one for
\* every success that was reported and at most one for every time a request for it was
\* sent, as long as no command writes items in any other way.  A repeated request may
\* count twice; nothing else is lost or added, and nothing is counted elsewhere.
Rewrites(c) == c.do \in {"put", "import", "bwrite", "restore"} \/ (c.do = "upd" /\ c.counter = None)

\* The commands so far, the one being executed included.
Done ==
  IF cmd = None THEN history
  ELSE Append(history, [cmd |-> cmd, outcome |-> outcome, request |-> request, tried |-> tried])

\* Those of h that were to count up an item, of which success was reported, the times
\* they were sent, and those of b, the times others did it.
CountsUp(e, n, key) ==
  /\ e.cmd.do = "upd" /\ e.cmd.counter = "c" /\ e.cmd.table = n
  /\ e.tried > 0 /\ e.request.key = key
Reported(h, n, key) == {i \in DOMAIN h : CountsUp(h[i], n, key) /\ h[i].outcome = "ok"}
Sent(h, n, key) ==
  {s \in (DOMAIN h) \X (1..MaxAttempts) : CountsUp(h[s[1]], n, key) /\ s[2] <= h[s[1]].tried}
Bumped(b, n, key) == {i \in DOMAIN b : b[i] = [table |-> n, key |-> key]}

CounterCounts ==
  (\A i \in DOMAIN Done : ~Rewrites(Done[i].cmd)) =>
    \A n \in DOMAIN tables : \A x \in tables[n].items :
      LET key == KeyOf(tables[n], x)
          bumped == Cardinality(Bumped(bumps, n, key))
      IN "c" \in DOMAIN x => /\ x["c"].N >= 2 * (bumped + Cardinality(Reported(Done, n, key)))
                             /\ x["c"].N <= 2 * (bumped + Cardinality(Sent(Done, n, key)))
=============================================================================
