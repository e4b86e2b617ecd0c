# Specifications of dynein

TLA+ models of dynein (`dy`), a command line tool for DynamoDB written in Rust,
with the configurations TLC checks them in and the proofs TLAPS checks. Paths
below are relative to the repository; the code is under `src/src/`.

## The system

`dy` runs one command and exits, or, with `--shell`, reads commands in a loop.
`main.rs` builds a `Context` from the options and from two files and dispatches
the command; everything else is calls to DynamoDB and to the file system.

| part | code | state it keeps | operations | what is hard |
|---|---|---|---|---|
| import, bwrite | `transfer.rs`, `batch.rs` | rows read, the request being built, what is unprocessed of it, progress shown | read a file, cut it into requests of 25, convert, send, send the unprocessed again | lost answers and repeated attempts, partly processed requests, a failure in the middle, boundaries of requests |
| export | `transfer.rs`, `data.rs` | last evaluated key, temporary file, output file | scan a page, convert and append it, put the output together | a last page that is empty, writes during the scan, reads that miss the latest of them, ends at any point, leftovers of earlier runs |
| Context and files | `app.rs`, `main.rs`, `control.rs` | `config.yml`, `cache.yml`, and the Context's copies of them | load or create, `use`, `desc`, `config dump`, `config clear`, `table_schema` | several processes and no lock, crashes between two writes, copies that are stale |
| shell | `shell.rs`, `main.rs` | the Context over many commands | read a line, cut it into words, set the Context, dispatch | settings of one command that a later one sees, quotes and escapes of two levels, commands that end the session |
| bootstrap | `bootstrap.rs` | tables not yet ACTIVE | create, wait, load | waiting without a bound, tables that exist already |
| table administration | `control.rs`, `ddb/table.rs` | none; what was described, during a command | create, update, delete, index | capacity units filled in from a description read before or with a default, repeated requests |
| backup, restore | `control.rs` | none; the list of backups, during a command | backup, its list, restore | backups that come and go after the list, names shared by tables and derived from the clock |
| listing | `control.rs` | none | one call per region, no pagination | - |
| item commands | `data.rs` | none | scan, query, get, put, del, upd and its atomic counter | which key the arguments mean, other users between the schema and the request, repeated requests |
| expressions | `parser.rs` | placeholder tables and counters | parse and rewrite set, remove, sort key expressions | placeholders that must agree over several expressions |
| attribute conversion | `data.rs`, `batch.rs`, `parser.rs` | none | attribute values to plain and typed JSON and back, literals to values | set inference, numbers of more than 53 and 64 bits, types JSON does not have, escapes |
| schema helpers, command line | `ddb/`, `cmd.rs` | none | projections, clap definitions | - |

Parts interact by calls: bootstrap and import share
`batch_write_until_processed`; every command that touches items asks the
Context for region, table name and schema (`effective_region`,
`effective_table_name`, `table_schema`), so what `use` and `desc` leave in the
two files decides what all others do. Processes interact through the two files
and through the tables. The only concurrency inside a process is `join_all` over
`describe_table` (`desc --all-tables`) and in bootstrap.

What makes each part correct:

- import: no row lost, rows of a key in file order, only well-formed rows
  written, progress that is true, an end that can be resumed, an end at all;
- export: complete as far as its reads are, no duplicates, well-formed output, and a
  failed scan, or in JSON any failed export, that cannot be mistaken for a finished one;
- files: the table in use has a schema and the right one; entries do not vanish;
- bootstrap: ends when the tables become ACTIVE, loads each of them;
- expressions: every placeholder is defined once and the ones used are defined;
- table administration: an update makes of mode and units what its options say, and
  without a mode changes only what it was told to change;
- backup and restore: what is restored is a copy of what was named;
- item commands: what is typed is what is stored, a counter counts;
- shell: a command is executed with its own settings, or with those the user made
  last;
- conversion: what is written out is the same when it is read again, or else
  visibly not.

`PROJECT.json` lists the hazards with the lines where they bite.

## Modules

| module | models |
|---|---|
| `KeyedLoad` | abstract: a load of rows into a table, key by key, that may skip rows of a key but never goes back, and completes with every key at its last row |
| `BatchLoad` | `dy import` and `dy bwrite` and the BatchWriteItem service |
| `MCBatchLoad` | small files for `BatchLoad` |
| `BatchLoadProofs` | theorems about `BatchLoad` |
| `DyneinFiles` | processes, shell sessions, `config.yml` and `cache.yml` |
| `MCDyneinFiles` | symmetry of processes for `DyneinFiles` |
| `DyneinFilesProofs` | theorems about `DyneinFiles` |
| `Export` | `dy export`, its files, and the other users of the table |
| `ExportProofs` | theorems about `Export` |
| `Bootstrap` | `dy bootstrap`, the life cycle of its tables, and those who delete them |
| `MCBootstrap` | small samples for `Bootstrap` |
| `BootstrapProofs` | theorems about `Bootstrap` |
| `Expressions` | `DyneinParser` and the requests `query`, `scan` and `upd` build with it |
| `MCExpressions` | parse trees, schemas and calls for `Expressions` |
| `ExpressionsProofs` | theorems about `Expressions` |
| `Options` | optional values |
| `TextForms` | the words of a line, and literals: text to values, and how users write what it reads |
| `TextFormsProofs` | theorems about `TextForms` |
| `Recursion` | recursive functions and folds: that they exist, and induction over what they compute |
| `ItemValues` | attribute values, plain and typed JSON |
| `TableAdmin` | commands on tables and backups, the service, and its other users; commands on items only as what they may do to a table |
| `Session` | composition: runs of dy one after the other, the shell, the commands of `TableAdmin` and those on items; the conversions of values are parameters |
| `MCSession` | scripts for `Session`, the commands their words spell, and the conversions of `ItemValues` |
| `SessionProofs` | theorems about `Session` and `TableAdmin` |

`BatchLoad` and `Bootstrap` both model the resend loop of
`batch_write_until_processed`: the first with lost answers, repeated attempts and
the order of rows, the second as one step per answer, with all that comes before
the load. `Bootstrap` leaves the keys of items out, as the items of a sample
have distinct ones.

Definitions named `...Reversed`, `...FromZero`, `...Ignored` and the like, each
introduced by a comment "Mutation of", are not part of a specification: they are
the wrong versions of an operation that show each property can fail.

### BatchLoad

One behaviour is one command on one file. A row is its position; what is kept of
its content is its key and whether and how it is malformed (`RowKinds`). `phase`
is the place in the code: `start` (before the input is parsed), `read` (in the
loop over chunks or lines), `convert` (`convert_jsonvals_to_request_items`,
`csv_matrix_to_request_items`), `sent` (in `batch_write_item_api`), and the ways
to end. `NextChunk` is an iteration of `chunks(25)`; `CsvRow` one of the loop
over lines, with its `i % 25`; `CsvRest` the code behind that loop; `Gather` all
of `batch_write_item` before its call. `Unprocessed` and `AllProcessed` are the
two answers the loop of `batch_write_until_processed` tells apart, `LoseAttempt`
an attempt the SDK repeats, or, when the policy's attempts are used up, the error
that ends the command; `Refuse` is an error that is not retried. The service executes any part of a valid request;
`applied` and `table` are what it has done. `Late` adds requests that were given
up on and are executed at any later time (`StrayExecutes`).

25 is the constant `MaxBatch`, and the service's limit, also 25, `ServiceLimit`;
the code relies on the first not being larger than the second
(`BatchAssumption`). bwrite may gather more than `ServiceLimit` operations and is
then rejected. bwrite to several tables is modelled as one set of keys: a key
stands for a table and a primary key.

### DyneinFiles

A process is a record: its step, its options, its Context's copies of the two
files, and, in history fields, whether another process overlapped with it
(`raced`) and whether it executed `use` (`used`). A step is one file or API
operation, so that other processes and crashes fall between any two.
`write_dynein_file` writes a temporary file and renames it, hence is one step.
`LoadConfig`/`TouchConfig` and `LoadCache`/`TouchCache` are the two
`load_or_touch_*_file` functions with the gap between finding the file missing and
writing the default. `Use`, `SaveConfig`, `SaveUse` are `use_table` with
`save_using_target`; `Desc`, `SaveDesc` and `DescAll`, `DescribeOne`, `SaveOne`
the two forms of `desc`; `Clear`, `ClearCache` the two removals of
`remove_dynein_files`; `TableSchema` the lookup every item command starts with. A
schema is the generation of its table: creating a deleted table again gives a
new one. `settled` is history: since the last undisturbed `use`, no crash, second
process, session or deletion. So for a table that is created again the properties say
that the next `use` repairs the cache, not that commands before it are right.

Left out: parse errors of hand-edited files, I/O errors other than a missing
file, the port and retry settings, and that ListTables returns one page of at
most 100 names to `desc --all-tables`.

### Export

An item is its position in scan order. `ScanNext` is one iteration of the loop:
the service stops at any item of the page, with the `LastEvaluatedKey` of that item,
or at the end of the table without one, so that only the last page can be empty. The scan
is called without consistent reads: an item in `recent` was written or deleted, and
not every replica has that yet (`Replicate`), so a page may have it or not
(`Readable`), whatever the table has. What is assumed of the service is that a page has
every item of its range that all replicas have, and none that they all lack. File contents are sequences of tokens: items, brackets, commas, line
ends, header. `Connectable`, `CsvLines` and `JsonLines` do to them what
`connectable_json`, `convert_items_to_csv_lines` and the JSON Lines loop do to
the text. `WriteOpening`, `WriteBody`, `WriteClosing` are the writes of
`json_finish`, `jsonl_finish`, `csv_finish` and `export` itself; `Die` ends the
process anywhere, in the middle of the body's write as well. A page is a set of
items; the order in which a call lists them, which the code keeps, is any of
`Listings`. An item in `Sparse`
lacks an attribute a CSV export asks for; the conversion panics on it, so
`ScanPage` is not enabled and only `Die` is.

`ExportIsComplete` is about the items that every replica had when the scan began and
that were not deleted since (`always`), and about those that some replica had at some time
since (`ever`); what changed shortly before or during the scan may be in the export or
not. `UnfinishedJsonIsInvalid` and `FailedScanLeavesNothing` say what an export that was
cut off leaves: a scan that fails, as a CSV export of a `Sparse` item does, leaves an empty
output in every format, and a JSON output cut off later does not parse. A CSV or JSON Lines
output that is cut off while it is put together cannot be told from a complete one, and
nothing is claimed of it.

### Bootstrap

One behaviour is a sample and up to `MaxRuns` runs of the command on it, in an
account where each of its tables may be absent, in any status, or there with
other keys (`foreign`). `PrepareTable` is one call of `prepare_table`, which skips
a table that exists whatever its status. `Described` is one answer of a round of
`join_all`, in any order; `RoundEnds` the filter and the test behind it; `WakeUp`
the end of the sleep. `NextRequest` is one iteration of the loop of the movie
sample, including the last request outside of it, or one file of the default
sample; `Write` and `Reject` are the answers the resend loop tells apart. `Refuse`
is any call that fails for another reason, `Interrupt` the end of the process,
`Rerun` the next invocation. `Settle` completes what DynamoDB has under way, and
`DeleteTable` is another user; `disturbed` is history: the tables deleted by
others while this run was on.

The 25 of the movie loop is `MaxBatch`. `SamplesAssumption` says what the bundled
files must satisfy for the code to work (the default ones fit one request, the
number of movies is no multiple of 25); `UndisturbedSucceeds` depends on it.

### Expressions

One behaviour is a sequence of calls on one parser, or one query or scan.
`names`, `names_inv` and `values` are the fields of `DyneinParser`; a placeholder
is its number, `Pk` and `Sk` those `data.rs` writes itself. The `process_`
functions recurse over a tree and concatenate what they get; here `work` is what
is left of the tree, `Parts` what a node is made of in the order in which the
code processes it, and `Expand`, `PushText`, `Attribute`
(`get_or_create_attr_name_ref`) and `Value` (`add_value_and_return_ref`) the
steps that produce `out`. `Sort` is `parse_sort_key_with_suggest` or
`parse_sort_key_with_fallback`: `Strict` and `Loose` are the two readings of a
condition, `Checked` the comparison of types `process_sort_key` makes before it
allocates anything. `Query` is `generate_query_expressions` with
`append_sort_key_expression`; for a partition key of type `B` it fails, as
`build_attrval_scalar` panics there. `Scan` is `generate_scan_expressions`, `Update` what
`generate_update_expressions` or a test does. `results` is history: each call with
what it returned.

`MeansTheSame` compares with a reference definition that knows no placeholders:
`Source`, a function by recursion over trees, is what was written for a tree,
`SortSource`, `QuerySource` and `ScanSource` for a condition, a query and a scan.
It is stated as one writes: a dot and a comma follow what they end, where the code
pushes them before what comes next, and the attributes of a scan are those of one
list, the keys in front, without the keys that come again.

The pest grammar is external. Of a sort key condition the operator and the form of
each operand (quoted, number, binary, bare) are kept, which decide the rules that
match. Left out: escapes, the inside of literals, a bare operand that itself
begins like an operator, parse errors of update expressions (nothing has been
allocated by then), the words `SET` and `REMOVE` in front, and the absent instead of
an empty map.

### TableAdmin

One behaviour is any sequence of commands (`Begin` to `Conclude`), one at a time.
Every handler is made of the same steps: it may look something up (`Look`, kept
in `seen`), sends one request (`Ask`), and the request is sent until it is
answered or its attempts are used up (`Attempt`: executed or not, answered or
not, independently). Between any two steps the service completes what is under
way (`Settle`), the clock goes on, and others update or delete tables, drop
backups and write items. `Create` is `create_table` and `create_index` with
`generate_essential_key_definitions`, `Throughput` the match in `update_table`
that fills in the units not given, `LookForBackups`, `Candidates` and `Restore`
are `restore` with `list_backups_api` and `fetch_arn_from_backup_name`. How they
end is kept: `ok`, `exit`, or `panic` where the code unwraps. `touched` is
history: the tables others changed after the command described them.

`UpdatesFollowOptions` says what becomes of each unit of a table that is updated: the one
given; without one the default if the options are `--mode provisioned`, whatever mode
the table had (a comment has it for a switch of modes only, see Findings), none with
`--mode ondemand`, and without a mode what it was.

What the service accepts (`CanUpdate`, the agreement of key types of indexes) is
external, modelled from what the code sends and the errors it expects. The
actions have names of their own for what the program sends and what the service
does with it, so that the second may happen without an answer.

### TextForms, ItemValues

The functions of the code that read text character by character with a state are
folds here: `WordStep` is the loop of `parse` in `shell.rs`, `CharStep` and
`ByteStep` those of `parse_internal_double_quote_string` and the two for binary
literals, `Escaped` is `convert_to_escaped_json_string`. Text is a sequence of
code points, so that surrogates and bytes are what they are. The module also has the
other direction, how users write what is read: `LiteralsOf` a value and the `Line` of
some words.

In `ItemValues` numbers are counted in halves; three widths, `Exact`, `MaxI64` and
`MaxU64`, stand for 2^53, 2^63-1 and 2^64-1. `Json` is `attrval_to_jsonval` with
`str_to_json_num`, `FromJson` `dispatch_jsonvalue_to_attrval`, `Typed` the
serialization of the raw output, `FromTyped` `ddbjson_val_to_attrval`. An array
that set inference makes a set of numbers, of which one has no i64, panics
(`Panics`). Base64 and the printing of a number are tagged values, as are the
texts for types that JSON does not have.

### Session

One behaviour is a script: runs of dy, each one command or a shell with its
lines, on tables and backups that are there. `Launch` is `main` up to dispatch,
`Settings` what `dispatch` sets in the Context before a handler is called,
`ReadLine` one iteration of the shell's loop with `TrimEnd`, `Words` and the
words that are no command, `Ended` the end of a handler, which may end the run.
`FetchSchema` is `table_schema`, `Target` `identify_target`, `Answer` the answer to
a reader and its output format, `Write` any request that changes items, with its
repetitions. A user may keep raw output or an export in `file`, from which
`import` and `bwrite` read in a later run; that raw output must be put into a
BatchWriteItem request by hand is left out, as it changes no value. `history` has the commands concluded
and what they asked for. `Clap` is the generated part: which command some words
spell; `Accepted` which options go together. A run that types a value carries in `meant` what
its author had in mind: the value, the item it makes, and the words.

Its requests of import and bwrite fit one batch; `BatchLoad` is the model of what
happens to longer ones. The steps of a command on items appear in `TableAdmin` as
`ItemCommand`: they change items and nothing else of a table. That `Session`
implements `TableAdmin` (`ImplementsTableAdmin`) is proved, so that the theorems of
`TableAdmin` hold in sessions. How values are written and read does not matter for
that: `ToPlain`, `FromPlain`, `Unreadable`, `ToRaw`, `FromRaw` and `Allowed` are
parameters, and `Session.cfg` gives them the definitions of `ItemValues`.
`ScriptsAssumption` says what there may be at the start: tables whose items have
distinct keys and whose counters are zero, and lines that come to commands clap
accepts. The condition of `upd` and of `query` is
one change, or one comparison accepted in strict mode or only in the other:
`Expressions` has their form.

What the code does there and one may not expect: an attribute of `put --item`
replaces the key given before it; the atomic counter is `name = name + 1` in the
request, so that a repeated request counts twice; in a shell `--strict` stays for
the queries after it (`SettingsAreOwn` says so: the last choice made in the same
run); `restore` of a name not in the list panics; `backup --all-tables` is
accepted and ignored.

## Runs

| run | instance | shows |
|---|---|---|
| `load_forms` | files of up to 5 rows, 2 keys, at most 2 malformed rows, requests of 2, 2 attempts, late execution | `TypeOK`, `NothingLost`, `StopsAtOneRequest`, `CleanFileAccepted`, `OnlyItemsWritten`, `CountIsWritten` |
| `load_order` | files of up to 6 well-formed rows, 3 keys, requests of 3, 2 attempts, fairness | `LastRowWins`, `ImplementsKeyedLoad` (refinement), `Terminates` (liveness) |
| `load_jsonl` | 3 rows, 1 malformed | violation of `EveryValidLineImported` |
| `load_bwrite` | 2 rows | violation of `BwriteExecutesAll` |
| `files_cli` | 3 commands in 2 process slots, 1 name in 2 regions, 2 creations | `TypeOK`, `TargetIsCached`, `EntriesLostByRaceOnly` |
| `files_shell` | one session of 2 commands, 2 tables | violation of `UsedTableIsKnown` |
| `export` | 2 exports, 3 items, 2 writes by others that reads may miss | `TypeOK`, `ExportIsComplete`, `OutputIsWellFormed`, `UnfinishedJsonIsInvalid`, `FailedScanLeavesNothing` |
| `export_json`, `export_csv` | 1 export, 2 items, no writes | violations of `PagesMakeJson`, `PagesMakeCsv` |
| `bootstrap` | samples of 3 and 1 tables, requests of 2, 2 runs, 1 deletion by others, fairness | `TypeOK`, `LoadedWhenDone`, `UndisturbedSucceeds`, `ReadyBeforeLoad`, `Ends` (liveness) |
| `expressions` | up to 3 calls; paths of up to 3 elements, values nested three deep, every operator, form of operand, key type and mode; 4 schemas with 2 indexes | `TypeOK`, `PlaceholdersMatch`, `NamesAgree`, `MergeKeepsMeaning`, `SortKeyTyped`, `SuggestionAccepted`, `MeansTheSame` |
| `session` | 1807 scripts: texts of up to 2 of 11 and up to 3 of 4 characters, each in every form of literal; up to 3 commands with and without formats and modes; 37 values copied three ways; 2 increments beside 2 by others, and 2 in different tables beside 1; 15 commands on items on 4 kinds of tables and without one; 24 commands on tables with 1 step of others; 2 attempts | `TypeOK`, `TypedIsStored`, `SettingsAreOwn`, `CopiesKeepItems`, `CounterCounts`, `UpdatesFollowOptions`, `RestoresWhatWasNamed`, `ImplementsTableAdmin` (refinement) |

The bounds. Two full requests and a rest (5 rows in requests of 2, 6 in requests
of 3) are the first point where one request follows another and a third begins;
requests of 3 let a resend be partly processed again. Two malformed rows are
needed for a short CSV line that makes up for a long one. Two attempts have an
answer that is lost and a repeat. Two slots and three commands let two processes
overlap and a third find what they left; two regions make the resolution of the
region matter. Two exports are needed for the leftovers of the first. Two
creations give two tables, or one that is deleted and created again with other
keys. A movie table of five items takes two full requests and a rest, one of one
item only the rest; three tables let one be ready, one under way and one gone in
one round; the second run is the one that finds what the first has left. Three
calls are an expression, one that may fail, and one more; two attributes
in three calls are enough for a name to be met again, in the same call and in a
later one. In `session`, two characters
let each be behind a backslash or before the closing quote, and the alphabet has
one of every class the loops tell apart (blank, line feed, both quotes,
backslash, a letter with a meaning, control characters, one that needs two
UTF-16 units); three are needed for an escape of an escape, over the characters
that escape. Three commands are one that sets, one that does not and one that
sees it. With `Exact` 4, `MaxI64` 6 and `MaxU64` 8 there are numbers in each of the
ranges between and one beyond each. One step of others is enough to change what
was looked up; counters have two, before and after the first increment's request.
`CHECK_DEADLOCK` is off
because every command ends.

### Findings

Five runs refute what a comment or help text says:

1. `bwrite` reports success although operations came back unprocessed
   (`batch.rs:349`).
2. An unparsable JSON Lines value silently drops all valid lines behind it
   (`transfer.rs:329`).
3. In a shell session, the command after `use` does not find the table's schema
   and ends the session (`app.rs:760`, `app.rs:632`).
4. A JSON export whose last page is empty, because the page before it ended at the last
   item of the table, is not valid JSON (`transfer.rs:485`).
5. A CSV export of more than one page joins the last line of a page with the
   first of the next (`transfer.rs:254`).

`OutputIsWellFormed` states what does hold beside 4 and 5.

One more disagreement is stated by the property of a passing run. `update --mode
provisioned` sets units that are not given to 5 on any table (`control.rs:336`), on one
that is provisioned already as well, whose units it so overwrites; a comment
(`control.rs:335`) and the help text (`cmd.rs:525`) give that default for a switch from
on-demand mode only. `UpdatesFollowOptions` says what the code does: with that option the
default may take the place of any units.

### Fairness

`FairSpec` of `BatchLoad` assumes that the program runs on (`WF` of `Loader`),
and that a request sent again and again is at some point answered with something
processed or rejected (`WF` of `Progress`). The second is an assumption about the
service: the code's loop would go on forever without it. It is not assumed that
attempts do not get lost; `MaxAttempts` bounds them.

`FairSpec` of `Bootstrap` assumes the same of the program and of the service
(`WF` of `Progress`), and that DynamoDB completes each creation, update and
deletion under way (`WF` of `Settle`). The loop of `wait_table_creation` has no
bound of its own and ends for no other reason. Nothing is assumed of the user or
of those who delete tables.

The properties of `Session` are safety properties; none needs fairness.

## Proofs

`BatchLoadProofs` proves, for all files, keys, `MaxBatch`, `ServiceLimit` and
`MaxAttempts` that satisfy the assumptions of `BatchLoad`:

- `TypeCorrect` (`Spec => []TypeOK`). `TypeOK` is not inductive alone: a command
  in `start` has read nothing, and nothing is pending outside `sent`
  (`NothingReadYet`, `NothingPending`).
- `NoRowIsLost` (`Spec => []NothingLost`). Added to `TypeInv`: between two JSON
  chunks the previous one has been written (`ChunkWritten`), since `NextChunk`
  overwrites it.
- `MalformedIsNotWritten` (`Spec => []OnlyItemsWritten`). What is known of a
  row's kind after the parser (`Parsed`), after the conversion (`Converted`) and
  of requests given up on (`StraysAreItems`). The lemma `NoLongLine` is why
  counting cells in total is enough: a short line is an error by itself, and
  without short lines equal totals leave no long ones.
- `FileOrderKept` (`Spec => []LastRowWins`). All executed rows outside the
  outstanding request come before it (`ChunkIsLast`), and a request of which
  anything was executed has distinct keys (`ChunkAccepted`); so executing a part
  of it again cannot bring back an older row.
- `ProgressIsTrue` (`Spec => []CountIsWritten`). `Counted`: rows read but not yet
  counted are exactly those of the chunk.
- `StopIsResumable` (`Spec => []StopsAtOneRequest`). `CutAtMultiples`: requests
  start at multiples of `MaxBatch`, in JSON because a full chunk was taken before,
  in CSV because of the number of the line; `Resumable` names the multiple up to
  which everything was executed, and says that the rows read are at most one
  request beyond it.
- `CleanIsAccepted` (`Spec => []CleanFileAccepted`). A request is within a window of
  `MaxBatch` rows, so it is neither empty nor larger than the service takes, and its
  keys are distinct if those of the window are.
- `LoadsKeyed` (`~Late /\ Spec => ImplementsKeyedLoad`): the refinement of `KeyedLoad`.
  A step executes a part of a request whose rows come after all that is in the table,
  or changes nothing there; with all rows executed the abstract load completes.
  Like `LastRowWins` it needs that no attempt is executed after the client gave up
  on it.

`BootstrapProofs` proves, for all samples, `MaxBatch`, `ServiceLimit` and numbers of
runs that satisfy `BoundsAssumption` and `SamplesAssumption`:

- `TypeCorrect` (`Spec => []TypeOK`), with `NothingTaken`: no item is taken while
  tables are created and waited for.
- `ReadyFirst` (`Spec => []ReadyBeforeLoad`). `Waited`: a table that is no longer
  asked for is ACTIVE, or others have deleted it.
- `SampleLoaded` (`Spec => []LoadedWhenDone`). `Loaded`: tables before the one being
  loaded have their sample, and of that one everything taken and no longer
  pending has been written.
- `FailsOnlyRefused` (`Spec => []UndisturbedSucceeds`). `Present`: tables that others
  leave alone are there once they were prepared. `Acceptable`: a request has
  between one and `ServiceLimit` items. That the last request is not empty
  is where the number of movies matters: all before it end at multiples of
  `MaxBatch`, which the number is not.

`DyneinFilesProofs` proves, for all processes, regions, names and bounds that satisfy
`BoundsAssumption`:

- `TypeCorrect` (`Spec => []TypeOK`).
- `UseRepairs` (`Spec => []TargetIsCached`). The files are written one after the
  other, so what `TargetIsCached` says at rest does not hold between. `Alone`: a
  process that has not been raced is the only active one. `Described`: what a
  command has been told of a table is true until the table is deleted. `Chosen`:
  the config that `use` has written is still there when it writes the cache.
  `FilesAgree` and `ContextAgrees`: the files agree, and so does the cache in the
  Context of a command, since `desc` writes that cache as a whole. `Missing`: a
  file that a process did not find, or has removed, is not there.
- `EntriesAreKept` (`Spec => EntriesLostByRaceOnly`). `Copied`: the cache in the
  Context of a single undisturbed command is that of the file until it writes, so
  that writing it back only adds to it.

`ExpressionsProofs` proves, for all `Nodes`, `Height` and `Calls` that satisfy
`NodesAssumption` (a tree has the form of a rule of the grammar, its parts are trees
and lower ones, so that it is finite) and `CallsAssumption` (a query or a scan is
alone on its parser, a table has at most one sort key, conditions have the operators
and operands of the grammar, and the indexes of a table have different names, as
DynamoDB demands):

- `ExpressionsTyped` (`Spec => []TypeOK`) and `NamesInverse`
  (`Spec => []NamesAgree`). The strengthening is that both maps are numbered
  from 0 without gaps (`Numbered`), so that their size is a number not yet given
  out (`NumberedInsert`); this is what the code relies on when it
  takes `len()` as the next number.
- `PlaceholdersDefined` (`Spec => []PlaceholdersMatch`). `Defined`: while there
  are calls left, what is given out is what was returned or is in `out`. `Lone`:
  the partition key's placeholders, which are not in the parser's maps, are only
  there when no other call follows.
- `MeaningKept` (`Spec => []MergeKeepsMeaning`). `Kept`: the parser's maps contain
  those of every result; they only grow, and a later result contains them.

The steps are first sorted by what they do (`NextSteps`): begin a tree (`Begins`),
answer without one (`Answers`), or process one.

For conditions on a sort key the invariant follows the values instead of the maps:

- `SortKeysTyped` (`Spec => []SortKeyTyped`). The nodes of a condition that was taken
  are well typed, whichever reading took it, and so are the values they give; while
  one is under way, what is out already has the type, and so has what is left.
- `SuggestionsAccepted` (`Spec => []SuggestionAccepted`). What is suggested is built
  from the second reading in the form that the first one takes for the same.
- `MeantAsWritten` (`Spec => []MeansTheSame`). `Says`: while a call is under way, what
  base means (`Lead`), what the expression so far means and what the work left
  `Yields` are together what was written. A token moves its leaf from the last to the
  second (`TokenMeant`); it needs `NamesAgree`, for the placeholder of a name met
  before, and that new entries leave the maps as they are where they are used
  (`ReplacedUnder`). `Expand` leaves all three: the parts of a tree yield what was
  written for it (`PartsAreSource`), for a path and for a list because what stands
  between two elements may be counted to either (`Separated`). `SourceIs`: `Source`
  exists and is what its definition says, by the heights of trees (`RecursiveFunction`). A
  condition that is taken has the operands that were written, whichever reading took it
  (`ConditionSource`), and a scan returns the attributes asked for (`ScanMeant`).

`ExportProofs` proves, for all tables, formats, bounds on pages, writes and exports
that satisfy `Export`'s assumptions, `TypeCorrect` (`Spec => []TypeOK`), `Complete`
(`Spec => []ExportIsComplete`), `WellFormed` (`Spec => []OutputIsWellFormed`),
`OnlyWholeParses` (`Spec => []UnfinishedJsonIsInvalid`) and `NothingOfAFailedScan`
(`Spec => FailedScanLeavesNothing`) from one invariant: what was
scanned is in the temporary file once, of it everything in `always` up to the cursor and
nothing outside `ever`, as a page has every item of its range that is in all replicas
(`Collected`); its pages are joined by one
separator, up to what the formats do at their edges (`Joined`, which is where one
page or no empty one is needed); the output is a prefix of what is put around it
(`Assembled`), and nothing in it closes an array before the end (`Unclosed`). A leftover
of an earlier export is in none of these, because the temporary file is emptied.

`TextFormsProofs` proves what the loops over a text compute, for texts of any length and
characters, where a run has three characters of some classes:

- `LineRead`: a line of words, each between the quotes of the shell with a backslash
  before the quotes and backslashes in it, or without quotes if it has no blank and does
  not begin with a quote, is cut into those words, whatever blanks are behind them and
  at the end.
- `LiteralsMean`: a literal is read as the value it was written for: a text between
  double quotes, escaped as `convert_to_escaped_json_string` does or with every
  character as one or two units of UTF-16; between single quotes, if it has none; octets
  as `b"..."` or `b'...'`, those outside a range of printable ones as `\xNN`, and a
  continued line if there is one.

Each rests on the step of its loop: from every state, what was written for one character
leads back to the state before, with that character (`QuotedRead`, `UnicodeRead`,
`EscapedRead`, `OctetsLead`); `FoldAlong` of `Recursion` puts these together along the
text.

`Recursion` has no theorem of its own but what those and `MeantAsWritten` need: that a recursive function on
numbers is the one its definition says (`RecursiveFunction`), which the logic does not
give for a `CHOOSE`; that `FoldLeft`, `FoldRight` and `FlattenSeq` of `SequencesExt`
take the steps their comments promise (`FoldSteps`, `FoldConcat`, `FlattenSteps`,
`FlattenConcat`).
The induction theorems of the library take a predicate as a parameter, which the
provers here cannot instantiate; instead, the numbers up to which a claim holds are a
set, and a set with 0 and with the successor of each of its members has all of them
(`UpTo`), which follows from there being a least counterexample.

`SessionProofs` proves of `TableAdmin`, for all tables, backups, commands, units, other
users and numbers of attempts that satisfy `AdminAssumption` and `ModeAssumption` (an
update has one of the two modes or none, which clap's `value_parser` sees to), the two
action properties `UpdateFollowsOptions` (`AdminSpec => UpdatesFollowOptions`) and `RestoreMakesCopies`
(`AdminSpec => RestoresWhatWasNamed`). A request is sent several steps after the
look on which it is based, so the invariant says what remains true of what was
seen: `UpdateKnows`, the units in the request are, beside those given, those of the table
until others touch it, or with a mode the default or none; `RestoreKnows`, an ARN belongs to a backup of the table and name asked
for, whatever became of that backup since. `Asked` ties the request to the
command, so that no answer to another one is taken for it. The steps
of the surroundings are treated once (`RatesStay`, `BackupsStay`).

`SessionProofs` proves, for all scripts, command lines and conversions that satisfy
`ScriptsAssumption`, `AdminAssumption` and `ModeAssumption`:

- `SessionsImplementTableAdmin` (`Spec => ImplementsTableAdmin`), step by step: a
  command that begins is one of `Commands` or one on items (`Scripted` keeps that of
  the lines still to come), and what commands on items and other users do to a
  table replaces its items and nothing else of its fields. `SessionFollowsOptions` and
  `SessionMakesCopies` are then the theorems of `TableAdmin`, in a session.
- `SettingsStayOwn` (`Spec => []SettingsAreOwn`). The steps are sorted by what they do
  to the command (`NextSorts`): it looks, asks, asks again, returns, or `main` is at
  work. `ChoiceKept`: what the Context has for strict mode is the last choice in the
  history of this run, or of the command under way, or none; `Formatted` and
  `StrictMinded` say that the command keeps to what the Context has. `Remembered`
  tells the runs in the history apart.
- `SessionTyped` (`Spec => []TypeOK`). `Kept`: tables and the images of backups have
  units that fit their mode and storable items that their keys tell apart
  (`ReplacedKept`, `UpdatedKept`). `UpdateAsked`: the request of an update has a mode
  that there is, as clap has accepted it several steps before.
- `CountersCount` (`Spec => []CounterCounts`): as long as commands write items by
  counting alone, every counter of every table is between what was reported and what
  was sent, with what others added. `Standing` is that, for the commands concluded and
  the one under way together (`Done`). A step that counts nothing leaves items where
  they are (`ItemsStay`) and `Done` with as many requests sent and no new success
  (`Grows`); one that is executed adds to one counter and to the requests sent
  (`CountedStands`), one of others to `bumps` (`BumpedStands`). `AskedBy` ties the request
  that is sent to the command it is for. Two items, or tables, are told apart by the
  keys of `TypeOK`.
- `TypedAreStored` (`Spec => []TypedIsStored`), for all words, values and ways to write
  them: a run whose `meant` is not `None` types a `put` of a value, as `TypingAssumption`
  says of the scripts. By `LineRead` its line comes to those words, by `LiteralsMean` the
  literal in them to that value. `MeantInv` says what that means at each step: the
  command is that of the words (`MeantRun`), what it has seen of the table has the
  schema the run is meant for, since no step changes the schema of a table that stays
  (`KeysStay`), and its request is the one meant.

What is model-checked only: `Terminates` and `Ends`, which need fairness and are
out of the prover's reach; and `CopiesKeepItems`, which is about values nested in values:
`ItemValues` reads and writes them with operators that are `RECURSIVE`, as the code's
functions are, and the provers cannot unfold those.

## Not modelled

- Listing (`list_tables`, `list --all-regions`): one call and its printing per
  region, no state. It shows one page of at most 100 names.
- What is printed of descriptions, indexes, streams and capacity (`ddb/table.rs`),
  and the cells of the table format: layout of values that `seen` and `Found`
  have.
- How clap reads words (generated code); `Clap` stands for it, with the options of
  the commands in `ItemOptions` and `AdminOptions`.
- The pest grammar (generated): `Expressions` begins at parse trees, `TextForms` reads
  the inside of literals; literals nested in lists and maps are put together from
  those.
- Base64, and the text of numbers: libraries.
- `--limit`, `--index`, projections and `--consistent-read` of scan, query and get,
  passed on to the service unchanged.
- The decompression of the bundled samples.
- Two exports to one output file at once: the name of the temporary file is that of
  the output file, and the second is asked for confirmation.
- Retry and port settings, which the code carries along unchanged.
