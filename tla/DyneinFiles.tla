---------------------------- MODULE DyneinFiles ----------------------------
(***************************************************************************)
(* The two files dynein keeps between commands: config.yml, with the table *)
(* chosen by `dy use`, and cache.yml, with the schemas of described        *)
(* tables.  A process loads both into its Context when it starts and works *)
(* on that copy; it writes either file as a whole, by renaming a temporary *)
(* file.  Nothing locks the files, and a shell session is one process that *)
(* keeps its Context over many commands.                                   *)
(*                                                                         *)
(* A schema is its generation, the number of the creation it comes from:   *)
(* deleting a table and creating it again with other keys gives its name a *)
(* later generation.                                                       *)
(***************************************************************************)
EXTENDS Integers, FiniteSets

CONSTANTS
  Procs,          \* slots for dynein processes
  Names,          \* table names
  Regions,        \* regions; a table is a region and a name
  DefaultRegion,  \* the region of the environment
  None,           \* an option or field that is not set
  MaxGen,         \* bound: creations of tables
  MaxRuns,        \* bound: processes started
  MaxCommands     \* bound: commands of one shell session; 0 leaves sessions out

ASSUME NamesAssumption == None \notin Names /\ None \notin Regions
ASSUME DefaultRegionAssumption == DefaultRegion \in Regions
ASSUME BoundsAssumption == /\ MaxGen \in Nat \ {0}
                           /\ MaxRuns \in Nat
                           /\ MaxCommands \in Nat

Targets == Regions \X Names
Config == [region : Regions \cup {None}, table : Names \cup {None}]
Cache == [Targets -> 0..MaxGen]     \* 0: the table has no entry
NoConfig == [region |-> None, table |-> None]
NoCache == [t \in Targets |-> 0]

(***************************************************************************)
(* A Context and what its process is doing.  "config" and "cache" load a   *)
(* file, "configLost" and "cacheLost" are the points where it was found    *)
(* missing, "configNew" and "cacheNew" those where the default just        *)
(* written is read back.  seen holds the table descriptions received and   *)
(* not yet stored, todo the tables `desc --all-tables` has not described.  *)
(* raced and used are history: whether another process ran at the same     *)
(* time, and whether this one executed `dy use`.                           *)
(***************************************************************************)
Steps == {"idle", "config", "configLost", "configNew", "cache", "cacheLost",
          "cacheNew", "ready", "saveConfig", "saveUse", "saveDesc", "describeAll",
          "clearCache", "noTarget"}
Description == [table : Targets, gen : 1..MaxGen]
Process == [step : Steps, shell : BOOLEAN, left : 0..MaxCommands,
            region : Regions \cup {None}, table : Names \cup {None},
            config : Config, cache : Cache, dumping : BOOLEAN,
            todo : SUBSET Targets, seen : SUBSET Description,
            raced : BOOLEAN, used : BOOLEAN]

VARIABLES
  configFile,  \* {} when config.yml is missing, otherwise a set of one Config
  cacheFile,   \* likewise cache.yml
  schema,      \* the service: generation of each table, 0 when it does not exist
  created,     \* the service: tables created so far
  proc,        \* the processes
  runs,        \* processes started so far
  settled      \* history: nothing disturbed the files since they last agreed

vars == <<configFile, cacheFile, schema, created, proc, runs, settled>>

Idle == [step |-> "idle", shell |-> FALSE, left |-> 0, region |-> None,
         table |-> None, config |-> NoConfig, cache |-> NoCache,
         dumping |-> FALSE, todo |-> {}, seen |-> {}, raced |-> FALSE, used |-> FALSE]

Init == /\ configFile = {}
        /\ cacheFile = {}
        /\ schema = [t \in Targets |-> 0]
        /\ created = 0
        /\ proc = [p \in Procs |-> Idle]
        /\ runs = 0
        /\ settled = TRUE

-----------------------------------------------------------------------------
(* Context *)

\* effective_region: the option, else config.yml's, else the environment's.
EffectiveRegion(x) == IF x.region # None THEN x.region
                      ELSE IF x.config.region # None THEN x.config.region
                      ELSE DefaultRegion

\* effective_table_name, None where it exits the process.
EffectiveTable(x) == IF x.table # None THEN x.table ELSE x.config.table

\* Mutation of AfterCommand: the loop of the shell is entered in any case.
AfterCommandLoops(x) == IF x.left # 1
                        THEN [x EXCEPT !.step = "ready", !.left = @ - 1,
                                       !.dumping = FALSE, !.todo = {}, !.seen = {}]
                        ELSE Idle

\* The process after a command: a shell session reads the next one.
AfterCommand(x) == IF x.shell /\ x.left > 1
                   THEN [x EXCEPT !.step = "ready", !.left = @ - 1,
                                  !.dumping = FALSE, !.todo = {}, !.seen = {}]
                   ELSE Idle

Active(p) == proc[p].step # "idle"
Set(p, x) == proc' = [proc EXCEPT ![p] = x]
Move(p, step) == Set(p, [proc[p] EXCEPT !.step = step])

\* The processes when p starts with its options.
Started(p, shell, region, table) ==
  [q \in Procs |->
     IF q = p
     THEN [Idle EXCEPT !.step = "config", !.shell = shell, !.region = region, !.table = table,
                       !.left = IF shell THEN MaxCommands ELSE 0,
                       !.raced = \E o \in Procs : Active(o)]
     ELSE IF Active(q) THEN [proc[q] EXCEPT !.raced = TRUE] ELSE proc[q]]

\* main: a process starts, the others being aware of nothing.
Begin(p) ==
  /\ ~Active(p)
  /\ runs < MaxRuns
  /\ runs' = runs + 1
  /\ \E shell \in BOOLEAN, r \in Regions \cup {None}, t \in Names \cup {None} :
       /\ shell => MaxCommands > 0
       /\ proc' = Started(p, shell, r, t)
       /\ settled' = (settled /\ ~shell /\ \A o \in Procs : ~Active(o))
  /\ UNCHANGED <<configFile, cacheFile, schema, created>>

\* load_or_touch_config_file and load_or_touch_cache_file: read; if the file is
\* missing write the default, whatever is there by now, and read again; if it is
\* missing again, give up.  A starting process loads the config and then the
\* cache, `dy config dump` the cache and then the config.
GiveUp(x) == IF x.dumping THEN AfterCommand(x) ELSE Idle

LoadConfig(p) ==
  LET x == proc[p] IN
  /\ x.step \in {"config", "configNew"}
  /\ \/ \E c \in configFile :
          Set(p, IF x.dumping THEN AfterCommand(x)
                 ELSE [x EXCEPT !.step = "cache", !.config = c])
     \/ /\ configFile = {}
        /\ Set(p, IF x.step = "config" THEN [x EXCEPT !.step = "configLost"]
                  ELSE GiveUp(x))
  /\ UNCHANGED <<configFile, cacheFile, schema, created, runs, settled>>

TouchConfig(p) ==
  /\ proc[p].step = "configLost"
  /\ configFile' = {NoConfig}
  /\ Move(p, "configNew")
  /\ UNCHANGED <<cacheFile, schema, created, runs, settled>>

LoadCache(p) ==
  LET x == proc[p] IN
  /\ x.step \in {"cache", "cacheNew"}
  /\ \/ \E c \in cacheFile :
          Set(p, IF x.dumping THEN [x EXCEPT !.step = "config"]
                 ELSE [x EXCEPT !.step = "ready", !.cache = c])
     \/ /\ cacheFile = {}
        /\ Set(p, IF x.step = "cache" THEN [x EXCEPT !.step = "cacheLost"]
                  ELSE GiveUp(x))
  /\ UNCHANGED <<configFile, cacheFile, schema, created, runs, settled>>

TouchCache(p) ==
  /\ proc[p].step = "cacheLost"
  /\ cacheFile' = {NoCache}
  /\ Move(p, "cacheNew")
  /\ UNCHANGED <<configFile, schema, created, runs, settled>>

-----------------------------------------------------------------------------
(* Commands that write the files *)

\* describe_table_api; it exits the process when the table does not exist.
Describe(p, t, step) ==
  IF schema[t] = 0
  THEN Set(p, Idle)
  ELSE Set(p, [proc[p] EXCEPT !.step = step,
                              !.seen = {[table |-> t, gen |-> schema[t]]}])

\* dy use: --table wins over the positional argument.
Use(p) ==
  /\ proc[p].step = "ready"
  /\ \E name \in Names :
       LET x == proc[p]
           target == IF x.table # None THEN x.table ELSE name
       IN Describe(p, <<EffectiveRegion(x), target>>, "saveConfig")
  /\ UNCHANGED <<configFile, cacheFile, schema, created, runs, settled>>

\* Mutation of SaveConfig: a region already in the config is kept.
SaveConfigKeepsRegion(p) ==
  /\ proc[p].step = "saveConfig"
  /\ \E d \in proc[p].seen :
       LET x == proc[p]
           c == [region |-> IF x.config.region # None THEN x.config.region
                            ELSE d.table[1],
                 table |-> d.table[2]]
       IN /\ configFile' = {c}
          /\ Set(p, [x EXCEPT !.step = "saveUse", !.config = c, !.used = TRUE])
  /\ UNCHANGED <<cacheFile, schema, created, runs, settled>>

\* save_using_target changes the Context's config and writes it...
SaveConfig(p) ==
  /\ proc[p].step = "saveConfig"
  /\ \E d \in proc[p].seen :
       LET c == [region |-> d.table[1], table |-> d.table[2]]
       IN /\ configFile' = {c}
          /\ Set(p, [proc[p] EXCEPT !.step = "saveUse", !.config = c, !.used = TRUE])
  /\ UNCHANGED <<cacheFile, schema, created, runs, settled>>

\* Mutation of WithEntry: the cache is started afresh.
WithEntryOnly(x, d) == {[NoCache EXCEPT ![d.table] = d.gen]}

\* ...and then insert_to_table_cache writes the Context's cache with one entry
\* set.  The Context's own cache stays as it was loaded.
WithEntry(x, d) == {[x.cache EXCEPT ![d.table] = d.gen]}

SaveUse(p) ==
  LET x == proc[p] IN
  /\ x.step = "saveUse"
  /\ \E d \in x.seen :
       /\ cacheFile' = WithEntry(x, d)
       /\ settled' = (d.gen = schema[d.table] /\ (settled \/ ~(x.raced \/ x.shell)))
  /\ Set(p, AfterCommand(x))
  /\ UNCHANGED <<configFile, schema, created, runs>>

\* dy desc: the positional argument wins over --table, which wins over the
\* table in use.
Desc(p) ==
  /\ proc[p].step = "ready"
  /\ \E name \in Names \cup {None} :
       LET x == proc[p]
           target == IF name # None THEN name ELSE EffectiveTable(x)
       IN IF target = None
          THEN Move(p, "noTarget")
          ELSE Describe(p, <<EffectiveRegion(x), target>>, "saveDesc")
  /\ UNCHANGED <<configFile, cacheFile, schema, created, runs, settled>>

SaveDesc(p) ==
  /\ proc[p].step = "saveDesc"
  /\ \E d \in proc[p].seen : cacheFile' = WithEntry(proc[p], d)
  /\ Set(p, AfterCommand(proc[p]))
  /\ UNCHANGED <<configFile, schema, created, runs, settled>>

\* dy desc --all-tables: list the region's tables, then describe them all at
\* once; each answer is stored as it comes, from the same Context.
DescAll(p) ==
  /\ proc[p].step = "ready"
  /\ LET here == {t \in Targets : t[1] = EffectiveRegion(proc[p]) /\ schema[t] > 0}
     IN Set(p, [proc[p] EXCEPT !.step = "describeAll", !.todo = here])
  /\ UNCHANGED <<configFile, cacheFile, schema, created, runs, settled>>

DescribeOne(p) ==
  /\ proc[p].step = "describeAll"
  /\ \E t \in proc[p].todo :
       IF schema[t] = 0
       THEN Set(p, Idle)
       ELSE Set(p, [proc[p] EXCEPT !.todo = @ \ {t},
                                   !.seen = @ \cup {[table |-> t, gen |-> schema[t]]}])
  /\ UNCHANGED <<configFile, cacheFile, schema, created, runs, settled>>

SaveOne(p) ==
  /\ proc[p].step = "describeAll"
  /\ \E d \in proc[p].seen :
       /\ cacheFile' = WithEntry(proc[p], d)
       /\ Set(p, [proc[p] EXCEPT !.seen = @ \ {d}])
  /\ UNCHANGED <<configFile, schema, created, runs, settled>>

FinishDescAll(p) ==
  /\ proc[p].step = "describeAll"
  /\ proc[p].todo = {}
  /\ proc[p].seen = {}
  /\ Set(p, AfterCommand(proc[p]))
  /\ UNCHANGED <<configFile, cacheFile, schema, created, runs, settled>>

\* dy config clear: both files are removed, and one that is missing ends it.
Clear(p) ==
  /\ proc[p].step = "ready"
  /\ configFile' = {}
  /\ Set(p, IF configFile = {} THEN AfterCommand(proc[p])
            ELSE [proc[p] EXCEPT !.step = "clearCache", !.used = FALSE])
  /\ UNCHANGED <<cacheFile, schema, created, runs, settled>>

ClearCache(p) ==
  /\ proc[p].step = "clearCache"
  /\ cacheFile' = {}
  /\ Set(p, AfterCommand(proc[p]))
  /\ UNCHANGED <<configFile, schema, created, runs, settled>>

Dump(p) ==
  /\ proc[p].step = "ready"
  /\ Set(p, [proc[p] EXCEPT !.step = "cache", !.dumping = TRUE])
  /\ UNCHANGED <<configFile, cacheFile, schema, created, runs, settled>>

-----------------------------------------------------------------------------
(* Commands that need a schema, and ends of processes *)

\* table_schema: with --table the table is described, without it the Context's
\* cache must have the target of the Context's config.
TableSchema(p) ==
  /\ proc[p].step = "ready"
  /\ LET x == proc[p]
         t == <<EffectiveRegion(x), EffectiveTable(x)>>
     IN IF x.table # None
        THEN Set(p, IF schema[t] = 0 THEN Idle ELSE AfterCommand(x))
        ELSE IF EffectiveTable(x) = None THEN Move(p, "noTarget")
        ELSE IF x.cache[t] = 0 THEN Move(p, "noTarget")
        ELSE Set(p, AfterCommand(x))
  /\ UNCHANGED <<configFile, cacheFile, schema, created, runs, settled>>

\* "To execute the command you must specify target table", and exit(1).
NoEffectiveTable(p) ==
  /\ proc[p].step = "noTarget"
  /\ Set(p, Idle)
  /\ UNCHANGED <<configFile, cacheFile, schema, created, runs, settled>>

\* Any other command, or the end of the shell's input.
Quit(p) ==
  /\ proc[p].step = "ready"
  /\ Set(p, Idle)
  /\ UNCHANGED <<configFile, cacheFile, schema, created, runs, settled>>

\* A process is killed; the files are whatever the last rename left.
Crash(p) ==
  /\ Active(p)
  /\ Set(p, Idle)
  /\ settled' = FALSE
  /\ UNCHANGED <<configFile, cacheFile, schema, created, runs>>

-----------------------------------------------------------------------------
(* The service *)

CreateTable(t) ==
  /\ schema[t] = 0
  /\ created < MaxGen
  /\ created' = created + 1
  /\ schema' = [schema EXCEPT ![t] = created + 1]
  /\ UNCHANGED <<configFile, cacheFile, proc, runs, settled>>

DeleteTable(t) ==
  /\ schema[t] > 0
  /\ schema' = [schema EXCEPT ![t] = 0]
  /\ settled' = FALSE
  /\ UNCHANGED <<configFile, cacheFile, created, proc, runs>>

-----------------------------------------------------------------------------
Step(p) ==
  \/ Begin(p) \/ LoadConfig(p) \/ TouchConfig(p) \/ LoadCache(p) \/ TouchCache(p)
  \/ Use(p) \/ SaveConfig(p) \/ SaveUse(p) \/ Desc(p) \/ SaveDesc(p)
  \/ DescAll(p) \/ DescribeOne(p) \/ SaveOne(p) \/ FinishDescAll(p)
  \/ Clear(p) \/ ClearCache(p) \/ Dump(p)
  \/ TableSchema(p) \/ NoEffectiveTable(p) \/ Quit(p) \/ Crash(p)

Next == \/ \E p \in Procs : Step(p)
        \/ \E t \in Targets : CreateTable(t) \/ DeleteTable(t)

Spec == Init /\ [][Next]_vars

-----------------------------------------------------------------------------
(* Properties *)

Files(S) == {{}} \cup {{c} : c \in S}

\* The files and each Context hold what the code can put there, and each
\* process is at a step of a command with the local state that step has.
TypeOK == /\ configFile \in Files(Config)
          /\ cacheFile \in Files(Cache)
          /\ schema \in [Targets -> 0..MaxGen]
          /\ created \in 0..MaxGen
          /\ proc \in [Procs -> Process]
          /\ runs \in 0..MaxRuns
          /\ settled \in BOOLEAN

\* The two files agree between commands: the table in use has a cached schema,
\* and it is the current one.  A crash, a second process, a shell session or the
\* deletion of a table may disturb that, and one `dy use` run by itself repairs
\* it, whatever state it finds.
TargetIsCached ==
  (settled /\ \A p \in Procs : ~Active(p)) =>
    \A c \in configFile :
      c.table # None =>
        \E k \in cacheFile :
          LET t == <<EffectiveRegion([Idle EXCEPT !.config = c]), c.table>>
          IN k[t] > 0 /\ k[t] = schema[t]

\* An entry of the cache disappears only in `dy config clear`, in a shell
\* session, in `desc --all-tables`, or because two processes ran at once and the
\* later write came from an older Context.
Entries(f) == {t \in Targets : \E k \in f : k[t] > 0}
EntriesLostByRaceOnly ==
  [][Entries(cacheFile) \subseteq Entries(cacheFile') \/
     \E p \in Procs : /\ proc'[p] # proc[p]
                      /\ \/ proc[p].step \in {"clearCache", "describeAll"}
                         \/ proc[p].shell
                         \/ proc[p].raced]_vars

\* "After you use the command you don't need to specify table every time" (help
\* text of `dy use`): in a session that executed it, a command finds its table.
UsedTableIsKnown == \A p \in Procs : proc[p].step = "noTarget" => ~proc[p].used
=============================================================================
