-------------------------- MODULE DyneinFilesProofs --------------------------
(***************************************************************************)
(* Proofs about DyneinFiles, for any number of processes, names, regions,  *)
(* creations and commands: what the files and the Contexts can hold, and   *)
(* that one undisturbed `dy use` makes the two files agree.                *)
(***************************************************************************)
EXTENDS DyneinFiles, TLAPS

-----------------------------------------------------------------------------
(* Types *)

\* A process that does nothing is a process.
LEMMA IdleType == Idle \in Process /\ NoConfig \in Config /\ NoCache \in Cache
  BY BoundsAssumption DEF Idle, Process, Steps, NoConfig, NoCache, Config, Cache

\* Between two commands a process is idle or ready for the next one.
LEMMA AfterType == ASSUME NEW x \in Process PROVE AfterCommand(x) \in Process
<1>1. CASE x.shell /\ x.left > 1
  <2>1. x.left - 1 \in 0..MaxCommands
    BY <1>1, BoundsAssumption DEF Process
  <2>2. AfterCommand(x) = [x EXCEPT !.step = "ready", !.left = x.left - 1,
                                    !.dumping = FALSE, !.todo = {}, !.seen = {}]
    BY <1>1 DEF AfterCommand
  <2> QED
    BY <2>1, <2>2 DEF Process, Steps
<1>2. CASE ~(x.shell /\ x.left > 1)
  BY <1>2, IdleType DEF AfterCommand
<1> QED
  BY <1>1, <1>2

\* A process that goes on to another step is a process.
LEMMA MoveType ==
  ASSUME NEW x \in Process, NEW s \in Steps
  PROVE  [x EXCEPT !.step = s] \in Process
  BY DEF Process

\* Where a process looks for a table.
LEMMA TargetType ==
  ASSUME NEW x \in Process
  PROVE  /\ EffectiveRegion(x) \in Regions
         /\ EffectiveTable(x) \in Names \cup {None}
  BY DefaultRegionAssumption DEF Process, Config, EffectiveRegion, EffectiveTable

\* One process changes.
LEMMA SetType ==
  ASSUME TypeOK, NEW p \in Procs, NEW x \in Process, Set(p, x)
  PROVE  proc' \in [Procs -> Process]
  BY DEF TypeOK, Set

\* What a table is described as.
LEMMA DescribeType ==
  ASSUME TypeOK, NEW p \in Procs, NEW t \in Targets, NEW s \in Steps, Describe(p, t, s)
  PROVE  proc' \in [Procs -> Process]
<1>1. proc[p] \in Process
  BY DEF TypeOK
<1>2. CASE schema[t] = 0
  BY <1>2, IdleType, SetType DEF Describe
<1>3. CASE schema[t] # 0
  <2>1. schema[t] \in 1..MaxGen
    BY <1>3, BoundsAssumption DEF TypeOK
  <2>2. [table |-> t, gen |-> schema[t]] \in Description
    BY <2>1 DEF Description
  <2>3. [proc[p] EXCEPT !.step = s, !.seen = {[table |-> t, gen |-> schema[t]]}] \in Process
    BY <1>1, <2>2 DEF Process
  <2> QED
    BY <1>3, <2>3, SetType DEF Describe
<1> QED
  BY <1>2, <1>3

\* A new entry in a cache.
LEMMA WithEntryType ==
  ASSUME NEW x \in Process, NEW d \in Description
  PROVE  WithEntry(x, d) \in Files(Cache)
  BY BoundsAssumption DEF WithEntry, Files, Cache, Description, Process

\* Nothing is there at the start.
LEMMA TypeInit == Init => TypeOK
  BY IdleType, BoundsAssumption DEF Init, TypeOK, Files

\* A process starts, and the others stay what they are.
LEMMA StartedType ==
  ASSUME TypeOK, NEW p \in Procs, NEW shell \in BOOLEAN,
         NEW r \in Regions \cup {None}, NEW t \in Names \cup {None}
  PROVE  Started(p, shell, r, t) \in [Procs -> Process]
<1>1. (IF shell THEN MaxCommands ELSE 0) \in 0..MaxCommands
  BY BoundsAssumption
<1>2. ASSUME NEW b \in BOOLEAN, NEW l \in 0..MaxCommands
      PROVE  [Idle EXCEPT !.step = "config", !.shell = shell, !.region = r, !.table = t,
                          !.left = l, !.raced = b] \in Process
  BY IdleType DEF Process, Steps
<1>3. (\E o \in Procs : Active(o)) \in BOOLEAN
  OBVIOUS
<1>4. [Idle EXCEPT !.step = "config", !.shell = shell, !.region = r, !.table = t,
                   !.left = IF shell THEN MaxCommands ELSE 0,
                   !.raced = \E o \in Procs : Active(o)] \in Process
  BY <1>1, <1>2, <1>3
<1>5. \A q \in Procs : [proc[q] EXCEPT !.raced = TRUE] \in Process /\ proc[q] \in Process
  BY DEF TypeOK, Process
<1> QED
  BY <1>4, <1>5 DEF Started

\* A step of a process keeps the types.
LEMMA TypeProcess ==
  ASSUME TypeOK, NEW p \in Procs, Step(p)
  PROVE  TypeOK'
<1>x. proc[p] \in Process
  BY DEF TypeOK
<1>f. /\ configFile \in Files(Config) /\ cacheFile \in Files(Cache)
      /\ schema \in [Targets -> 0..MaxGen] /\ created \in 0..MaxGen
      /\ runs \in 0..MaxRuns /\ settled \in BOOLEAN
  BY DEF TypeOK
<1>c. /\ \A c \in configFile : c \in Config /\ configFile = {c}
      /\ \A c \in cacheFile : c \in Cache /\ cacheFile = {c}
  BY <1>f DEF Files
<1>1. CASE Begin(p)
  <2>1. /\ runs' \in 0..MaxRuns
        /\ UNCHANGED <<configFile, cacheFile, schema, created>>
    BY <1>1, <1>f, BoundsAssumption DEF Begin
  <2>2. PICK shell \in BOOLEAN, r \in Regions \cup {None}, t \in Names \cup {None} :
          /\ proc' = Started(p, shell, r, t)
          /\ settled' = (settled /\ ~shell /\ \A o \in Procs : ~Active(o))
    BY <1>1 DEF Begin
  <2>3. settled' \in BOOLEAN
    BY <2>2
  <2>4. proc' \in [Procs -> Process]
    BY <2>2, StartedType
  <2> QED
    BY <2>1, <2>3, <2>4, <1>f DEF TypeOK
<1>2. CASE LoadConfig(p)
  <2>1. \A c \in configFile : [proc[p] EXCEPT !.step = "cache", !.config = c] \in Process
    BY <1>x, <1>c DEF Process, Steps
  <2>2. AfterCommand(proc[p]) \in Process /\ GiveUp(proc[p]) \in Process
    BY <1>x, AfterType, IdleType DEF GiveUp
  <2>3. [proc[p] EXCEPT !.step = "configLost"] \in Process
    BY <1>x, MoveType DEF Steps
  <2>4. \E y \in Process : Set(p, y)
    BY <1>2, <2>1, <2>2, <2>3 DEF LoadConfig
  <2>5. proc' \in [Procs -> Process]
    BY <2>4, SetType
  <2> QED
    BY <1>2, <1>f, <2>5 DEF LoadConfig, TypeOK
<1>3. CASE TouchConfig(p)
  <2>1. [proc[p] EXCEPT !.step = "configNew"] \in Process
    BY <1>x, MoveType DEF Steps
  <2>2. proc' \in [Procs -> Process]
    BY <1>3, <2>1, SetType DEF TouchConfig, Move
  <2>3. configFile' \in Files(Config)
    BY <1>3, IdleType DEF TouchConfig, Files
  <2> QED
    BY <1>3, <1>f, <2>2, <2>3 DEF TouchConfig, TypeOK
<1>4. CASE LoadCache(p)
  <2>1. \A c \in cacheFile : [proc[p] EXCEPT !.step = "ready", !.cache = c] \in Process
    BY <1>x, <1>c DEF Process, Steps
  <2>2. GiveUp(proc[p]) \in Process
    BY <1>x, AfterType, IdleType DEF GiveUp
  <2>3. /\ [proc[p] EXCEPT !.step = "cacheLost"] \in Process
        /\ [proc[p] EXCEPT !.step = "config"] \in Process
    BY <1>x, MoveType DEF Steps
  <2>4. \E y \in Process : Set(p, y)
    BY <1>4, <2>1, <2>2, <2>3 DEF LoadCache
  <2>5. proc' \in [Procs -> Process]
    BY <2>4, SetType
  <2> QED
    BY <1>4, <1>f, <2>5 DEF LoadCache, TypeOK
<1>5. CASE TouchCache(p)
  <2>1. [proc[p] EXCEPT !.step = "cacheNew"] \in Process
    BY <1>x, MoveType DEF Steps
  <2>2. proc' \in [Procs -> Process]
    BY <1>5, <2>1, SetType DEF TouchCache, Move
  <2>3. cacheFile' \in Files(Cache)
    BY <1>5, IdleType DEF TouchCache, Files
  <2> QED
    BY <1>5, <1>f, <2>2, <2>3 DEF TouchCache, TypeOK
<1>6. CASE Use(p)
  <2>1. \E t \in Targets : Describe(p, t, "saveConfig")
    <3>1. PICK name \in Names :
            Describe(p, <<EffectiveRegion(proc[p]),
                          IF proc[p].table # None THEN proc[p].table ELSE name>>, "saveConfig")
      BY <1>6 DEF Use
    <3>2. <<EffectiveRegion(proc[p]), IF proc[p].table # None THEN proc[p].table ELSE name>> \in Targets
      BY <1>x, TargetType DEF Targets, Process
    <3> QED
      BY <3>1, <3>2
  <2>2. proc' \in [Procs -> Process]
    BY <2>1, DescribeType DEF Steps
  <2> QED
    BY <1>6, <1>f, <2>2 DEF Use, TypeOK
<1>7. CASE SaveConfig(p)
  <2>1. PICK d \in proc[p].seen :
          /\ configFile' = {[region |-> d.table[1], table |-> d.table[2]]}
          /\ Set(p, [proc[p] EXCEPT !.step = "saveUse",
                                    !.config = [region |-> d.table[1], table |-> d.table[2]],
                                    !.used = TRUE])
    BY <1>7 DEF SaveConfig
  <2>2. [region |-> d.table[1], table |-> d.table[2]] \in Config
    BY <1>x DEF Process, Description, Targets, Config
  <2>3. [proc[p] EXCEPT !.step = "saveUse",
                        !.config = [region |-> d.table[1], table |-> d.table[2]],
                        !.used = TRUE] \in Process
    BY <1>x, <2>2 DEF Process, Steps
  <2>4. proc' \in [Procs -> Process]
    BY <2>1, <2>3, SetType
  <2>5. configFile' \in Files(Config)
    BY <2>1, <2>2 DEF Files
  <2> QED
    BY <1>7, <1>f, <2>4, <2>5 DEF SaveConfig, TypeOK
<1>8. CASE SaveUse(p) \/ SaveDesc(p)
  <2>1. proc' \in [Procs -> Process]
    BY <1>8, <1>x, AfterType, SetType DEF SaveUse, SaveDesc
  <2>2. \E d \in proc[p].seen : cacheFile' = WithEntry(proc[p], d)
    BY <1>8 DEF SaveUse, SaveDesc
  <2>3. cacheFile' \in Files(Cache)
    BY <1>x, <2>2, WithEntryType DEF Process
  <2>4. settled' \in BOOLEAN
    BY <1>8, <1>f, <1>x DEF SaveUse, SaveDesc, Process
  <2> QED
    BY <1>8, <1>f, <2>1, <2>3, <2>4 DEF SaveUse, SaveDesc, TypeOK
<1>9. CASE Desc(p)
  <2>1. \/ Move(p, "noTarget")
        \/ \E t \in Targets : Describe(p, t, "saveDesc")
    <3>1. PICK name \in Names \cup {None} :
            LET target == IF name # None THEN name ELSE EffectiveTable(proc[p])
            IN IF target = None THEN Move(p, "noTarget")
               ELSE Describe(p, <<EffectiveRegion(proc[p]), target>>, "saveDesc")
      BY <1>9 DEF Desc
    <3>2. ASSUME NEW target \in Names PROVE <<EffectiveRegion(proc[p]), target>> \in Targets
      BY <1>x, TargetType DEF Targets
    <3> QED
      BY <1>x, <3>1, <3>2, TargetType
  <2>2. Move(p, "noTarget") => proc' \in [Procs -> Process]
    BY <1>x, MoveType, SetType DEF Move, Steps
  <2>3. (\E t \in Targets : Describe(p, t, "saveDesc")) => proc' \in [Procs -> Process]
    BY DescribeType DEF Steps
  <2>4. proc' \in [Procs -> Process]
    BY <2>1, <2>2, <2>3
  <2> QED
    BY <1>9, <1>f, <2>4 DEF Desc, TypeOK
<1>10. CASE DescAll(p)
  <2>1. PICK here \in SUBSET Targets : Set(p, [proc[p] EXCEPT !.step = "describeAll", !.todo = here])
    BY <1>10 DEF DescAll
  <2>2. [proc[p] EXCEPT !.step = "describeAll", !.todo = here] \in Process
    BY <1>x DEF Process, Steps
  <2>3. proc' \in [Procs -> Process]
    BY <2>1, <2>2, SetType
  <2> QED
    BY <1>10, <1>f, <2>3 DEF DescAll, TypeOK
<1>11. CASE DescribeOne(p)
  <2>1. PICK t \in proc[p].todo :
          IF schema[t] = 0
          THEN Set(p, Idle)
          ELSE Set(p, [proc[p] EXCEPT !.todo = @ \ {t},
                                      !.seen = @ \cup {[table |-> t, gen |-> schema[t]]}])
    BY <1>11 DEF DescribeOne
  <2>2. t \in Targets
    BY <1>x DEF Process
  <2>3. ASSUME schema[t] # 0
        PROVE  [proc[p] EXCEPT !.todo = @ \ {t},
                               !.seen = @ \cup {[table |-> t, gen |-> schema[t]]}] \in Process
    <3>1. [table |-> t, gen |-> schema[t]] \in Description
      BY <1>f, <2>2, <2>3, BoundsAssumption DEF Description
    <3> QED
      BY <1>x, <3>1 DEF Process
  <2>4. proc' \in [Procs -> Process]
    BY <2>1, <2>3, IdleType, SetType
  <2> QED
    BY <1>11, <1>f, <2>4 DEF DescribeOne, TypeOK
<1>12. CASE SaveOne(p)
  <2>1. PICK d \in proc[p].seen : /\ cacheFile' = WithEntry(proc[p], d)
                                  /\ Set(p, [proc[p] EXCEPT !.seen = @ \ {d}])
    BY <1>12 DEF SaveOne
  <2>2. [proc[p] EXCEPT !.seen = @ \ {d}] \in Process
    BY <1>x DEF Process
  <2>3. proc' \in [Procs -> Process]
    BY <2>1, <2>2, SetType
  <2>4. cacheFile' \in Files(Cache)
    BY <1>x, <2>1, WithEntryType DEF Process
  <2> QED
    BY <1>12, <1>f, <2>3, <2>4 DEF SaveOne, TypeOK
<1>13. CASE Clear(p)
  <2>1. [proc[p] EXCEPT !.step = "clearCache", !.used = FALSE] \in Process
    BY <1>x DEF Process, Steps
  <2>2. proc' \in [Procs -> Process]
    BY <1>13, <1>x, <2>1, AfterType, SetType DEF Clear
  <2> QED
    BY <1>13, <1>f, <2>2 DEF Clear, TypeOK, Files
<1>14. CASE ClearCache(p) \/ FinishDescAll(p)
  <2>1. proc' \in [Procs -> Process]
    BY <1>14, <1>x, AfterType, SetType DEF ClearCache, FinishDescAll
  <2> QED
    BY <1>14, <1>f, <2>1 DEF ClearCache, FinishDescAll, TypeOK, Files
<1>15. CASE Dump(p)
  <2>1. [proc[p] EXCEPT !.step = "cache", !.dumping = TRUE] \in Process
    BY <1>x DEF Process, Steps
  <2>2. proc' \in [Procs -> Process]
    BY <1>15, <2>1, SetType DEF Dump
  <2> QED
    BY <1>15, <1>f, <2>2 DEF Dump, TypeOK
<1>16. CASE TableSchema(p)
  <2>1. [proc[p] EXCEPT !.step = "noTarget"] \in Process
    BY <1>x, MoveType DEF Steps
  <2>2. \E y \in Process : Set(p, y)
    BY <1>16, <1>x, <2>1, AfterType, IdleType DEF TableSchema, Move
  <2>3. proc' \in [Procs -> Process]
    BY <2>2, SetType
  <2> QED
    BY <1>16, <1>f, <2>3 DEF TableSchema, TypeOK
<1>17. CASE NoEffectiveTable(p) \/ Quit(p) \/ Crash(p)
  <2>1. proc' \in [Procs -> Process]
    BY <1>17, IdleType, SetType DEF NoEffectiveTable, Quit, Crash
  <2> QED
    BY <1>17, <1>f, <2>1 DEF NoEffectiveTable, Quit, Crash, TypeOK
<1> QED
  BY <1>1, <1>2, <1>3, <1>4, <1>5, <1>6, <1>7, <1>8, <1>9, <1>10, <1>11, <1>12, <1>13, <1>14,
     <1>15, <1>16, <1>17 DEF Step

\* Every step keeps the types.
LEMMA TypeStep == TypeOK /\ [Next]_vars => TypeOK'
<1> SUFFICES ASSUME TypeOK, [Next]_vars PROVE TypeOK'
  OBVIOUS
<1>1. ASSUME NEW p \in Procs, Step(p) PROVE TypeOK'
  BY <1>1, TypeProcess
<1>2. ASSUME NEW t \in Targets, CreateTable(t) PROVE TypeOK'
  BY <1>2, BoundsAssumption DEF CreateTable, TypeOK
<1>3. ASSUME NEW t \in Targets, DeleteTable(t) PROVE TypeOK'
  <2>1. schema' \in [Targets -> 0..MaxGen]
    BY <1>3, BoundsAssumption DEF DeleteTable, TypeOK
  <2>2. settled' = FALSE /\ UNCHANGED <<configFile, cacheFile, created, proc, runs>>
    BY <1>3 DEF DeleteTable
  <2> QED
    BY <2>1, <2>2 DEF TypeOK
<1>4. CASE UNCHANGED vars
  BY <1>4 DEF vars, TypeOK
<1> QED
  BY <1>1, <1>2, <1>3, <1>4 DEF Next

\* The files and each Context hold what the code can put there, for any number of
\* processes, tables and commands.
THEOREM TypeCorrect == Spec => []TypeOK
  BY TypeInit, TypeStep, PTL DEF Spec

-----------------------------------------------------------------------------
(* The two files agree *)

\* Where a command without options looks for its table.
Home(c) == <<IF c.region # None THEN c.region ELSE DefaultRegion, c.table>>

\* A cache has the current schema of the table in use.
Agrees(k) == \A c \in configFile : c.table # None => k[Home(c)] > 0 /\ k[Home(c)] = schema[Home(c)]

\* A process that met no other is alone.
Alone == \A p \in Procs : Active(p) /\ ~proc[p].raced => \A q \in Procs : Active(q) => q = p

\* While nothing disturbs the files, at most one process runs, for one command.
Undisturbed == settled => \A p \in Procs : Active(p) => ~proc[p].raced /\ ~proc[p].shell

\* A description stays true until a table is deleted.
Described == settled => \A p \in Procs : Active(p) => \A d \in proc[p].seen : d.gen = schema[d.table]

\* `use` has one description, and the config it wrote stays until the cache is
\* written as well.
Chosen == \A p \in Procs :
  /\ proc[p].step \in {"saveConfig", "saveUse"} => \E d \in Description : proc[p].seen = {d}
  /\ proc[p].step = "saveUse" /\ ~proc[p].raced =>
       \A d \in proc[p].seen : configFile = {[region |-> d.table[1], table |-> d.table[2]]}

\* The files agree at all times but between the two writes of `use`.
FilesAgree ==
  settled /\ (\A p \in Procs : proc[p].step # "saveUse") =>
    \A c \in configFile : c.table # None =>
      \E k \in cacheFile : k[Home(c)] > 0 /\ k[Home(c)] = schema[Home(c)]

\* So does the Context's cache while its process may write it.
Writers == {"ready", "saveDesc", "describeAll"}
ContextAgrees == settled => \A p \in Procs : proc[p].step \in Writers => Agrees(proc[p].cache)

\* What a process found missing or has removed is not there.
Missing == settled => \A p \in Procs :
  /\ proc[p].step = "cacheLost" => cacheFile = {}
  /\ proc[p].step = "clearCache" => configFile = {}

FilesInv == /\ TypeOK /\ Alone /\ Undisturbed /\ Described /\ Chosen
            /\ FilesAgree /\ ContextAgrees /\ Missing

\* The table in use is a table.
LEMMA HomeType ==
  ASSUME NEW c \in Config, c.table # None
  PROVE  Home(c) \in Targets
  BY DefaultRegionAssumption DEF Home, Config, Targets

\* It is the one a command without options would take.
LEMMA HomeIsEffective ==
  ASSUME NEW c \in Config
  PROVE  Home(c) = <<EffectiveRegion([Idle EXCEPT !.config = c]), c.table>>
  BY DEF Home, EffectiveRegion, Idle, Config

\* What a process does that leaves the files alone.
LEMMA QuietStep ==
  ASSUME FilesInv, TypeOK', NEW p \in Procs, NEW y \in Process, Active(p), proc[p].step # "saveUse", Set(p, y),
         UNCHANGED <<configFile, cacheFile, schema, settled>>,
         y.step # "idle" => y.raced = proc[p].raced /\ y.shell = proc[p].shell,
         y.step # "saveUse",
         settled /\ y.step # "idle" => \A d \in y.seen : d.gen = schema[d.table],
         y.step = "saveConfig" => \E d \in Description : y.seen = {d},
         settled /\ y.step \in Writers => Agrees(y.cache),
         settled /\ y.step = "cacheLost" => cacheFile = {},
         y.step # "clearCache"
  PROVE  FilesInv'
<1>1. \A q \in Procs : proc'[q] = IF q = p THEN y ELSE proc[q]
  BY DEF Set, FilesInv, TypeOK
<1>2. Alone' /\ Undisturbed'
  BY <1>1 DEF FilesInv, Alone, Undisturbed, Active
<1>3. Described'
  BY <1>1 DEF FilesInv, Described, Active
<1>4. Chosen'
  BY <1>1 DEF FilesInv, Chosen
<1>5. FilesAgree'
  BY <1>1 DEF FilesInv, FilesAgree, Home
<1>6. ContextAgrees'
  BY <1>1 DEF FilesInv, ContextAgrees, Agrees, Home
<1>7. Missing'
  BY <1>1 DEF FilesInv, Missing
<1> QED
  BY <1>2, <1>3, <1>4, <1>5, <1>6, <1>7 DEF FilesInv

\* Nothing is chosen at the start.
LEMMA FilesInit == Init => FilesInv
<1> SUFFICES ASSUME Init PROVE FilesInv
  OBVIOUS
<1>1. TypeOK
  BY TypeInit
<1>2. \A p \in Procs : proc[p] = Idle /\ Idle.step = "idle" /\ Idle.seen = {}
  BY DEF Init, Idle
<1> QED
  BY <1>1, <1>2 DEF Init, FilesInv, Alone, Undisturbed, Described, Chosen, FilesAgree, ContextAgrees,
                    Missing, Active, Writers

\* A process starts: it disturbs the others, and they it.
LEMMA BeginInv == ASSUME FilesInv, TypeOK', NEW p \in Procs, Begin(p) PROVE FilesInv'
<1>1. PICK shell \in BOOLEAN, r \in Regions \cup {None}, t \in Names \cup {None} :
        /\ proc' = Started(p, shell, r, t)
        /\ settled' = (settled /\ ~shell /\ \A o \in Procs : ~Active(o))
  BY DEF Begin
<1>2. /\ ~Active(p) /\ UNCHANGED <<configFile, cacheFile, schema>>
      /\ \A q \in Procs : proc[q] \in Process
  BY DEF Begin, FilesInv, TypeOK
<1>3. /\ proc'[p].step = "config" /\ proc'[p].shell = shell /\ proc'[p].seen = {}
      /\ proc'[p].raced = \E o \in Procs : Active(o)
  BY <1>1 DEF Started, Idle
<1>4. \A q \in Procs \ {p} :
        /\ proc'[q].step = proc[q].step /\ proc'[q].seen = proc[q].seen /\ proc'[q].cache = proc[q].cache
        /\ proc'[q].shell = proc[q].shell
        /\ Active(q) => proc'[q].raced
  BY <1>1, <1>2 DEF Started, Process
<1>5. settled' => settled /\ ~shell /\ \A o \in Procs : ~Active(o)
  BY <1>1
<1>6. Alone'
  <2>1. ~proc'[p].raced => \A o \in Procs : ~Active(o)
    BY <1>3
  <2>2. ASSUME NEW q \in Procs, Active(q)', ~proc'[q].raced, NEW o \in Procs, Active(o)' PROVE o = q
    BY <1>3, <1>4, <2>1, <2>2 DEF Active
  <2> QED
    BY <2>2 DEF Alone
<1>7. Undisturbed'
  BY <1>3, <1>4, <1>5 DEF Undisturbed, Active
<1>8. Described'
  BY <1>2, <1>3, <1>4, <1>5 DEF FilesInv, Described, Active
<1>9. Chosen'
  <2>1. ASSUME NEW q \in Procs PROVE
          /\ proc'[q].step \in {"saveConfig", "saveUse"} => \E d \in Description : proc'[q].seen = {d}
          /\ ~(proc'[q].step = "saveUse" /\ ~proc'[q].raced)
    BY <1>3, <1>4 DEF FilesInv, Chosen, Active
  <2> QED
    BY <2>1 DEF Chosen
<1>10. FilesAgree'
  <2>1. (\A q \in Procs : proc'[q].step # "saveUse") => \A q \in Procs : proc[q].step # "saveUse"
    BY <1>2, <1>4 DEF Active
  <2> QED
    BY <1>2, <1>5, <2>1 DEF FilesInv, FilesAgree, Home
<1>11. ContextAgrees'
  BY <1>3, <1>4, <1>5 DEF ContextAgrees, Active, Writers
<1>12. Missing'
  BY <1>3, <1>4, <1>5 DEF Missing, Active
<1> QED
  BY <1>6, <1>7, <1>8, <1>9, <1>10, <1>11, <1>12 DEF FilesInv

\* The process after a command, and one that gives up, has nothing in its hands.
LEMMA AfterFields ==
  ASSUME NEW x \in Process
  PROVE  /\ AfterCommand(x) \in Process
         /\ AfterCommand(x).step \in {"idle", "ready"} /\ AfterCommand(x).seen = {}
         /\ AfterCommand(x).step = "ready" =>
              /\ x.shell /\ AfterCommand(x).shell = x.shell /\ AfterCommand(x).raced = x.raced
              /\ AfterCommand(x).cache = x.cache
         /\ GiveUp(x) \in {Idle, AfterCommand(x)}
  BY AfterType DEF AfterCommand, GiveUp, Idle, Process

\* A command that ends without writing.
LEMMA QuietEnd ==
  ASSUME FilesInv, TypeOK', NEW p \in Procs, NEW y \in {Idle, AfterCommand(proc[p])},
         Active(p), proc[p].step # "saveUse", Set(p, y),
         UNCHANGED <<configFile, cacheFile, schema, settled>>
  PROVE  FilesInv'
<1>1. proc[p] \in Process /\ (settled => ~proc[p].shell)
  BY DEF FilesInv, TypeOK, Undisturbed
<1>2. /\ y \in Process /\ y.step \in {"idle", "ready"} /\ y.seen = {}
      /\ y.step = "ready" => proc[p].shell /\ y.shell = proc[p].shell /\ y.raced = proc[p].raced
  <2>1. CASE y = Idle
    <3>1. Idle.step = "idle" /\ Idle.seen = {}
      BY DEF Idle
    <3> QED
      BY <2>1, <3>1, IdleType
  <2>2. CASE y = AfterCommand(proc[p])
    BY <1>1, <2>2, AfterFields
  <2> QED
    BY <2>1, <2>2
<1>3. settled => y.step = "idle"
  BY <1>1, <1>2
<1>4. settled /\ y.step \in Writers => Agrees(y.cache)
  BY <1>3 DEF Writers
<1> QED
  BY <1>2, <1>3, <1>4, QuietStep

\* A command that goes on to a step of which nothing is known.
LEMMA QuietMove ==
  ASSUME FilesInv, TypeOK', NEW p \in Procs, NEW y \in Process,
         Active(p), proc[p].step # "saveUse", Set(p, y),
         UNCHANGED <<configFile, cacheFile, schema, settled>>,
         y.raced = proc[p].raced, y.shell = proc[p].shell, y.seen = proc[p].seen,
         y.step \in {"configLost", "cache", "config", "noTarget"}
  PROVE  FilesInv'
<1>1. settled => \A d \in y.seen : d.gen = schema[d.table]
  BY DEF FilesInv, Described
<1> QED
  BY <1>1, QuietStep DEF Writers

\* A table is described, or the process ends.
LEMMA DescribeInv ==
  ASSUME FilesInv, TypeOK', NEW p \in Procs, NEW t \in Targets, NEW s \in {"saveConfig", "saveDesc"},
         proc[p].step = "ready", Describe(p, t, s),
         UNCHANGED <<configFile, cacheFile, schema, settled>>
  PROVE  FilesInv'
<1>1. Active(p) /\ proc[p] \in Process /\ (settled => Agrees(proc[p].cache))
  BY DEF Active, FilesInv, TypeOK, ContextAgrees, Writers
<1>2. CASE schema[t] = 0
  BY <1>1, <1>2, QuietEnd DEF Describe
<1>3. CASE schema[t] # 0
  <2>1. [table |-> t, gen |-> schema[t]] \in Description
    BY <1>3, BoundsAssumption DEF Description, FilesInv, TypeOK
  <2>2. PICK y \in Process : y = [proc[p] EXCEPT !.step = s, !.seen = {[table |-> t, gen |-> schema[t]]}]
    BY <1>1, <2>1 DEF Process, Steps
  <2>3. /\ y.step = s /\ y.seen = {[table |-> t, gen |-> schema[t]]} /\ y.cache = proc[p].cache
        /\ y.raced = proc[p].raced /\ y.shell = proc[p].shell
    BY <1>1, <2>2 DEF Process
  <2>4. Set(p, y)
    BY <1>3, <2>2 DEF Describe
  <2> QED
    BY <1>1, <2>1, <2>3, <2>4, QuietStep
<1> QED
  BY <1>2, <1>3

\* Steps that leave both files alone.
LEMMA ReadersInv ==
  ASSUME FilesInv, TypeOK', NEW p \in Procs,
         \/ LoadConfig(p) \/ LoadCache(p) \/ Use(p) \/ Desc(p) \/ DescAll(p) \/ DescribeOne(p)
         \/ FinishDescAll(p) \/ Dump(p) \/ TableSchema(p) \/ NoEffectiveTable(p) \/ Quit(p)
  PROVE  FilesInv'
<1>x. proc[p] \in Process
  BY DEF FilesInv, TypeOK
<1>c. /\ \A c \in configFile : c \in Config /\ configFile = {c}
      /\ \A c \in cacheFile : c \in Cache /\ cacheFile = {c}
  BY DEF FilesInv, TypeOK, Files
<1>g. GiveUp(proc[p]) \in {Idle, AfterCommand(proc[p])}
  BY <1>x, AfterFields
<1>1. CASE LoadConfig(p)
  <2>1. /\ Active(p) /\ proc[p].step # "saveUse" /\ UNCHANGED <<configFile, cacheFile, schema, settled>>
    BY <1>1 DEF LoadConfig, Active
  <2>2. \/ \E y \in {Idle, AfterCommand(proc[p])} : Set(p, y)
        \/ Set(p, [proc[p] EXCEPT !.step = "configLost"])
        \/ \E c \in configFile : Set(p, [proc[p] EXCEPT !.step = "cache", !.config = c])
    BY <1>1, <1>g DEF LoadConfig
  <2>3. CASE \E y \in {Idle, AfterCommand(proc[p])} : Set(p, y)
    BY <2>1, <2>3, QuietEnd
  <2>4. CASE Set(p, [proc[p] EXCEPT !.step = "configLost"])
    <3>1. PICK y \in Process : y = [proc[p] EXCEPT !.step = "configLost"]
      BY <1>x DEF Process, Steps
    <3>2. /\ y.raced = proc[p].raced /\ y.shell = proc[p].shell /\ y.seen = proc[p].seen /\ y.step = "configLost"
      BY <1>x, <3>1 DEF Process
    <3> QED
      BY <2>1, <2>4, <3>1, <3>2, QuietMove
  <2>5. ASSUME NEW c \in configFile, Set(p, [proc[p] EXCEPT !.step = "cache", !.config = c]) PROVE FilesInv'
    <3>1. PICK y \in Process : y = [proc[p] EXCEPT !.step = "cache", !.config = c]
      BY <1>x, <1>c DEF Process, Steps
    <3>2. /\ y.raced = proc[p].raced /\ y.shell = proc[p].shell /\ y.seen = proc[p].seen /\ y.step = "cache"
      BY <1>x, <3>1 DEF Process
    <3> QED
      BY <2>1, <2>5, <3>1, <3>2, QuietMove
  <2> QED
    BY <2>2, <2>3, <2>4, <2>5
<1>2. CASE LoadCache(p)
  <2>1. /\ Active(p) /\ proc[p].step \in {"cache", "cacheNew"}
        /\ UNCHANGED <<configFile, cacheFile, schema, settled>>
    BY <1>2 DEF LoadCache, Active
  <2>a. settled => \A d \in proc[p].seen : d.gen = schema[d.table]
    BY <2>1 DEF FilesInv, Described
  <2>2. \/ \E y \in {Idle, AfterCommand(proc[p])} : Set(p, y)
        \/ Set(p, [proc[p] EXCEPT !.step = "config"])
        \/ cacheFile = {} /\ Set(p, [proc[p] EXCEPT !.step = "cacheLost"])
        \/ \E c \in cacheFile : Set(p, [proc[p] EXCEPT !.step = "ready", !.cache = c])
    BY <1>2, <1>g DEF LoadCache
  <2>3. CASE \E y \in {Idle, AfterCommand(proc[p])} : Set(p, y)
    BY <2>1, <2>3, QuietEnd
  <2>4. CASE Set(p, [proc[p] EXCEPT !.step = "config"])
    <3>1. PICK y \in Process : y = [proc[p] EXCEPT !.step = "config"]
      BY <1>x DEF Process, Steps
    <3>2. /\ y.raced = proc[p].raced /\ y.shell = proc[p].shell /\ y.seen = proc[p].seen /\ y.step = "config"
      BY <1>x, <3>1 DEF Process
    <3> QED
      BY <2>1, <2>4, <3>1, <3>2, QuietMove
  <2>5. CASE cacheFile = {} /\ Set(p, [proc[p] EXCEPT !.step = "cacheLost"])
    <3>1. PICK y \in Process : y = [proc[p] EXCEPT !.step = "cacheLost"]
      BY <1>x DEF Process, Steps
    <3>2. /\ y.raced = proc[p].raced /\ y.shell = proc[p].shell /\ y.seen = proc[p].seen /\ y.step = "cacheLost"
      BY <1>x, <3>1 DEF Process
    <3> QED
      BY <2>1, <2>a, <2>5, <3>1, <3>2, QuietStep DEF Writers
  <2>6. ASSUME NEW k \in cacheFile, Set(p, [proc[p] EXCEPT !.step = "ready", !.cache = k]) PROVE FilesInv'
    <3>1. PICK y \in Process : y = [proc[p] EXCEPT !.step = "ready", !.cache = k]
      BY <1>x, <1>c DEF Process, Steps
    <3>2. /\ y.raced = proc[p].raced /\ y.shell = proc[p].shell /\ y.seen = proc[p].seen /\ y.step = "ready"
          /\ y.cache = k
      BY <1>x, <3>1 DEF Process
    <3>3. settled => \A q \in Procs : proc[q].step # "saveUse"
      BY <2>1 DEF FilesInv, Alone, Undisturbed, Active
    <3>4. settled => Agrees(k)
      BY <1>c, <3>3 DEF FilesInv, FilesAgree, Agrees
    <3> QED
      BY <2>1, <2>a, <2>6, <3>1, <3>2, <3>4, QuietStep
  <2> QED
    BY <2>2, <2>3, <2>4, <2>5, <2>6
<1>3. CASE Use(p)
  <2>1. PICK name \in Names :
          Describe(p, <<EffectiveRegion(proc[p]), IF proc[p].table # None THEN proc[p].table ELSE name>>,
                   "saveConfig")
    BY <1>3 DEF Use
  <2>2. <<EffectiveRegion(proc[p]), IF proc[p].table # None THEN proc[p].table ELSE name>> \in Targets
    BY <1>x, TargetType DEF Targets, Process
  <2>3. proc[p].step = "ready" /\ UNCHANGED <<configFile, cacheFile, schema, settled>>
    BY <1>3 DEF Use
  <2> QED
    BY <2>1, <2>2, <2>3, DescribeInv
<1>n. ASSUME Move(p, "noTarget"), Active(p), proc[p].step # "saveUse",
             UNCHANGED <<configFile, cacheFile, schema, settled>>
      PROVE  FilesInv'
  <2>1. PICK y \in Process : y = [proc[p] EXCEPT !.step = "noTarget"]
    BY <1>x DEF Process, Steps
  <2>2. /\ y.raced = proc[p].raced /\ y.shell = proc[p].shell /\ y.seen = proc[p].seen /\ y.step = "noTarget"
    BY <1>x, <2>1 DEF Process
  <2> QED
    BY <1>n, <2>1, <2>2, QuietMove DEF Move
<1>4. CASE Desc(p)
  <2>1. PICK name \in Names \cup {None} :
          LET target == IF name # None THEN name ELSE EffectiveTable(proc[p])
          IN IF target = None THEN Move(p, "noTarget")
             ELSE Describe(p, <<EffectiveRegion(proc[p]), target>>, "saveDesc")
    BY <1>4 DEF Desc
  <2>2. ASSUME NEW target \in Names PROVE <<EffectiveRegion(proc[p]), target>> \in Targets
    BY <1>x, TargetType DEF Targets
  <2>3. proc[p].step = "ready" /\ Active(p) /\ UNCHANGED <<configFile, cacheFile, schema, settled>>
    BY <1>4 DEF Desc, Active
  <2>4. \/ Move(p, "noTarget")
        \/ \E t \in Targets : Describe(p, t, "saveDesc")
    BY <1>x, <2>1, <2>2, TargetType
  <2> QED
    BY <1>n, <2>3, <2>4, DescribeInv
<1>5. CASE DescAll(p)
  <2>1. PICK here \in SUBSET Targets : Set(p, [proc[p] EXCEPT !.step = "describeAll", !.todo = here])
    BY <1>5 DEF DescAll
  <2>2. PICK y \in Process : y = [proc[p] EXCEPT !.step = "describeAll", !.todo = here]
    BY <1>x DEF Process, Steps
  <2>3. /\ y.raced = proc[p].raced /\ y.shell = proc[p].shell /\ y.seen = proc[p].seen
        /\ y.step = "describeAll" /\ y.cache = proc[p].cache
    BY <1>x, <2>2 DEF Process
  <2>4. proc[p].step = "ready" /\ Active(p) /\ UNCHANGED <<configFile, cacheFile, schema, settled>>
    BY <1>5 DEF DescAll, Active
  <2>5. settled => Agrees(proc[p].cache) /\ \A d \in proc[p].seen : d.gen = schema[d.table]
    BY <2>4 DEF FilesInv, ContextAgrees, Described, Writers
  <2> QED
    BY <2>1, <2>2, <2>3, <2>4, <2>5, QuietStep
<1>6. CASE DescribeOne(p)
  <2>1. PICK t \in proc[p].todo :
          IF schema[t] = 0
          THEN Set(p, Idle)
          ELSE Set(p, [proc[p] EXCEPT !.todo = @ \ {t},
                                      !.seen = @ \cup {[table |-> t, gen |-> schema[t]]}])
    BY <1>6 DEF DescribeOne
  <2>2. proc[p].step = "describeAll" /\ Active(p) /\ UNCHANGED <<configFile, cacheFile, schema, settled>>
    BY <1>6 DEF DescribeOne, Active
  <2>3. CASE schema[t] = 0
    BY <2>1, <2>2, <2>3, QuietEnd
  <2>4. CASE schema[t] # 0
    <3>1. [table |-> t, gen |-> schema[t]] \in Description
      BY <1>x, <2>4, BoundsAssumption DEF Description, FilesInv, TypeOK, Process
    <3>2. PICK y \in Process : y = [proc[p] EXCEPT !.todo = @ \ {t},
                                      !.seen = @ \cup {[table |-> t, gen |-> schema[t]]}]
      BY <1>x, <3>1 DEF Process
    <3>3. /\ y.raced = proc[p].raced /\ y.shell = proc[p].shell /\ y.step = "describeAll"
          /\ y.seen = proc[p].seen \cup {[table |-> t, gen |-> schema[t]]} /\ y.cache = proc[p].cache
      BY <1>x, <2>2, <3>2 DEF Process
    <3>4. settled => Agrees(proc[p].cache) /\ \A d \in proc[p].seen : d.gen = schema[d.table]
      BY <2>2 DEF FilesInv, ContextAgrees, Described, Writers
    <3>5. settled => \A d \in y.seen : d.gen = schema[d.table]
      BY <3>3, <3>4
    <3>6. Set(p, y)
      BY <2>1, <2>4, <3>2
    <3> QED
      BY <2>2, <3>3, <3>4, <3>5, <3>6, QuietStep
  <2> QED
    BY <2>3, <2>4
<1>7. CASE FinishDescAll(p) \/ NoEffectiveTable(p) \/ Quit(p)
  <2>1. /\ Active(p) /\ proc[p].step # "saveUse" /\ UNCHANGED <<configFile, cacheFile, schema, settled>>
        /\ \E y \in {Idle, AfterCommand(proc[p])} : Set(p, y)
    BY <1>7 DEF FinishDescAll, NoEffectiveTable, Quit, Active
  <2> QED
    BY <2>1, QuietEnd
<1>8. CASE Dump(p)
  <2>1. PICK y \in Process : y = [proc[p] EXCEPT !.step = "cache", !.dumping = TRUE]
    BY <1>x DEF Process, Steps
  <2>2. /\ y.raced = proc[p].raced /\ y.shell = proc[p].shell /\ y.seen = proc[p].seen /\ y.step = "cache"
    BY <1>x, <2>1 DEF Process
  <2>3. Set(p, y) /\ Active(p) /\ proc[p].step # "saveUse" /\ UNCHANGED <<configFile, cacheFile, schema, settled>>
    BY <1>8, <2>1 DEF Dump, Active
  <2> QED
    BY <2>2, <2>3, QuietMove
<1>9. CASE TableSchema(p)
  <2>1. Active(p) /\ proc[p].step # "saveUse" /\ UNCHANGED <<configFile, cacheFile, schema, settled>>
    BY <1>9 DEF TableSchema, Active
  <2>2. Move(p, "noTarget") \/ \E y \in {Idle, AfterCommand(proc[p])} : Set(p, y)
    BY <1>9 DEF TableSchema
  <2> QED
    BY <1>n, <2>1, <2>2, QuietEnd
<1> QED
  BY <1>1, <1>2, <1>3, <1>4, <1>5, <1>6, <1>7, <1>8, <1>9

\* Nobody else is about to write when a process that met no other is running, so
\* in particular as long as nothing disturbs the files.
LEMMA OthersIdle ==
  ASSUME FilesInv, NEW p \in Procs, Active(p), NEW q \in Procs, q # p
  PROVE  /\ proc[p].raced \/ ~Active(q)
         /\ Active(q) => proc[q].raced
         /\ settled => ~Active(q)
  BY DEF FilesInv, Alone, Undisturbed

\* Parts of the invariant that only the processes decide.
LEMMA WriterStep ==
  ASSUME FilesInv, TypeOK', NEW p \in Procs, NEW y \in Process, Active(p), Set(p, y),
         UNCHANGED <<schema, settled>>,
         y.step # "idle" => y.raced = proc[p].raced /\ y.shell = proc[p].shell,
         y.step # "idle" => y.seen \subseteq proc[p].seen,
         y.step = "saveUse" => \E d \in Description :
            y.seen = {d} /\ configFile' = {[region |-> d.table[1], table |-> d.table[2]]},
         y.step # "saveConfig", y.step # "cacheLost",
         y.step = "clearCache" => configFile' = {},
         settled => (y.step # "saveUse" =>
           \A c \in configFile' : c.table # None =>
             \E k \in cacheFile' : k[Home(c)] > 0 /\ k[Home(c)] = schema[Home(c)]),
         settled /\ y.step \in Writers => y.cache = proc[p].cache /\ proc[p].step \in Writers,
         settled /\ y.step \in Writers => configFile' = configFile
  PROVE  FilesInv'
<1>1. \A q \in Procs : proc'[q] = IF q = p THEN y ELSE proc[q]
  BY DEF Set, FilesInv, TypeOK
<1>2. \A q \in Procs : q # p => (Active(q) => proc[q].raced) /\ (settled => ~Active(q))
  BY OthersIdle
<1>3. Alone' /\ Undisturbed'
  BY <1>1 DEF FilesInv, Alone, Undisturbed, Active
<1>4. Described'
  BY <1>1 DEF FilesInv, Described, Active
<1>5. Chosen'
  <2>1. ASSUME NEW q \in Procs, q # p, proc[q].step = "saveUse" PROVE proc[q].raced
    BY <1>2, <2>1 DEF Active
  <2> QED
    BY <1>1, <2>1 DEF FilesInv, Chosen
<1>6. FilesAgree'
  <2>1. (\A q \in Procs : proc'[q].step # "saveUse") => y.step # "saveUse"
    BY <1>1
  <2> QED
    BY <2>1 DEF FilesAgree, Home
<1>7. ContextAgrees'
  <2>1. ASSUME settled, NEW q \in Procs, proc'[q].step \in Writers PROVE q = p
    BY <1>1, <1>2, <2>1 DEF Active, Writers
  <2>2. settled /\ y.step \in Writers => Agrees(y.cache)
    BY DEF FilesInv, ContextAgrees
  <2>3. ASSUME settled, y.step \in Writers PROVE Agrees(y.cache)'
    BY <2>2, <2>3 DEF Agrees, Home
  <2>4. ASSUME settled', NEW q \in Procs, proc'[q].step \in Writers PROVE Agrees(proc[q].cache)'
    <3>1. q = p /\ proc'[q] = y
      BY <1>1, <2>1, <2>4
    <3>2. y.step \in Writers /\ settled
      BY <2>4, <3>1
    <3> QED
      BY <2>3, <3>1, <3>2 DEF Agrees
  <2> QED
    BY <2>4 DEF ContextAgrees
<1>8. Missing'
  <2>1. ASSUME settled, NEW q \in Procs, q # p PROVE proc'[q].step \notin {"cacheLost", "clearCache"}
    BY <1>1, <1>2, <2>1 DEF Active
  <2> QED
    BY <1>1, <2>1 DEF Missing
<1> QED
  BY <1>3, <1>4, <1>5, <1>6, <1>7, <1>8 DEF FilesInv

\* As long as nothing disturbs them the files agree while p is not in `use`.
LEMMA AgreeNow ==
  ASSUME FilesInv, NEW p \in Procs, Active(p), proc[p].step # "saveUse", settled
  PROVE  \A c \in configFile : c.table # None =>
           \E k \in cacheFile : k[Home(c)] > 0 /\ k[Home(c)] = schema[Home(c)]
<1>1. \A q \in Procs : proc[q].step # "saveUse"
  BY OthersIdle DEF Active
<1> QED
  BY <1>1 DEF FilesInv, FilesAgree

\* Writing an entry that is current leaves the files agreeing.
LEMMA EntryAgrees ==
  ASSUME FilesInv, NEW p \in Procs, proc[p].step \in Writers, settled, NEW d \in proc[p].seen,
         cacheFile' = WithEntry(proc[p], d), UNCHANGED <<configFile, schema>>
  PROVE  \A c \in configFile' : c.table # None =>
           \E k \in cacheFile' : k[Home(c)] > 0 /\ k[Home(c)] = schema[Home(c)]
<1>1. /\ Agrees(proc[p].cache) /\ d.gen = schema[d.table] /\ proc[p].cache \in Cache
      /\ d \in Description /\ \A c \in configFile : c \in Config
  BY DEF FilesInv, ContextAgrees, Described, Active, TypeOK, Process, Files, Writers
<1>2. ASSUME NEW c \in configFile, c.table # None
      PROVE  \E k \in cacheFile' : k[Home(c)] > 0 /\ k[Home(c)] = schema[Home(c)]
  <2>1. PICK k \in cacheFile' : k = [proc[p].cache EXCEPT ![d.table] = d.gen]
    BY DEF WithEntry
  <2>2. Home(c) \in Targets
    BY <1>1, <1>2, HomeType
  <2>3. k[Home(c)] = IF Home(c) = d.table THEN d.gen ELSE proc[p].cache[Home(c)]
    BY <1>1, <2>1, <2>2 DEF Cache
  <2>4. d.gen > 0
    BY <1>1, BoundsAssumption DEF Description
  <2> QED
    BY <1>1, <1>2, <2>3, <2>4 DEF Agrees
<1> QED
  BY <1>2

\* Steps that write a file, or end in the middle of it.
LEMMA WritersInv ==
  ASSUME FilesInv, TypeOK', NEW p \in Procs,
         \/ TouchConfig(p) \/ TouchCache(p) \/ SaveConfig(p) \/ SaveDesc(p) \/ SaveOne(p)
         \/ Clear(p) \/ ClearCache(p)
  PROVE  FilesInv'
<1>x. proc[p] \in Process
  BY DEF FilesInv, TypeOK
<1>s. settled => ~proc[p].shell \/ ~Active(p)
  BY DEF FilesInv, Undisturbed
<1>a. /\ AfterCommand(proc[p]) \in Process
      /\ AfterCommand(proc[p]).step \in {"idle", "ready"} /\ AfterCommand(proc[p]).seen = {}
      /\ AfterCommand(proc[p]).step = "ready" =>
           /\ proc[p].shell /\ AfterCommand(proc[p]).shell = proc[p].shell
           /\ AfterCommand(proc[p]).raced = proc[p].raced
  BY <1>x, AfterFields
<1>1. CASE TouchConfig(p)
  <2>1. PICK y \in Process : y = [proc[p] EXCEPT !.step = "configNew"]
    BY <1>x DEF Process, Steps
  <2>2. /\ y.raced = proc[p].raced /\ y.shell = proc[p].shell /\ y.seen = proc[p].seen /\ y.step = "configNew"
    BY <1>x, <2>1 DEF Process
  <2>3. Set(p, y) /\ Active(p) /\ UNCHANGED <<schema, settled>> /\ configFile' = {NoConfig} /\ NoConfig.table = None
    BY <1>1, <2>1 DEF TouchConfig, Active, Move, NoConfig
  <2> QED
    BY <2>2, <2>3, WriterStep DEF Writers
<1>2. CASE TouchCache(p)
  <2>1. PICK y \in Process : y = [proc[p] EXCEPT !.step = "cacheNew"]
    BY <1>x DEF Process, Steps
  <2>2. /\ y.raced = proc[p].raced /\ y.shell = proc[p].shell /\ y.seen = proc[p].seen /\ y.step = "cacheNew"
    BY <1>x, <2>1 DEF Process
  <2>3. /\ Set(p, y) /\ Active(p) /\ proc[p].step = "cacheLost"
        /\ UNCHANGED <<schema, settled>> /\ configFile' = configFile
    BY <1>2, <2>1 DEF TouchCache, Active, Move
  <2>4. settled => \A c \in configFile' : c.table = None
    BY <2>3, AgreeNow DEF FilesInv, Missing
  <2> QED
    BY <2>2, <2>3, <2>4, WriterStep DEF Writers
<1>3. CASE SaveConfig(p)
  <2>1. PICK d \in proc[p].seen :
          /\ configFile' = {[region |-> d.table[1], table |-> d.table[2]]}
          /\ Set(p, [proc[p] EXCEPT !.step = "saveUse",
                                    !.config = [region |-> d.table[1], table |-> d.table[2]],
                                    !.used = TRUE])
    BY <1>3 DEF SaveConfig
  <2>2. d \in Description /\ [region |-> d.table[1], table |-> d.table[2]] \in Config
    BY <1>x DEF Process, Description, Targets, Config
  <2>3. PICK y \in Process : y = [proc[p] EXCEPT !.step = "saveUse",
                                    !.config = [region |-> d.table[1], table |-> d.table[2]],
                                    !.used = TRUE]
    BY <1>x, <2>2 DEF Process, Steps
  <2>4. /\ y.raced = proc[p].raced /\ y.shell = proc[p].shell /\ y.seen = proc[p].seen /\ y.step = "saveUse"
    BY <1>x, <2>3 DEF Process
  <2>5. Set(p, y) /\ Active(p) /\ UNCHANGED <<schema, settled>> /\ proc[p].step = "saveConfig"
    BY <1>3, <2>1, <2>3 DEF SaveConfig, Active
  <2>6. y.seen = {d}
    BY <2>1, <2>4, <2>5 DEF FilesInv, Chosen
  <2> QED
    BY <2>1, <2>2, <2>4, <2>5, <2>6, WriterStep DEF Writers
<1>4. CASE SaveDesc(p)
  <2>1. /\ Active(p) /\ proc[p].step = "saveDesc" /\ UNCHANGED <<schema, settled, configFile>>
        /\ Set(p, AfterCommand(proc[p])) /\ \E d \in proc[p].seen : cacheFile' = WithEntry(proc[p], d)
    BY <1>4 DEF SaveDesc, Active
  <2>2. settled => \A c \in configFile' : c.table # None =>
          \E k \in cacheFile' : k[Home(c)] > 0 /\ k[Home(c)] = schema[Home(c)]
    BY <2>1, EntryAgrees DEF Writers
  <2>3. settled => AfterCommand(proc[p]).step \notin Writers
    BY <1>a, <1>s, <2>1 DEF Writers
  <2> QED
    BY <1>a, <2>1, <2>2, <2>3, WriterStep
<1>5. CASE SaveOne(p)
  <2>1. PICK d \in proc[p].seen : /\ cacheFile' = WithEntry(proc[p], d)
                                  /\ Set(p, [proc[p] EXCEPT !.seen = @ \ {d}])
    BY <1>5 DEF SaveOne
  <2>2. PICK y \in Process : y = [proc[p] EXCEPT !.seen = @ \ {d}]
    BY <1>x DEF Process
  <2>3. Active(p) /\ proc[p].step = "describeAll" /\ UNCHANGED <<schema, settled, configFile>>
    BY <1>5 DEF SaveOne, Active
  <2>4. /\ y.raced = proc[p].raced /\ y.shell = proc[p].shell /\ y.seen = proc[p].seen \ {d}
        /\ y.step = "describeAll" /\ y.cache = proc[p].cache
    BY <1>x, <2>2, <2>3 DEF Process
  <2>5. settled => \A c \in configFile' : c.table # None =>
          \E k \in cacheFile' : k[Home(c)] > 0 /\ k[Home(c)] = schema[Home(c)]
    BY <2>1, <2>3, EntryAgrees DEF Writers
  <2> QED
    BY <2>1, <2>2, <2>3, <2>4, <2>5, WriterStep DEF Writers
<1>6. CASE Clear(p)
  <2>1. PICK y \in Process : y = [proc[p] EXCEPT !.step = "clearCache", !.used = FALSE]
    BY <1>x DEF Process, Steps
  <2>2. /\ y.raced = proc[p].raced /\ y.shell = proc[p].shell /\ y.seen = proc[p].seen /\ y.step = "clearCache"
    BY <1>x, <2>1 DEF Process
  <2>3. /\ Active(p) /\ UNCHANGED <<schema, settled>> /\ configFile' = {}
        /\ Set(p, y) \/ Set(p, AfterCommand(proc[p]))
    BY <1>6, <2>1 DEF Clear, Active
  <2>4. settled => AfterCommand(proc[p]).step \notin Writers
    BY <1>a, <1>s, <2>3 DEF Writers
  <2>5. CASE Set(p, y)
    BY <2>2, <2>3, <2>5, WriterStep DEF Writers
  <2>6. CASE Set(p, AfterCommand(proc[p]))
    BY <1>a, <2>3, <2>4, <2>6, WriterStep
  <2> QED
    BY <2>3, <2>5, <2>6
<1>7. CASE ClearCache(p)
  <2>1. /\ Active(p) /\ proc[p].step = "clearCache" /\ UNCHANGED <<schema, settled, configFile>>
        /\ Set(p, AfterCommand(proc[p]))
    BY <1>7 DEF ClearCache, Active
  <2>2. settled => configFile' = {}
    BY <2>1 DEF FilesInv, Missing
  <2>3. settled => AfterCommand(proc[p]).step \notin Writers
    BY <1>a, <1>s, <2>1 DEF Writers
  <2> QED
    BY <1>a, <2>1, <2>2, <2>3, WriterStep
<1> QED
  BY <1>1, <1>2, <1>3, <1>4, <1>5, <1>6, <1>7

\* The second write of `use` makes the files agree, whatever they were before, if
\* the process met no other and the table is still there.
LEMMA SaveUseInv == ASSUME FilesInv, TypeOK', NEW p \in Procs, SaveUse(p) PROVE FilesInv'
<1>1. PICK d \in proc[p].seen :
        /\ cacheFile' = WithEntry(proc[p], d)
        /\ settled' = (d.gen = schema[d.table] /\ (settled \/ ~(proc[p].raced \/ proc[p].shell)))
  BY DEF SaveUse
<1>2. /\ Active(p) /\ proc[p].step = "saveUse" /\ Set(p, AfterCommand(proc[p]))
      /\ UNCHANGED <<configFile, schema>> /\ proc[p] \in Process /\ d \in Description
  BY DEF SaveUse, Active, FilesInv, TypeOK, Process
<1>3. settled' => d.gen = schema[d.table] /\ ~proc[p].raced /\ ~proc[p].shell
  BY <1>1, <1>2 DEF FilesInv, Undisturbed
<1>4. \A q \in Procs : proc'[q] = IF q = p THEN AfterCommand(proc[p]) ELSE proc[q]
  BY <1>2 DEF Set, FilesInv, TypeOK
<1>5. /\ AfterCommand(proc[p]).step \in {"idle", "ready"}
      /\ AfterCommand(proc[p]).step = "ready" =>
           proc[p].shell /\ AfterCommand(proc[p]).raced = proc[p].raced
  BY <1>2, AfterFields
<1>6. settled' => \A q \in Procs : proc'[q].step = "idle"
  <2>1. ASSUME settled', NEW q \in Procs, q # p PROVE proc[q].step = "idle"
    BY <1>2, <1>3, <2>1, OthersIdle DEF Active
  <2> QED
    BY <1>3, <1>4, <1>5, <2>1
<1>7. Alone'
  BY <1>4, <1>5, <1>2 DEF FilesInv, Alone, Active
<1>8. Undisturbed' /\ Described' /\ ContextAgrees' /\ Missing'
  BY <1>6 DEF Undisturbed, Described, ContextAgrees, Missing, Active, Writers
<1>9. Chosen'
  BY <1>2, <1>4, <1>5 DEF FilesInv, Chosen
<1>10. FilesAgree'
  <2>1. ASSUME settled', NEW c \in configFile, c.table # None
        PROVE  \E k \in cacheFile' : k[Home(c)] > 0 /\ k[Home(c)] = schema[Home(c)]
    <3>1. c = [region |-> d.table[1], table |-> d.table[2]]
      BY <1>2, <1>3, <2>1 DEF FilesInv, Chosen
    <3>2. Home(c) = d.table
      BY <1>2, <3>1, NamesAssumption DEF Home, Description, Targets
    <3>3. PICK k \in cacheFile' : k = [proc[p].cache EXCEPT ![d.table] = d.gen]
      BY <1>1 DEF WithEntry
    <3>4. k[d.table] = d.gen /\ d.gen > 0
      BY <1>2, <3>3, BoundsAssumption DEF Process, Cache, Description
    <3> QED
      BY <1>3, <2>1, <3>2, <3>3, <3>4
  <2> QED
    BY <1>2, <2>1 DEF FilesAgree, Home
<1> QED
  BY <1>7, <1>8, <1>9, <1>10 DEF FilesInv

\* A process that is killed, and a table that is deleted, disturb the files.
LEMMA CrashInv == ASSUME FilesInv, TypeOK', NEW p \in Procs, Crash(p) PROVE FilesInv'
<1>1. \A q \in Procs : proc'[q] = IF q = p THEN Idle ELSE proc[q]
  BY DEF Crash, Set, FilesInv, TypeOK
<1>2. Idle.step = "idle" /\ settled' = FALSE /\ UNCHANGED configFile
  BY DEF Idle, Crash
<1> QED
  BY <1>1, <1>2 DEF FilesInv, Alone, Undisturbed, Described, Chosen, FilesAgree, ContextAgrees, Missing, Active

\* A table that is created was none of those that are described or in use.
LEMMA CreateInv == ASSUME FilesInv, TypeOK', NEW t \in Targets, CreateTable(t) PROVE FilesInv'
<1>1. /\ schema[t] = 0 /\ \A u \in Targets : u # t => schema'[u] = schema[u]
      /\ UNCHANGED <<configFile, cacheFile, proc, runs, settled>>
  BY DEF CreateTable, FilesInv, TypeOK
<1>2. /\ \A c \in configFile : c \in Config
      /\ \A p \in Procs : \A d \in proc[p].seen : d.table \in Targets /\ d.gen > 0
  BY BoundsAssumption DEF FilesInv, TypeOK, Files, Process, Description
<1>3. Alone' /\ Undisturbed' /\ Chosen' /\ Missing'
  BY <1>1 DEF FilesInv, Alone, Undisturbed, Chosen, Missing, Active
<1>4. Described'
  <2>1. ASSUME NEW p \in Procs, NEW d \in proc[p].seen, d.gen = schema[d.table] PROVE d.gen = schema'[d.table]
    BY <1>1, <1>2, <2>1
  <2> QED
    BY <1>1, <2>1 DEF FilesInv, Described, Active
<1>5. ASSUME NEW c \in configFile, c.table # None, NEW n, n > 0, n = schema[Home(c)]
      PROVE  n = schema'[Home(c)]
  <2>1. Home(c) \in Targets
    BY <1>2, <1>5, HomeType
  <2>2. Home(c) # t
    BY <1>1, <1>5
  <2> QED
    BY <1>1, <1>5, <2>1, <2>2
<1>6. FilesAgree'
  <2> SUFFICES ASSUME settled', \A p \in Procs : proc'[p].step # "saveUse",
                      NEW c \in configFile', c.table # None
               PROVE  \E k \in cacheFile' : k[Home(c)] > 0 /\ k[Home(c)] = schema'[Home(c)]
    BY DEF FilesAgree, Home
  <2>1. PICK k \in cacheFile : k[Home(c)] > 0 /\ k[Home(c)] = schema[Home(c)]
    BY <1>1 DEF FilesInv, FilesAgree
  <2> QED
    BY <1>1, <1>5, <2>1
<1>7. ContextAgrees'
  <2> SUFFICES ASSUME settled', NEW p \in Procs, proc'[p].step \in Writers,
                      NEW c \in configFile', c.table # None
               PROVE  proc'[p].cache[Home(c)] > 0 /\ proc'[p].cache[Home(c)] = schema'[Home(c)]
    BY DEF ContextAgrees, Agrees, Home
  <2>1. proc[p].cache[Home(c)] > 0 /\ proc[p].cache[Home(c)] = schema[Home(c)]
    BY <1>1 DEF FilesInv, ContextAgrees, Agrees
  <2> QED
    BY <1>1, <1>5, <2>1
<1> QED
  BY <1>3, <1>4, <1>6, <1>7 DEF FilesInv

\* Every step keeps the invariant.
LEMMA FilesStep == FilesInv /\ [Next]_vars => FilesInv'
<1> SUFFICES ASSUME FilesInv, [Next]_vars PROVE FilesInv'
  OBVIOUS
<1>t. TypeOK'
  BY TypeStep DEF FilesInv
<1>1. ASSUME NEW p \in Procs, Step(p) PROVE FilesInv'
  BY <1>t, <1>1, BeginInv, ReadersInv, WritersInv, SaveUseInv, CrashInv DEF Step
<1>2. ASSUME NEW t \in Targets, CreateTable(t) PROVE FilesInv'
  BY <1>t, <1>2, CreateInv
<1>3. ASSUME NEW t \in Targets, DeleteTable(t) PROVE FilesInv'
  BY <1>t, <1>3 DEF DeleteTable, FilesInv, Alone, Undisturbed, Described, Chosen, FilesAgree, ContextAgrees,
                   Missing, Active
<1>4. CASE UNCHANGED vars
  BY <1>t, <1>4 DEF vars, FilesInv, Alone, Undisturbed, Described, Chosen, FilesAgree, ContextAgrees,
                    Missing, Active, Agrees, Home
<1> QED
  BY <1>1, <1>2, <1>3, <1>4 DEF Next

\* Between commands, and unless a crash, a second process, a session or the
\* deletion of a table has come in between, the table in use has its current
\* schema in the cache; one `use` that runs by itself is enough for that.
THEOREM UseRepairs == Spec => []TargetIsCached
<1>1. FilesInv => TargetIsCached
  <2> SUFFICES ASSUME FilesInv, settled, \A p \in Procs : ~Active(p), NEW c \in configFile, c.table # None
               PROVE  \E k \in cacheFile :
                        LET t == <<EffectiveRegion([Idle EXCEPT !.config = c]), c.table>>
                        IN k[t] > 0 /\ k[t] = schema[t]
    BY DEF TargetIsCached
  <2>1. c \in Config
    BY DEF FilesInv, TypeOK, Files
  <2>2. PICK k \in cacheFile : k[Home(c)] > 0 /\ k[Home(c)] = schema[Home(c)]
    BY DEF FilesInv, FilesAgree, Active
  <2> QED
    BY <2>1, <2>2, HomeIsEffective
<1> QED
  BY <1>1, FilesInit, FilesStep, PTL DEF Spec

-----------------------------------------------------------------------------
(* Entries of the cache *)

\* The Context of a single command that met no other process is the file, until
\* the command writes it; a file it found missing is still missing.
Held == {"ready", "saveConfig", "saveUse", "saveDesc"}
Copied == \A p \in Procs : Active(p) /\ ~proc[p].raced =>
  /\ ~proc[p].shell /\ proc[p].step \in Held => cacheFile = {proc[p].cache}
  /\ proc[p].step = "cacheLost" => cacheFile = {}

\* What a step of one process has to keep of that.
LEMMA CopyOne ==
  ASSUME FilesInv, Copied, NEW p \in Procs, Active(p), \A q \in Procs \ {p} : proc'[q] = proc[q],
         ~proc'[p].raced /\ ~proc'[p].shell /\ proc'[p].step \in Held => cacheFile' = {proc'[p].cache},
         ~proc'[p].raced /\ proc'[p].step = "cacheLost" => cacheFile' = {}
  PROVE  Copied'
<1>1. \A q \in Procs : q # p /\ Active(q) => proc[q].raced
  BY OthersIdle
<1> QED
  BY <1>1 DEF Copied, Active

\* What a step of one process changes of it.
LEMMA SetFields ==
  ASSUME FilesInv, NEW p \in Procs, NEW y, Set(p, y)
  PROVE  proc'[p] = y /\ \A q \in Procs \ {p} : proc'[q] = proc[q]
  BY DEF FilesInv, TypeOK, Set

\* The end of a single command.
LEMMA AfterHeld ==
  ASSUME NEW x \in Process, NEW y \in {Idle, AfterCommand(x), GiveUp(x)}
  PROVE  y.step = "idle" \/ (y.step = "ready" /\ y.shell)
  BY AfterFields DEF Idle

\* Every step of a process keeps its copy.
LEMMA CopyStep == ASSUME FilesInv, Copied, NEW p \in Procs, Step(p) PROVE Copied'
<1>x. proc[p] \in Process
  BY DEF FilesInv, TypeOK
<1>1. CASE Begin(p)
  <2>1. PICK shell \in BOOLEAN, r \in Regions \cup {None}, t \in Names \cup {None} : proc' = Started(p, shell, r, t)
    BY <1>1 DEF Begin
  <2>2. proc'[p].step = "config"
    BY <2>1 DEF Started, Idle
  <2>3. \A q \in Procs \ {p} : Active(q) => proc'[q].raced
    BY <2>1 DEF Started, FilesInv, TypeOK, Process
  <2>4. \A q \in Procs \ {p} : ~Active(q) => proc'[q].step = "idle"
    BY <2>1 DEF Started, Active
  <2> QED
    BY <2>2, <2>3, <2>4 DEF Copied, Active, Held
<1>2. ASSUME NEW y \in {Idle, AfterCommand(proc[p]), GiveUp(proc[p])}, Set(p, y), Active(p)
      PROVE  Copied'
  BY <1>x, <1>2, AfterHeld, SetFields, CopyOne DEF Held
<1>3. ASSUME NEW y, Set(p, y), Active(p), UNCHANGED cacheFile,
             \/ y.step \notin Held \cup {"cacheLost"}
             \/ /\ y.raced = proc[p].raced /\ y.shell = proc[p].shell /\ y.cache = proc[p].cache
                /\ y.step \in Held /\ proc[p].step \in Held
      PROVE  Copied'
  <2>1. proc'[p] = y /\ \A q \in Procs \ {p} : proc'[q] = proc[q]
    BY <1>3, SetFields
  <2>2. y.step \in Held /\ ~y.raced /\ ~y.shell => cacheFile' = {y.cache}
    BY <1>3 DEF Copied
  <2>3. y.step # "cacheLost"
    BY <1>3 DEF Held
  <2> QED
    BY <1>3, <2>1, <2>2, <2>3, CopyOne
<1>4. CASE LoadConfig(p)
  <2>1. \/ \E y \in {Idle, AfterCommand(proc[p]), GiveUp(proc[p])} : Set(p, y)
        \/ Set(p, [proc[p] EXCEPT !.step = "configLost"])
        \/ \E c \in configFile : Set(p, [proc[p] EXCEPT !.step = "cache", !.config = c])
    BY <1>4 DEF LoadConfig
  <2>2. Active(p) /\ UNCHANGED cacheFile
    BY <1>4 DEF LoadConfig, Active
  <2>3. [proc[p] EXCEPT !.step = "configLost"].step = "configLost"
    BY <1>x DEF Process
  <2>4. \A c : [proc[p] EXCEPT !.step = "cache", !.config = c].step = "cache"
    BY <1>x DEF Process
  <2> QED
    BY <1>2, <1>3, <2>1, <2>2, <2>3, <2>4 DEF Held
<1>5. CASE LoadCache(p)
  <2>1. \/ \E y \in {Idle, AfterCommand(proc[p]), GiveUp(proc[p])} : Set(p, y)
        \/ Set(p, [proc[p] EXCEPT !.step = "config"])
        \/ cacheFile = {} /\ Set(p, [proc[p] EXCEPT !.step = "cacheLost"])
        \/ \E c \in cacheFile : Set(p, [proc[p] EXCEPT !.step = "ready", !.cache = c])
    BY <1>5 DEF LoadCache
  <2>2. Active(p) /\ UNCHANGED cacheFile
    BY <1>5 DEF LoadCache, Active
  <2>3. [proc[p] EXCEPT !.step = "config"].step = "config"
    BY <1>x DEF Process
  <2>4. CASE cacheFile = {} /\ Set(p, [proc[p] EXCEPT !.step = "cacheLost"])
    <3>1. [proc[p] EXCEPT !.step = "cacheLost"].step = "cacheLost"
      BY <1>x DEF Process
    <3>2. proc'[p].step = "cacheLost" /\ \A q \in Procs \ {p} : proc'[q] = proc[q]
      BY <2>4, <3>1, SetFields
    <3> QED
      BY <2>2, <2>4, <3>2, CopyOne DEF Held
  <2>5. ASSUME NEW c \in cacheFile, Set(p, [proc[p] EXCEPT !.step = "ready", !.cache = c]) PROVE Copied'
    <3>1. /\ [proc[p] EXCEPT !.step = "ready", !.cache = c].step = "ready"
          /\ [proc[p] EXCEPT !.step = "ready", !.cache = c].cache = c
      BY <1>x DEF Process
    <3>2. proc'[p].step = "ready" /\ proc'[p].cache = c /\ \A q \in Procs \ {p} : proc'[q] = proc[q]
      BY <2>5, <3>1, SetFields
    <3>3. cacheFile = {c}
      BY DEF FilesInv, TypeOK, Files
    <3> QED
      BY <2>2, <3>2, <3>3, CopyOne
  <2> QED
    BY <1>2, <1>3, <2>1, <2>2, <2>3, <2>4, <2>5 DEF Held
<1>6. CASE TouchConfig(p) \/ TouchCache(p) \/ DescAll(p) \/ Dump(p)
  <2>1. proc'[p].step \notin Held \cup {"cacheLost"} /\ \A q \in Procs \ {p} : proc'[q] = proc[q]
    <3>1. CASE TouchConfig(p)
      <4>1. Set(p, [proc[p] EXCEPT !.step = "configNew"])
        BY <3>1 DEF TouchConfig, Move
      <4> QED
        BY <1>x, <4>1, SetFields DEF Process, Held
    <3>2. CASE TouchCache(p)
      <4>1. Set(p, [proc[p] EXCEPT !.step = "cacheNew"])
        BY <3>2 DEF TouchCache, Move
      <4> QED
        BY <1>x, <4>1, SetFields DEF Process, Held
    <3>3. CASE DescAll(p)
      <4>1. PICK here : Set(p, [proc[p] EXCEPT !.step = "describeAll", !.todo = here])
        BY <3>3 DEF DescAll
      <4>2. PICK y : y = [proc[p] EXCEPT !.step = "describeAll", !.todo = here]
        OBVIOUS
      <4>3. y.step = "describeAll"
        BY <1>x, <4>2 DEF Process
      <4>4. proc'[p] = y /\ \A q \in Procs \ {p} : proc'[q] = proc[q]
        BY <4>1, <4>2, SetFields
      <4> QED
        BY <4>3, <4>4 DEF Held
    <3>4. CASE Dump(p)
      <4>1. Set(p, [proc[p] EXCEPT !.step = "cache", !.dumping = TRUE])
        BY <3>4 DEF Dump
      <4>2. PICK y : y = [proc[p] EXCEPT !.step = "cache", !.dumping = TRUE]
        OBVIOUS
      <4>3. y.step = "cache"
        BY <1>x, <4>2 DEF Process
      <4>4. proc'[p] = y /\ \A q \in Procs \ {p} : proc'[q] = proc[q]
        BY <4>1, <4>2, SetFields
      <4> QED
        BY <4>3, <4>4 DEF Held
    <3> QED
      BY <1>6, <3>1, <3>2, <3>3, <3>4
  <2>2. Active(p)
    BY <1>6 DEF TouchConfig, TouchCache, DescAll, Dump, Active
  <2> QED
    BY <2>1, <2>2, CopyOne
<1>d. ASSUME NEW t, NEW s \in {"saveConfig", "saveDesc"}, proc[p].step = "ready", Describe(p, t, s), UNCHANGED cacheFile
      PROVE  Copied'
  <2>1. CASE Set(p, Idle)
    BY <1>d, <1>2, <2>1 DEF Active
  <2>2. CASE Set(p, [proc[p] EXCEPT !.step = s, !.seen = {[table |-> t, gen |-> schema[t]]}])
    <3>1. PICK y : y = [proc[p] EXCEPT !.step = s, !.seen = {[table |-> t, gen |-> schema[t]]}]
      OBVIOUS
    <3>2. y.step = s /\ y.raced = proc[p].raced /\ y.shell = proc[p].shell /\ y.cache = proc[p].cache
      BY <1>x, <3>1 DEF Process
    <3> QED
      BY <1>d, <1>3, <2>2, <3>1, <3>2 DEF Active, Held
  <2> QED
    BY <1>d, <2>1, <2>2 DEF Describe
<1>m. ASSUME Move(p, "noTarget"), Active(p), UNCHANGED cacheFile PROVE Copied'
  <2>1. [proc[p] EXCEPT !.step = "noTarget"].step = "noTarget"
    BY <1>x DEF Process
  <2> QED
    BY <1>m, <1>3, <2>1 DEF Move, Held
<1>7. CASE Use(p)
  BY <1>7, <1>d DEF Use
<1>8. CASE Desc(p)
  BY <1>8, <1>d, <1>m DEF Desc, Active
<1>9. CASE SaveConfig(p)
  <2>1. PICK d \in proc[p].seen :
          Set(p, [proc[p] EXCEPT !.step = "saveUse",
                                 !.config = [region |-> d.table[1], table |-> d.table[2]], !.used = TRUE])
    BY <1>9 DEF SaveConfig
  <2>2. PICK y : y = [proc[p] EXCEPT !.step = "saveUse",
                                 !.config = [region |-> d.table[1], table |-> d.table[2]], !.used = TRUE]
    OBVIOUS
  <2>3. y.step = "saveUse" /\ y.raced = proc[p].raced /\ y.shell = proc[p].shell /\ y.cache = proc[p].cache
    BY <1>x, <2>2 DEF Process
  <2> QED
    BY <1>9, <1>3, <2>1, <2>2, <2>3 DEF SaveConfig, Active, Held
<1>10. CASE DescribeOne(p) \/ SaveOne(p)
  <2>1. \/ Set(p, Idle)
        \/ \E y : y.step = "describeAll" /\ Set(p, y)
    <3>1. CASE DescribeOne(p)
      <4>1. PICK t \in proc[p].todo :
              \/ Set(p, Idle)
              \/ Set(p, [proc[p] EXCEPT !.todo = @ \ {t}, !.seen = @ \cup {[table |-> t, gen |-> schema[t]]}])
        BY <3>1 DEF DescribeOne
      <4>2. [proc[p] EXCEPT !.todo = @ \ {t}, !.seen = @ \cup {[table |-> t, gen |-> schema[t]]}].step = "describeAll"
        BY <1>x, <3>1 DEF Process, DescribeOne
      <4> QED
        BY <4>1, <4>2
    <3>2. CASE SaveOne(p)
      <4>1. PICK d : Set(p, [proc[p] EXCEPT !.seen = @ \ {d}])
        BY <3>2 DEF SaveOne
      <4>2. [proc[p] EXCEPT !.seen = @ \ {d}].step = "describeAll"
        BY <1>x, <3>2 DEF Process, SaveOne
      <4> QED
        BY <4>1, <4>2
    <3> QED
      BY <1>10, <3>1, <3>2
  <2>2. Active(p)
    BY <1>10 DEF DescribeOne, SaveOne, Active
  <2>3. (\E y : y.step = "describeAll" /\ Set(p, y)) => Copied'
    BY <2>2, SetFields, CopyOne DEF Held
  <2> QED
    BY <1>2, <2>1, <2>2, <2>3
<1>11. CASE Clear(p)
  <2>1. [proc[p] EXCEPT !.step = "clearCache", !.used = FALSE].step = "clearCache"
    BY <1>x DEF Process
  <2>2. /\ Active(p) /\ UNCHANGED cacheFile
        /\ Set(p, AfterCommand(proc[p])) \/ Set(p, [proc[p] EXCEPT !.step = "clearCache", !.used = FALSE])
    BY <1>11 DEF Clear, Active
  <2> QED
    BY <1>2, <1>3, <2>1, <2>2 DEF Held
<1>12. CASE TableSchema(p)
  <2>1. /\ Active(p) /\ UNCHANGED cacheFile
        /\ Move(p, "noTarget") \/ Set(p, Idle) \/ Set(p, AfterCommand(proc[p]))
    BY <1>12 DEF TableSchema, Active
  <2> QED
    BY <1>2, <1>m, <2>1
<1>13. CASE SaveUse(p) \/ SaveDesc(p) \/ FinishDescAll(p) \/ ClearCache(p)
            \/ NoEffectiveTable(p) \/ Quit(p) \/ Crash(p)
  <2>1. Active(p) /\ (Set(p, Idle) \/ Set(p, AfterCommand(proc[p])))
    BY <1>13 DEF SaveUse, SaveDesc, FinishDescAll, ClearCache, NoEffectiveTable, Quit, Crash, Active
  <2> QED
    BY <1>2, <2>1
<1> QED
  BY <1>1, <1>4, <1>5, <1>6, <1>7, <1>8, <1>9, <1>10, <1>11, <1>12, <1>13 DEF Step

\* What a step of a process may remove from the cache.
LostByRace == \E p \in Procs : /\ proc'[p] # proc[p]
                               /\ \/ proc[p].step \in {"clearCache", "describeAll"}
                                  \/ proc[p].shell
                                  \/ proc[p].raced

\* A single command that met no other process adds its entry to the file it read.
LEMMA EntriesKept ==
  ASSUME FilesInv, Copied, NEW p \in Procs, Step(p)
  PROVE  Entries(cacheFile) \subseteq Entries(cacheFile') \/ LostByRace
<1>x. proc[p] \in Process
  BY DEF FilesInv, TypeOK
<1>1. CASE SaveUse(p) \/ SaveDesc(p)
  <2>1. PICK d \in proc[p].seen : cacheFile' = WithEntry(proc[p], d)
    BY <1>1 DEF SaveUse, SaveDesc
  <2>2. Active(p) /\ proc[p].step \in {"saveUse", "saveDesc"} /\ Set(p, AfterCommand(proc[p]))
    BY <1>1 DEF SaveUse, SaveDesc, Active
  <2>3. proc'[p] # proc[p]
    BY <1>x, <2>2, AfterFields, SetFields
  <2>4. CASE ~proc[p].raced /\ ~proc[p].shell
    <3>1. cacheFile = {proc[p].cache}
      BY <2>2, <2>4 DEF Copied, Held
    <3>2. PICK k \in cacheFile' : k = [proc[p].cache EXCEPT ![d.table] = d.gen]
      BY <2>1 DEF WithEntry
    <3>3. proc[p].cache \in Cache /\ d.gen > 0
      BY <1>x, BoundsAssumption DEF Process, Description
    <3>4. ASSUME NEW t \in Targets, proc[p].cache[t] > 0 PROVE k[t] > 0
      BY <3>2, <3>3, <3>4 DEF Cache
    <3> QED
      BY <3>1, <3>4 DEF Entries
  <2> QED
    BY <2>3, <2>4 DEF LostByRace
<1>2. CASE TouchCache(p)
  <2>1. /\ Active(p) /\ proc[p].step = "cacheLost" /\ cacheFile' = {NoCache}
        /\ Set(p, [proc[p] EXCEPT !.step = "cacheNew"])
    BY <1>2 DEF TouchCache, Active, Move
  <2>2. proc'[p].step = "cacheNew"
    BY <1>x, <2>1, SetFields DEF Process
  <2>3. ~proc[p].raced => Entries(cacheFile) = {}
    BY <2>1 DEF Copied, Entries
  <2> QED
    BY <2>1, <2>2, <2>3 DEF LostByRace
<1>3. CASE SaveOne(p)
  <2>1. PICK d \in proc[p].seen : Set(p, [proc[p] EXCEPT !.seen = @ \ {d}])
    BY <1>3 DEF SaveOne
  <2>2. proc'[p].seen = proc[p].seen \ {d}
    BY <1>x, <2>1, SetFields DEF Process
  <2>3. proc'[p] # proc[p] /\ proc[p].step = "describeAll"
    BY <1>3, <2>2 DEF SaveOne
  <2> QED
    BY <2>3 DEF LostByRace
<1>4. CASE ClearCache(p)
  <2>1. proc[p].step = "clearCache" /\ Set(p, AfterCommand(proc[p]))
    BY <1>4 DEF ClearCache
  <2>2. proc'[p] # proc[p]
    BY <1>x, <2>1, AfterFields, SetFields
  <2> QED
    BY <2>1, <2>2 DEF LostByRace
<1>5. CASE ~(SaveUse(p) \/ SaveDesc(p) \/ TouchCache(p) \/ SaveOne(p) \/ ClearCache(p))
  <2>1. UNCHANGED cacheFile
    BY <1>5 DEF Step, Begin, LoadConfig, TouchConfig, LoadCache, Use, SaveConfig, Desc, DescAll, DescribeOne,
                FinishDescAll, Clear, Dump, TableSchema, NoEffectiveTable, Quit, Crash
  <2> QED
    BY <2>1 DEF Entries
<1> QED
  BY <1>1, <1>2, <1>3, <1>4, <1>5

\* An entry of the cache disappears only in `config clear`, in a shell session, in
\* `desc --all-tables`, or because two processes ran at once, for any number of
\* processes and tables.
THEOREM EntriesAreKept == Spec => EntriesLostByRaceOnly
<1>1. Init => Copied
  BY DEF Init, Copied, Active, Idle
<1>2. FilesInv /\ Copied /\ [Next]_vars => Copied'
  <2> SUFFICES ASSUME FilesInv, Copied, [Next]_vars PROVE Copied'
    OBVIOUS
  <2>1. ASSUME NEW p \in Procs, Step(p) PROVE Copied'
    BY <2>1, CopyStep
  <2>2. ASSUME UNCHANGED <<cacheFile, proc>> PROVE Copied'
    BY <2>2 DEF Copied, Active
  <2> QED
    BY <2>1, <2>2 DEF Next, vars, CreateTable, DeleteTable
<1>3. FilesInv /\ Copied /\ [Next]_vars => [Entries(cacheFile) \subseteq Entries(cacheFile') \/ LostByRace]_vars
  <2> SUFFICES ASSUME FilesInv, Copied, Next
               PROVE  Entries(cacheFile) \subseteq Entries(cacheFile') \/ LostByRace
    OBVIOUS
  <2>1. ASSUME UNCHANGED cacheFile PROVE Entries(cacheFile) \subseteq Entries(cacheFile')
    BY <2>1 DEF Entries
  <2> QED
    BY <2>1, EntriesKept DEF Next, CreateTable, DeleteTable
<1> QED
  BY <1>1, <1>2, <1>3, FilesInit, FilesStep, PTL DEF Spec, EntriesLostByRaceOnly, LostByRace

=============================================================================
