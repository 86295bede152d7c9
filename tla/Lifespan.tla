------------------------------ MODULE Lifespan ------------------------------
(***************************************************************************)
(* The life of the process around enrichment: __main__'s lifespan opens    *)
(* the database, which brings the tables of an older release up to date,   *)
(* and starts the scheduler; only then do the loops of Geo run.  The       *)
(* process may end at any point, and compose launches it again.            *)
(*                                                                         *)
(* A start that raises does not end the process.  lifespan has opened the  *)
(* database and is not yet in the try whose finally closes it              *)
(* (__main__.py:28-35), and the worker thread of an open aiosqlite         *)
(* connection, which is not a daemon, keeps the interpreter from exiting:  *)
(* that much is the library's (uv.lock:154), not this repository's.        *)
(*                                                                         *)
(* Every ALTER TABLE and every statement of a script is a transaction of   *)
(* its own, so what a start had done before it ended is on disk.           *)
(*                                                                         *)
(* An operator whose comment begins with "Mutant" is a faulty version of   *)
(* a definition after it, which a property must tell from the original.    *)
(***************************************************************************)
EXTENDS Geo, Sequences

CONSTANTS Added,     \* the keys of _ADDED_COLUMNS, in order
          Indexes,   \* the indexes of INDEXES, in order, each with a column it is over
          Base,      \* a column of the first release
          OldIndex   \* idx_proxies_cold, of an earlier release

ASSUME ScriptAssumption ==
    /\ DOMAIN Added = 1 .. Len(Added) /\ Len(Added) \in Nat
    /\ DOMAIN Indexes = 1 .. Len(Indexes) /\ Len(Indexes) \in Nat \ {0}
    /\ \A k \in DOMAIN Indexes : Indexes[k].name # OldIndex

VARIABLES process,   \* where the lifespan stands; "down" when there is no process,
                     \* "hung" when its start has failed with the database open
          columns,   \* the columns of proxies on disk, {} when there is no table
          indexes,   \* the indexes on disk
          present,   \* _migrate: the columns that table_info named
          at         \* the place in Added or in Indexes

lifeVars == <<process, columns, indexes, present, at>>

AllColumns == {Base} \cup {Added[k] : k \in DOMAIN Added}
AllIndexes == {Indexes[k].name : k \in DOMAIN Indexes}

\* No database yet, or what a release that had some of the columns has left.
LifespanInit ==
    /\ Init
    /\ process = "down"
    /\ \E n \in 0 .. Len(Added) : columns \in {{}, {Base} \cup {Added[k] : k \in 1 .. n}}
    /\ indexes \in IF columns = {} THEN {{}} ELSE {{}, {OldIndex}}
    /\ present = {}
    /\ at = 1

-----------------------------------------------------------------------------
(* Storage.open *)

\* Mutant: indexes with the tables, the migration after them.
AfterStageUnordered(stage) ==
    CASE stage = "opening" -> "indexing" [] stage = "indexing" -> "migrating"
      [] stage = "migrating" -> "starting"

AfterStage(stage) ==
    CASE stage = "opening" -> "migrating" [] stage = "migrating" -> "indexing"
      [] stage = "indexing" -> "starting"

Launch ==
    /\ process = "down"
    /\ process' = "opening"
    /\ UNCHANGED <<vars, columns, indexes, present, at>>

\* executescript(TABLES), which changes nothing where the table is there, and the
\* PRAGMA that _migrate begins with.
CreateTables ==
    /\ process = "opening"
    /\ columns' = IF columns = {} THEN AllColumns ELSE columns
    /\ present' = columns'
    /\ process' = AfterStage("opening")
    /\ at' = 1
    /\ UNCHANGED <<vars, indexes>>

\* Mutant: a database that has the first of the columns is taken for migrated.
MissingAtOnce(k) == Added[1] \notin present

Missing(k) == Added[k] \notin present

Migrate ==
    /\ process = "migrating"
    /\ IF at > Len(Added)
       THEN process' = AfterStage("migrating") /\ at' = 1 /\ UNCHANGED columns
       ELSE /\ columns' = IF Missing(at) THEN columns \cup {Added[at]} ELSE columns
            /\ at' = at + 1
            /\ UNCHANGED process
    /\ UNCHANGED <<vars, indexes, present>>

\* The script raises at an index over a column that is not there.  Its first statement
\* drops the old index.
CreateIndex ==
    /\ process = "indexing"
    /\ IF at > Len(Indexes)
       THEN process' = AfterStage("indexing") /\ at' = 1 /\ UNCHANGED indexes
       ELSE IF Indexes[at].over \in columns
       THEN /\ indexes' = (indexes \ {OldIndex}) \cup {Indexes[at].name}
            /\ at' = at + 1
            /\ UNCHANGED process
       ELSE process' = "hung" /\ at' = 1 /\ indexes' = indexes \ {OldIndex}
    /\ UNCHANGED <<vars, columns, present>>

-----------------------------------------------------------------------------
(* Scheduler.start, and the end of the process *)

\* Own address known or not, the loops start.
StartLoops ==
    /\ process = "starting"
    /\ process' = "up"
    /\ UNCHANGED <<vars, columns, indexes, present, at>>

\* The address service answers with JSON that is not an object: detect_own_ip does
\* not catch the AttributeError, and the start fails.
StartRaises ==
    /\ process = "starting"
    /\ process' = "hung"
    /\ UNCHANGED <<vars, columns, indexes, present, at>>

\* A stop, a kill or a reboot; nothing else ends a process whose start has failed.
Kill ==
    /\ process # "down"
    /\ Restart
    /\ process' = "down"
    /\ at' = 1
    /\ UNCHANGED <<columns, indexes, present>>

\* A step of Geo, which only a process that is up takes.
Run(step) == process = "up" /\ step /\ UNCHANGED lifeVars

Loops ==
    \/ StartRefresh \/ OpenAll \/ EndRaised
    \/ \E d \in Databases : Receive(d) \/ GiveUp(d) \/ Finalize(d)
    \/ LookUp \/ WriteGeo \/ WriteAnonymity
    \/ \E p \in Proxies : Check(p)

\* Files age without a process too.
LifespanNext ==
    \/ Launch \/ CreateTables \/ Migrate \/ CreateIndex \/ StartLoops \/ StartRaises \/ Kill
    \/ Run(Loops)
    \/ \E d \in Databases : Age(d) /\ UNCHANGED lifeVars

LifespanSpec == LifespanInit /\ [][LifespanNext]_<<vars, lifeVars>>

\* Compose launches a process that has ended again (compose.yaml:6, restart:
\* unless-stopped), and a start goes on, one way or the other; and the fairness of
\* FairSpec for the loops of a process that is up.
LifespanFairSpec ==
    /\ LifespanSpec
    /\ WF_<<vars, lifeVars>>(Launch)
    /\ WF_<<vars, lifeVars>>(CreateTables \/ Migrate \/ CreateIndex)
    /\ WF_<<vars, lifeVars>>(StartLoops \/ StartRaises)
    /\ WF_<<vars, lifeVars>>(Run(LookUp))
    /\ WF_<<vars, lifeVars>>(Run(WriteGeo))
    /\ WF_<<vars, lifeVars>>(Run(WriteAnonymity))

-----------------------------------------------------------------------------
(* Properties *)

\* The types, and no database is open and no loop under way unless the process is up.
LifespanTypeOK ==
    /\ TypeOK
    /\ process \in {"down", "opening", "migrating", "indexing", "starting", "up", "hung"}
    /\ columns \subseteq AllColumns /\ present \subseteq AllColumns
    /\ indexes \subseteq AllIndexes \cup {OldIndex}
    /\ at \in Nat \ {0}
    /\ process # "up" => reader = {} /\ refresh = "idle" /\ enrich = "idle"

\* storage.py:95, every column added after the first release "has to be introduced
\* here as well": no loop runs on a table that lacks a column or an index, or still
\* has the old one, whatever release made the database and wherever the starts
\* before this one ended.
UpMeansReady == process = "up" => columns = AllColumns /\ indexes = AllIndexes

\* storage.py:77: an index over an added column "cannot be created until that
\* migration has run".  Every database, also one left half migrated, comes up, or it
\* is not the database that keeps the process from coming up.
EventuallyUp ==
    \/ <>[](process = "up")
    \/ <>[](process = "hung" /\ columns = AllColumns /\ indexes = AllIndexes)

\* The anonymity of a live row is settled in the end, by an answer or without one:
\* silent proxies do not take up the batch for ever, unless no loop runs at all.
AnonymitySettles ==
    \A p \in Proxies :
        row[p].alive ~> row[p].anonDone \/ ~row[p].alive \/ process = "hung"

=============================================================================
