-------------------------------- MODULE Geo --------------------------------
(***************************************************************************)
(* Enrichment.  The geo_refresh loop downloads the databases that are      *)
(* missing or old and reopens them; the enrich loop looks up the live rows *)
(* that have no geo data yet, then asks for the anonymity of those that    *)
(* have not been asked.  Both are marked done on the row, once.            *)
(*                                                                         *)
(* A database's content is whether maxminddb can open it, its age whether  *)
(* _is_stale holds of it.  Of what a lookup finds, only whether any of the *)
(* open databases knew the row is kept.  Rows stay: what prune deletes is  *)
(* the business of Sweeps.                                                 *)
(*                                                                         *)
(* Bound of the instance: MaxRestarts.                                     *)
(*                                                                         *)
(* An operator whose comment begins with "Mutant" is a faulty version of   *)
(* a definition after it, which a property must tell from the original.    *)
(***************************************************************************)
EXTENDS Integers, FiniteSets

CONSTANTS Databases,   \* the keys of Geo._readers
          Proxies,
          GeoBatch,    \* rows a round looks up, 5000
          AnonBatch,   \* rows a round asks for their anonymity, 60
          MaxRestarts

ASSUME BatchAssumption ==
    /\ GeoBatch \in Nat \ {0} /\ AnonBatch \in Nat \ {0} /\ MaxRestarts \in Nat
    /\ IsFiniteSet(Databases) /\ IsFiniteSet(Proxies)

VARIABLES file,      \* file[d]: what is on disk under the database's own name
          fresh,     \* the databases whose file is younger than the interval
          reader,    \* the databases that are open
          download,  \* download[d]: how far _download(d) is
          refresh,   \* where refresh stands
          row,       \* row[p]: the columns enrichment reads or writes
          enrich,    \* where _enrich_once stands
          answers,   \* the proxies whose rows it is about to write
          asked,     \* the proxies whose anonymity it waits for
          restarts

vars == <<file, fresh, reader, download, refresh, row, enrich, answers, asked, restarts>>

Row == [alive : BOOLEAN, geoDone : BOOLEAN, anonDone : BOOLEAN]

Idle == \A d \in Databases : download[d] = "none"

Init ==
    /\ file \in [Databases -> {"none", "good"}]
    /\ fresh \in SUBSET {d \in Databases : file[d] = "good"}
    /\ reader = {}
    /\ download = [d \in Databases |-> "none"]
    /\ refresh = "idle"
    /\ row = [p \in Proxies |-> [alive |-> FALSE, geoDone |-> FALSE, anonDone |-> FALSE]]
    /\ enrich = "idle"
    /\ answers = {}
    /\ asked = {}
    /\ restarts = 0

-----------------------------------------------------------------------------
(* Geo.refresh *)

IsStale(d) == file[d] = "none" \/ d \notin fresh

StartRefresh ==
    /\ refresh = "idle"
    /\ download' = [d \in Databases |-> IF IsStale(d) THEN "reading" ELSE "none"]
    /\ refresh' = "loading"
    /\ UNCHANGED <<file, fresh, reader, row, enrich, answers, asked, restarts>>

\* The body is in the .part file: a database, or something else with status 200.
Receive(d) ==
    /\ download[d] = "reading"
    /\ \E content \in {"good", "bad"} : download' = [download EXCEPT ![d] = content]
    /\ UNCHANGED <<file, fresh, reader, refresh, row, enrich, answers, asked, restarts>>

\* An error that _download catches, at any point of it.
GiveUp(d) ==
    /\ download[d] # "none"
    /\ download' = [download EXCEPT ![d] = "none"]
    /\ UNCHANGED <<file, fresh, reader, refresh, row, enrich, answers, asked, restarts>>

\* Mutant: swapped in before it is tried.
SwappedUntried(d) == [file EXCEPT ![d] = download[d]]

Swapped(d) == IF download[d] = "good" THEN [file EXCEPT ![d] = "good"] ELSE file

\* _finalize.  What maxminddb rejects raises InvalidDatabaseError, which nobody
\* catches before gather: refresh ends without opening anything.
Finalize(d) ==
    /\ download[d] \in {"good", "bad"}
    /\ file' = Swapped(d)
    /\ fresh' = IF download[d] = "good" THEN fresh \cup {d} ELSE fresh
    /\ download' = [download EXCEPT ![d] = "none"]
    /\ refresh' = IF download[d] = "good" THEN refresh ELSE "raised"
    /\ UNCHANGED <<reader, row, enrich, answers, asked, restarts>>

OpenAll ==
    /\ refresh = "loading" /\ Idle
    /\ reader' = reader \cup {d \in Databases : file[d] = "good"}
    /\ refresh' = "idle"
    /\ UNCHANGED <<file, fresh, download, row, enrich, answers, asked, restarts>>

\* The loop has logged the exception; the other downloads have run out.
EndRaised ==
    /\ refresh = "raised" /\ Idle
    /\ refresh' = "idle"
    /\ UNCHANGED <<file, fresh, reader, download, row, enrich, answers, asked, restarts>>

-----------------------------------------------------------------------------
(* Scheduler._enrich_once *)

Ready == reader # {}

PendingGeo == {p \in Proxies : row[p].alive /\ ~row[p].geoDone}
PendingAnon(r) == {p \in Proxies : r[p].alive /\ ~r[p].anonDone}

\* SELECT ... LIMIT n, in no particular order.
Limited(S, n) ==
    {T \in SUBSET S : Cardinality(T) = IF Cardinality(S) < n THEN Cardinality(S) ELSE n}

\* Mutant: what no database knows is not answered.
AnsweredKnown(known) == known

\* A row is written when a database knew it, or when one is open at all.
Answered(known) == known \/ Ready

\* The batch is read under the lock and looked up before anything is awaited.
LookUp ==
    /\ enrich = "idle"
    /\ \E batch \in Limited(PendingGeo, GeoBatch) :
       \E knows \in [batch -> IF Ready THEN BOOLEAN ELSE {FALSE}] :
          answers' = {p \in batch : Answered(knows[p])}
    /\ enrich' = "answered"
    /\ UNCHANGED <<file, fresh, reader, download, refresh, row, asked, restarts>>

WithGeo ==
    [p \in Proxies |->
        IF p \in answers THEN [row[p] EXCEPT !.geoDone = TRUE] ELSE row[p]]

\* One section of the lock writes the geo columns and reads who is to be asked.
WriteGeo ==
    /\ enrich = "answered"
    /\ row' = WithGeo
    /\ asked' \in Limited(PendingAnon(WithGeo), AnonBatch)
    /\ answers' = {}
    /\ enrich' = IF asked' = {} THEN "idle" ELSE "asking"
    /\ UNCHANGED <<file, fresh, reader, download, refresh, restarts>>

\* Mutant: only a level is an answer.
AskedDoneLevel(level) == level

\* Done also when the proxy did not answer.
AskedDone(level) == TRUE

WriteAnonymity ==
    /\ enrich = "asking"
    /\ \E level \in [asked -> BOOLEAN] :
          row' = [p \in Proxies |->
                    IF p \in asked /\ AskedDone(level[p]) THEN [row[p] EXCEPT !.anonDone = TRUE]
                                                          ELSE row[p]]
    /\ asked' = {}
    /\ enrich' = "idle"
    /\ UNCHANGED <<file, fresh, reader, download, refresh, answers, restarts>>

-----------------------------------------------------------------------------
(* The surroundings *)

Check(p) ==
    /\ row' = [row EXCEPT ![p].alive = ~@]
    /\ UNCHANGED <<file, fresh, reader, download, refresh, enrich, answers, asked, restarts>>

\* A file comes of the age at which refresh replaces it.
Age(d) ==
    /\ d \in fresh
    /\ fresh' = fresh \ {d}
    /\ UNCHANGED <<file, reader, download, refresh, row, enrich, answers, asked, restarts>>

\* The process stops and starts again, with no database open.
Restart ==
    /\ restarts < MaxRestarts
    /\ restarts' = restarts + 1
    /\ reader' = {}
    /\ download' = [d \in Databases |-> "none"]
    /\ refresh' = "idle"
    /\ enrich' = "idle"
    /\ answers' = {}
    /\ asked' = {}
    /\ UNCHANGED <<file, fresh, row>>

Next ==
    \/ StartRefresh \/ OpenAll \/ EndRaised
    \/ \E d \in Databases : Receive(d) \/ GiveUp(d) \/ Finalize(d) \/ Age(d)
    \/ LookUp \/ WriteGeo \/ WriteAnonymity
    \/ \E p \in Proxies : Check(p)
    \/ Restart

Spec == Init /\ [][Next]_vars

\* The enrich loop comes round again, and what it awaits ends: a lookup is
\* local, and check_anonymity has a timeout.
FairSpec == Spec /\ WF_vars(LookUp) /\ WF_vars(WriteGeo) /\ WF_vars(WriteAnonymity)

-----------------------------------------------------------------------------
(* Properties *)

TypeOK ==
    /\ file \in [Databases -> {"none", "good"}]
    /\ fresh \subseteq {d \in Databases : file[d] = "good"}
    /\ reader \subseteq Databases
    /\ download \in [Databases -> {"none", "reading", "good", "bad"}]
    /\ refresh \in {"idle", "loading", "raised"}
    /\ row \in [Proxies -> Row]
    /\ enrich \in {"idle", "answered", "asking"}
    /\ answers \subseteq Proxies /\ asked \subseteq Proxies
    /\ restarts \in 0 .. MaxRestarts

\* A live row is not asked about for ever: with a database open, it gets its
\* mark in the end, known or not, however many rows compete for the batch.
GeoSettles ==
    \A p \in Proxies :
        row[p].alive /\ Ready ~> row[p].geoDone \/ ~row[p].alive \/ ~Ready

=============================================================================
