--------------------------- MODULE Lifespan_proofs ---------------------------
(***************************************************************************)
(* A process that is up has the whole schema, and what enrichment keeps is *)
(* well typed, for every list of columns and indexes, every database an    *)
(* earlier start has left, and any databases and proxies.                  *)
(***************************************************************************)
EXTENDS Lifespan, TLAPS

allVars == <<vars, lifeVars>>

\* The part of a script of n statements that is before the place k.
Before(k, n) == {j \in 1 .. n : j < k}

\* What each stage of a start has behind it.
StageInv ==
    /\ columns \in SUBSET AllColumns /\ (columns = {} \/ Base \in columns)
    /\ indexes \in SUBSET (AllIndexes \cup {OldIndex})
    /\ at \in Nat \ {0} /\ present \in SUBSET AllColumns
    /\ process \in {"down", "opening", "migrating", "indexing", "starting", "up", "hung"}
    /\ process = "migrating" =>
          /\ Base \in columns /\ present \subseteq columns
          /\ \A j \in Before(at, Len(Added)) : Added[j] \in columns
    /\ process = "indexing" =>
          /\ columns = AllColumns
          /\ at > 1 => OldIndex \notin indexes
          /\ \A j \in Before(at, Len(Indexes)) : Indexes[j].name \in indexes
    /\ process \in {"starting", "up"} => columns = AllColumns /\ indexes = AllIndexes

-----------------------------------------------------------------------------
\* The conjuncts of StageInv that only a step of the start can disturb hold after
\* any step that leaves the schema alone.
LEMMA StageInit == LifespanInit => StageInv
<1> SUFFICES ASSUME LifespanInit PROVE StageInv
  OBVIOUS
<1>1. PICK n \in 0 .. Len(Added) : columns \in {{}, {Base} \cup {Added[k] : k \in 1 .. n}}
  BY DEF LifespanInit
<1>2. {Added[k] : k \in 1 .. n} \subseteq {Added[k] : k \in DOMAIN Added}
  BY ScriptAssumption
<1>3. columns \in SUBSET AllColumns /\ (columns = {} \/ Base \in columns)
  BY <1>1, <1>2 DEF AllColumns
<1> QED
  BY <1>3 DEF LifespanInit, StageInv

LEMMA StageStays ==
    ASSUME StageInv, UNCHANGED lifeVars
    PROVE  StageInv'
BY DEF StageInv, lifeVars, Before, AllColumns, AllIndexes

LEMMA StageNext == StageInv /\ [LifespanNext]_allVars => StageInv'
<1> SUFFICES ASSUME StageInv, [LifespanNext]_allVars PROVE StageInv'
  OBVIOUS
<1>1. CASE Launch
  BY <1>1 DEF Launch, StageInv, Before
<1>2. CASE CreateTables
  <2>1. columns' \in SUBSET AllColumns /\ Base \in columns' /\ present' \subseteq columns'
    BY <1>2 DEF CreateTables, StageInv, AllColumns
  <2>2. process' = "migrating" /\ at' = 1 /\ indexes' = indexes
    BY <1>2 DEF CreateTables, AfterStage
  <2> QED
    BY <2>1, <2>2 DEF StageInv, Before
<1>3. CASE Migrate
  <2>0. process = "migrating" /\ indexes' = indexes /\ present' = present
    BY <1>3 DEF Migrate
  <2>9. present' \in SUBSET AllColumns
    BY <2>0 DEF StageInv
  <2>1. CASE at > Len(Added)
    <3>1. \A j \in DOMAIN Added : Added[j] \in columns
      BY <2>0, <2>1, ScriptAssumption DEF StageInv, Before
    <3>2. columns = AllColumns
      BY <2>0, <3>1 DEF StageInv, AllColumns
    <3>3. process' = "indexing" /\ at' = 1 /\ columns' = columns
      BY <1>3, <2>1 DEF Migrate, AfterStage
    <3> QED
      BY <2>0, <2>9, <3>2, <3>3 DEF StageInv, Before
  <2>2. CASE ~(at > Len(Added))
    <3>1. at \in DOMAIN Added /\ at + 1 \in Nat \ {0}
      BY <2>2, ScriptAssumption DEF StageInv
    <3>2. /\ at' = at + 1 /\ process' = process
          /\ columns' = IF Missing(at) THEN columns \cup {Added[at]} ELSE columns
      BY <1>3, <2>2 DEF Migrate
    <3>3. Added[at] \in columns' /\ columns \subseteq columns' /\ columns' \subseteq AllColumns
      BY <2>0, <3>1, <3>2 DEF StageInv, Missing, AllColumns
    <3>4. \A j \in Before(at + 1, Len(Added)) : j = at \/ j \in Before(at, Len(Added))
      BY ScriptAssumption DEF StageInv, Before
    <3>5. \A j \in Before(at', Len(Added)) : Added[j] \in columns'
      BY <2>0, <3>2, <3>3, <3>4 DEF StageInv
    <3>6. Base \in columns' /\ present' \subseteq columns' /\ at' \in Nat \ {0}
      BY <2>0, <3>1, <3>2, <3>3 DEF StageInv
    <3> QED
      BY <2>0, <2>9, <3>2, <3>3, <3>5, <3>6 DEF StageInv
  <2> QED
    BY <2>1, <2>2
<1>4. CASE CreateIndex
  <2>0. process = "indexing" /\ columns' = columns /\ columns = AllColumns
    BY <1>4 DEF CreateIndex, StageInv
  <2>9. present' \in SUBSET AllColumns
    BY <1>4 DEF CreateIndex, StageInv
  <2>1. CASE at > Len(Indexes)
    <3>1. \A j \in DOMAIN Indexes : Indexes[j].name \in indexes
      BY <2>0, <2>1, ScriptAssumption DEF StageInv, Before
    <3>2. OldIndex \notin indexes
      BY <2>0, <2>1, ScriptAssumption DEF StageInv
    <3>3. indexes = AllIndexes
      BY <3>1, <3>2 DEF StageInv, AllIndexes
    <3>4. process' = "starting" /\ at' = 1 /\ indexes' = indexes
      BY <1>4, <2>1 DEF CreateIndex, AfterStage
    <3> QED
      BY <2>0, <2>9, <3>3, <3>4 DEF StageInv
  <2>2. CASE ~(at > Len(Indexes)) /\ Indexes[at].over \in columns
    <3>1. at \in DOMAIN Indexes /\ at + 1 \in Nat \ {0}
      BY <2>2, ScriptAssumption DEF StageInv
    <3>2. /\ at' = at + 1 /\ process' = process
          /\ indexes' = (indexes \ {OldIndex}) \cup {Indexes[at].name}
      BY <1>4, <2>2 DEF CreateIndex
    <3>3. Indexes[at].name \in AllIndexes /\ Indexes[at].name # OldIndex
      BY <3>1, ScriptAssumption DEF AllIndexes
    <3>4. \A j \in Before(at + 1, Len(Indexes)) : j = at \/ j \in Before(at, Len(Indexes))
      BY ScriptAssumption DEF StageInv, Before
    <3>5. \A j \in Before(at', Len(Indexes)) : Indexes[j].name \in indexes'
      <4> SUFFICES ASSUME NEW j \in Before(at', Len(Indexes)) PROVE Indexes[j].name \in indexes'
        OBVIOUS
      <4>1. CASE j = at
        BY <3>2, <4>1
      <4>2. CASE j \in Before(at, Len(Indexes))
        <5>1. Indexes[j].name \in indexes
          BY <2>0, <4>2 DEF StageInv
        <5>2. Indexes[j].name # OldIndex
          BY <4>2, ScriptAssumption DEF Before
        <5> QED
          BY <3>2, <5>1, <5>2
      <4> QED
        BY <3>2, <3>4, <4>1, <4>2
    <3>6. OldIndex \notin indexes' /\ indexes' \in SUBSET (AllIndexes \cup {OldIndex})
      BY <3>2, <3>3 DEF StageInv
    <3>7. at' \in Nat \ {0} /\ process' = "indexing"
      BY <2>0, <3>1, <3>2
    <3>8. columns' \in SUBSET AllColumns /\ Base \in columns'
      BY <2>0 DEF AllColumns
    <3> QED
      BY <2>0, <2>9, <3>5, <3>6, <3>7, <3>8 DEF StageInv
  <2>3. CASE ~(at > Len(Indexes)) /\ Indexes[at].over \notin columns
    <3>1. process' = "hung" /\ at' = 1 /\ indexes' = indexes \ {OldIndex}
      BY <1>4, <2>3 DEF CreateIndex
    <3> QED
      BY <2>0, <2>9, <3>1 DEF StageInv
  <2> QED
    BY <2>1, <2>2, <2>3
<1>5. CASE StartLoops
  BY <1>5 DEF StartLoops, StageInv
<1>6. CASE StartRaises
  BY <1>6 DEF StartRaises, StageInv
<1>7. CASE Kill
  BY <1>7 DEF Kill, StageInv
<1>8. CASE Run(Loops)
  BY <1>8, StageStays DEF Run
<1>9. CASE \E d \in Databases : Age(d) /\ UNCHANGED lifeVars
  BY <1>9, StageStays
<1>10. CASE UNCHANGED allVars
  BY <1>10, StageStays DEF allVars
<1> QED
  BY <1>1, <1>2, <1>3, <1>4, <1>5, <1>6, <1>7, <1>8, <1>9, <1>10 DEF LifespanNext

\* UpMeansReady, for any added columns and any indexes.
THEOREM UpMeansReadyHolds == LifespanSpec => []UpMeansReady
<1>1. StageInv => UpMeansReady
  BY DEF StageInv, UpMeansReady
<1> QED
  BY <1>1, StageInit, StageNext, PTL DEF LifespanSpec, allVars

-----------------------------------------------------------------------------
(* Enrichment *)

LEMMA GeoInit == Init => TypeOK
BY BatchAssumption DEF Init, TypeOK, Row

LEMMA LookUpKeeps == TypeOK /\ LookUp => TypeOK'
<1> SUFFICES ASSUME TypeOK, LookUp PROVE TypeOK'
  OBVIOUS
<1>1. answers' \subseteq Proxies
  BY DEF LookUp, Limited, PendingGeo
<1>2. /\ UNCHANGED <<file, fresh, reader, download, refresh, row, asked, restarts>>
      /\ enrich' = "answered"
  BY DEF LookUp
<1> QED
  BY <1>1, <1>2 DEF TypeOK

LEMMA WriteGeoKeeps == TypeOK /\ WriteGeo => TypeOK'
<1> SUFFICES ASSUME TypeOK, WriteGeo PROVE TypeOK'
  OBVIOUS
<1>1. row' = WithGeo /\ answers' = {} /\ enrich' \in {"idle", "asking"}
  BY DEF WriteGeo
<1>2. asked' \subseteq Proxies
  BY DEF WriteGeo, Limited, PendingAnon
<1>3. \A p \in Proxies : [row[p] EXCEPT !.geoDone = TRUE] \in Row
  BY DEF TypeOK, Row
<1>4. WithGeo \in [Proxies -> Row]
  BY <1>3 DEF WithGeo, TypeOK
<1>5. UNCHANGED <<file, fresh, reader, download, refresh, restarts>>
  BY DEF WriteGeo
<1> QED
  BY <1>1, <1>2, <1>4, <1>5 DEF TypeOK

LEMMA WriteAnonymityKeeps == TypeOK /\ WriteAnonymity => TypeOK'
<1> SUFFICES ASSUME TypeOK, WriteAnonymity PROVE TypeOK'
  OBVIOUS
<1>1. PICK level \in [asked -> BOOLEAN] :
        row' = [p \in Proxies |->
                  IF p \in asked /\ AskedDone(level[p]) THEN [row[p] EXCEPT !.anonDone = TRUE]
                                                        ELSE row[p]]
  BY DEF WriteAnonymity
<1>2. \A p \in Proxies : row'[p] \in Row
  BY <1>1 DEF TypeOK, Row
<1>3. row' \in [Proxies -> Row]
  BY <1>1, <1>2
<1>4. /\ UNCHANGED <<file, fresh, reader, download, refresh, answers, restarts>>
      /\ asked' = {} /\ enrich' = "idle"
  BY DEF WriteAnonymity
<1> QED
  BY <1>3, <1>4 DEF TypeOK

LEMMA GeoNext == TypeOK /\ [Next]_vars => TypeOK'
<1> SUFFICES ASSUME TypeOK, [Next]_vars PROVE TypeOK'
  OBVIOUS
<1>1. CASE StartRefresh
  BY <1>1 DEF StartRefresh, TypeOK
<1>2. CASE OpenAll
  BY <1>2 DEF OpenAll, TypeOK
<1>3. CASE EndRaised
  BY <1>3 DEF EndRaised, TypeOK
<1>4. ASSUME NEW d \in Databases, Receive(d) PROVE TypeOK'
  BY <1>4 DEF Receive, TypeOK
<1>5. ASSUME NEW d \in Databases, GiveUp(d) PROVE TypeOK'
  BY <1>5 DEF GiveUp, TypeOK
<1>6. ASSUME NEW d \in Databases, Finalize(d) PROVE TypeOK'
  BY <1>6 DEF Finalize, Swapped, TypeOK
<1>7. ASSUME NEW d \in Databases, Age(d) PROVE TypeOK'
  BY <1>7 DEF Age, TypeOK
<1>8. ASSUME NEW p \in Proxies, Check(p) PROVE TypeOK'
  BY <1>8 DEF Check, TypeOK, Row
<1>9. CASE Restart
  BY <1>9, BatchAssumption DEF Restart, TypeOK
<1>10. CASE UNCHANGED vars
  BY <1>10 DEF vars, TypeOK
<1> QED
  BY <1>1, <1>2, <1>3, <1>4, <1>5, <1>6, <1>7, <1>8, <1>9, <1>10,
     LookUpKeeps, WriteGeoKeeps, WriteAnonymityKeeps DEF Next

\* Every step of the life of the process is one of enrichment or leaves it alone.
LEMMA LifespanStep == [LifespanNext]_allVars => [Next]_vars
<1> SUFFICES ASSUME [LifespanNext]_allVars PROVE [Next]_vars
  OBVIOUS
<1>1. CASE Launch \/ CreateTables \/ Migrate \/ CreateIndex \/ StartLoops \/ StartRaises
  BY <1>1 DEF Launch, CreateTables, Migrate, CreateIndex, StartLoops, StartRaises
<1>2. CASE Kill
  BY <1>2 DEF Kill, Next
<1>3. CASE Run(Loops)
  BY <1>3 DEF Run, Loops, Next
<1>4. CASE \E d \in Databases : Age(d) /\ UNCHANGED lifeVars
  BY <1>4 DEF Next
<1>5. CASE UNCHANGED allVars
  BY <1>5 DEF allVars
<1> QED
  BY <1>1, <1>2, <1>3, <1>4, <1>5 DEF LifespanNext

LEMMA GeoTypes == LifespanSpec => []TypeOK
<1>1. LifespanInit => TypeOK
  BY GeoInit DEF LifespanInit
<1>2. TypeOK /\ [LifespanNext]_allVars => TypeOK'
  BY GeoNext, LifespanStep
<1> QED
  BY <1>1, <1>2, PTL DEF LifespanSpec, allVars

\* Nothing is under way unless the process is up.
QuietInv == process # "up" => reader = {} /\ refresh = "idle" /\ enrich = "idle"

LEMMA QuietNext == QuietInv /\ [LifespanNext]_allVars => QuietInv'
<1> SUFFICES ASSUME QuietInv, [LifespanNext]_allVars PROVE QuietInv'
  OBVIOUS
<1>1. CASE Launch \/ CreateTables \/ Migrate \/ CreateIndex \/ StartLoops \/ StartRaises
  <2>1. process # "up" /\ UNCHANGED vars
    BY <1>1 DEF Launch, CreateTables, Migrate, CreateIndex, StartLoops, StartRaises
  <2> QED
    BY <2>1 DEF QuietInv, vars
<1>2. CASE Kill
  BY <1>2 DEF Kill, Restart, QuietInv
<1>3. CASE Run(Loops)
  BY <1>3 DEF Run, QuietInv, lifeVars
<1>4. CASE \E d \in Databases : Age(d) /\ UNCHANGED lifeVars
  BY <1>4 DEF Age, QuietInv, lifeVars
<1>5. CASE UNCHANGED allVars
  BY <1>5 DEF allVars, vars, lifeVars, QuietInv
<1> QED
  BY <1>1, <1>2, <1>3, <1>4, <1>5 DEF LifespanNext

\* LifespanTypeOK: among others, a file on disk is a database that opens.
THEOREM LifespanTypes == LifespanSpec => []LifespanTypeOK
<1>1. LifespanInit => QuietInv
  BY DEF LifespanInit, Init, QuietInv
<1>2. StageInv /\ TypeOK /\ QuietInv => LifespanTypeOK
  BY DEF StageInv, QuietInv, LifespanTypeOK
<1> QED
  BY <1>1, <1>2, QuietNext, StageInit, StageNext, GeoTypes, PTL DEF LifespanSpec, allVars

=============================================================================
