---------------------------- MODULE Sweeps_proofs ----------------------------
(***************************************************************************)
(* What holds of Sweeps whatever the endpoints, the batch sizes and the    *)
(* ages, for every interleaving of the loops: the types, the distinct      *)
(* triples, the absence of orphans, what leaves the table, where a success *)
(* is recorded, and that the scheduler implements ProxyLifecycle.          *)
(***************************************************************************)
EXTENDS Sweeps, ProxyStore_proofs

\* TypeOK alone is not enough for NoOrphan: whether a row stays in a queue
\* depends on its streaks agreeing with its counters.
IInv == TypeOK /\ AllStanding(rows) /\ Distinct(rows)

LEMMA TypeTable ==
    ASSUME TypeOK
    PROVE  TableOK(rows) /\ now \in Nat
BY DEF TypeOK, TableOK

LEMMA InitInv == Init => IInv
<1> SUFFICES ASSUME Init PROVE IInv
  OBVIOUS
<1>1. DOMAIN rows = {}
  BY DEF Init
<1>2. /\ <<>> \in Seq(Snapshot)
      /\ <<>> \in Seq(Update)
  BY EmptySeq
<1>3. TypeOK
  BY <1>1, <1>2 DEF Init, TypeOK, NoTx, Loops
<1> QED
  BY <1>1, <1>3 DEF IInv, AllStanding, Distinct

-----------------------------------------------------------------------------
(* The steps that only move snapshots *)

LEMMA ProbeType ==
    ASSUME TypeOK, NEW q \in Loops, NEW batch \in Seq(Snapshot), Probe(q, batch)
    PROVE  /\ flight' \in [Loops -> Seq(Snapshot)]
           /\ pc' \in [Loops -> {"idle", "probing", "writing", "rebuild"}]
BY DEF TypeOK, Probe

\* Taking a batch off the window leaves two sequences of snapshots.
LEMMA WindowType ==
    ASSUME NEW window \in Seq(Snapshot)
    PROVE  ColdHead(window) \in Seq(Snapshot) /\ ColdRest(window) \in Seq(Snapshot)
<1>1. Len(window) \in Nat /\ \A i \in 1 .. Len(window) : window[i] \in Snapshot
  BY LenProperties, ElementOfSeq
<1>2. ColdHead(window) \in Seq(Snapshot)
  <2>1. CASE Len(window) <= ColdBatch
    BY <2>1 DEF ColdHead
  <2>2. CASE ~(Len(window) <= ColdBatch)
    <3>1. \A i \in 1 .. ColdBatch : window[i] \in Snapshot
      BY <1>1, <2>2, BatchAssumption
    <3>2. SubSeq(window, 1, ColdBatch) \in Seq(Snapshot)
      BY <3>1, BatchAssumption, SubSeqProperties
    <3> QED
      BY <2>2, <3>2 DEF ColdHead
  <2> QED
    BY <2>1, <2>2
<1>3. ColdRest(window) \in Seq(Snapshot)
  <2>1. \A i \in (ColdBatch + 1) .. Len(window) : window[i] \in Snapshot
    BY <1>1, BatchAssumption
  <2> QED
    BY <1>1, <2>1, BatchAssumption, SubSeqProperties DEF ColdRest
<1> QED
  BY <1>2, <1>3

\* What a step must show when it leaves the table alone.
LEMMA TableAlone ==
    ASSUME IInv, UNCHANGED rows, TypeOK'
    PROVE  IInv'
BY DEF IInv, AllStanding, Distinct

LEMMA ColdFetchInv == IInv /\ ColdFetch => IInv'
<1> SUFFICES ASSUME IInv, ColdFetch PROVE IInv'
  OBVIOUS
<1>1. TypeOK /\ TableOK(rows)
  BY TypeTable DEF IInv
<1>2. PICK window \in Fetched(rows, {i \in DOMAIN rows : InCold(rows[i])}, ColdWindow) :
         Probe("cold", ColdHead(window)) /\ coldBuffer' = ColdRest(window)
  BY DEF ColdFetch
<1>3. window \in Seq(Snapshot)
  BY <1>1, FetchedType
<1>4. coldBuffer' \in Seq(Snapshot) /\ ColdHead(window) \in Seq(Snapshot)
  BY <1>2, <1>3, WindowType
<1>5. "cold" \in Loops
  BY DEF Loops
<1>6. /\ flight' \in [Loops -> Seq(Snapshot)]
      /\ pc' \in [Loops -> {"idle", "probing", "writing", "rebuild"}]
  BY <1>1, <1>2, <1>4, <1>5, ProbeType
<1>7. TypeOK'
  BY <1>1, <1>4, <1>6 DEF ColdFetch, TypeOK
<1> QED
  BY <1>7, TableAlone DEF ColdFetch

LEMMA ColdNextInv == IInv /\ ColdNext => IInv'
<1> SUFFICES ASSUME IInv, ColdNext PROVE IInv'
  OBVIOUS
<1>1. TypeOK /\ coldBuffer \in Seq(Snapshot)
  BY DEF IInv, TypeOK
<1>2. coldBuffer' \in Seq(Snapshot) /\ ColdHead(coldBuffer) \in Seq(Snapshot)
  BY <1>1, WindowType DEF ColdNext
<1>3. "cold" \in Loops
  BY DEF Loops
<1>4. /\ flight' \in [Loops -> Seq(Snapshot)]
      /\ pc' \in [Loops -> {"idle", "probing", "writing", "rebuild"}]
  BY <1>1, <1>2, <1>3, ProbeType DEF ColdNext
<1>5. TypeOK'
  BY <1>1, <1>2, <1>4 DEF ColdNext, TypeOK
<1> QED
  BY <1>5, TableAlone DEF ColdNext

LEMMA FetchInv ==
    ASSUME IInv, NEW q \in Loops, NEW S, S \subseteq DOMAIN rows, NEW n, Fetch(q, S, n)
    PROVE  IInv'
<1>1. TypeOK /\ TableOK(rows)
  BY TypeTable DEF IInv
<1>2. PICK batch \in Fetched(rows, S, n) : Probe(q, batch)
  BY DEF Fetch
<1>3. batch \in Seq(Snapshot)
  BY <1>1, FetchedType
<1>4. /\ flight' \in [Loops -> Seq(Snapshot)]
      /\ pc' \in [Loops -> {"idle", "probing", "writing", "rebuild"}]
  BY <1>1, <1>2, <1>3, ProbeType
<1>5. TypeOK'
  BY <1>1, <1>4 DEF Fetch, TypeOK
<1> QED
  BY <1>5, TableAlone DEF Fetch

LEMMA ReportFetchInv == IInv /\ ReportFetch => IInv'
<1> SUFFICES ASSUME IInv, ReportFetch PROVE IInv'
  OBVIOUS
<1>1. TypeOK /\ recheck \in Seq(Snapshot)
  BY DEF IInv, TypeOK
<1>2. "report" \in Loops /\ <<>> \in Seq(Snapshot)
  BY EmptySeq DEF Loops
<1>3. /\ flight' \in [Loops -> Seq(Snapshot)]
      /\ pc' \in [Loops -> {"idle", "probing", "writing", "rebuild"}]
  BY <1>1, <1>2, ProbeType DEF ReportFetch
<1>4. TypeOK'
  BY <1>1, <1>2, <1>3 DEF ReportFetch, TypeOK
<1> QED
  BY <1>4, TableAlone DEF ReportFetch

-----------------------------------------------------------------------------
(* The steps of a write section *)

LEMMA BeginWriteInv ==
    ASSUME IInv, NEW q \in Loops, BeginWrite(q)
    PROVE  IInv'
<1>1. TypeOK
  BY DEF IInv
<1>2. <<>> \in Seq(Snapshot) /\ <<>> \in Seq(Update)
  BY EmptySeq
<1>3. tx' = [by |-> q, todo |-> flight[q], oks |-> <<>>, fails |-> <<>>]
  BY DEF BeginWrite, NoTx
<1>4. tx' \in [by : Loops \cup {"none"}, todo : Seq(Snapshot),
               oks : Seq(Update), fails : Seq(Update)]
  BY <1>1, <1>2, <1>3 DEF TypeOK
<1>5. /\ pc' \in [Loops -> {"idle", "probing", "writing", "rebuild"}]
      /\ flight' \in [Loops -> Seq(Snapshot)]
  BY <1>1, <1>2 DEF BeginWrite, TypeOK
<1>6. TypeOK'
  BY <1>1, <1>4, <1>5 DEF BeginWrite, TypeOK
<1> QED
  BY <1>6, TableAlone DEF BeginWrite

LEMMA SpoiledType ==
    ASSUME TypeOK, NEW i \in Nat
    PROVE  Spoiled(i) \subseteq Nat
BY DEF Spoiled, TypeOK

LEMMA ApplyOkInv ==
    ASSUME IInv, NEW p \in Protocols, ApplyOk(p)
    PROVE  IInv'
<1> DEFINE s == Head(tx.todo)
           settles == p # s.protocol
           update == [id |-> IF settles THEN SurvivingId(rows, s, p) ELSE s.id,
                      ep |-> s.ep, history |-> PushHistory(s.history, TRUE),
                      landed |-> s.id \in DOMAIN rows /\ rows[s.id].ep = s.ep]
<1>1. TypeOK /\ TableOK(rows) /\ AllStanding(rows) /\ Distinct(rows)
  BY TypeTable DEF IInv
<1>2. s \in Snapshot /\ Tail(tx.todo) \in Seq(Snapshot)
  BY <1>1, HeadTailProperties DEF ApplyOk, TypeOK
<1>3. s.history \in Seq(BOOLEAN) /\ s.id \in Nat /\ s.ep \in Endpoints
  BY <1>2 DEF Snapshot
<1>4. PushHistory(s.history, TRUE) \in Seq(BOOLEAN)
  BY <1>3, PushHistoryType
<1>5. update \in Update
  <2>1. SurvivingId(rows, s, p) \in Nat
    BY <1>1, <1>2, ResolvedType
  <2> QED
    BY <1>3, <1>4, <2>1 DEF Update
<1>6. rows' = IF settles THEN Resolved(rows, s, p) ELSE rows
  BY DEF ApplyOk
<1>7. tx' = [tx EXCEPT !.todo = Tail(@), !.oks = Append(@, update)]
  BY DEF ApplyOk
<1>8. TableOK(rows') /\ AllStanding(rows') /\ Distinct(rows')
  BY <1>1, <1>2, <1>6, ResolvedType, ResolvedStanding, ResolvedDistinct
<1> HIDE DEF update
<1>9. Append(tx.oks, update) \in Seq(Update)
  BY <1>1, <1>5, AppendProperties DEF TypeOK
<1>10. tx' \in [by : Loops \cup {"none"}, todo : Seq(Snapshot),
                oks : Seq(Update), fails : Seq(Update)]
  BY <1>1, <1>2, <1>7, <1>9 DEF TypeOK
<1>11. answered' \subseteq Labels
  BY <1>1, <1>3 DEF ApplyOk, TypeOK, Labels
<1>12. spoiled' \subseteq Nat
  BY <1>1, <1>3, SpoiledType DEF ApplyOk, TypeOK
<1>13. TypeOK'
  BY <1>1, <1>8, <1>10, <1>11, <1>12 DEF ApplyOk, TypeOK, TableOK
<1> QED
  BY <1>8, <1>13 DEF IInv

LEMMA ApplyFailInv == IInv /\ ApplyFail => IInv'
<1> SUFFICES ASSUME IInv, ApplyFail PROVE IInv'
  OBVIOUS
<1> DEFINE s == Head(tx.todo)
           update == [id |-> s.id, ep |-> s.ep,
                      history |-> PushHistory(s.history, FALSE),
                      landed |-> s.id \in DOMAIN rows /\ rows[s.id].ep = s.ep]
<1>1. TypeOK
  BY DEF IInv
<1>2. s \in Snapshot /\ Tail(tx.todo) \in Seq(Snapshot)
  BY <1>1, HeadTailProperties DEF ApplyFail, TypeOK
<1>3. s.history \in Seq(BOOLEAN) /\ s.id \in Nat /\ s.ep \in Endpoints
  BY <1>2 DEF Snapshot
<1>4. PushHistory(s.history, FALSE) \in Seq(BOOLEAN)
  BY <1>3, PushHistoryType
<1>5. update \in Update
  BY <1>3, <1>4 DEF Update
<1>6. tx' = [tx EXCEPT !.todo = Tail(@), !.fails = Append(@, update)]
  BY DEF ApplyFail
<1> HIDE DEF update
<1>7. Append(tx.fails, update) \in Seq(Update)
  BY <1>1, <1>5, AppendProperties DEF TypeOK
<1>8. tx' \in [by : Loops \cup {"none"}, todo : Seq(Snapshot),
               oks : Seq(Update), fails : Seq(Update)]
  BY <1>1, <1>2, <1>6, <1>7 DEF TypeOK
<1>9. TypeOK'
  BY <1>1, <1>8 DEF ApplyFail, TypeOK
<1> QED
  BY <1>9, TableAlone DEF ApplyFail

LEMMA WriteOkInv == IInv /\ WriteOk => IInv'
<1> SUFFICES ASSUME IInv, WriteOk PROVE IInv'
  OBVIOUS
<1> DEFINE u == Head(tx.oks)
<1>1. TypeOK /\ TableOK(rows) /\ AllStanding(rows) /\ Distinct(rows) /\ now \in Nat
  BY TypeTable DEF IInv
<1>2. u \in Update /\ Tail(tx.oks) \in Seq(Update)
  BY <1>1, HeadTailProperties DEF WriteOk, TypeOK
<1>3. u.history \in Seq(BOOLEAN)
  BY <1>2 DEF Update
<1>4. rows' = RecordOk(rows, u, now)
  BY DEF WriteOk
<1> HIDE DEF u
<1>5. TableOK(rows') /\ AllStanding(rows') /\ Distinct(rows')
  BY <1>1, <1>3, <1>4, RecordType, RecordStanding, RecordDistinct
<1>6. tx' \in [by : Loops \cup {"none"}, todo : Seq(Snapshot),
               oks : Seq(Update), fails : Seq(Update)]
  BY <1>1, <1>2 DEF WriteOk, TypeOK
<1>7. TypeOK'
  BY <1>1, <1>5, <1>6 DEF WriteOk, TypeOK, TableOK
<1> QED
  BY <1>5, <1>7 DEF IInv

LEMMA WriteFailInv == IInv /\ WriteFail => IInv'
<1> SUFFICES ASSUME IInv, WriteFail PROVE IInv'
  OBVIOUS
<1> DEFINE u == Head(tx.fails)
<1>1. TypeOK /\ TableOK(rows) /\ AllStanding(rows) /\ Distinct(rows) /\ now \in Nat
  BY TypeTable DEF IInv
<1>2. u \in Update /\ Tail(tx.fails) \in Seq(Update)
  BY <1>1, HeadTailProperties DEF WriteFail, TypeOK
<1>3. u.history \in Seq(BOOLEAN)
  BY <1>2 DEF Update
<1>4. rows' = RecordFail(rows, u, now)
  BY DEF WriteFail
<1> HIDE DEF u
<1>5. TableOK(rows') /\ AllStanding(rows') /\ Distinct(rows')
  BY <1>1, <1>3, <1>4, RecordType, RecordStanding, RecordDistinct
<1>6. tx' \in [by : Loops \cup {"none"}, todo : Seq(Snapshot),
               oks : Seq(Update), fails : Seq(Update)]
  BY <1>1, <1>2 DEF WriteFail, TypeOK
<1>7. spoiled' \subseteq Nat
  BY <1>1, <1>2, SpoiledType DEF WriteFail, Update, TypeOK, u
<1>8. TypeOK'
  BY <1>1, <1>5, <1>6, <1>7 DEF WriteFail, TypeOK, TableOK
<1> QED
  BY <1>5, <1>8 DEF IInv

LEMMA CommitInv ==
    ASSUME IInv, NEW q \in Loops, Commit(q)
    PROVE  IInv'
<1>1. TypeOK
  BY DEF IInv
<1>2. <<>> \in Seq(Snapshot) /\ <<>> \in Seq(Update)
  BY EmptySeq
<1>3. TypeOK'
  BY <1>1, <1>2 DEF Commit, NoTx, AfterWrite, TypeOK
<1> QED
  BY <1>3, TableAlone DEF Commit

-----------------------------------------------------------------------------
(* The pool and the other writers *)

LEMMA AliveType ==
    ASSUME NEW t, TableOK(t)
    PROVE  Alive(t) \subseteq [id : Nat, ep : Endpoints, protocol : Protocols \cup {Unknown}]
BY DEF Alive, TableOK, Row

LEMMA RebuildInv ==
    ASSUME IInv, NEW q \in Loops, Rebuild(q)
    PROVE  IInv'
<1>1. TypeOK /\ TableOK(rows)
  BY TypeTable DEF IInv
<1>2. pool' \subseteq [id : Nat, ep : Endpoints, protocol : Protocols \cup {Unknown}]
  BY <1>1, AliveType DEF Rebuild
<1>3. TypeOK'
  BY <1>1, <1>2 DEF Rebuild, TypeOK
<1> QED
  BY <1>3, TableAlone DEF Rebuild

LEMMA ScrapeInv == IInv /\ Scrape => IInv'
<1> SUFFICES ASSUME IInv, Scrape PROVE IInv'
  OBVIOUS
<1>1. TypeOK /\ TableOK(rows) /\ AllStanding(rows) /\ Distinct(rows) /\ now \in Nat
  BY TypeTable DEF IInv
<1>2. PICK C \in SUBSET Listed, top \in DOMAIN rows \cup {0} :
         rows' \in UpsertCandidates(rows, C, now, top)
  BY DEF Scrape
<1>3. C \subseteq Labels /\ IsFiniteSet(C) /\ top \in Nat
  BY <1>1, ListedAssumption, FS_Subset DEF TableOK
<1>4. TableOK(rows')
  BY <1>1, <1>2, <1>3, UpsertType
<1>5. AllStanding(rows') /\ Distinct(rows')
  BY <1>1, <1>2, <1>3, UpsertStanding, UpsertDistinct
<1>6. TypeOK'
  BY <1>1, <1>4 DEF Scrape, TypeOK, TableOK
<1> QED
  BY <1>5, <1>6 DEF IInv

LEMMA PruneInv == IInv /\ Prune => IInv'
<1> SUFFICES ASSUME IInv, Prune PROVE IInv'
  OBVIOUS
<1>1. TypeOK /\ TableOK(rows) /\ AllStanding(rows) /\ Distinct(rows)
  BY TypeTable DEF IInv
<1>2. TableOK(rows') /\ AllStanding(rows') /\ Distinct(rows')
  BY <1>1, PrunedType, PrunedKeeps DEF Prune
<1>3. TypeOK'
  BY <1>1, <1>2 DEF Prune, TypeOK, TableOK
<1> QED
  BY <1>2, <1>3 DEF IInv

LEMMA ReportInv ==
    ASSUME IInv, NEW i \in DOMAIN rows, Report(i)
    PROVE  IInv'
<1>1. TypeOK /\ TableOK(rows)
  BY TypeTable DEF IInv
<1>2. Snap(rows, i) \in Snapshot
  BY <1>1, SnapshotType
<1>3. PutRecheck(Snap(rows, i)) \in Seq(Snapshot)
  <2>1. recheck \in Seq(Snapshot)
    BY <1>1 DEF TypeOK
  <2>2. recheck \in [1 .. Len(recheck) -> Snapshot] /\ Len(recheck) \in Nat
    BY <2>1, LenProperties
  <2>3. [k \in DOMAIN recheck |-> IF recheck[k].id = Snap(rows, i).id
                                  THEN Snap(rows, i) ELSE recheck[k]]
            \in [1 .. Len(recheck) -> Snapshot]
    BY <1>2, <2>2
  <2>4. [1 .. Len(recheck) -> Snapshot] \subseteq Seq(Snapshot)
    BY <2>2, SeqDef
  <2>5. Append(recheck, Snap(rows, i)) \in Seq(Snapshot)
    BY <1>2, <2>1, AppendProperties
  <2> QED
    BY <2>3, <2>4, <2>5 DEF PutRecheck
<1>4. TypeOK'
  BY <1>1, <1>3 DEF Report, TypeOK
<1> QED
  BY <1>4, TableAlone DEF Report

LEMMA RestartInv == IInv /\ Restart => IInv'
<1> SUFFICES ASSUME IInv, Restart PROVE IInv'
  OBVIOUS
<1>1. TypeOK /\ TableOK(rows)
  BY TypeTable DEF IInv
<1>2. <<>> \in Seq(Snapshot)
  BY EmptySeq
<1>3. pool' \subseteq [id : Nat, ep : Endpoints, protocol : Protocols \cup {Unknown}]
  BY <1>1, AliveType DEF Restart
<1>4. TypeOK'
  BY <1>1, <1>2, <1>3 DEF Restart, TypeOK
<1> QED
  BY <1>4, TableAlone DEF Restart

LEMMA TickInv == IInv /\ Tick => IInv'
<1> SUFFICES ASSUME IInv, Tick PROVE IInv'
  OBVIOUS
<1>1. TypeOK'
  BY DEF IInv, Tick, TypeOK
<1> QED
  BY <1>1, TableAlone DEF Tick

-----------------------------------------------------------------------------

LEMMA NextInv == IInv /\ [Next]_vars => IInv'
<1> SUFFICES ASSUME IInv, [Next]_vars PROVE IInv'
  OBVIOUS
<1>1. CASE ColdFetch
  BY <1>1, ColdFetchInv
<1>2. CASE ColdNext
  BY <1>2, ColdNextInv
<1>3. CASE HotFetch
  BY <1>3, FetchInv DEF HotFetch, Loops
<1>4. CASE WarmFetch
  BY <1>4, FetchInv DEF WarmFetch, Loops
<1>5. CASE QuarantineFetch
  BY <1>5, FetchInv DEF QuarantineFetch, Loops
<1>6. CASE ReportFetch
  BY <1>6, ReportFetchInv
<1>7. ASSUME NEW q \in Loops, Write(q) \/ Rebuild(q)
      PROVE  IInv'
  BY <1>7, BeginWriteInv, CommitInv, RebuildInv DEF Write
<1>8. ASSUME NEW p \in Protocols, ApplyOk(p)
      PROVE  IInv'
  BY <1>8, ApplyOkInv
<1>9. CASE ApplyFail
  BY <1>9, ApplyFailInv
<1>10. CASE WriteOk
  BY <1>10, WriteOkInv
<1>11. CASE WriteFail
  BY <1>11, WriteFailInv
<1>12. CASE Scrape
  BY <1>12, ScrapeInv
<1>13. CASE Prune
  BY <1>13, PruneInv
<1>14. ASSUME NEW i \in DOMAIN rows, Report(i)
       PROVE  IInv'
  BY <1>14, ReportInv
<1>15. CASE Restart
  BY <1>15, RestartInv
<1>16. CASE Tick
  BY <1>16, TickInv
<1>17. CASE UNCHANGED vars
  <2>1. TypeOK'
    BY <1>17 DEF IInv, TypeOK, vars
  <2> QED
    BY <1>17, <2>1, TableAlone DEF vars
<1> QED
  BY <1>1, <1>2, <1>3, <1>4, <1>5, <1>6, <1>7, <1>8, <1>9, <1>10, <1>11,
     <1>12, <1>13, <1>14, <1>15, <1>16, <1>17 DEF Next

LEMMA InvariantHolds == Spec => []IInv
BY InitInv, NextInv, PTL DEF Spec

\* The table, the loops and the write section keep their types.
THEOREM TypeCorrect == Spec => []TypeOK
<1>1. IInv => TypeOK
  BY DEF IInv
<1> QED
  BY <1>1, InvariantHolds, PTL

\* No interleaving of sweeps, merges, prunings and restarts leaves an address in
\* no queue.
THEOREM NoOrphanHolds == Spec => []NoOrphan
<1>1. IInv => NoOrphan
  BY TypeTable, StandingIsPlaced DEF IInv, NoOrphan, AllStanding, TableOK
<1> QED
  BY <1>1, InvariantHolds, PTL

\* No interleaving gives one (host, port, protocol) two rows.
THEOREM UniqueTripleHolds == Spec => []UniqueTriple
<1>1. IInv => UniqueTriple
  BY DEF IInv, Distinct, UniqueTriple, IsInjective
<1> QED
  BY <1>1, InvariantHolds, PTL

-----------------------------------------------------------------------------
(* The pool *)

\* Only the loop that holds the lock changes what is alive, and it has the pool
\* to rebuild before it is idle again; what cold changes is spoiled at once.
PoolIInv ==
    /\ IInv
    /\ tx.by = "none" => tx = NoTx
    /\ tx.by # "none" => pc[tx.by] = "writing"
    /\ PoolSettled

\* A pool entry keeps its row through a step of cold, or is spoiled by it.
KeptOrSpoiled ==
    \A e \in pool :
        e.id \in DOMAIN rows =>
            \/ e.id \in spoiled'
            \/ /\ e.id \in DOMAIN rows'
               /\ rows[e.id].alive => rows'[e.id].alive
               /\ LabelOf(rows'[e.id]) = LabelOf(rows[e.id])

\* What a write section does to the pool's entries when it is cold's.
LEMMA ColdKeepsOrSpoils ==
    ASSUME IInv, tx.by = "cold",
           (\E p \in Protocols : ApplyOk(p)) \/ ApplyFail \/ WriteOk \/ WriteFail
    PROVE  KeptOrSpoiled /\ spoiled \subseteq spoiled'
<1>1. TypeOK /\ \A i \in DOMAIN rows : rows[i] \in Row
  BY TypeTable DEF IInv, TableOK
<1>2. ASSUME NEW p \in Protocols, ApplyOk(p) PROVE KeptOrSpoiled /\ spoiled \subseteq spoiled'
  <2> DEFINE s == Head(tx.todo)
  <2>1. CASE p = s.protocol
    BY <1>2, <2>1 DEF ApplyOk, KeptOrSpoiled
  <2>2. CASE p # s.protocol
    <3>1. rows' = Resolved(rows, s, p) /\ spoiled' = Spoiled(s.id)
      BY <1>2, <2>2 DEF ApplyOk
    <3> HIDE DEF s
    <3>2. \A i \in DOMAIN rows \ {s.id} : i \in DOMAIN rows' /\ rows'[i] = rows[i]
      BY <3>1 DEF Resolved, Restrict
    <3> QED
      BY <3>1, <3>2 DEF KeptOrSpoiled, Spoiled
  <2> QED
    BY <2>1, <2>2
<1>3. CASE ApplyFail
  BY <1>3 DEF ApplyFail, KeptOrSpoiled
<1>4. CASE WriteOk
  <2> DEFINE u == Head(tx.oks)
  <2>1. rows' = RecordOk(rows, u, now) /\ spoiled' = spoiled
    BY <1>4 DEF WriteOk
  <2> HIDE DEF u
  <2> QED
    BY <1>1, <2>1 DEF KeptOrSpoiled, RecordOk, LabelOf, Row
<1>5. CASE WriteFail
  <2> DEFINE u == Head(tx.fails)
  <2>1. rows' = RecordFail(rows, u, now) /\ spoiled' = Spoiled(u.id)
    BY <1>5 DEF WriteFail
  <2> HIDE DEF u
  <2>2. \A i \in DOMAIN rows \ {u.id} : i \in DOMAIN rows' /\ rows'[i] = rows[i]
    BY <2>1 DEF RecordFail
  <2> QED
    BY <2>1, <2>2 DEF KeptOrSpoiled, Spoiled
<1> QED
  BY <1>2, <1>3, <1>4, <1>5

LEMMA PoolStep ==
    ASSUME PoolIInv, [Next]_vars
    PROVE  PoolIInv'
<1>1. IInv'
  BY NextInv DEF PoolIInv
<1>2. TypeOK
  BY DEF PoolIInv, IInv
<1> USE DEF PoolIInv
<1>3. ASSUME NEW q \in Loops, NEW batch, Probe(q, batch), UNCHANGED <<rows, tx, pool, spoiled>>
      PROVE  PoolIInv'
  <2>1. pc' = [pc EXCEPT ![q] = "probing"] /\ pc[q] = "idle"
    BY <1>3 DEF Probe
  <2>2. tx.by # "none" => pc'[tx.by] = "writing"
    BY <1>2, <2>1 DEF TypeOK, Loops
  <2>3. PoolSettled'
    BY <1>2, <1>3, <2>1 DEF PoolSettled, TypeOK, LabelOf
  <2> QED
    BY <1>1, <1>3, <2>2, <2>3
<1>4. CASE ColdFetch \/ ColdNext
  BY <1>3, <1>4 DEF ColdFetch, ColdNext, Loops
<1>5. CASE HotFetch \/ WarmFetch \/ QuarantineFetch \/ ReportFetch
  BY <1>3, <1>5 DEF HotFetch, WarmFetch, QuarantineFetch, ReportFetch, Fetch, Loops
<1>6. ASSUME NEW q \in Loops, BeginWrite(q)
      PROVE  PoolIInv'
  <2>1. /\ pc' = [pc EXCEPT ![q] = "writing"] /\ tx'.by = q /\ pc[q] = "probing"
        /\ UNCHANGED <<rows, pool, spoiled>>
    BY <1>6 DEF BeginWrite, NoTx
  <2>2. pc'[q] = "writing" /\ q # "none"
    BY <1>2, <2>1 DEF TypeOK, Loops
  <2>3. PoolSettled'
    BY <1>2, <2>1 DEF PoolSettled, TypeOK, LabelOf
  <2> QED
    BY <1>1, <2>1, <2>2, <2>3
<1>7. ASSUME tx.by # "none", tx'.by = tx.by, UNCHANGED <<pc, pool>>,
             tx.by = "cold" => KeptOrSpoiled /\ spoiled \subseteq spoiled'
      PROVE  PoolIInv'
  <2>1. tx.by \in Loops
    BY <1>2, <1>7 DEF TypeOK
  <2>2. CASE tx.by # "cold"
    BY <1>1, <1>7, <2>1, <2>2 DEF PoolSettled
  <2>3. CASE tx.by = "cold"
    <3>1. PoolSettled'
      BY <1>7, <2>3 DEF PoolSettled, KeptOrSpoiled
    <3> QED
      BY <1>1, <1>7, <3>1
  <2> QED
    BY <2>2, <2>3
<1>8. ASSUME tx.by = "none"
      PROVE  tx.todo = <<>> /\ tx.oks = <<>> /\ tx.fails = <<>>
  BY <1>8 DEF NoTx
<1>9. ASSUME NEW p \in Protocols, ApplyOk(p)
      PROVE  PoolIInv'
  BY <1>2, <1>7, <1>8, <1>9, ColdKeepsOrSpoils DEF ApplyOk, TypeOK
<1>10. CASE ApplyFail
  BY <1>2, <1>7, <1>8, <1>10, ColdKeepsOrSpoils DEF ApplyFail, TypeOK
<1>11. CASE WriteOk
  BY <1>2, <1>7, <1>8, <1>11, ColdKeepsOrSpoils DEF WriteOk, TypeOK
<1>12. CASE WriteFail
  BY <1>2, <1>7, <1>8, <1>12, ColdKeepsOrSpoils DEF WriteFail, TypeOK
<1>13. ASSUME NEW q \in Loops, Commit(q)
      PROVE  PoolIInv'
  <2>1. /\ tx.by = q /\ tx' = NoTx /\ pc' = [pc EXCEPT ![q] = AfterWrite(q)]
        /\ UNCHANGED <<rows, pool, spoiled>>
    BY <1>13 DEF Commit, NoTx
  <2>2. q # "none" /\ pc[q] = "writing"
    BY <2>1 DEF Loops
  <2>3. PoolSettled'
    BY <1>2, <2>1, <2>2 DEF AfterWrite, PoolSettled, TypeOK, LabelOf
  <2> QED
    BY <1>1, <2>1, <2>3 DEF NoTx
<1>14. ASSUME NEW q \in Loops, Rebuild(q)
      PROVE  PoolIInv'
  <2>1. tx = NoTx /\ UNCHANGED tx
    BY <1>14 DEF Rebuild, LockFree
  <2>2. pool' = Alive(rows) /\ rows' = rows
    BY <1>14 DEF Rebuild
  <2>3. PoolSettled'
    BY <2>2 DEF PoolSettled, Alive, LabelOf
  <2> QED
    BY <1>1, <2>1, <2>3 DEF NoTx
<1>15. CASE Scrape
  <2>1. PICK C \in SUBSET Listed, top \in DOMAIN rows \cup {0} :
           rows' \in UpsertCandidates(rows, C, now, top)
    BY <1>15 DEF Scrape
  <2>2. \A i \in DOMAIN rows : /\ i \in DOMAIN rows'
                              /\ rows'[i].alive = rows[i].alive
                              /\ LabelOf(rows'[i]) = LabelOf(rows[i])
    BY <1>2, <2>1, TypeTable, UpsertKeeps
  <2> QED
    BY <1>1, <1>15, <2>2 DEF Scrape, PoolSettled
<1>16. CASE Prune
  <2>1. \A i \in DOMAIN rows :
           rows[i].alive => i \in DOMAIN rows' /\ rows'[i] = rows[i]
    BY <1>16 DEF Prune, Pruned, Doomed, Restrict
  <2> QED
    BY <1>1, <1>16, <2>1 DEF Prune, PoolSettled
<1>17. ASSUME NEW i \in DOMAIN rows, Report(i)
       PROVE  PoolIInv'
  BY <1>1, <1>17 DEF Report, PoolSettled
<1>18. CASE Restart
  <2>1. PoolSettled'
    BY <1>18 DEF Restart, PoolSettled, Alive, LabelOf
  <2> QED
    BY <1>1, <1>18, <2>1 DEF Restart, LockFree, NoTx
<1>19. CASE Tick
  BY <1>1, <1>19 DEF Tick, PoolSettled
<1>20. CASE UNCHANGED vars
  BY <1>1, <1>20 DEF vars, PoolSettled
<1> QED
  BY <1>4, <1>5, <1>6, <1>9, <1>10, <1>11, <1>12, <1>13, <1>14, <1>15, <1>16,
     <1>17, <1>18, <1>19, <1>20 DEF Next, Write

\* With all five loops, the API serves what the table knows to be alive, except
\* while a loop has its pool to rebuild, and except for rows that cold has failed
\* since: whatever leaves a dead proxy in a settled pool is cold's old window.
THEOREM PoolSettledHolds == Spec => []PoolSettled
<1>1. Init => PoolIInv
  <2>1. ASSUME Init PROVE PoolSettled
    BY <2>1 DEF Init, PoolSettled
  <2> QED
    BY <2>1, InitInv DEF Init, PoolIInv, NoTx
<1>2. PoolIInv /\ [Next]_vars => PoolIInv'
  BY PoolStep
<1>3. PoolIInv => PoolSettled
  BY DEF PoolIInv
<1> QED
  BY <1>1, <1>2, <1>3, PTL DEF Spec

-----------------------------------------------------------------------------
(* What leaves the table *)

\* Settling a protocol keeps every address: a dropped row has a survivor.
LEMMA ResolvedKeepsAddress ==
    ASSUME NEW t, TableOK(t), NEW s, NEW p, NEW i \in DOMAIN t
    PROVE  \E j \in DOMAIN Resolved(t, s, p) : Resolved(t, s, p)[j].ep = t[i].ep
<1>1. CASE Collides(t, s, p)
  <2>1. PICK k \in DOMAIN t \ {s.id} : LabelOf(t[k]) = <<t[s.id].ep, p>>
    BY <1>1 DEF Collides
  <2>2. t[k].ep = t[s.id].ep
    BY <2>1 DEF LabelOf
  <2>3. /\ DOMAIN Resolved(t, s, p) = DOMAIN t \ {s.id}
        /\ \A j \in DOMAIN t \ {s.id} : Resolved(t, s, p)[j] = t[j]
    BY <1>1 DEF Resolved, Restrict
  <2>4. CASE i = s.id
    BY <2>1, <2>2, <2>3, <2>4
  <2>5. CASE i # s.id
    BY <2>3, <2>5
  <2> QED
    BY <2>4, <2>5
<1>2. CASE ~Collides(t, s, p)
  <2>1. [t[i] EXCEPT !.protocol = p].ep = t[i].ep
    BY DEF TableOK, Row
  <2>2. i \in DOMAIN Resolved(t, s, p) /\ Resolved(t, s, p)[i].ep = t[i].ep
    BY <1>2, <2>1 DEF Resolved
  <2> QED
    BY <2>2
<1> QED
  BY <1>1, <1>2

LEMMA RecordKeepsAddress ==
    ASSUME NEW t, TableOK(t), NEW u, NEW at, NEW i \in DOMAIN t
    PROVE  /\ i \in DOMAIN RecordOk(t, u, at) /\ RecordOk(t, u, at)[i].ep = t[i].ep
           /\ i \in DOMAIN RecordFail(t, u, at) /\ RecordFail(t, u, at)[i].ep = t[i].ep
BY DEF RecordOk, RecordFail, TableOK, Row

LEMMA ForgetStep ==
    ASSUME IInv, [Next]_vars, NEW i \in DOMAIN rows
    PROVE  Doomed(rows[i], now) \/ \E j \in DOMAIN rows' : rows'[j].ep = rows[i].ep
<1> DEFINE Kept == \E j \in DOMAIN rows' : rows'[j].ep = rows[i].ep
<1>1. TableOK(rows)
  BY TypeTable DEF IInv
<1>2. ASSUME UNCHANGED rows PROVE Kept
  BY <1>2
<1>3. ASSUME NEW p \in Protocols, ApplyOk(p) PROVE Kept
  <2>1. \/ rows' = rows
        \/ rows' = Resolved(rows, Head(tx.todo), p)
    BY <1>3 DEF ApplyOk
  <2> QED
    BY <1>1, <1>2, <2>1, ResolvedKeepsAddress
<1>4. CASE WriteOk \/ WriteFail
  <2>1. PICK u : rows' = RecordOk(rows, u, now) \/ rows' = RecordFail(rows, u, now)
    BY <1>4 DEF WriteOk, WriteFail
  <2>2. i \in DOMAIN rows' /\ rows'[i].ep = rows[i].ep
    BY <1>1, <2>1, RecordKeepsAddress
  <2> QED
    BY <2>2
<1>5. CASE Scrape
  <2>1. PICK C \in SUBSET Listed, top \in DOMAIN rows \cup {0} :
           rows' \in UpsertCandidates(rows, C, now, top)
    BY <1>5 DEF Scrape
  <2>2. i \in DOMAIN rows' /\ LabelOf(rows'[i]) = LabelOf(rows[i])
    BY <1>1, <2>1, UpsertKeeps
  <2>3. rows'[i].ep = rows[i].ep
    BY <2>2 DEF LabelOf
  <2> QED
    BY <2>2, <2>3
<1>6. CASE Prune
  <2>1. ~Doomed(rows[i], now) => i \in DOMAIN rows' /\ rows'[i] = rows[i]
    BY <1>6 DEF Prune, Pruned, Restrict
  <2> QED
    BY <2>1
<1>7. CASE ColdFetch \/ ColdNext \/ HotFetch \/ WarmFetch \/ QuarantineFetch \/ ReportFetch
  BY <1>2, <1>7 DEF ColdFetch, ColdNext, HotFetch, WarmFetch, QuarantineFetch, Fetch,
     ReportFetch
<1>8. ASSUME NEW q \in Loops, Write(q) \/ Rebuild(q) PROVE Kept
  BY <1>2, <1>8 DEF Write, BeginWrite, Commit, Rebuild
<1>9. ASSUME NEW k \in DOMAIN rows, Report(k) PROVE Kept
  BY <1>2, <1>9 DEF Report
<1>10. CASE ApplyFail \/ Restart \/ Tick \/ UNCHANGED vars
  BY <1>2, <1>10 DEF ApplyFail, Restart, Tick, vars
<1> QED
  BY <1>3, <1>4, <1>5, <1>6, <1>7, <1>8, <1>9, <1>10 DEF Next

\* resolve_protocol and record_l1_many never lose an address, and neither does an
\* upsert: only prune forgets one, and only after its retention period.
THEOREM OnlyPruneForgetsHolds == Spec => OnlyPruneForgets
<1>1. IInv /\ [Next]_vars =>
        [\A i \in DOMAIN rows : \/ Doomed(rows[i], now)
                                \/ \E j \in DOMAIN rows' : rows'[j].ep = rows[i].ep]_vars
  <2> SUFFICES ASSUME IInv, [Next]_vars, NEW i \in DOMAIN rows
               PROVE  \/ Doomed(rows[i], now)
                      \/ \E j \in DOMAIN rows' : rows'[j].ep = rows[i].ep
    OBVIOUS
  <2> QED
    BY ForgetStep
<1> QED
  BY <1>1, InvariantHolds, PTL DEF Spec, OnlyPruneForgets

-----------------------------------------------------------------------------
(* Snapshots and the rows they were read from *)

\* Every snapshot a loop, the write section or a buffer holds.
Held ==
    (UNION {Range(flight[q]) : q \in Loops})
        \cup Range(tx.todo) \cup Range(coldBuffer) \cup Range(recheck)

\* What the cold loop has read and not yet applied, in the order of its windows.
Waiting == (IF tx.by = "cold" THEN tx.todo ELSE flight["cold"]) \o coldBuffer

\* Snapshots that all name a protocol.
Settled(snaps) == \A k \in DOMAIN snaps : snaps[k].protocol # Unknown

\* A batch taken off the window and the rest make up the window.
LEMMA WindowSplit ==
    ASSUME NEW window \in Seq(Snapshot)
    PROVE  ColdHead(window) \o ColdRest(window) = window
<1>1. Len(window) \in Nat /\ ColdBatch \in Nat
  BY LenProperties, BatchAssumption
<1>2. CASE Len(window) <= ColdBatch
  <2>1. ColdRest(window) = <<>>
    BY <1>1, <1>2, SubSeqEmpty DEF ColdRest
  <2> QED
    BY <1>2, <2>1, ConcatEmptySeq DEF ColdHead
<1>3. CASE ~(Len(window) <= ColdBatch)
  <2>1. SubSeq(window, 1, ColdBatch) \o SubSeq(window, ColdBatch + 1, Len(window))
           = SubSeq(window, 1, Len(window))
    <3>1. 1 \in 1 .. Len(window) + 1 /\ ColdBatch \in 1 - 1 .. Len(window)
          /\ Len(window) \in ColdBatch .. Len(window)
      BY <1>1, <1>3
    <3> QED
      BY <3>1, ConcatAdjacentSubSeq
  <2> QED
    BY <1>3, <2>1, SubSeqFull DEF ColdHead, ColdRest
<1> QED
  BY <1>2, <1>3

\* No snapshot of the window is lost between the batch and the rest.
LEMMA WindowRange ==
    ASSUME NEW window \in Seq(Snapshot)
    PROVE  Range(window) = Range(ColdHead(window)) \cup Range(ColdRest(window))
<1>1. ColdHead(window) \in Seq(Snapshot) /\ ColdRest(window) \in Seq(Snapshot)
  BY WindowType
<1>2. Range(ColdHead(window) \o ColdRest(window))
         = Range(ColdHead(window)) \cup Range(ColdRest(window))
  BY <1>1, RangeConcatenation
<1> QED
  BY <1>2, WindowSplit

\* Of a sequence with distinct ids, the tail has none of the head's id.
LEMMA TailDistinct ==
    ASSUME NEW a \in Seq(Snapshot), NEW b \in Seq(Snapshot), a # <<>>, IdsDistinct(a \o b)
    PROVE  /\ IdsDistinct(Tail(a) \o b)
           /\ \A s \in Range(Tail(a)) \cup Range(b) : s.id # Head(a).id
<1> DEFINE w == a \o b
           v == Tail(a) \o b
<1>1. /\ w \in Seq(Snapshot) /\ Len(w) = Len(a) + Len(b)
      /\ \A i \in 1 .. Len(a) + Len(b) : w[i] = IF i <= Len(a) THEN a[i] ELSE b[i - Len(a)]
  BY ConcatProperties
<1>2. /\ Tail(a) \in Seq(Snapshot) /\ Len(Tail(a)) = Len(a) - 1
      /\ \A i \in 1 .. Len(Tail(a)) : Tail(a)[i] = a[i + 1]
  BY HeadTailProperties
<1>3. Len(a) \in Nat \ {0} /\ Len(b) \in Nat
  BY EmptySeq, LenProperties
<1>4. /\ v \in Seq(Snapshot) /\ Len(v) = Len(Tail(a)) + Len(b)
      /\ \A i \in 1 .. Len(Tail(a)) + Len(b) :
            v[i] = IF i <= Len(Tail(a)) THEN Tail(a)[i] ELSE b[i - Len(Tail(a))]
  BY <1>2, ConcatProperties
<1>5. DOMAIN w = 1 .. Len(w) /\ DOMAIN v = 1 .. Len(v)
  BY <1>1, <1>4, LenProperties
<1>6. Head(a) = a[1]
  OBVIOUS
<1> HIDE DEF w, v
<1>7. Len(v) = Len(w) - 1 /\ \A i \in 1 .. Len(v) : v[i] = w[i + 1]
  <2>1. Len(v) = Len(w) - 1
    BY <1>1, <1>2, <1>3, <1>4
  <2>2. ASSUME NEW i \in 1 .. Len(v) PROVE v[i] = w[i + 1]
    <3>1. CASE i <= Len(Tail(a))
      BY <1>1, <1>2, <1>3, <1>4, <2>2, <3>1
    <3>2. CASE ~(i <= Len(Tail(a)))
      BY <1>1, <1>2, <1>3, <1>4, <2>2, <3>2
    <3> QED
      BY <3>1, <3>2
  <2> QED
    BY <2>1, <2>2
<1>8. \A j, k \in 1 .. Len(w) : w[j].id = w[k].id => j = k
  BY <1>5 DEF IdsDistinct, w
<1>9. Len(w) \in Nat \ {0}
  BY <1>1, <1>3
<1>10. IdsDistinct(v)
  <2> SUFFICES ASSUME NEW j \in 1 .. Len(v), NEW k \in 1 .. Len(v), v[j].id = v[k].id
               PROVE  j = k
    BY <1>5 DEF IdsDistinct
  <2>1. w[j + 1].id = w[k + 1].id /\ j + 1 \in 1 .. Len(w) /\ k + 1 \in 1 .. Len(w)
    BY <1>7, <1>9
  <2> QED
    BY <1>8, <2>1
<1>11. ASSUME NEW s \in Range(Tail(a)) \cup Range(b) PROVE s.id # Head(a).id
  <2>1. s \in Range(v)
    BY <1>2, <1>11, RangeConcatenation DEF v
  <2>2. PICK j \in 1 .. Len(v) : s = v[j]
    BY <1>5, <2>1 DEF Range
  <2>3. s = w[j + 1] /\ j + 1 \in 1 .. Len(w) /\ j + 1 # 1 /\ 1 \in 1 .. Len(w)
    BY <1>7, <1>9, <2>2
  <2>4. w[1] = Head(a)
    BY <1>1, <1>3, <1>6
  <2> QED
    BY <1>8, <2>3, <2>4
<1> QED
  BY <1>10, <1>11 DEF v

\* A report adds the snapshot of its row to those waiting, or refreshes it.
LEMMA PutRange ==
    ASSUME recheck \in Seq(Snapshot), NEW s \in Snapshot
    PROVE  Range(PutRecheck(s)) \subseteq Range(recheck) \cup {s}
<1>1. CASE \E k \in DOMAIN recheck : recheck[k].id = s.id
  BY <1>1 DEF PutRecheck, Range
<1>2. CASE ~\E k \in DOMAIN recheck : recheck[k].id = s.id
  <2>1. /\ Append(recheck, s) \in Seq(Snapshot)
        /\ Len(Append(recheck, s)) = Len(recheck) + 1
        /\ \A i \in 1 .. Len(recheck) : Append(recheck, s)[i] = recheck[i]
        /\ Append(recheck, s)[Len(recheck) + 1] = s
    BY AppendProperties
  <2>2. /\ DOMAIN Append(recheck, s) = 1 .. Len(recheck) + 1
        /\ DOMAIN recheck = 1 .. Len(recheck) /\ Len(recheck) \in Nat
    BY <2>1, LenProperties
  <2>3. PutRecheck(s) = Append(recheck, s)
    BY <1>2 DEF PutRecheck
  <2> SUFFICES ASSUME NEW i \in 1 .. Len(recheck) + 1
               PROVE  Append(recheck, s)[i] \in Range(recheck) \cup {s}
    BY <2>2, <2>3 DEF Range
  <2> QED
    BY <2>1, <2>2 DEF Range
<1> QED
  BY <1>1, <1>2

\* A step reads snapshots off the table or hands on what is held already.
LEMMA HeldStep ==
    ASSUME IInv, [Next]_vars, NEW s \in Held'
    PROVE  s \in Held \/ (rows' = rows /\ \E i \in DOMAIN rows : s = Snap(rows, i))
<1> DEFINE Kept == s \in Held
           Read == rows' = rows /\ \E i \in DOMAIN rows : s = Snap(rows, i)
<1>1. /\ TypeOK /\ TableOK(rows) /\ tx.todo \in Seq(Snapshot)
      /\ coldBuffer \in Seq(Snapshot) /\ recheck \in Seq(Snapshot)
      /\ flight \in [Loops -> Seq(Snapshot)]
  BY TypeTable DEF IInv, TypeOK
<1>2. \/ \E q \in Loops : s \in Range(flight'[q])
      \/ s \in Range(tx'.todo) \/ s \in Range(coldBuffer') \/ s \in Range(recheck')
  BY DEF Held
<1>3. Range(<<>>) = {}
  BY DEF Range
<1>4. ASSUME NEW q \in Loops, NEW batch, Probe(q, batch), UNCHANGED tx
      PROVE  \/ s \in Held \/ s \in Range(batch)
             \/ s \in Range(coldBuffer') \/ s \in Range(recheck')
  <2>1. flight' = [flight EXCEPT ![q] = batch]
    BY <1>4 DEF Probe
  <2> QED
    BY <1>1, <1>2, <1>4, <2>1 DEF Held
<1>5. ASSUME ColdFetch, NEW S, S \subseteq DOMAIN rows,
              NEW window \in Fetched(rows, S, ColdWindow),
              Probe("cold", ColdHead(window)), coldBuffer' = ColdRest(window)
       PROVE  Kept \/ Read
  <2>1. window \in Seq(Snapshot)
    BY <1>1, <1>5, FetchedType
  <2>2. \A x \in Range(window) : \E i \in DOMAIN rows : x = Snap(rows, i)
    BY <1>1, <1>5, FetchedProps
  <2>3. rows' = rows /\ recheck' = recheck /\ tx' = tx /\ "cold" \in Loops
    BY <1>5 DEF ColdFetch, Loops
  <2>4. s \in Held \/ s \in Range(window)
    BY <1>4, <1>5, <2>1, <2>3, WindowRange DEF Held
  <2> QED
    BY <1>5, <2>2, <2>3, <2>4
<1>6. CASE ColdFetch
  BY <1>6, <1>5 DEF ColdFetch
<1>7. CASE ColdNext
  <2>1. /\ Probe("cold", ColdHead(coldBuffer)) /\ coldBuffer' = ColdRest(coldBuffer)
        /\ recheck' = recheck /\ tx' = tx /\ "cold" \in Loops
    BY <1>7 DEF ColdNext, Loops
  <2> QED
    BY <1>1, <1>4, <2>1, WindowRange DEF Held
<1>8. ASSUME NEW q \in Loops, NEW S, S \subseteq DOMAIN rows, NEW n, Fetch(q, S, n)
      PROVE  Kept \/ Read
  <2>1. PICK batch \in Fetched(rows, S, n) : Probe(q, batch)
    BY <1>8 DEF Fetch
  <2>2. \A x \in Range(batch) : \E i \in DOMAIN rows : x = Snap(rows, i)
    BY <1>1, <1>8, FetchedProps
  <2>3. rows' = rows /\ recheck' = recheck /\ tx' = tx /\ coldBuffer' = coldBuffer
    BY <1>8 DEF Fetch
  <2> QED
    BY <1>4, <2>1, <2>2, <2>3 DEF Held
<1>9. CASE HotFetch \/ WarmFetch \/ QuarantineFetch
  BY <1>8, <1>9 DEF HotFetch, WarmFetch, QuarantineFetch, Loops
<1>10. CASE ReportFetch
  <2>1. /\ Probe("report", recheck) /\ recheck' = <<>> /\ coldBuffer' = coldBuffer
        /\ tx' = tx /\ "report" \in Loops
    BY <1>10 DEF ReportFetch, Loops
  <2> QED
    BY <1>3, <1>4, <2>1 DEF Held
<1>11. ASSUME NEW q \in Loops, BeginWrite(q) PROVE Kept
  <2>1. /\ tx'.todo = flight[q] /\ flight' = [flight EXCEPT ![q] = <<>>]
        /\ coldBuffer' = coldBuffer /\ recheck' = recheck
    BY <1>11 DEF BeginWrite, NoTx
  <2> QED
    BY <1>1, <1>2, <1>3, <2>1 DEF Held
<1>12. ASSUME UNCHANGED <<flight, coldBuffer, recheck>>, Range(tx'.todo) \subseteq Range(tx.todo)
       PROVE  Kept
  BY <1>2, <1>12 DEF Held
<1>13. ASSUME tx.todo # <<>>, tx'.todo = Tail(tx.todo), UNCHANGED <<flight, coldBuffer, recheck>>
       PROVE  Kept
  BY <1>1, <1>12, <1>13, TailRange
<1>14. ASSUME NEW p \in Protocols, ApplyOk(p) PROVE Kept
  BY <1>1, <1>13, <1>14 DEF ApplyOk, TypeOK
<1>15. CASE ApplyFail
  BY <1>1, <1>13, <1>15 DEF ApplyFail, TypeOK
<1>16. CASE WriteOk \/ WriteFail
  <2>1. tx'.todo = tx.todo /\ UNCHANGED <<flight, coldBuffer, recheck>>
    BY <1>1, <1>16 DEF WriteOk, WriteFail, TypeOK
  <2> QED
    BY <1>12, <2>1
<1>17. ASSUME NEW q \in Loops, Commit(q) PROVE Kept
  <2>1. tx'.todo = <<>> /\ UNCHANGED <<flight, coldBuffer, recheck>>
    BY <1>17 DEF Commit, NoTx
  <2> QED
    BY <1>2, <1>3, <2>1 DEF Held
<1>18. ASSUME NEW q \in Loops, Rebuild(q) PROVE Kept
  BY <1>2, <1>18 DEF Rebuild, Held
<1>19. CASE Scrape \/ Prune \/ Tick \/ UNCHANGED vars
  BY <1>2, <1>19 DEF Scrape, Prune, Tick, vars, Held
<1>20. ASSUME NEW k \in DOMAIN rows, Report(k) PROVE Kept \/ Read
  <2>1. /\ recheck' = PutRecheck(Snap(rows, k)) /\ rows' = rows
        /\ UNCHANGED <<flight, tx, coldBuffer>>
    BY <1>20 DEF Report
  <2>2. Range(recheck') \subseteq Range(recheck) \cup {Snap(rows, k)}
    BY <1>1, <2>1, PutRange, SnapshotType
  <2> QED
    BY <1>2, <2>1, <2>2 DEF Held
<1>21. CASE Restart
  <2>1. /\ \A q \in Loops : flight'[q] = <<>>
        /\ coldBuffer' = <<>> /\ recheck' = <<>> /\ tx'.todo = <<>>
    BY <1>21 DEF Restart, LockFree, NoTx
  <2> QED
    BY <1>2, <1>3, <2>1
<1> QED
  BY <1>6, <1>7, <1>9, <1>10, <1>11, <1>14, <1>15, <1>16, <1>17, <1>18, <1>19, <1>20, <1>21
     DEF Next, Write

-----------------------------------------------------------------------------
(* The invariant that links them *)

\* The loop that holds the lock is the one that writes; only a probing loop
\* awaits anything.
LockInv ==
    /\ tx.by = "none" => tx = NoTx
    /\ tx.by # "none" => pc[tx.by] = "writing"
    /\ \A q \in Loops : pc[q] # "probing" => flight[q] = <<>>

\* A row that is still there has the label it was read with.
LabelInv == \A s \in Held : s.id \in DOMAIN rows => LabelOf(rows[s.id]) = LabelOf(s)

\* Only the cold loop holds placeholders,
BulkInv ==
    /\ \A q \in Loops \ {"cold"} : Settled(flight[q])
    /\ tx.by # "cold" => Settled(tx.todo)
    /\ Settled(recheck)

\* and each of them once.
OnceInv == IdsDistinct(Waiting)

\* A success is recorded against a row whose address has answered over its protocol.
OksInv ==
    /\ answered \subseteq Endpoints \X Protocols
    /\ \A k \in DOMAIN tx.oks :
          tx.oks[k].id \in DOMAIN rows => LabelOf(rows[tx.oks[k].id]) \in answered

\* Each part leans on the others: that an answer settles only its own placeholder
\* takes the labels of the snapshots, that those stay right takes that no other loop
\* holds a placeholder, and that takes that a row without a protocol has no success.
LinkInv ==
    /\ IInv /\ Proven(rows, answered) /\ LockInv /\ LabelInv /\ BulkInv /\ OnceInv
    /\ OksInv /\ SuccessLands

\* At the start no snapshot is held.
LEMMA EmptyHeld == Init => Held = {}
<1> SUFFICES ASSUME Init PROVE Held = {}
  OBVIOUS
<1>1. DOMAIN <<>> = {} /\ \A q \in Loops : flight[q] = <<>>
  BY DEF Init
<1> QED
  BY <1>1 DEF Init, Held, Range, NoTx

\* The linked invariant holds of the empty table.
LEMMA LinkInit == Init => LinkInv
<1> SUFFICES ASSUME Init PROVE LinkInv
  OBVIOUS
<1>1. IInv
  BY InitInv
<1>2. DOMAIN <<>> = {} /\ \A q \in Loops : flight[q] = <<>>
  BY DEF Init
<1>3. Held = {}
  BY EmptyHeld
<1>4. Waiting = <<>>
  <2>1. <<>> \o <<>> = <<>>
    BY EmptySeq, ConcatEmptySeq
  <2>2. "cold" \in Loops
    BY DEF Loops
  <2> QED
    BY <1>2, <2>1, <2>2 DEF Init, Waiting, NoTx
<1>5. Proven(rows, answered) /\ LockInv /\ BulkInv /\ OksInv /\ SuccessLands
  BY <1>2 DEF Init, Proven, LockInv, BulkInv, Settled, OksInv, SuccessLands, NoTx, Loops
<1> QED
  BY <1>1, <1>2, <1>3, <1>4, <1>5 DEF LinkInv, LabelInv, OnceInv, IdsDistinct

\* The result that is applied comes from the cold loop if it settles a protocol,
\* and its row, if still there, is a placeholder.
LEMMA ApplyProps ==
    ASSUME LinkInv, NEW p \in Protocols, ApplyOk(p)
    PROVE  /\ Head(tx.todo) \in Snapshot
           /\ Head(tx.todo) \in Held
           /\ tx.todo # <<>>
           /\ tx.by # "none"
           /\ tx.todo \in Seq(Snapshot) /\ tx.oks \in Seq(Update) /\ coldBuffer \in Seq(Snapshot)
           /\ Head(tx.todo).protocol # p =>
                /\ tx.by = "cold"
                /\ Head(tx.todo).protocol = Unknown
           /\ Head(tx.todo).id \in DOMAIN rows =>
                LabelOf(rows[Head(tx.todo).id]) = LabelOf(Head(tx.todo))
<1>1. tx.todo # <<>> /\ tx.todo \in Seq(Snapshot)
  BY DEF ApplyOk, LinkInv, IInv, TypeOK
<1>2. 1 \in DOMAIN tx.todo /\ tx.todo[1] = Head(tx.todo)
  BY <1>1, HeadIsFirst
<1>3. Head(tx.todo) \in Held
  BY <1>2 DEF Held, Range
<1>4. tx.by # "none"
  BY <1>1 DEF LinkInv, LockInv, NoTx
<1>5. Head(tx.todo).protocol # p => Head(tx.todo).protocol = Unknown /\ tx.by = "cold"
  BY <1>2 DEF ApplyOk, CanAnswer, LinkInv, BulkInv, Settled
<1>6. Head(tx.todo) \in Snapshot
  BY <1>1, HeadTailProperties
<1>7. tx.oks \in Seq(Update) /\ coldBuffer \in Seq(Snapshot)
  BY DEF LinkInv, IInv, TypeOK
<1> QED
  BY <1>1, <1>3, <1>4, <1>5, <1>6, <1>7 DEF LinkInv, LabelInv

-----------------------------------------------------------------------------
(* One part of it after the other *)

\* Only an answered placeholder changes its label, or leaves for another row.
LEMMA RowsNext == LinkInv /\ [Next]_vars => Proven(rows, answered)'
<1> SUFFICES ASSUME LinkInv, [Next]_vars PROVE Proven(rows', answered')
  BY DEF Proven, LabelOf
<1>1. TableOK(rows) /\ now # Never /\ Proven(rows, answered)
  BY TypeTable DEF LinkInv, IInv, TypeOK, Never
<1>2. ASSUME UNCHANGED <<rows, answered>> PROVE Proven(rows', answered')
  BY <1>1, <1>2
<1>3. ASSUME NEW p \in Protocols, ApplyOk(p) PROVE Proven(rows', answered')
  <2> DEFINE s == Head(tx.todo)
  <2>1. answered \subseteq answered' /\ Proven(rows, answered')
    BY <1>1, <1>3 DEF ApplyOk, Proven
  <2>2. CASE p = s.protocol
    BY <1>3, <2>1, <2>2 DEF ApplyOk
  <2>3. CASE p # s.protocol
    <3>1. rows' = Resolved(rows, s, p)
      BY <1>3, <2>3 DEF ApplyOk
    <3>2. s.id \in DOMAIN rows => rows[s.id].protocol = Unknown
      BY <1>3, <2>3, ApplyProps DEF LabelOf
    <3> HIDE DEF s
    <3>3. Proven(Resolved(rows, s, p), answered')
      BY <1>1, <2>1, <3>2, ResolvedProven
    <3> QED
      BY <3>1, <3>3
  <2> QED
    BY <2>2, <2>3
<1>4. CASE WriteOk
  <2> DEFINE u == Head(tx.oks)
  <2>1. u.id \in DOMAIN rows => LabelOf(rows[u.id]) \in answered
    <3>1. tx.oks # <<>> /\ tx.oks \in Seq(Update)
      BY <1>4 DEF WriteOk, LinkInv, IInv, TypeOK
    <3>2. 1 \in DOMAIN tx.oks /\ tx.oks[1] = u
      BY <3>1, HeadIsFirst
    <3> QED
      BY <3>2 DEF LinkInv, OksInv
  <2>2. u.id \in DOMAIN rows => rows[u.id].protocol # Unknown
    BY <2>1, ProtocolAssumption DEF LinkInv, OksInv, LabelOf
  <2>3. rows' = RecordOk(rows, u, now) /\ answered' = answered
    BY <1>4 DEF WriteOk
  <2> HIDE DEF u
  <2> QED
    BY <1>1, <2>1, <2>2, <2>3, RecordProven
<1>5. CASE WriteFail
  <2> DEFINE u == Head(tx.fails)
  <2>1. rows' = RecordFail(rows, u, now) /\ answered' = answered
    BY <1>5 DEF WriteFail
  <2> HIDE DEF u
  <2> QED
    BY <1>1, <2>1, FailProven
<1>6. CASE Scrape
  <2>1. PICK C \in SUBSET Listed, top \in DOMAIN rows \cup {0} :
           rows' \in UpsertCandidates(rows, C, now, top)
    BY <1>6 DEF Scrape
  <2> QED
    BY <1>1, <1>6, <2>1, UpsertProven DEF Scrape
<1>7. CASE Prune
  BY <1>1, <1>7 DEF Prune, Pruned, Restrict, Proven
<1>8. CASE ColdFetch \/ ColdNext \/ HotFetch \/ WarmFetch \/ QuarantineFetch \/ ReportFetch
  BY <1>2, <1>8 DEF ColdFetch, ColdNext, HotFetch, WarmFetch, QuarantineFetch, Fetch,
     ReportFetch
<1>9. ASSUME NEW q \in Loops, Write(q) \/ Rebuild(q) PROVE Proven(rows', answered')
  BY <1>2, <1>9 DEF Write, BeginWrite, Commit, Rebuild
<1>10. ASSUME NEW k \in DOMAIN rows, Report(k) PROVE Proven(rows', answered')
  BY <1>2, <1>10 DEF Report
<1>11. CASE ApplyFail \/ Restart \/ Tick \/ UNCHANGED vars
  BY <1>2, <1>11 DEF ApplyFail, Restart, Tick, vars
<1> QED
  BY <1>3, <1>4, <1>5, <1>6, <1>7, <1>8, <1>9, <1>10, <1>11 DEF Next

\* No step lets two loops write at once or leaves a probe behind.
LEMMA LockNext == LinkInv /\ [Next]_vars => LockInv'
<1> SUFFICES ASSUME LinkInv, [Next]_vars PROVE LockInv'
  OBVIOUS
<1>1. TypeOK /\ LockInv
  BY DEF LinkInv, IInv
<1>2. ASSUME NEW q \in Loops, NEW batch, Probe(q, batch), UNCHANGED tx PROVE LockInv'
  <2>1. /\ pc' = [pc EXCEPT ![q] = "probing"] /\ pc[q] = "idle"
        /\ flight' = [flight EXCEPT ![q] = batch]
    BY <1>2 DEF Probe
  <2> QED
    BY <1>1, <1>2, <2>1 DEF LockInv, TypeOK
<1>3. CASE ColdFetch \/ ColdNext \/ HotFetch \/ WarmFetch \/ QuarantineFetch \/ ReportFetch
  BY <1>2, <1>3 DEF ColdFetch, ColdNext, HotFetch, WarmFetch, QuarantineFetch, Fetch,
     ReportFetch, Loops
<1>4. ASSUME NEW q \in Loops, BeginWrite(q) PROVE LockInv'
  <2>1. /\ pc' = [pc EXCEPT ![q] = "writing"] /\ tx'.by = q /\ q # "none"
        /\ flight' = [flight EXCEPT ![q] = <<>>]
    BY <1>4 DEF BeginWrite, NoTx, Loops
  <2> QED
    BY <1>1, <2>1 DEF LockInv, TypeOK
<1>5. ASSUME tx.by # "none", tx'.by = tx.by, UNCHANGED <<pc, flight>> PROVE LockInv'
  BY <1>1, <1>5 DEF LockInv
<1>6. tx.by = "none" => tx.todo = <<>> /\ tx.oks = <<>> /\ tx.fails = <<>>
  BY <1>1 DEF LockInv, NoTx
<1>7. ASSUME NEW p \in Protocols, ApplyOk(p) PROVE LockInv'
  BY <1>1, <1>5, <1>6, <1>7 DEF ApplyOk, TypeOK
<1>8. CASE ApplyFail
  BY <1>1, <1>5, <1>6, <1>8 DEF ApplyFail, TypeOK
<1>9. CASE WriteOk
  BY <1>1, <1>5, <1>6, <1>9 DEF WriteOk, TypeOK
<1>10. CASE WriteFail
  BY <1>1, <1>5, <1>6, <1>10 DEF WriteFail, TypeOK
<1>11. ASSUME NEW q \in Loops, Commit(q) PROVE LockInv'
  <2>1. tx.by = q /\ q # "none"
    BY <1>11 DEF Commit, NoTx, Loops
  <2>2. tx' = NoTx /\ pc' = [pc EXCEPT ![q] = AfterWrite(q)] /\ flight' = flight
    BY <1>11 DEF Commit
  <2>3. pc[q] = "writing" /\ AfterWrite(q) # "probing"
    BY <1>1, <2>1 DEF LockInv, AfterWrite
  <2> QED
    BY <1>1, <2>2, <2>3 DEF LockInv, TypeOK, NoTx
<1>12. ASSUME NEW q \in Loops, Rebuild(q) PROVE LockInv'
  <2>1. /\ pc' = [pc EXCEPT ![q] = "idle"] /\ pc[q] = "rebuild" /\ tx = NoTx
        /\ UNCHANGED <<tx, flight>>
    BY <1>12 DEF Rebuild, LockFree
  <2> QED
    BY <1>1, <2>1 DEF LockInv, TypeOK, NoTx
<1>13. CASE Restart
  BY <1>13 DEF Restart, LockFree, LockInv, NoTx
<1>14. CASE Scrape \/ Prune \/ Tick \/ UNCHANGED vars
  BY <1>1, <1>14 DEF Scrape, Prune, Tick, vars, LockInv
<1>15. ASSUME NEW k \in DOMAIN rows, Report(k) PROVE LockInv'
  BY <1>1, <1>15 DEF Report, LockInv
<1> QED
  BY <1>3, <1>4, <1>7, <1>8, <1>9, <1>10, <1>11, <1>12, <1>13, <1>14, <1>15 DEF Next, Write

\* While a snapshot is held, its rowid is given to no other row.
NoReuseStep == \A s \in Held : s.id \in DOMAIN rows' => s.id \in DOMAIN rows

\* Outside the answer of a placeholder, rows that stay keep their labels.
LEMMA LabelStays ==
    ASSUME LinkInv, [Next]_vars, \A p \in Protocols : ~ApplyOk(p),
           NEW i \in DOMAIN rows, i \in DOMAIN rows'
    PROVE  LabelOf(rows'[i]) = LabelOf(rows[i])
<1> DEFINE Same == LabelOf(rows'[i]) = LabelOf(rows[i])
<1>1. TableOK(rows)
  BY TypeTable DEF LinkInv, IInv
<1>2. CASE WriteOk \/ WriteFail
  <2>1. PICK u : rows' = RecordOk(rows, u, now) \/ rows' = RecordFail(rows, u, now)
    BY <1>2 DEF WriteOk, WriteFail
  <2>2. rows[i] \in Row
    BY <1>1 DEF TableOK
  <2>3. CASE rows' = RecordOk(rows, u, now)
    BY <2>2, <2>3 DEF Row, LabelOf, RecordOk
  <2>4. CASE rows' = RecordFail(rows, u, now)
    BY <2>2, <2>4 DEF Row, LabelOf, RecordFail
  <2> QED
    BY <2>1, <2>3, <2>4
<1>3. CASE Scrape
  BY <1>1, <1>3, UpsertKeeps DEF Scrape
<1>4. CASE Prune
  BY <1>4 DEF Prune, Pruned, Restrict
<1>5. ASSUME UNCHANGED rows PROVE Same
  BY <1>5
<1>6. CASE ColdFetch \/ ColdNext \/ HotFetch \/ WarmFetch \/ QuarantineFetch \/ ReportFetch
  BY <1>5, <1>6 DEF ColdFetch, ColdNext, HotFetch, WarmFetch, QuarantineFetch, Fetch,
     ReportFetch
<1>7. ASSUME NEW q \in Loops, Write(q) \/ Rebuild(q) PROVE Same
  BY <1>5, <1>7 DEF Write, BeginWrite, Commit, Rebuild
<1>8. ASSUME NEW k \in DOMAIN rows, Report(k) PROVE Same
  BY <1>5, <1>8 DEF Report
<1>9. CASE ApplyFail \/ Restart \/ Tick \/ UNCHANGED vars
  BY <1>5, <1>9 DEF ApplyFail, Restart, Tick, vars
<1> QED
  BY <1>2, <1>3, <1>4, <1>6, <1>7, <1>8, <1>9 DEF Next

\* What is left of the batch and of the windows has other ids than the
\* placeholder that is settled.
LEMMA OthersLeft ==
    ASSUME LinkInv, NEW p \in Protocols, ApplyOk(p), Head(tx.todo).protocol # p,
           Head(tx.todo).id \in DOMAIN rows, NEW s \in Held'
    PROVE  s.id = Head(tx.todo).id => s.id \notin DOMAIN rows
<1> DEFINE h == Head(tx.todo)
<1> SUFFICES ASSUME s.id = h.id PROVE FALSE
  OBVIOUS
<1>1. /\ tx.by = "cold" /\ h.protocol = Unknown /\ tx.todo # <<>>
      /\ tx.todo \in Seq(Snapshot) /\ coldBuffer \in Seq(Snapshot)
      /\ LabelOf(rows[h.id]) = LabelOf(h)
  BY ApplyProps
<1>2. \A x \in Range(Tail(tx.todo)) \cup Range(coldBuffer) : x.id # h.id
  BY <1>1, TailDistinct DEF LinkInv, OnceInv, Waiting
<1>3. /\ tx'.todo = Tail(tx.todo) /\ flight' = flight /\ coldBuffer' = coldBuffer
      /\ recheck' = recheck
  BY DEF ApplyOk, LinkInv, IInv, TypeOK
<1>4. PICK q \in Loops : s \in Range(flight[q]) \/ s \in Range(recheck)
  BY <1>2, <1>3 DEF Held, Loops
<1>5. q = "cold" => flight[q] = <<>>
  BY <1>1 DEF LinkInv, LockInv, Loops
<1>6. s.protocol # Unknown
  BY <1>4, <1>5 DEF Range, LinkInv, BulkInv, Settled
<1>7. LabelOf(rows[s.id]) = LabelOf(s)
  BY <1>4 DEF LinkInv, LabelInv, Held
<1> QED
  BY <1>1, <1>6, <1>7 DEF LabelOf

\* A snapshot keeps naming its row while its rowid is not reused.
LEMMA LabelNext == LinkInv /\ [Next]_vars /\ NoReuseStep => LabelInv'
<1> SUFFICES ASSUME LinkInv, [Next]_vars, NoReuseStep, NEW s \in Held', s.id \in DOMAIN rows'
             PROVE  LabelOf(rows'[s.id]) = LabelOf(s)
  BY DEF LabelInv, LabelOf
<1>1. CASE s \notin Held
  <2>1. PICK i \in DOMAIN rows : s = Snap(rows, i) /\ rows' = rows
    BY <1>1, HeldStep DEF LinkInv
  <2> QED
    BY <2>1 DEF Snap, LabelOf
<1>2. CASE s \in Held
  <2>1. s.id \in DOMAIN rows
    BY <1>2 DEF NoReuseStep
  <2>2. LabelOf(rows[s.id]) = LabelOf(s)
    BY <1>2, <2>1 DEF LinkInv, LabelInv
  <2>3. ASSUME NEW p \in Protocols, ApplyOk(p) PROVE LabelOf(rows'[s.id]) = LabelOf(rows[s.id])
    <3> DEFINE h == Head(tx.todo)
    <3>1. CASE p = h.protocol
      BY <2>3, <3>1 DEF ApplyOk
    <3>2. CASE p # h.protocol
      <4>1. rows' = Resolved(rows, h, p)
        BY <2>3, <3>2 DEF ApplyOk
      <4>2. s.id # h.id
        BY <2>1, <2>3, <3>2, OthersLeft
      <4>3. rows'[s.id] = rows[s.id]
        <5>1. CASE Collides(rows, h, p)
          BY <2>1, <4>1, <4>2, <5>1 DEF Resolved, Restrict
        <5>2. CASE ~Collides(rows, h, p)
          BY <2>1, <4>1, <4>2, <5>2 DEF Resolved
        <5> QED
          BY <5>1, <5>2
      <4> QED
        BY <4>3
    <3> QED
      BY <3>1, <3>2
  <2>4. LabelOf(rows'[s.id]) = LabelOf(rows[s.id])
    BY <2>1, <2>3, LabelStays
  <2> QED
    BY <2>2, <2>4
<1> QED
  BY <1>1, <1>2

\* Rows that have answered, the ones every other loop selects, have a protocol.
LEMMA BulkNext == LinkInv /\ [Next]_vars => BulkInv'
<1> SUFFICES ASSUME LinkInv, [Next]_vars PROVE BulkInv'
  OBVIOUS
<1>1. /\ TypeOK /\ TableOK(rows) /\ BulkInv /\ LockInv
      /\ tx.todo \in Seq(Snapshot) /\ recheck \in Seq(Snapshot)
  BY TypeTable DEF LinkInv, IInv, TypeOK
<1>2. \A snaps : Settled(snaps) <=> \A s \in Range(snaps) : s.protocol # Unknown
  BY DEF Settled, Range
<1>3. Settled(<<>>)
  BY DEF Settled
<1>4. ASSUME NEW q \in Loops, NEW batch, Probe(q, batch), q # "cold" => Settled(batch),
             UNCHANGED tx, recheck' = recheck \/ recheck' = <<>>
      PROVE  BulkInv'
  <2>1. flight' = [flight EXCEPT ![q] = batch]
    BY <1>4 DEF Probe
  <2> QED
    BY <1>1, <1>3, <1>4, <2>1 DEF BulkInv, TypeOK
<1>5. CASE ColdFetch \/ ColdNext
  BY <1>4, <1>5 DEF ColdFetch, ColdNext, Loops
<1>6. ASSUME NEW q \in Loops, NEW S, S \subseteq DOMAIN rows, NEW n, Fetch(q, S, n),
             \A i \in S : rows[i].protocol # Unknown
      PROVE  BulkInv'
  <2>1. PICK batch \in Fetched(rows, S, n) : Probe(q, batch)
    BY <1>6 DEF Fetch
  <2>2. \A x \in Range(batch) : \E i \in S : x = Snap(rows, i)
    BY <1>1, <1>6, FetchedProps
  <2>3. Settled(batch)
    BY <1>2, <1>6, <2>2 DEF Snap
  <2> QED
    BY <1>4, <1>6, <2>1, <2>3 DEF Fetch
<1>7. \A i \in DOMAIN rows : rows[i].alive \/ rows[i].checks_ok > 0 => rows[i].protocol # Unknown
  BY DEF LinkInv, Proven
<1>8. CASE HotFetch
  BY <1>6, <1>7, <1>8 DEF HotFetch, InHot, Loops
<1>9. CASE WarmFetch
  BY <1>6, <1>7, <1>9 DEF WarmFetch, InWarm, Loops
<1>10. CASE QuarantineFetch
  BY <1>6, <1>7, <1>10 DEF QuarantineFetch, RestedInQuarantine, InQuarantine, Loops
<1>11. CASE ReportFetch
  BY <1>1, <1>4, <1>11 DEF ReportFetch, BulkInv, Loops
<1>12. ASSUME NEW q \in Loops, BeginWrite(q) PROVE BulkInv'
  <2>1. /\ tx'.todo = flight[q] /\ flight' = [flight EXCEPT ![q] = <<>>]
        /\ tx'.by = q /\ recheck' = recheck
    BY <1>12 DEF BeginWrite, NoTx
  <2> QED
    BY <1>1, <1>3, <2>1 DEF BulkInv, TypeOK
<1>13. ASSUME tx.todo # <<>>, tx'.todo = Tail(tx.todo), tx'.by = tx.by,
              UNCHANGED <<flight, recheck>>
       PROVE  BulkInv'
  <2>1. Settled(tx.todo) => Settled(tx'.todo)
    BY <1>1, <1>2, <1>13, TailRange
  <2> QED
    BY <1>1, <1>13, <2>1 DEF BulkInv
<1>14. ASSUME NEW p \in Protocols, ApplyOk(p) PROVE BulkInv'
  BY <1>1, <1>13, <1>14 DEF ApplyOk, TypeOK
<1>15. CASE ApplyFail
  BY <1>1, <1>13, <1>15 DEF ApplyFail, TypeOK
<1>16. CASE WriteOk \/ WriteFail
  <2>1. tx'.todo = tx.todo /\ tx'.by = tx.by /\ UNCHANGED <<flight, recheck>>
    BY <1>1, <1>16 DEF WriteOk, WriteFail, TypeOK
  <2> QED
    BY <1>1, <2>1 DEF BulkInv
<1>17. ASSUME NEW q \in Loops, Commit(q) PROVE BulkInv'
  BY <1>1, <1>3, <1>17 DEF Commit, NoTx, BulkInv
<1>18. ASSUME NEW q \in Loops, Rebuild(q) PROVE BulkInv'
  BY <1>1, <1>18 DEF Rebuild, BulkInv
<1>19. CASE Scrape \/ Prune \/ Tick \/ UNCHANGED vars
  BY <1>1, <1>19 DEF Scrape, Prune, Tick, vars, BulkInv
<1>20. ASSUME NEW k \in DOMAIN rows, Report(k) PROVE BulkInv'
  <2>1. /\ recheck' = PutRecheck(Snap(rows, k)) /\ UNCHANGED <<flight, tx>>
        /\ rows[k].protocol # Unknown
    BY <1>20 DEF Report
  <2>2. Range(recheck') \subseteq Range(recheck) \cup {Snap(rows, k)}
    BY <1>1, <2>1, PutRange, SnapshotType
  <2>3. Settled(recheck')
    BY <1>1, <1>2, <2>1, <2>2 DEF BulkInv, Snap
  <2> QED
    BY <1>1, <2>1, <2>3 DEF BulkInv
<1>21. CASE Restart
  BY <1>1, <1>3, <1>21 DEF Restart, LockFree, NoTx, BulkInv
<1> QED
  BY <1>5, <1>8, <1>9, <1>10, <1>11, <1>12, <1>14, <1>15, <1>16, <1>17, <1>18, <1>19,
     <1>20, <1>21 DEF Next, Write

\* The cold loop's windows are read off the table only when the last one is used up.
LEMMA OnceNext == LinkInv /\ [Next]_vars => OnceInv'
<1> SUFFICES ASSUME LinkInv, [Next]_vars PROVE OnceInv'
  OBVIOUS
<1>1. /\ TypeOK /\ TableOK(rows) /\ LockInv /\ IdsDistinct(Waiting)
      /\ tx.todo \in Seq(Snapshot) /\ coldBuffer \in Seq(Snapshot)
      /\ flight["cold"] \in Seq(Snapshot)
  BY TypeTable DEF LinkInv, IInv, TypeOK, OnceInv, Loops
<1>2. <<>> \o coldBuffer = coldBuffer /\ <<>> \o <<>> = <<>>
  BY <1>1, EmptySeq, ConcatEmptySeq
<1>3. pc["cold"] = "idle" => tx.by # "cold" /\ flight["cold"] = <<>>
  BY <1>1 DEF LockInv, Loops
<1>4. ASSUME UNCHANGED <<coldBuffer, flight>>, tx'.by = tx.by, tx'.todo = tx.todo PROVE OnceInv'
  BY <1>1, <1>4 DEF OnceInv, Waiting
<1>5. ASSUME ColdFetch, NEW S, S \subseteq DOMAIN rows,
             NEW window \in Fetched(rows, S, ColdWindow),
             Probe("cold", ColdHead(window)), coldBuffer' = ColdRest(window)
      PROVE  OnceInv'
  <2>1. window \in Seq(Snapshot)
    BY <1>1, <1>5, FetchedType
  <2>2. IdsDistinct(window)
    BY <1>1, <1>5, FetchedProps
  <2>3. tx' = tx /\ flight'["cold"] = ColdHead(window) /\ tx.by # "cold"
    BY <1>1, <1>3, <1>5 DEF ColdFetch, Probe, TypeOK, Loops
  <2>4. Waiting' = window
    BY <1>5, <2>1, <2>3, WindowSplit DEF Waiting
  <2> QED
    BY <2>2, <2>4 DEF OnceInv
<1>6. CASE ColdFetch
  BY <1>5, <1>6 DEF ColdFetch
<1>7. CASE ColdNext
  <2>1. /\ coldBuffer' = ColdRest(coldBuffer) /\ flight'["cold"] = ColdHead(coldBuffer)
        /\ tx' = tx /\ tx.by # "cold" /\ flight["cold"] = <<>>
    BY <1>1, <1>3, <1>7 DEF ColdNext, Probe, TypeOK, Loops
  <2>2. Waiting' = Waiting
    BY <1>1, <1>2, <2>1, WindowSplit DEF Waiting
  <2> QED
    BY <1>1, <2>2 DEF OnceInv
<1>8. ASSUME NEW q \in Loops \ {"cold"}, NEW batch, Probe(q, batch),
             UNCHANGED <<tx, coldBuffer>>
      PROVE  OnceInv'
  <2>1. flight'["cold"] = flight["cold"]
    BY <1>1, <1>8 DEF Probe, TypeOK, Loops
  <2> QED
    BY <1>1, <1>8, <2>1 DEF OnceInv, Waiting
<1>9. CASE HotFetch \/ WarmFetch \/ QuarantineFetch \/ ReportFetch
  BY <1>8, <1>9 DEF HotFetch, WarmFetch, QuarantineFetch, ReportFetch, Fetch, Loops
<1>10. ASSUME NEW q \in Loops, BeginWrite(q) PROVE OnceInv'
  <2>1. /\ tx'.todo = flight[q] /\ tx'.by = q /\ tx.by = "none"
        /\ flight' = [flight EXCEPT ![q] = <<>>] /\ coldBuffer' = coldBuffer
    BY <1>10 DEF BeginWrite, NoTx, LockFree
  <2>2. Waiting' = Waiting
    <3>1. CASE q = "cold"
      BY <1>1, <2>1, <3>1 DEF Waiting
    <3>2. CASE q # "cold"
      <4>1. flight'["cold"] = flight["cold"]
        BY <1>1, <2>1, <3>2 DEF TypeOK, Loops
      <4> QED
        BY <2>1, <3>2, <4>1 DEF Waiting
    <3> QED
      BY <3>1, <3>2
  <2> QED
    BY <1>1, <2>2 DEF OnceInv
<1>11. ASSUME tx.todo # <<>>, tx'.todo = Tail(tx.todo), tx'.by = tx.by,
              UNCHANGED <<flight, coldBuffer>>
       PROVE  OnceInv'
  <2>1. CASE tx.by = "cold"
    <3>1. Waiting = tx.todo \o coldBuffer /\ Waiting' = Tail(tx.todo) \o coldBuffer
      BY <1>11, <2>1 DEF Waiting
    <3> QED
      BY <1>1, <1>11, <3>1, TailDistinct DEF OnceInv
  <2>2. CASE tx.by # "cold"
    BY <1>1, <1>11, <2>2 DEF OnceInv, Waiting
  <2> QED
    BY <2>1, <2>2
<1>12. ASSUME NEW p \in Protocols, ApplyOk(p) PROVE OnceInv'
  BY <1>1, <1>11, <1>12 DEF ApplyOk, TypeOK
<1>13. CASE ApplyFail
  BY <1>1, <1>11, <1>13 DEF ApplyFail, TypeOK
<1>14. CASE WriteOk \/ WriteFail
  BY <1>1, <1>4, <1>14 DEF WriteOk, WriteFail, TypeOK
<1>15. ASSUME NEW q \in Loops, Commit(q) PROVE OnceInv'
  <2>1. tx.by = q /\ tx.todo = <<>> /\ tx'.by = "none" /\ UNCHANGED <<flight, coldBuffer>>
    BY <1>15 DEF Commit, NoTx
  <2>2. tx.by = "cold" => flight["cold"] = <<>>
    BY <1>1 DEF LockInv, Loops
  <2>3. Waiting' = Waiting
    BY <2>1, <2>2 DEF Waiting
  <2> QED
    BY <1>1, <2>3 DEF OnceInv
<1>16. ASSUME NEW q \in Loops, Rebuild(q) PROVE OnceInv'
  BY <1>4, <1>16 DEF Rebuild
<1>17. CASE Scrape \/ Prune \/ Tick \/ UNCHANGED vars
  BY <1>4, <1>17 DEF Scrape, Prune, Tick, vars
<1>18. ASSUME NEW k \in DOMAIN rows, Report(k) PROVE OnceInv'
  BY <1>4, <1>18 DEF Report
<1>19. CASE Restart
  <2>1. Waiting' = <<>>
    BY <1>2, <1>19 DEF Restart, LockFree, NoTx, Waiting, Loops
  <2> QED
    BY <2>1 DEF OnceInv, IdsDistinct
<1> QED
  BY <1>6, <1>7, <1>9, <1>10, <1>12, <1>13, <1>14, <1>15, <1>16, <1>17, <1>18, <1>19
     DEF Next, Write

\* Applying an answer keeps every row whose address has answered over its
\* protocol.
LEMMA AnsweredStays ==
    ASSUME LinkInv, NEW p \in Protocols, ApplyOk(p),
           NEW i \in DOMAIN rows, LabelOf(rows[i]) \in Endpoints \X Protocols
    PROVE  i \in DOMAIN rows' /\ rows'[i] = rows[i]
<1> DEFINE h == Head(tx.todo)
<1>1. CASE p = h.protocol
  BY <1>1 DEF ApplyOk
<1>2. CASE p # h.protocol
  <2>1. rows' = Resolved(rows, h, p)
    BY <1>2 DEF ApplyOk
  <2>2. h.protocol = Unknown /\ (h.id \in DOMAIN rows => LabelOf(rows[h.id]) = LabelOf(h))
    BY <1>2, ApplyProps
  <2>3. i # h.id
    BY <2>2, ProtocolAssumption DEF LabelOf
  <2> QED
    BY <2>1, <2>3 DEF Resolved, Restrict
<1> QED
  BY <1>1, <1>2

\* The update that an answer leaves names, if anything, the row of the address
\* and the protocol that answered.
LEMMA UpdateNamed ==
    ASSUME LinkInv, NEW p \in Protocols, ApplyOk(p), NEW u,
           u.id = IF p # Head(tx.todo).protocol
                  THEN SurvivingId(rows, Head(tx.todo), p) ELSE Head(tx.todo).id
    PROVE  /\ u.id \in DOMAIN rows' => LabelOf(rows'[u.id]) = <<Head(tx.todo).ep, p>>
           /\ Head(tx.todo).id \in DOMAIN rows => u.id \in DOMAIN rows'
<1> DEFINE h == Head(tx.todo)
<1>1. /\ h \in Snapshot
      /\ h.id \in DOMAIN rows => LabelOf(rows[h.id]) = LabelOf(h)
      /\ p # h.protocol => h.protocol = Unknown
  BY ApplyProps
<1>2. \A i \in DOMAIN rows : rows[i] \in Row
  BY TypeTable DEF LinkInv, IInv, TableOK
<1>3. CASE p = h.protocol
  BY <1>1, <1>3 DEF ApplyOk, LabelOf
<1>4. CASE p # h.protocol /\ Collides(rows, h, p)
  <2> DEFINE survivors == {j \in DOMAIN rows : LabelOf(rows[j]) = <<h.ep, p>>}
  <2>1. h.id \in DOMAIN rows /\ rows[h.id].ep = h.ep
    BY <1>1, <1>4 DEF Collides, LabelOf
  <2>2. survivors # {}
    BY <1>4, <2>1 DEF Collides
  <2>3. u.id \in survivors
    BY <1>4, <2>2 DEF SurvivingId
  <2>4. u.id # h.id
    BY <1>1, <1>4, <2>1, <2>3 DEF LabelOf
  <2>5. rows' = Restrict(rows, DOMAIN rows \ {h.id})
    BY <1>4 DEF ApplyOk, Resolved
  <2> QED
    BY <2>3, <2>4, <2>5 DEF Restrict
<1>5. CASE p # h.protocol /\ ~Collides(rows, h, p)
  <2>1. u.id = h.id
    BY <1>5 DEF SurvivingId
  <2>2. rows' = [i \in DOMAIN rows |->
                   IF i = h.id THEN [rows[i] EXCEPT !.protocol = p] ELSE rows[i]]
    BY <1>5 DEF ApplyOk, Resolved
  <2>3. h.id \in DOMAIN rows => rows'[h.id].ep = h.ep /\ rows'[h.id].protocol = p
    BY <1>1, <1>2, <2>2 DEF Row, LabelOf
  <2> QED
    BY <2>1, <2>2, <2>3 DEF LabelOf
<1> QED
  BY <1>3, <1>4, <1>5

\* A success waiting to be written stays attached to a row of its address.
LEMMA OksNext == LinkInv /\ [Next]_vars => OksInv' /\ SuccessLands'
<1> SUFFICES ASSUME LinkInv, [Next]_vars PROVE OksInv' /\ SuccessLands'
  OBVIOUS
<1>1. /\ TypeOK /\ TableOK(rows) /\ OksInv /\ SuccessLands /\ LockInv
      /\ tx.oks \in Seq(Update)
  BY TypeTable DEF LinkInv, IInv, TypeOK
<1>2. ASSUME tx'.oks = <<>>, answered' = answered PROVE OksInv' /\ SuccessLands'
  BY <1>1, <1>2 DEF OksInv, SuccessLands
<1>3. ASSUME UNCHANGED <<rows, answered>>, tx'.oks = tx.oks PROVE OksInv' /\ SuccessLands'
  BY <1>1, <1>3 DEF OksInv, SuccessLands, LabelOf
<1>4. ASSUME NEW p \in Protocols, ApplyOk(p) PROVE OksInv' /\ SuccessLands'
  <2> DEFINE h == Head(tx.todo)
             u == [id |-> IF p # h.protocol THEN SurvivingId(rows, h, p) ELSE h.id,
                   ep |-> h.ep, history |-> PushHistory(h.history, TRUE),
                   landed |-> h.id \in DOMAIN rows /\ rows[h.id].ep = h.ep]
             n == Len(tx.oks) + 1
  <2>1. /\ u.ep = h.ep /\ u.landed => h.id \in DOMAIN rows
        /\ u.id \in DOMAIN rows' => LabelOf(rows'[u.id]) = <<h.ep, p>>
        /\ h.id \in DOMAIN rows => u.id \in DOMAIN rows'
    BY <1>4, UpdateNamed
  <2>2. answered' = answered \cup {<<h.ep, p>>} /\ h.ep \in Endpoints
    BY <1>4, ApplyProps DEF ApplyOk, Snapshot
  <2>3. u.ep = h.ep /\ tx'.oks = Append(tx.oks, u)
    BY <1>1, <1>4 DEF ApplyOk, TypeOK
  <2> HIDE DEF u
  <2>4. /\ DOMAIN tx'.oks = 1 .. n /\ Len(tx.oks) \in Nat /\ DOMAIN tx.oks = 1 .. Len(tx.oks)
        /\ tx'.oks[n] = u
        /\ \A k \in 1 .. Len(tx.oks) : tx'.oks[k] = tx.oks[k]
    BY <1>1, <2>3, LenProperties
  <2>5. answered' \subseteq Endpoints \X Protocols
    BY <1>1, <2>2 DEF OksInv
  <2>6. ASSUME NEW k \in 1 .. Len(tx.oks), tx.oks[k].id \in DOMAIN rows
        PROVE  /\ tx'.oks[k].id \in DOMAIN rows'
               /\ rows'[tx'.oks[k].id] = rows[tx.oks[k].id]
               /\ LabelOf(rows'[tx'.oks[k].id]) \in answered'
    <3>1. LabelOf(rows[tx.oks[k].id]) \in answered
      BY <1>1, <2>4, <2>6 DEF OksInv
    <3> QED
      BY <1>1, <1>4, <2>2, <2>4, <2>6, <3>1, AnsweredStays DEF OksInv
  <2>7. \A i \in DOMAIN rows' : i \in DOMAIN rows
    BY <1>4 DEF ApplyOk, Resolved, Restrict
  <2>8. OksInv'
    <3> SUFFICES ASSUME NEW k \in 1 .. n, tx'.oks[k].id \in DOMAIN rows'
                 PROVE  LabelOf(rows'[tx'.oks[k].id]) \in answered'
      BY <2>4, <2>5 DEF OksInv, LabelOf
    <3>1. CASE k = n
      BY <2>1, <2>2, <2>4, <3>1
    <3>2. CASE k \in 1 .. Len(tx.oks)
      BY <2>4, <2>6, <2>7, <3>2
    <3> QED
      BY <2>4, <3>1, <3>2
  <2>9. SuccessLands'
    <3> SUFFICES ASSUME NEW k \in 1 .. n, tx'.oks[k].landed
                 PROVE  /\ tx'.oks[k].id \in DOMAIN rows'
                        /\ rows'[tx'.oks[k].id].ep = tx'.oks[k].ep
      BY <2>4 DEF SuccessLands
    <3>1. CASE k = n
      BY <2>1, <2>3, <2>4, <3>1 DEF LabelOf
    <3>2. CASE k \in 1 .. Len(tx.oks)
      <4>1. tx.oks[k].id \in DOMAIN rows /\ rows[tx.oks[k].id].ep = tx.oks[k].ep
        BY <1>1, <2>4, <3>2 DEF SuccessLands
      <4> QED
        BY <2>4, <2>6, <3>2, <4>1
    <3> QED
      BY <2>4, <3>1, <3>2
  <2> QED
    BY <2>8, <2>9
<1>5. CASE WriteOk
  <2> DEFINE u == Head(tx.oks)
  <2>1. /\ tx'.oks = Tail(tx.oks) /\ rows' = RecordOk(rows, u, now) /\ answered' = answered
        /\ tx.oks # <<>>
    BY <1>1, <1>5 DEF WriteOk, TypeOK
  <2> HIDE DEF u
  <2>2. /\ DOMAIN rows' = DOMAIN rows
        /\ \A i \in DOMAIN rows : LabelOf(rows'[i]) = LabelOf(rows[i])
        /\ \A i \in DOMAIN rows : rows'[i].ep = rows[i].ep
    BY <1>1, <2>1 DEF RecordOk, TableOK, Row, LabelOf
  <2>3. /\ \A k \in DOMAIN tx'.oks : tx'.oks[k] = tx.oks[k + 1] /\ k + 1 \in DOMAIN tx.oks
    <3>1. /\ Tail(tx.oks) \in Seq(Update) /\ Len(Tail(tx.oks)) = Len(tx.oks) - 1
          /\ \A i \in 1 .. Len(Tail(tx.oks)) : Tail(tx.oks)[i] = tx.oks[i + 1]
      BY <1>1, <2>1, HeadTailProperties
    <3>2. /\ DOMAIN Tail(tx.oks) = 1 .. Len(Tail(tx.oks)) /\ DOMAIN tx.oks = 1 .. Len(tx.oks)
          /\ Len(tx.oks) \in Nat
      BY <1>1, <3>1, LenProperties
    <3> QED
      BY <2>1, <3>1, <3>2
  <2>4. OksInv'
    BY <1>1, <2>1, <2>2, <2>3 DEF OksInv, LabelOf
  <2>5. SuccessLands'
    BY <1>1, <2>2, <2>3 DEF SuccessLands
  <2> QED
    BY <2>4, <2>5
<1>6. CASE WriteFail
  BY <1>2, <1>1, <1>6 DEF WriteFail, TypeOK
<1>7. CASE ApplyFail
  BY <1>3, <1>1, <1>7 DEF ApplyFail, TypeOK
<1>8. CASE Scrape \/ Prune \/ Restart \/ Tick
  BY <1>2, <1>8 DEF Scrape, Prune, Restart, Tick, LockFree, NoTx
<1>9. CASE ColdFetch \/ ColdNext \/ HotFetch \/ WarmFetch \/ QuarantineFetch \/ ReportFetch
  BY <1>3, <1>9 DEF ColdFetch, ColdNext, HotFetch, WarmFetch, QuarantineFetch, Fetch,
     ReportFetch
<1>10. ASSUME NEW q \in Loops, Write(q) \/ Rebuild(q) PROVE OksInv' /\ SuccessLands'
  <2>1. CASE BeginWrite(q)
    BY <1>2, <2>1 DEF BeginWrite, NoTx
  <2>2. CASE Commit(q)
    BY <1>2, <2>2 DEF Commit, NoTx
  <2>3. CASE Rebuild(q)
    BY <1>3, <2>3 DEF Rebuild
  <2> QED
    BY <1>10, <2>1, <2>2, <2>3 DEF Write
<1>11. ASSUME NEW k \in DOMAIN rows, Report(k) PROVE OksInv' /\ SuccessLands'
  BY <1>3, <1>11 DEF Report
<1>12. CASE UNCHANGED vars
  BY <1>3, <1>12 DEF vars
<1> QED
  BY <1>4, <1>5, <1>6, <1>7, <1>8, <1>9, <1>10, <1>11, <1>12 DEF Next

\* Every step keeps the linked invariant, unless it reuses the rowid of a held snapshot.
LEMMA LinkNext == LinkInv /\ [Next]_vars /\ NoReuseStep => LinkInv'
<1> SUFFICES ASSUME LinkInv, [Next]_vars, NoReuseStep PROVE LinkInv'
  OBVIOUS
<1>1. IInv'
  BY NextInv DEF LinkInv
<1> QED
  BY <1>1, RowsNext, LockNext, LabelNext, BulkNext, OnceNext, OksNext DEF LinkInv

-----------------------------------------------------------------------------
(* What a step of the table depends on *)

\* The part of the linked invariant that one step of the table depends on: what is
\* alive has answered, an update names no placeholder, and a placeholder that is
\* settled is the one that was probed.
StepInv ==
    /\ IInv
    /\ Proven(rows, Labels)
    /\ \A k \in DOMAIN tx.oks :
          tx.oks[k].id \in DOMAIN rows => rows[tx.oks[k].id].protocol # Unknown
    /\ tx.todo # <<>> /\ Head(tx.todo).protocol = Unknown
          /\ Head(tx.todo).id \in DOMAIN rows
       => LabelOf(rows[Head(tx.todo).id]) = LabelOf(Head(tx.todo))

\* The linked invariant provides it.
LEMMA LinkedStep == LinkInv => StepInv
<1> SUFFICES ASSUME LinkInv PROVE StepInv
  OBVIOUS
<1>1. IInv /\ TableOK(rows) /\ tx.todo \in Seq(Snapshot)
  BY TypeTable DEF LinkInv, IInv, TypeOK
<1>2. Proven(rows, Labels)
  BY DEF LinkInv, Proven, OksInv, Labels
<1>3. \A k \in DOMAIN tx.oks :
         tx.oks[k].id \in DOMAIN rows => rows[tx.oks[k].id].protocol # Unknown
  BY ProtocolAssumption DEF LinkInv, OksInv, LabelOf
<1>4. ASSUME tx.todo # <<>>, Head(tx.todo).id \in DOMAIN rows
      PROVE  LabelOf(rows[Head(tx.todo).id]) = LabelOf(Head(tx.todo))
  <2>1. Head(tx.todo) \in Held
    BY <1>1, <1>4, HeadIsFirst DEF Held, Range
  <2> QED
    BY <1>4, <2>1 DEF LinkInv, LabelInv
<1> QED
  BY <1>1, <1>2, <1>3, <1>4 DEF StepInv

-----------------------------------------------------------------------------
(* A step keeps the records and implements ProxyLifecycle *)

\* An address that has worked within its retention period keeps a row that says so.
LEMMA RetainStep ==
    ASSUME StepInv, [Next]_vars, NEW i \in DOMAIN rows,
           rows[i].checks_ok > 0, rows[i].last_verified_at >= now - ProvenStale
    PROVE  \E j \in DOMAIN rows' : rows'[j].ep = rows[i].ep /\ rows'[j].checks_ok > 0
<1> DEFINE Kept == \E j \in DOMAIN rows' : rows'[j].ep = rows[i].ep /\ rows'[j].checks_ok > 0
<1>1. /\ TableOK(rows) /\ Proven(rows, Labels) /\ rows[i] \in Row
      /\ now \in Nat /\ rows[i].last_verified_at \in Nat
  BY TypeTable DEF StepInv, IInv, TableOK, Row
<1>3. ASSUME UNCHANGED rows PROVE Kept
  BY <1>3
<1>4. ASSUME NEW p \in Protocols, ApplyOk(p) PROVE Kept
  <2> DEFINE h == Head(tx.todo)
  <2>1. CASE p = h.protocol
    BY <1>3, <1>4, <2>1 DEF ApplyOk
  <2>2. CASE p # h.protocol
    <3>1. rows' = Resolved(rows, h, p) /\ h.protocol = Unknown /\ tx.todo # <<>>
      BY <1>4, <2>2 DEF ApplyOk, CanAnswer
    <3>2. h.id \in DOMAIN rows => rows[h.id].protocol = Unknown
      BY <3>1 DEF StepInv, LabelOf
    <3>3. i # h.id
      BY <1>1, <3>2 DEF Proven
    <3>4. i \in DOMAIN rows' /\ rows'[i] = rows[i]
      BY <3>1, <3>3 DEF Resolved, Restrict
    <3> QED
      BY <3>4
  <2> QED
    BY <2>1, <2>2
<1>5. CASE WriteOk
  <2>1. PICK u : rows' = RecordOk(rows, u, now)
    BY <1>5 DEF WriteOk
  <2>2. /\ i \in DOMAIN rows' /\ rows'[i].ep = rows[i].ep
        /\ rows'[i].checks_ok = rows[i].checks_ok \/ rows'[i].checks_ok = rows[i].checks_ok + 1
    BY <1>1, <2>1 DEF RecordOk, Row
  <2>3. rows[i].checks_ok \in Nat
    BY <1>1 DEF Row
  <2> QED
    BY <2>2, <2>3
<1>6. CASE WriteFail
  <2>1. PICK u : rows' = RecordFail(rows, u, now)
    BY <1>6 DEF WriteFail
  <2>2. /\ i \in DOMAIN rows' /\ rows'[i].ep = rows[i].ep
        /\ rows'[i].checks_ok = rows[i].checks_ok
    BY <1>1, <2>1 DEF RecordFail, Row
  <2> QED
    BY <2>2
<1>7. CASE Scrape
  <2>1. PICK C \in SUBSET Listed, top \in DOMAIN rows \cup {0} :
           rows' \in UpsertCandidates(rows, C, now, top)
    BY <1>7 DEF Scrape
  <2>2. i \in DOMAIN rows' /\ rows'[i].ep = rows[i].ep /\ rows'[i].checks_ok = rows[i].checks_ok
    BY <1>1, <2>1, UpsertKeeps
  <2> QED
    BY <2>2
<1>8. CASE Prune
  <2>1. ~Doomed(rows[i], now)
    <3>1. rows[i].last_verified_at # Never
      BY <1>1 DEF Proven
    <3>2. ~(rows[i].last_verified_at < now - ProvenStale) /\ rows[i].checks_ok # 0
      BY <1>1, AgeAssumption
    <3> QED
      BY <3>1, <3>2 DEF Doomed
  <2>2. i \in DOMAIN rows' /\ rows'[i] = rows[i]
    BY <1>8, <2>1 DEF Prune, Pruned, Restrict
  <2> QED
    BY <2>2
<1>9. CASE ColdFetch \/ ColdNext \/ HotFetch \/ WarmFetch \/ QuarantineFetch \/ ReportFetch
  BY <1>3, <1>9 DEF ColdFetch, ColdNext, HotFetch, WarmFetch, QuarantineFetch, Fetch,
     ReportFetch
<1>10. ASSUME NEW q \in Loops, Write(q) \/ Rebuild(q) PROVE Kept
  BY <1>3, <1>10 DEF Write, BeginWrite, Commit, Rebuild
<1>11. ASSUME NEW k \in DOMAIN rows, Report(k) PROVE Kept
  BY <1>3, <1>11 DEF Report
<1>12. CASE ApplyFail \/ Restart \/ Tick \/ UNCHANGED vars
  BY <1>3, <1>12 DEF ApplyFail, Restart, Tick, vars
<1> QED
  BY <1>4, <1>5, <1>6, <1>7, <1>8, <1>9, <1>10, <1>11, <1>12 DEF Next

\* The empty table has every triple absent.
LEMMA RefineInit == Init => Lifecycle!Init
<1> SUFFICES ASSUME Init PROVE Standings(rows) = [l \in Lifecycle!Labels |-> "absent"]
  BY DEF Lifecycle!Init
<1>1. DOMAIN rows = {}
  BY DEF Init
<1> QED
  BY <1>1 DEF Standings, Lifecycle!Labels, Labels

\* Each step of the scheduler is a step of ProxyLifecycle or none: an upsert lists,
\* an applied answer settles, the recorded checks answer and fail, prune retires.
LEMMA RefineStep ==
    ASSUME StepInv, [Next]_vars
    PROVE  Lifecycle!Next \/ Standings(rows') = Standings(rows)
<1> DEFINE Stutter == Standings(rows') = Standings(rows)
           Refined == Lifecycle!Next \/ Stutter
<1>1. /\ TableOK(rows) /\ Distinct(rows) /\ Proven(rows, Labels)
      /\ IInv'
  BY TypeTable, NextInv DEF StepInv, IInv
<1>2. Distinct(rows')
  BY <1>1 DEF IInv, Distinct, LabelOf
<1>3. Lifecycle!Labels = Labels
  BY DEF Lifecycle!Labels, Labels
<1>4. ASSUME UNCHANGED rows PROVE Refined
  BY <1>4
<1>5. ASSUME NEW p \in Protocols, ApplyOk(p) PROVE Refined
  <2> DEFINE h == Head(tx.todo)
  <2>1. CASE p = h.protocol \/ h.id \notin DOMAIN rows
    <3>1. rows' = rows
      <4>1. CASE p = h.protocol
        BY <1>5, <4>1 DEF ApplyOk
      <4>2. CASE p # h.protocol /\ h.id \notin DOMAIN rows
        <5>1. rows' = [i \in DOMAIN rows |->
                         IF i = h.id THEN [rows[i] EXCEPT !.protocol = p] ELSE rows[i]]
          BY <1>5, <4>2 DEF ApplyOk, Resolved, Collides
        <5>2. rows' = [i \in DOMAIN rows |-> rows[i]]
          BY <4>2, <5>1
        <5>3. rows \in [DOMAIN rows -> Row]
          BY <1>1 DEF TableOK
        <5> QED
          BY <5>2, <5>3
      <4> QED
        BY <2>1, <4>1, <4>2
    <3> QED
      BY <1>4, <3>1
  <2>2. CASE p # h.protocol /\ h.id \in DOMAIN rows
    <3>1. rows' = Resolved(rows, h, p) /\ h.protocol = Unknown /\ tx.todo # <<>>
      BY <1>5, <2>2 DEF ApplyOk, CanAnswer
    <3>2. LabelOf(rows[h.id]) = <<h.ep, Unknown>>
      BY <2>2, <3>1 DEF StepInv, LabelOf
    <3> HIDE DEF h
    <3>3. /\ h.ep \in Endpoints
          /\ Standings(rows)[<<h.ep, Unknown>>] = "candidate"
          /\ Standings(rows') =
                [Standings(rows) EXCEPT
                   ![<<h.ep, Unknown>>] = "absent",
                   ![<<h.ep, p>>] = IF @ = "absent" THEN "candidate" ELSE @]
      BY <1>1, <2>2, <3>1, <3>2, SettleStep
    <3>4. Lifecycle!Settle(h.ep, p)
      BY <3>3 DEF Lifecycle!Settle
    <3> QED
      BY <3>3, <3>4 DEF Lifecycle!Next
  <2> QED
    BY <2>1, <2>2
<1>6. CASE WriteOk
  <2> DEFINE u == Head(tx.oks)
  <2>1. /\ rows' = RecordOk(rows, u, now) /\ tx.oks # <<>> /\ tx.oks \in Seq(Update)
    BY <1>6 DEF WriteOk, StepInv, IInv, TypeOK
  <2>2. u.id \in DOMAIN rows => rows[u.id].protocol # Unknown
    BY <2>1, HeadIsFirst DEF StepInv
  <2> HIDE DEF u
  <2>3. CASE u.id \in DOMAIN rows
    <3> DEFINE l == LabelOf(rows[u.id])
    <3>1. l \in Labels /\ l[2] \in Protocols
      BY <1>1, <2>2, <2>3, RowLabel DEF LabelOf, Row
    <3>2. Standings(rows)[l] # "absent" /\ Standings(rows') = [Standings(rows) EXCEPT ![l] = "alive"]
      BY <1>1, <2>1, <2>3, AnswerStep
    <3> HIDE DEF l
    <3>3. Lifecycle!Answer(l)
      BY <3>1, <3>2 DEF Lifecycle!Answer
    <3> QED
      BY <1>3, <3>1, <3>3 DEF Lifecycle!Next
  <2>4. CASE u.id \notin DOMAIN rows
    <3>1. rows' = rows
      <4>1. rows' = [i \in DOMAIN rows |-> rows[i]]
        BY <2>1, <2>4 DEF RecordOk
      <4>2. rows \in [DOMAIN rows -> Row]
        BY <1>1 DEF TableOK
      <4> QED
        BY <4>1, <4>2
    <3> QED
      BY <1>4, <3>1
  <2> QED
    BY <2>3, <2>4
<1>7. CASE WriteFail
  <2> DEFINE u == Head(tx.fails)
  <2>1. rows' = RecordFail(rows, u, now)
    BY <1>7 DEF WriteFail
  <2> HIDE DEF u
  <2>2. CASE u.id \in DOMAIN rows
    <3> DEFINE l == LabelOf(rows[u.id])
    <3>1. l \in Labels
      BY <1>1, <2>2, RowLabel
    <3>2. IF rows[u.id].alive
          THEN /\ Standings(rows)[l] = "alive"
               /\ Standings(rows') = [Standings(rows) EXCEPT ![l] = "down"]
          ELSE Standings(rows') = Standings(rows)
      BY <1>1, <2>1, <2>2, FailStep
    <3> HIDE DEF l
    <3>3. rows[u.id].alive => Lifecycle!Fail(l)
      BY <3>2 DEF Lifecycle!Fail
    <3> QED
      BY <1>3, <3>1, <3>2, <3>3 DEF Lifecycle!Next
  <2>3. CASE u.id \notin DOMAIN rows
    <3>1. rows' = rows
      <4>1. rows' = [i \in DOMAIN rows |-> rows[i]]
        BY <2>1, <2>3 DEF RecordFail
      <4>2. rows \in [DOMAIN rows -> Row]
        BY <1>1 DEF TableOK
      <4> QED
        BY <4>1, <4>2
    <3> QED
      BY <1>4, <3>1
  <2> QED
    BY <2>2, <2>3
<1>8. CASE Scrape
  <2>1. PICK C \in SUBSET Listed, top \in DOMAIN rows \cup {0} :
           IsLastRowid(rows, top) /\ rows' \in UpsertCandidates(rows, C, now, top)
    BY <1>8 DEF Scrape
  <2>2. C \subseteq Labels
    BY <2>1, ListedAssumption
  <2>3. Standings(rows') = [l \in Labels |->
            IF l \in C /\ Standings(rows)[l] = "absent" THEN "candidate" ELSE Standings(rows)[l]]
    BY <1>1, <1>2, <2>1, <2>2, ListStep
  <2>4. Lifecycle!List(C)
    BY <1>3, <2>3 DEF Lifecycle!List
  <2> QED
    BY <1>3, <2>2, <2>4 DEF Lifecycle!Next
<1>9. CASE Prune
  <2> DEFINE C == DoomedLabels(rows, now)
  <2>1. rows' = Pruned(rows, now)
    BY <1>9 DEF Prune
  <2>2. /\ C \subseteq Labels
        /\ \A l \in C : Standings(rows)[l] \in {"candidate", "down"}
        /\ Standings(rows') =
              [l \in Labels |-> IF l \in C THEN "absent" ELSE Standings(rows)[l]]
    BY <1>1, <2>1, RetireStep
  <2> HIDE DEF C
  <2>3. Lifecycle!Retire(C)
    BY <1>3, <2>2 DEF Lifecycle!Retire
  <2> QED
    BY <1>3, <2>2, <2>3 DEF Lifecycle!Next
<1>10. CASE ColdFetch \/ ColdNext \/ HotFetch \/ WarmFetch \/ QuarantineFetch \/ ReportFetch
  BY <1>4, <1>10 DEF ColdFetch, ColdNext, HotFetch, WarmFetch, QuarantineFetch, Fetch,
     ReportFetch
<1>11. ASSUME NEW q \in Loops, Write(q) \/ Rebuild(q) PROVE Refined
  BY <1>4, <1>11 DEF Write, BeginWrite, Commit, Rebuild
<1>12. ASSUME NEW k \in DOMAIN rows, Report(k) PROVE Refined
  BY <1>4, <1>12 DEF Report
<1>13. CASE ApplyFail \/ Restart \/ Tick \/ UNCHANGED vars
  BY <1>4, <1>13 DEF ApplyFail, Restart, Tick, vars
<1> QED
  BY <1>5, <1>6, <1>7, <1>8, <1>9, <1>10, <1>11, <1>12, <1>13 DEF Next

-----------------------------------------------------------------------------
(* Where a success is recorded, and the lifecycle of a triple *)

\* No rowid is given to another row while a loop or a buffer holds a snapshot with it.
\* The table does not promise it: it has no AUTOINCREMENT, so an insert takes the rowid
\* that prune has freed at the top.  The theorems that need it say so.
NoReuse == [][NoReuseStep]_vars

\* The linked invariant holds as long as rowids are not reused under a snapshot.
LEMMA LinkHolds == Spec /\ NoReuse => []LinkInv
<1>1. LinkInv /\ [Next]_vars /\ [NoReuseStep]_vars => LinkInv'
  <2> SUFFICES ASSUME LinkInv, [Next]_vars, [NoReuseStep]_vars PROVE LinkInv'
    OBVIOUS
  <2>1. NoReuseStep
    BY DEF NoReuseStep, vars
  <2> QED
    BY <2>1, LinkNext
<1> QED
  BY <1>1, LinkInit, PTL DEF Spec, NoReuse

\* A success is never lost: with its address in the table when it is applied, it is
\* recorded against a row of that address, through every merge of the batch.
THEOREM SuccessLandsHolds == Spec /\ NoReuse => []SuccessLands
<1>1. LinkInv => SuccessLands
  BY DEF LinkInv
<1> QED
  BY <1>1, LinkHolds, PTL

\* What is alive has answered over its protocol: no merge, no buffer of old snapshots
\* and no overlap of loops credits an answer to another triple.
THEOREM AliveAnsweredHolds == Spec /\ NoReuse => []AliveAnswered
<1>1. LinkInv => AliveAnswered
  BY DEF LinkInv, Proven, AliveAnswered
<1> QED
  BY <1>1, LinkHolds, PTL

\* What has worked within proven_stale_days keeps a row that says so, with lists of
\* every kind.
THEOREM ProvenRetainedLinked == Spec /\ NoReuse => ProvenRetained
<1>1. LinkInv /\ [Next]_vars =>
        [\A i \in DOMAIN rows :
            rows[i].checks_ok > 0 /\ rows[i].last_verified_at >= now - ProvenStale
            => \E j \in DOMAIN rows' :
                  rows'[j].ep = rows[i].ep /\ rows'[j].checks_ok > 0]_vars
  BY LinkedStep, RetainStep
<1> QED
  BY <1>1, LinkHolds, PTL DEF Spec, ProvenRetained

\* The scheduler implements ProxyLifecycle, with lists of every kind.
THEOREM FollowsLifecycleLinked == Spec /\ NoReuse => FollowsLifecycle
<1>1. LinkInv /\ [Next]_vars => [Lifecycle!Next]_(Standings(rows))
  <2> SUFFICES ASSUME LinkInv, [Next]_vars
               PROVE  Lifecycle!Next \/ Standings(rows') = Standings(rows)
    OBVIOUS
  <2> QED
    BY LinkedStep, RefineStep
<1> QED
  BY <1>1, RefineInit, LinkHolds, PTL DEF Spec, FollowsLifecycle, Lifecycle!Spec

-----------------------------------------------------------------------------
(* When no rowid is reused *)

\* Every snapshot is of a row that is still there.
HeldPresent == \A s \in Held : s.id \in DOMAIN rows

\* Prune deletes no row while a snapshot of it is held.
SparedStep == \A s \in Held : Prune /\ s.id \in DOMAIN rows => ~Doomed(rows[s.id], now)

Spared == [][SparedStep]_vars

\* A merge drops the placeholder whose only snapshot it has just used up; nothing
\* but prune takes another row away.
LEMMA PresentNext ==
    LinkInv /\ HeldPresent /\ [Next]_vars /\ SparedStep => HeldPresent'
<1> SUFFICES ASSUME LinkInv, HeldPresent, [Next]_vars, SparedStep, NEW s \in Held'
             PROVE  s.id \in DOMAIN rows'
  BY DEF HeldPresent
<1> DEFINE Stays == s.id \in DOMAIN rows'
<1>1. CASE s \notin Held
  <2>1. PICK i \in DOMAIN rows : s = Snap(rows, i) /\ rows' = rows
    BY <1>1, HeldStep DEF LinkInv
  <2> QED
    BY <2>1 DEF Snap
<1>2. CASE s \in Held
  <2>1. s.id \in DOMAIN rows /\ TableOK(rows)
    BY <1>2, TypeTable DEF HeldPresent, LinkInv, IInv
  <2>2. ASSUME NEW p \in Protocols, ApplyOk(p) PROVE Stays
    <3> DEFINE h == Head(tx.todo)
    <3>1. CASE p = h.protocol
      BY <2>1, <2>2, <3>1 DEF ApplyOk
    <3>2. CASE p # h.protocol
      <4>1. rows' = Resolved(rows, h, p)
        BY <2>2, <3>2 DEF ApplyOk
      <4>2. s.id # h.id
        <5>1. h.id \in DOMAIN rows => s.id # h.id
          BY <2>1, <2>2, <3>2, OthersLeft
        <5> QED
          BY <2>1, <5>1
      <4> HIDE DEF h
      <4>3. CASE Collides(rows, h, p)
        BY <2>1, <4>1, <4>2, <4>3 DEF Resolved, Restrict
      <4>4. CASE ~Collides(rows, h, p)
        BY <2>1, <4>1, <4>4 DEF Resolved
      <4> QED
        BY <4>3, <4>4
    <3> QED
      BY <3>1, <3>2
  <2>3. CASE WriteOk \/ WriteFail
    BY <2>1, <2>3 DEF WriteOk, WriteFail, RecordOk, RecordFail
  <2>4. CASE Scrape
    BY <2>1, <2>4, UpsertKeeps DEF Scrape
  <2>5. CASE Prune
    BY <1>2, <2>1, <2>5 DEF SparedStep, Prune, Pruned, Restrict
  <2>6. ASSUME UNCHANGED rows PROVE Stays
    BY <2>1, <2>6
  <2>7. CASE ColdFetch \/ ColdNext \/ HotFetch \/ WarmFetch \/ QuarantineFetch \/ ReportFetch
    BY <2>6, <2>7 DEF ColdFetch, ColdNext, HotFetch, WarmFetch, QuarantineFetch, Fetch,
       ReportFetch
  <2>8. ASSUME NEW q \in Loops, Write(q) \/ Rebuild(q) PROVE Stays
    BY <2>6, <2>8 DEF Write, BeginWrite, Commit, Rebuild
  <2>9. ASSUME NEW k \in DOMAIN rows, Report(k) PROVE Stays
    BY <2>6, <2>9 DEF Report
  <2>10. CASE ApplyFail \/ Restart \/ Tick \/ UNCHANGED vars
    BY <2>6, <2>10 DEF ApplyFail, Restart, Tick, vars
  <2> QED
    BY <2>2, <2>3, <2>4, <2>5, <2>7, <2>8, <2>9, <2>10 DEF Next
<1> QED
  BY <1>1, <1>2

\* While every snapshot is of a row that is there, no step gives its rowid away.
LEMMA PresentReuse == HeldPresent => NoReuseStep
BY DEF HeldPresent, NoReuseStep

\* Only prune makes rowids come back under a snapshot: where it spares the rows in
\* hand, whatever the merges drop, none does.
THEOREM SparedKeepsRowids == Spec /\ Spared => NoReuse
<1>1. Init => LinkInv /\ HeldPresent
  BY LinkInit, EmptyHeld DEF HeldPresent
<1>2. LinkInv /\ HeldPresent /\ [Next]_vars /\ [SparedStep]_vars => (LinkInv /\ HeldPresent)'
  <2> SUFFICES ASSUME LinkInv, HeldPresent, [Next]_vars, [SparedStep]_vars
               PROVE  LinkInv' /\ HeldPresent'
    BY DEF HeldPresent
  <2>1. SparedStep
    <3>1. CASE UNCHANGED vars
      <4>1. ASSUME NEW s \in Held, Prune, s.id \in DOMAIN rows PROVE ~Doomed(rows[s.id], now)
        BY <3>1, <4>1 DEF vars, Prune, Pruned, Restrict
      <4> QED
        BY <4>1 DEF SparedStep
    <3> QED
      BY <3>1
  <2> QED
    BY <2>1, LinkNext, PresentNext, PresentReuse
<1>3. HeldPresent /\ [Next]_vars => [NoReuseStep]_vars
  BY PresentReuse
<1> QED
  BY <1>1, <1>2, <1>3, PTL DEF Spec, Spared, NoReuse

=============================================================================
