-------------------------- MODULE ProxyStore_proofs --------------------------
(***************************************************************************)
(* What the statements of ProxyStore preserve and change: the types of the *)
(* table, of a fetched batch and of a history, the place of every row, the *)
(* distinct triples, the evidence a row gives, and how each triple stands. *)
(***************************************************************************)
EXTENDS ProxyStore, FiniteSetTheorems, SequenceTheorems, TLAPS

TableOK(t) ==
    /\ DOMAIN t \subseteq Nat \ {0}
    /\ t \in [DOMAIN t -> Row]

\* A candidate is inserted as a well-formed row.
LEMMA NewRowType ==
    ASSUME NEW label \in Labels, NEW at \in Nat
    PROVE  NewRow(label, at) \in Row
<1>1. <<>> \in Seq(BOOLEAN)
  BY EmptySeq
<1> QED
  BY <1>1 DEF NewRow, Labels, Row, Never

\* Upserting the labels a scrape found leaves a well-formed table.
LEMMA UpsertType ==
    ASSUME NEW t, TableOK(t), NEW C, C \subseteq Labels, IsFiniteSet(C),
           NEW at \in Nat, NEW top \in Nat,
           NEW u \in UpsertCandidates(t, C, at, top)
    PROVE  TableOK(u)
<1> DEFINE new == Unlisted(t, C)
           ids == (top + 1) .. (top + Cardinality(new))
<1>1. new \in SUBSET C
  BY DEF Unlisted
<1>2. Cardinality(new) \in Nat
  BY <1>1, FS_Subset, FS_CardinalityType
<1>3. ids \subseteq Nat \ {0}
  BY <1>2
<1>4. PICK f \in Bijection(ids, new) :
         u = [i \in DOMAIN t \cup ids |->
                IF i \notin DOMAIN t THEN NewRow(f[i], at)
                ELSE IF LabelOf(t[i]) \in C THEN [t[i] EXCEPT !.last_seen_at = at]
                ELSE t[i]]
  BY DEF UpsertCandidates
<1>5. f \in [ids -> new]
  BY <1>4 DEF Bijection, Injection
<1> HIDE DEF new, ids
<1>6. \A i \in DOMAIN t : t[i] \in Row /\ [t[i] EXCEPT !.last_seen_at = at] \in Row
  BY DEF TableOK, Row
<1>7. \A i \in ids : NewRow(f[i], at) \in Row
  BY <1>1, <1>5, NewRowType
<1> QED
  BY <1>3, <1>4, <1>6, <1>7 DEF TableOK

\* A queue's fetch returns a sequence of snapshots.
LEMMA FetchedType ==
    ASSUME NEW t, TableOK(t), NEW S, S \subseteq DOMAIN t, NEW n,
           NEW batch \in Fetched(t, S, n)
    PROVE  batch \in Seq(Snapshot)
<1>1. PICK b \in OldestFirst(t, S, n) : batch = [j \in DOMAIN b |-> Snap(t, b[j])]
  BY DEF Fetched
<1>2. PICK k \in 0 .. n : b \in Injection(1 .. k, S)
  BY <1>1 DEF OldestFirst
<1>3. b \in [1 .. k -> S]
  BY <1>2 DEF Injection
<1>4. k \in Nat
  BY <1>2
<1>5. \A i \in S : Snap(t, i) \in Snapshot
  BY DEF TableOK, Snap, Row, Snapshot
<1>6. batch \in [1 .. k -> Snapshot]
  BY <1>1, <1>3, <1>5
<1> QED
  BY <1>4, <1>6, SeqDef

LEMMA PushHistoryType ==
    ASSUME NEW history \in Seq(BOOLEAN), NEW ok \in BOOLEAN
    PROVE  PushHistory(history, ok) \in Seq(BOOLEAN)
<1> DEFINE longer == Append(history, ok)
<1>1. longer \in Seq(BOOLEAN)
  BY AppendProperties
<1> HIDE DEF longer
<1>2. /\ Len(longer) \in Nat
      /\ \A i \in 1 .. Len(longer) : longer[i] \in BOOLEAN
  BY <1>1, LenProperties, ElementOfSeq
<1>3. ASSUME Len(longer) > HistoryWindow
      PROVE  SubSeq(longer, Len(longer) - HistoryWindow + 1, Len(longer)) \in Seq(BOOLEAN)
  <2>1. \A i \in (Len(longer) - HistoryWindow + 1) .. Len(longer) : longer[i] \in BOOLEAN
    BY <1>2, <1>3, WindowAssumption
  <2> QED
    BY <1>2, <2>1, WindowAssumption, SubSeqProperties
<1> QED
  BY <1>1, <1>3 DEF PushHistory, longer

LEMMA SnapshotType ==
    ASSUME NEW t, TableOK(t), NEW i \in DOMAIN t
    PROVE  Snap(t, i) \in Snapshot
BY DEF TableOK, Snap, Row, Snapshot

\* Settling a protocol leaves a well-formed table and names a rowid.
LEMMA ResolvedType ==
    ASSUME NEW t, TableOK(t), NEW s \in Snapshot, NEW p \in Protocols
    PROVE  TableOK(Resolved(t, s, p)) /\ SurvivingId(t, s, p) \in Nat
<1>1. \A i \in DOMAIN t : t[i] \in Row /\ [t[i] EXCEPT !.protocol = p] \in Row
  BY DEF TableOK, Row
<1>2. TableOK(Resolved(t, s, p))
  BY <1>1 DEF TableOK, Resolved, Restrict
<1>3. SurvivingId(t, s, p) \in Nat
  BY DEF SurvivingId, TableOK, Snapshot
<1> QED
  BY <1>2, <1>3

LEMMA RecordType ==
    ASSUME NEW t, TableOK(t), NEW u, u.history \in Seq(BOOLEAN), NEW at \in Nat
    PROVE  TableOK(RecordOk(t, u, at)) /\ TableOK(RecordFail(t, u, at))
<1>1. ASSUME NEW row \in Row, NEW a \in Nat, NEW b \in Nat, NEW c \in Nat
      PROVE  [row EXCEPT !.alive = TRUE, !.alive_streak = a,
                 !.fail_streak = 0, !.checks_total = b,
                 !.checks_ok = c, !.history = u.history,
                 !.last_check_at = at, !.last_verified_at = at] \in Row
  BY DEF Row
<1>2. ASSUME NEW row \in Row, NEW a \in Nat, NEW b \in Nat
      PROVE  [row EXCEPT !.alive = FALSE, !.alive_streak = 0,
                 !.fail_streak = a, !.checks_total = b,
                 !.history = u.history, !.last_check_at = at] \in Row
  BY DEF Row
<1>3. \A i \in DOMAIN t : /\ t[i] \in Row
                          /\ t[i].alive_streak + 1 \in Nat
                          /\ t[i].fail_streak + 1 \in Nat
                          /\ t[i].checks_total + 1 \in Nat
                          /\ t[i].checks_ok + 1 \in Nat
  BY DEF TableOK, Row
<1>4. TableOK(RecordOk(t, u, at))
  <2>1. \A i \in DOMAIN t :
          [t[i] EXCEPT !.alive = TRUE, !.alive_streak = @ + 1,
                 !.fail_streak = 0, !.checks_total = @ + 1,
                 !.checks_ok = @ + 1, !.history = u.history,
                 !.last_check_at = at, !.last_verified_at = at] \in Row
    BY <1>1, <1>3
  <2> QED
    BY <1>3, <2>1 DEF TableOK, RecordOk
<1>5. TableOK(RecordFail(t, u, at))
  <2>1. \A i \in DOMAIN t :
          [t[i] EXCEPT !.alive = FALSE, !.alive_streak = 0,
                 !.fail_streak = @ + 1, !.checks_total = @ + 1,
                 !.history = u.history, !.last_check_at = at] \in Row
    BY <1>2, <1>3
  <2> QED
    BY <1>3, <2>1 DEF TableOK, RecordFail
<1> QED
  BY <1>4, <1>5

LEMMA PrunedType ==
    ASSUME NEW t, TableOK(t), NEW at
    PROVE  TableOK(Pruned(t, at))
BY DEF TableOK, Pruned, Restrict

-----------------------------------------------------------------------------
(* Every row stands in a queue *)

\* What a row's counters must agree on for one of the queries to select it.
Coherent(row) ==
    /\ row.alive => row.alive_streak > 0
    /\ ~row.alive /\ row.checks_ok > 0 => row.fail_streak > 0

AllStanding(t) == \A i \in DOMAIN t : Coherent(t[i])

\* A row whose counters agree is selected by one of the four queries.
LEMMA StandingIsPlaced ==
    ASSUME NEW row \in Row, Coherent(row)
    PROVE  InCold(row) \/ InHot(row) \/ InWarm(row) \/ InQuarantine(row)
<1>1. CASE row.alive
  BY <1>1 DEF Coherent, InHot
<1>2. CASE ~row.alive /\ row.checks_ok = 0
  BY <1>2 DEF InCold
<1>3. CASE ~row.alive /\ row.checks_ok # 0
  <2>1. row.checks_ok > 0 /\ row.fail_streak > 0 /\ row.fail_streak \in Nat
    BY <1>3 DEF Row, Coherent
  <2> QED
    BY <1>3, <2>1, StreakAssumption DEF InWarm, InQuarantine
<1> QED
  BY <1>1, <1>2, <1>3

LEMMA UpsertStanding ==
    ASSUME NEW t, TableOK(t), AllStanding(t), NEW C, NEW at, NEW top,
           NEW u \in UpsertCandidates(t, C, at, top)
    PROVE  AllStanding(u)
<1> DEFINE ids == (top + 1) .. (top + Cardinality(Unlisted(t, C)))
<1>1. PICK f \in Bijection(ids, Unlisted(t, C)) :
         u = [i \in DOMAIN t \cup ids |->
                IF i \notin DOMAIN t THEN NewRow(f[i], at)
                ELSE IF LabelOf(t[i]) \in C THEN [t[i] EXCEPT !.last_seen_at = at]
                ELSE t[i]]
  BY DEF UpsertCandidates
<1> HIDE DEF ids
<1>2. \A label : Coherent(NewRow(label, at))
  BY DEF Coherent, NewRow
<1>3. \A i \in DOMAIN t : Coherent([t[i] EXCEPT !.last_seen_at = at])
  BY DEF TableOK, Row, AllStanding, Coherent
<1> QED
  BY <1>1, <1>2, <1>3 DEF AllStanding

LEMMA ResolvedStanding ==
    ASSUME NEW t, TableOK(t), AllStanding(t), NEW s, NEW p
    PROVE  AllStanding(Resolved(t, s, p))
<1>1. \A i \in DOMAIN t : Coherent([t[i] EXCEPT !.protocol = p])
  BY DEF TableOK, Row, AllStanding, Coherent
<1> QED
  BY <1>1 DEF AllStanding, Resolved, Restrict

\* One recorded check brings the counters of its row in agreement.
LEMMA RecordStanding ==
    ASSUME NEW t, TableOK(t), AllStanding(t), NEW u, NEW at
    PROVE  AllStanding(RecordOk(t, u, at)) /\ AllStanding(RecordFail(t, u, at))
<1>1. AllStanding(RecordOk(t, u, at))
  <2> SUFFICES ASSUME NEW i \in DOMAIN t
               PROVE  Coherent(RecordOk(t, u, at)[i])
    BY DEF AllStanding, RecordOk
  <2>1. CASE i # u.id
    BY <2>1 DEF RecordOk, AllStanding
  <2>2. CASE i = u.id
    <3>1. t[i] \in Row
      BY DEF TableOK
    <3>2. /\ RecordOk(t, u, at)[i].alive
          /\ RecordOk(t, u, at)[i].alive_streak = t[i].alive_streak + 1
      BY <2>2, <3>1 DEF RecordOk, Row
    <3>3. t[i].alive_streak \in Nat
      BY <3>1 DEF Row
    <3> QED
      BY <3>2, <3>3 DEF Coherent
  <2> QED
    BY <2>1, <2>2
<1>2. AllStanding(RecordFail(t, u, at))
  <2> SUFFICES ASSUME NEW i \in DOMAIN t
               PROVE  Coherent(RecordFail(t, u, at)[i])
    BY DEF AllStanding, RecordFail
  <2>1. CASE i # u.id
    BY <2>1 DEF RecordFail, AllStanding
  <2>2. CASE i = u.id
    <3>1. t[i] \in Row
      BY DEF TableOK
    <3>2. /\ ~RecordFail(t, u, at)[i].alive
          /\ RecordFail(t, u, at)[i].fail_streak = t[i].fail_streak + 1
      BY <2>2, <3>1 DEF RecordFail, Row
    <3>3. t[i].fail_streak \in Nat
      BY <3>1 DEF Row
    <3> QED
      BY <3>2, <3>3 DEF Coherent
  <2> QED
    BY <2>1, <2>2
<1> QED
  BY <1>1, <1>2

-----------------------------------------------------------------------------
(* The triples are distinct *)

Distinct(t) == \A i, j \in DOMAIN t : LabelOf(t[i]) = LabelOf(t[j]) => i = j

\* An upsert removes no row and changes nothing of it but when it was seen.
LEMMA UpsertKeeps ==
    ASSUME NEW t, TableOK(t), NEW C, NEW at, NEW top,
           NEW u \in UpsertCandidates(t, C, at, top), NEW i \in DOMAIN t
    PROVE  /\ i \in DOMAIN u
           /\ u[i].alive = t[i].alive /\ u[i].checks_ok = t[i].checks_ok
           /\ LabelOf(u[i]) = LabelOf(t[i]) /\ u[i].ep = t[i].ep
<1>1. /\ [t[i] EXCEPT !.last_seen_at = at].alive = t[i].alive
      /\ [t[i] EXCEPT !.last_seen_at = at].checks_ok = t[i].checks_ok
      /\ LabelOf([t[i] EXCEPT !.last_seen_at = at]) = LabelOf(t[i])
      /\ [t[i] EXCEPT !.last_seen_at = at].ep = t[i].ep
  BY DEF TableOK, Row, LabelOf
<1> QED
  BY <1>1 DEF UpsertCandidates

LEMMA UpsertDistinct ==
    ASSUME NEW t, TableOK(t), Distinct(t), NEW C, NEW at, NEW top,
           NEW u \in UpsertCandidates(t, C, at, top), C \subseteq Labels
    PROVE  Distinct(u)
<1> DEFINE ids == (top + 1) .. (top + Cardinality(Unlisted(t, C)))
<1>1. PICK f \in Bijection(ids, Unlisted(t, C)) :
         u = [i \in DOMAIN t \cup ids |->
                IF i \notin DOMAIN t THEN NewRow(f[i], at)
                ELSE IF LabelOf(t[i]) \in C THEN [t[i] EXCEPT !.last_seen_at = at]
                ELSE t[i]]
  BY DEF UpsertCandidates
<1>2. f \in [ids -> Unlisted(t, C)] /\ \A i, j \in ids : f[i] = f[j] => i = j
  BY DEF Bijection, Injection, IsInjective
<1> HIDE DEF ids
<1>3. \A i \in DOMAIN t : LabelOf(u[i]) = LabelOf(t[i])
  <2>1. \A i \in DOMAIN t : LabelOf([t[i] EXCEPT !.last_seen_at = at]) = LabelOf(t[i])
    BY DEF TableOK, Row, LabelOf
  <2> QED
    BY <1>1, <2>1
<1>4. \A i \in ids \ DOMAIN t : LabelOf(u[i]) = f[i] /\ f[i] \in Unlisted(t, C)
  <2>1. \A label \in Labels : LabelOf(NewRow(label, at)) = label
    BY DEF Labels, LabelOf, NewRow
  <2> QED
    BY <1>1, <1>2, <2>1 DEF Unlisted
<1>5. DOMAIN u = DOMAIN t \cup ids
  BY <1>1
<1> SUFFICES ASSUME NEW i \in DOMAIN u, NEW j \in DOMAIN u,
                    LabelOf(u[i]) = LabelOf(u[j])
             PROVE  i = j
  BY DEF Distinct
<1>6. CASE i \in DOMAIN t /\ j \in DOMAIN t
  BY <1>3, <1>6 DEF Distinct
<1>7. CASE i \notin DOMAIN t /\ j \notin DOMAIN t
  BY <1>2, <1>4, <1>5, <1>7
<1>8. CASE i \in DOMAIN t /\ j \notin DOMAIN t
  BY <1>3, <1>4, <1>5, <1>8 DEF Unlisted
<1>9. CASE i \notin DOMAIN t /\ j \in DOMAIN t
  BY <1>3, <1>4, <1>5, <1>9 DEF Unlisted
<1> QED
  BY <1>6, <1>7, <1>8, <1>9

\* The merge is what keeps a settled triple from appearing twice.
LEMMA ResolvedDistinct ==
    ASSUME NEW t, TableOK(t), Distinct(t), NEW s, NEW p
    PROVE  Distinct(Resolved(t, s, p))
<1>1. CASE Collides(t, s, p)
  BY <1>1 DEF Distinct, Resolved, Restrict
<1>2. CASE ~Collides(t, s, p)
  <2> DEFINE u == Resolved(t, s, p)
  <2>1. DOMAIN u = DOMAIN t
    BY <1>2 DEF Resolved
  <2>2. \A i \in DOMAIN t : i # s.id => LabelOf(u[i]) = LabelOf(t[i])
    BY <1>2 DEF Resolved
  <2>3. s.id \in DOMAIN t => LabelOf(u[s.id]) = <<t[s.id].ep, p>>
    <3>1. ASSUME s.id \in DOMAIN t
          PROVE  LabelOf([t[s.id] EXCEPT !.protocol = p]) = <<t[s.id].ep, p>>
      BY <3>1 DEF TableOK, Row, LabelOf
    <3> QED
      BY <1>2, <3>1 DEF Resolved
  <2> QED
    BY <1>2, <2>1, <2>2, <2>3 DEF Distinct, Collides
<1> QED
  BY <1>1, <1>2

LEMMA RecordDistinct ==
    ASSUME NEW t, TableOK(t), Distinct(t), NEW u, NEW at
    PROVE  Distinct(RecordOk(t, u, at)) /\ Distinct(RecordFail(t, u, at))
<1>1. \A i \in DOMAIN t : LabelOf(RecordOk(t, u, at)[i]) = LabelOf(t[i])
  BY DEF TableOK, Row, LabelOf, RecordOk
<1>2. \A i \in DOMAIN t : LabelOf(RecordFail(t, u, at)[i]) = LabelOf(t[i])
  BY DEF TableOK, Row, LabelOf, RecordFail
<1>3. DOMAIN RecordOk(t, u, at) = DOMAIN t /\ DOMAIN RecordFail(t, u, at) = DOMAIN t
  BY DEF RecordOk, RecordFail
<1> QED
  BY <1>1, <1>2, <1>3 DEF Distinct

\* Deleting rows disturbs none of the rows that stay.
LEMMA PrunedKeeps ==
    ASSUME NEW t, NEW at, AllStanding(t), Distinct(t)
    PROVE  AllStanding(Pruned(t, at)) /\ Distinct(Pruned(t, at))
BY DEF AllStanding, Distinct, Pruned, Restrict

-----------------------------------------------------------------------------
(* Sequences and batches *)

\* The head of a sequence stands in it.
LEMMA HeadIsFirst ==
    ASSUME NEW S, NEW seq \in Seq(S), seq # <<>>
    PROVE  1 \in DOMAIN seq /\ seq[1] = Head(seq)
<1>1. Len(seq) \in Nat \ {0} /\ DOMAIN seq = 1 .. Len(seq)
  BY EmptySeq, LenProperties
<1> QED
  BY <1>1

\* Taking the head off a sequence adds no element.
LEMMA TailRange ==
    ASSUME NEW S, NEW seq \in Seq(S), seq # <<>>
    PROVE  Range(Tail(seq)) \subseteq Range(seq)
<1>1. /\ Tail(seq) \in Seq(S) /\ Len(Tail(seq)) = Len(seq) - 1
      /\ \A i \in 1 .. Len(Tail(seq)) : Tail(seq)[i] = seq[i + 1]
  BY HeadTailProperties
<1>2. /\ DOMAIN Tail(seq) = 1 .. Len(Tail(seq)) /\ DOMAIN seq = 1 .. Len(seq)
      /\ Len(seq) \in Nat
  BY <1>1, LenProperties
<1> SUFFICES ASSUME NEW i \in 1 .. Len(Tail(seq)) PROVE Tail(seq)[i] \in Range(seq)
  BY <1>2 DEF Range
<1>3. i + 1 \in 1 .. Len(seq)
  BY <1>1, <1>2
<1> QED
  BY <1>1, <1>2, <1>3 DEF Range

\* A sequence of snapshots with each row at most once.
IdsDistinct(snaps) ==
    \A j, k \in DOMAIN snaps : snaps[j].id = snaps[k].id => j = k

\* A fetch returns snapshots of the selected rows, each row at most once.
LEMMA FetchedProps ==
    ASSUME NEW t, TableOK(t), NEW S, S \subseteq DOMAIN t, NEW n,
           NEW batch \in Fetched(t, S, n)
    PROVE  /\ batch \in Seq(Snapshot)
           /\ IdsDistinct(batch)
           /\ \A s \in Range(batch) : \E i \in S : s = Snap(t, i)
<1>1. PICK b \in OldestFirst(t, S, n) : batch = [j \in DOMAIN b |-> Snap(t, b[j])]
  BY DEF Fetched
<1>2. PICK k \in 0 .. n : b \in Injection(1 .. k, S)
  BY <1>1 DEF OldestFirst
<1>3. b \in [1 .. k -> S] /\ \A i, j \in 1 .. k : b[i] = b[j] => i = j
  BY <1>2 DEF Injection, IsInjective
<1>4. DOMAIN batch = 1 .. k /\ \A j \in 1 .. k : batch[j] = Snap(t, b[j]) /\ b[j] \in S
  BY <1>1, <1>3
<1>5. \A i : Snap(t, i).id = i
  BY DEF Snap
<1>6. IdsDistinct(batch)
  BY <1>3, <1>4, <1>5 DEF IdsDistinct
<1>7. \A s \in Range(batch) : \E i \in S : s = Snap(t, i)
  BY <1>4 DEF Range
<1> QED
  BY <1>6, <1>7, FetchedType

-----------------------------------------------------------------------------
(* The evidence a row gives *)

\* A row without a protocol has never answered; a live row has, over its protocol.
Proven(t, labels) ==
    \A i \in DOMAIN t :
        /\ t[i].protocol = Unknown => t[i].checks_ok = 0
        /\ t[i].alive => t[i].checks_ok > 0 /\ LabelOf(t[i]) \in labels
        /\ t[i].checks_ok > 0 => t[i].last_verified_at # Never

\* Settling a placeholder's protocol leaves every row that has answered alone.
LEMMA ResolvedProven ==
    ASSUME NEW t, TableOK(t), NEW A, Proven(t, A), NEW s, NEW p, NEW B, A \subseteq B,
           s.id \in DOMAIN t => t[s.id].protocol = Unknown
    PROVE  Proven(Resolved(t, s, p), B)
<1>1. CASE Collides(t, s, p)
  BY <1>1 DEF Resolved, Restrict, Proven
<1>2. CASE ~Collides(t, s, p)
  <2> DEFINE u == Resolved(t, s, p)
  <2>1. DOMAIN u = DOMAIN t
    BY <1>2 DEF Resolved
  <2>2. \A i \in DOMAIN t : i # s.id => u[i] = t[i]
    BY <1>2 DEF Resolved
  <2>3. s.id \in DOMAIN t => /\ u[s.id].checks_ok = t[s.id].checks_ok
                             /\ u[s.id].alive = t[s.id].alive
    BY <1>2 DEF Resolved, TableOK, Row
  <2>4. s.id \in DOMAIN t => t[s.id].checks_ok = 0 /\ t[s.id].alive = FALSE
    BY DEF Proven, TableOK, Row
  <2> HIDE DEF u
  <2>5. Proven(u, B)
    BY <2>1, <2>2, <2>3, <2>4 DEF Proven
  <2> QED
    BY <2>5 DEF u
<1> QED
  BY <1>1, <1>2

\* A success that is recorded against an answered label keeps the evidence.
LEMMA RecordProven ==
    ASSUME NEW t, TableOK(t), NEW A, Proven(t, A), NEW u, NEW at, at # Never,
           u.id \in DOMAIN t => LabelOf(t[u.id]) \in A /\ t[u.id].protocol # Unknown
    PROVE  Proven(RecordOk(t, u, at), A)
<1> DEFINE v == RecordOk(t, u, at)
<1>1. DOMAIN v = DOMAIN t /\ \A i \in DOMAIN t : i # u.id => v[i] = t[i]
  BY DEF RecordOk
<1>2. u.id \in DOMAIN t => /\ v[u.id].checks_ok = t[u.id].checks_ok + 1
                           /\ LabelOf(v[u.id]) = LabelOf(t[u.id])
                           /\ v[u.id].protocol = t[u.id].protocol
                           /\ v[u.id].last_verified_at = at
                           /\ t[u.id].checks_ok \in Nat
  BY DEF RecordOk, TableOK, Row, LabelOf
<1> HIDE DEF v
<1>3. Proven(v, A)
  BY <1>1, <1>2 DEF Proven
<1> QED
  BY <1>3 DEF v

\* A recorded failure takes no evidence away.
LEMMA FailProven ==
    ASSUME NEW t, TableOK(t), NEW A, Proven(t, A), NEW u, NEW at
    PROVE  Proven(RecordFail(t, u, at), A)
<1> DEFINE v == RecordFail(t, u, at)
<1>1. DOMAIN v = DOMAIN t /\ \A i \in DOMAIN t : i # u.id => v[i] = t[i]
  BY DEF RecordFail
<1>2. u.id \in DOMAIN t => /\ v[u.id].checks_ok = t[u.id].checks_ok
                           /\ v[u.id].alive = FALSE
                           /\ v[u.id].protocol = t[u.id].protocol
                           /\ v[u.id].last_verified_at = t[u.id].last_verified_at
  BY DEF RecordFail, TableOK, Row
<1> HIDE DEF v
<1>3. Proven(v, A)
  BY <1>1, <1>2 DEF Proven
<1> QED
  BY <1>3 DEF v

\* A candidate that enters has no evidence and claims none.
LEMMA UpsertProven ==
    ASSUME NEW t, TableOK(t), NEW A, Proven(t, A), NEW C, NEW at, NEW top,
           NEW u \in UpsertCandidates(t, C, at, top)
    PROVE  Proven(u, A)
<1> DEFINE ids == (top + 1) .. (top + Cardinality(Unlisted(t, C)))
<1>1. PICK f \in Bijection(ids, Unlisted(t, C)) :
         u = [i \in DOMAIN t \cup ids |->
                IF i \notin DOMAIN t THEN NewRow(f[i], at)
                ELSE IF LabelOf(t[i]) \in C THEN [t[i] EXCEPT !.last_seen_at = at]
                ELSE t[i]]
  BY DEF UpsertCandidates
<1> HIDE DEF ids
<1>2. \A l : NewRow(l, at).checks_ok = 0 /\ NewRow(l, at).alive = FALSE
  BY DEF NewRow
<1>3. \A i \in DOMAIN t :
         /\ [t[i] EXCEPT !.last_seen_at = at].protocol = t[i].protocol
         /\ [t[i] EXCEPT !.last_seen_at = at].checks_ok = t[i].checks_ok
         /\ [t[i] EXCEPT !.last_seen_at = at].alive = t[i].alive
         /\ [t[i] EXCEPT !.last_seen_at = at].last_verified_at = t[i].last_verified_at
         /\ LabelOf([t[i] EXCEPT !.last_seen_at = at]) = LabelOf(t[i])
  BY DEF TableOK, Row, LabelOf
<1>4. DOMAIN u = DOMAIN t \cup ids
  BY <1>1
<1> SUFFICES ASSUME NEW i \in DOMAIN u
             PROVE  /\ u[i].protocol = Unknown => u[i].checks_ok = 0
                    /\ u[i].alive => u[i].checks_ok > 0 /\ LabelOf(u[i]) \in A
                    /\ u[i].checks_ok > 0 => u[i].last_verified_at # Never
  BY DEF Proven
<1>5. CASE i \notin DOMAIN t
  BY <1>1, <1>2, <1>4, <1>5
<1>6. CASE i \in DOMAIN t /\ LabelOf(t[i]) \in C
  <2>1. u[i] = [t[i] EXCEPT !.last_seen_at = at]
    BY <1>1, <1>6
  <2> QED
    BY <1>3, <1>6, <2>1 DEF Proven
<1>7. CASE i \in DOMAIN t /\ LabelOf(t[i]) \notin C
  <2>1. u[i] = t[i]
    BY <1>1, <1>7
  <2> QED
    BY <1>7, <2>1 DEF Proven
<1> QED
  BY <1>5, <1>6, <1>7

-----------------------------------------------------------------------------
(* How the triples stand *)

\* A triple stands as its one row does.
LEMMA StandingsAt ==
    ASSUME NEW t, Distinct(t), NEW i \in DOMAIN t, LabelOf(t[i]) \in Labels
    PROVE  Standings(t)[LabelOf(t[i])] = Standing(t[i])
<1> DEFINE l == LabelOf(t[i])
           j == CHOOSE k \in DOMAIN t : LabelOf(t[k]) = l
<1>1. j \in DOMAIN t /\ LabelOf(t[j]) = l
  OBVIOUS
<1>2. j = i
  BY <1>1 DEF Distinct
<1>3. Standings(t)[l] = Standing(t[j])
  BY DEF Standings
<1> QED
  BY <1>2, <1>3

\* A triple without a row is absent.
LEMMA StandingsAbsent ==
    ASSUME NEW t, NEW l \in Labels, \A i \in DOMAIN t : LabelOf(t[i]) # l
    PROVE  Standings(t)[l] = "absent"
BY DEF Standings

\* A label whose row is the same in both tables stands the same.
LEMMA StandingsKept ==
    ASSUME NEW t, Distinct(t), NEW v, Distinct(v), NEW m \in Labels,
           \A i \in DOMAIN t : LabelOf(t[i]) = m => i \in DOMAIN v /\ v[i] = t[i],
           \A i \in DOMAIN v : LabelOf(v[i]) = m => i \in DOMAIN t /\ v[i] = t[i]
    PROVE  Standings(v)[m] = Standings(t)[m]
<1>1. CASE \E i \in DOMAIN t : LabelOf(t[i]) = m
  <2>1. PICK i \in DOMAIN t : LabelOf(t[i]) = m
    BY <1>1
  <2>2. i \in DOMAIN v /\ v[i] = t[i]
    BY <2>1
  <2>3. Standings(t)[m] = Standing(t[i])
    BY <2>1, StandingsAt
  <2>4. Standings(v)[m] = Standing(v[i])
    BY <2>1, <2>2, StandingsAt
  <2> QED
    BY <2>2, <2>3, <2>4
<1>2. CASE \A i \in DOMAIN t : LabelOf(t[i]) # m
  <2>1. \A i \in DOMAIN v : LabelOf(v[i]) # m
    BY <1>2
  <2> QED
    BY <1>2, <2>1, StandingsAbsent
<1> QED
  BY <1>1, <1>2

\* A row is never absent.
LEMMA StandingPresent ==
    ASSUME NEW row
    PROVE  Standing(row) \in {"alive", "down", "candidate"} /\ Standing(row) # "absent"
BY DEF Standing

\* The rows are well formed and their labels are labels.
LEMMA RowLabel ==
    ASSUME NEW t, TableOK(t)
    PROVE  \A i \in DOMAIN t : t[i] \in Row /\ LabelOf(t[i]) \in Labels
BY DEF TableOK, Row, LabelOf, Labels

\* The table after an upsert: the old rows, and a candidate for each label that
\* had none.
LEMMA UpsertNew ==
    ASSUME NEW t, TableOK(t), NEW C, C \subseteq Labels, NEW at, NEW top, IsLastRowid(t, top),
           NEW u \in UpsertCandidates(t, C, at, top)
    PROVE  /\ \A i \in DOMAIN u \ DOMAIN t : \E c \in Unlisted(t, C) : u[i] = NewRow(c, at)
           /\ \A c \in Unlisted(t, C) : \E i \in DOMAIN u \ DOMAIN t : u[i] = NewRow(c, at)
<1> DEFINE ids == (top + 1) .. (top + Cardinality(Unlisted(t, C)))
<1>1. PICK f \in Bijection(ids, Unlisted(t, C)) :
         u = [i \in DOMAIN t \cup ids |->
                IF i \notin DOMAIN t THEN NewRow(f[i], at)
                ELSE IF LabelOf(t[i]) \in C THEN [t[i] EXCEPT !.last_seen_at = at]
                ELSE t[i]]
  BY DEF UpsertCandidates
<1>2. \A i \in ids : i \notin DOMAIN t
  BY DEF IsLastRowid, TableOK
<1> HIDE DEF ids
<1>3. f \in [ids -> Unlisted(t, C)] /\ \A c \in Unlisted(t, C) : \E i \in ids : f[i] = c
  BY <1>1 DEF Bijection, Injection, Surjection
<1>4. DOMAIN u = DOMAIN t \cup ids /\ \A i \in ids : u[i] = NewRow(f[i], at)
  BY <1>1, <1>2
<1> QED
  BY <1>2, <1>3, <1>4

\* Sources carry the labels C.
LEMMA ListStep ==
    ASSUME NEW t, TableOK(t), Distinct(t), NEW C, C \subseteq Labels, NEW at, NEW top,
           IsLastRowid(t, top), NEW u \in UpsertCandidates(t, C, at, top), Distinct(u)
    PROVE  Standings(u) = [l \in Labels |->
              IF l \in C /\ Standings(t)[l] = "absent" THEN "candidate" ELSE Standings(t)[l]]
<1> SUFFICES ASSUME NEW l \in Labels
             PROVE  Standings(u)[l] = IF l \in C /\ Standings(t)[l] = "absent"
                                      THEN "candidate" ELSE Standings(t)[l]
  BY DEF Standings
<1>1. ASSUME NEW i \in DOMAIN t, LabelOf(t[i]) = l
      PROVE  Standings(u)[l] = Standings(t)[l] /\ Standings(t)[l] # "absent"
  <2>1. i \in DOMAIN u /\ LabelOf(u[i]) = l /\ Standing(u[i]) = Standing(t[i])
    BY <1>1, UpsertKeeps DEF Standing
  <2>2. Standings(u)[l] = Standing(u[i])
    BY <2>1, StandingsAt
  <2>3. Standings(t)[l] = Standing(t[i])
    BY <1>1, StandingsAt
  <2> QED
    BY <2>1, <2>2, <2>3, StandingPresent
<1>2. ASSUME \A i \in DOMAIN t : LabelOf(t[i]) # l PROVE Standings(t)[l] = "absent"
  BY <1>2, StandingsAbsent
<1>3. \A c \in Labels : LabelOf(NewRow(c, at)) = c /\ Standing(NewRow(c, at)) = "candidate"
  BY DEF Labels, LabelOf, NewRow, Standing
<1>4. ASSUME l \in Unlisted(t, C) PROVE Standings(u)[l] = "candidate"
  <2>1. PICK i \in DOMAIN u \ DOMAIN t : u[i] = NewRow(l, at)
    BY <1>4, UpsertNew
  <2>2. LabelOf(u[i]) = l /\ Standing(u[i]) = "candidate"
    BY <1>3, <2>1
  <2> QED
    BY <2>2, StandingsAt
<1>5. ASSUME l \notin C, \A i \in DOMAIN t : LabelOf(t[i]) # l
      PROVE  Standings(u)[l] = "absent"
  <2>1. ASSUME NEW i \in DOMAIN u PROVE LabelOf(u[i]) # l
    <3>1. CASE i \in DOMAIN t
      BY <1>5, <3>1, UpsertKeeps
    <3>2. CASE i \notin DOMAIN t
      <4>1. PICK c \in Unlisted(t, C) : u[i] = NewRow(c, at)
        BY <3>2, UpsertNew
      <4> QED
        BY <1>3, <1>5, <4>1 DEF Unlisted
    <3> QED
      BY <3>1, <3>2
  <2> QED
    BY <2>1, StandingsAbsent
<1> QED
  BY <1>1, <1>2, <1>4, <1>5 DEF Unlisted

\* The triples that maintenance forgets.
DoomedLabels(t, at) == {LabelOf(t[i]) : i \in {j \in DOMAIN t : Doomed(t[j], at)}}

\* Maintenance retires the labels of the doomed rows.
LEMMA RetireStep ==
    ASSUME NEW t, TableOK(t), Distinct(t), NEW at
    PROVE  /\ DoomedLabels(t, at) \subseteq Labels
           /\ \A l \in DoomedLabels(t, at) : Standings(t)[l] \in {"candidate", "down"}
           /\ Standings(Pruned(t, at)) =
                 [l \in Labels |->
                     IF l \in DoomedLabels(t, at) THEN "absent" ELSE Standings(t)[l]]
<1> DEFINE u == Pruned(t, at)
           C == DoomedLabels(t, at)
<1>1. /\ DOMAIN u = {i \in DOMAIN t : ~Doomed(t[i], at)}
      /\ \A i \in DOMAIN u : u[i] = t[i]
  BY DEF Pruned, Restrict
<1>2. Distinct(u)
  BY <1>1 DEF Distinct
<1>3. C \subseteq Labels
  BY RowLabel DEF DoomedLabels
<1>4. ASSUME NEW l \in C PROVE Standings(t)[l] \in {"candidate", "down"}
  <2>1. PICK i \in DOMAIN t : Doomed(t[i], at) /\ l = LabelOf(t[i])
    BY DEF DoomedLabels
  <2>2. Standings(t)[l] = Standing(t[i])
    BY <1>3, <2>1, StandingsAt
  <2> QED
    BY <2>1, <2>2 DEF Doomed, Standing
<1> HIDE DEF u
<1>5. ASSUME NEW l \in Labels
      PROVE  Standings(u)[l] = IF l \in C THEN "absent" ELSE Standings(t)[l]
  <2>1. CASE l \in C
    <3>1. PICK i \in DOMAIN t : Doomed(t[i], at) /\ l = LabelOf(t[i])
      BY <2>1 DEF DoomedLabels
    <3>2. \A j \in DOMAIN u : LabelOf(u[j]) # l
      BY <1>1, <3>1 DEF Distinct
    <3> QED
      BY <2>1, <3>2, StandingsAbsent
  <2>2. CASE l \notin C
    <3>1. \A i \in DOMAIN t : LabelOf(t[i]) = l => i \in DOMAIN u
      BY <1>1, <2>2 DEF DoomedLabels
    <3>2. \A i \in DOMAIN u : i \in DOMAIN t
      BY <1>1
    <3> QED
      BY <1>1, <1>2, <2>2, <3>1, <3>2, StandingsKept
  <2> QED
    BY <2>1, <2>2
<1> QED
  BY <1>3, <1>4, <1>5 DEF Standings, u

\* A handshake settles the placeholder s.
LEMMA SettleStep ==
    ASSUME NEW t, TableOK(t), Distinct(t), NEW A, Proven(t, A), NEW s, NEW p \in Protocols,
           s.id \in DOMAIN t, LabelOf(t[s.id]) = <<s.ep, Unknown>>
    PROVE  /\ s.ep \in Endpoints
           /\ Standings(t)[<<s.ep, Unknown>>] = "candidate"
           /\ Standings(Resolved(t, s, p)) =
                [Standings(t) EXCEPT
                   ![<<s.ep, Unknown>>] = "absent",
                   ![<<s.ep, p>>] = IF @ = "absent" THEN "candidate" ELSE @]
<1> DEFINE u == Resolved(t, s, p)
           old == <<s.ep, Unknown>>
           new == <<s.ep, p>>
<1>1. /\ s.ep \in Endpoints /\ t[s.id] \in Row /\ t[s.id].ep = s.ep
      /\ t[s.id].protocol = Unknown
  BY RowLabel DEF LabelOf, Row
<1>2. old \in Labels /\ new \in Labels /\ old # new
  BY <1>1, ProtocolAssumption DEF Labels
<1>3. Standing(t[s.id]) = "candidate"
  <2>1. t[s.id].checks_ok = 0 /\ t[s.id].alive = FALSE
    BY <1>1 DEF Proven, Row
  <2> QED
    BY <2>1 DEF Standing
<1>4. Standings(t)[old] = "candidate"
  BY <1>2, <1>3, StandingsAt
<1>5. Distinct(u) /\ \A i \in DOMAIN t \ {s.id} : i \in DOMAIN u /\ u[i] = t[i]
  BY ResolvedDistinct DEF Resolved, Restrict
<1>6. DOMAIN u \subseteq DOMAIN t
  BY DEF Resolved, Restrict
<1>7. \A i \in DOMAIN t \ {s.id} : LabelOf(t[i]) # old
  BY DEF Distinct
<1>8. s.id \in DOMAIN u => LabelOf(u[s.id]) = new /\ Standing(u[s.id]) = "candidate"
  <2>1. LabelOf([t[s.id] EXCEPT !.protocol = p]) = new
    BY <1>1 DEF LabelOf, Row
  <2>2. Standing([t[s.id] EXCEPT !.protocol = p]) = Standing(t[s.id])
    BY <1>1 DEF Standing, Row
  <2> QED
    BY <1>3, <2>1, <2>2 DEF Resolved, Restrict
<1>9. s.id \in DOMAIN u <=> ~\E j \in DOMAIN t \ {s.id} : LabelOf(t[j]) = new
  BY <1>1 DEF Resolved, Restrict, Collides
<1> HIDE DEF u
<1>10. Standings(u)[old] = "absent"
  <2>1. \A i \in DOMAIN u : LabelOf(u[i]) # old
    BY <1>2, <1>5, <1>6, <1>7, <1>8
  <2> QED
    BY <1>2, <2>1, StandingsAbsent
<1>11. Standings(u)[new] = IF Standings(t)[new] = "absent" THEN "candidate" ELSE Standings(t)[new]
  <2>1. CASE s.id \in DOMAIN u
    <3>1. \A j \in DOMAIN t : LabelOf(t[j]) # new
      BY <1>2, <1>9, <2>1
    <3>2. Standings(t)[new] = "absent"
      BY <1>2, <3>1, StandingsAbsent
    <3> QED
      BY <1>2, <1>5, <1>8, <2>1, <3>2, StandingsAt
  <2>2. CASE s.id \notin DOMAIN u
    <3>1. PICK j \in DOMAIN t \ {s.id} : LabelOf(t[j]) = new
      BY <1>9, <2>2
    <3>2. Standings(t)[new] = Standing(t[j])
      BY <1>2, <3>1, StandingsAt
    <3>3. Standings(u)[new] = Standing(t[j])
      BY <1>2, <1>5, <3>1, StandingsAt
    <3> QED
      BY <3>2, <3>3, StandingPresent
  <2> QED
    BY <2>1, <2>2
<1>12. ASSUME NEW l \in Labels, l # old, l # new PROVE Standings(u)[l] = Standings(t)[l]
  <2>1. \A i \in DOMAIN t : LabelOf(t[i]) = l => i \in DOMAIN u /\ u[i] = t[i]
    BY <1>5, <1>12
  <2>2. \A i \in DOMAIN u : LabelOf(u[i]) = l => i \in DOMAIN t /\ u[i] = t[i]
    BY <1>5, <1>6, <1>8, <1>12
  <2> QED
    BY <1>5, <2>1, <2>2, StandingsKept
<1>13. DOMAIN Standings(t) = Labels /\ DOMAIN Standings(u) = Labels
  BY DEF Standings
<1>14. Standings(u) = [l \in Labels |->
          IF l = old THEN "absent"
          ELSE IF l = new THEN IF Standings(t)[l] = "absent" THEN "candidate" ELSE Standings(t)[l]
          ELSE Standings(t)[l]]
  <2>1. \A l \in Labels : Standings(u)[l] =
          IF l = old THEN "absent"
          ELSE IF l = new THEN IF Standings(t)[l] = "absent" THEN "candidate" ELSE Standings(t)[l]
          ELSE Standings(t)[l]
    BY <1>10, <1>11, <1>12
  <2> QED
    BY <2>1 DEF Standings
<1>15. Standings(u) = [Standings(t) EXCEPT ![old] = "absent",
                         ![new] = IF @ = "absent" THEN "candidate" ELSE @]
  BY <1>2, <1>13, <1>14
<1> QED
  BY <1>1, <1>4, <1>15 DEF u

\* An answer written to a row makes its label alive.
LEMMA AnswerStep ==
    ASSUME NEW t, TableOK(t), Distinct(t), NEW u, NEW at, u.id \in DOMAIN t
    PROVE  /\ Standings(t)[LabelOf(t[u.id])] # "absent"
           /\ Standings(RecordOk(t, u, at)) =
                [Standings(t) EXCEPT ![LabelOf(t[u.id])] = "alive"]
<1> DEFINE v == RecordOk(t, u, at)
           l == LabelOf(t[u.id])
<1>1. l \in Labels /\ \A i \in DOMAIN t : t[i] \in Row
  BY RowLabel
<1>2. /\ DOMAIN v = DOMAIN t /\ \A i \in DOMAIN t : LabelOf(v[i]) = LabelOf(t[i])
      /\ \A i \in DOMAIN t \ {u.id} : v[i] = t[i]
      /\ v[u.id].alive = TRUE
  BY <1>1 DEF RecordOk, Row, LabelOf
<1>3. Distinct(v)
  BY RecordDistinct
<1> HIDE DEF v
<1>4. Standings(t)[l] = Standing(t[u.id])
  BY <1>1, StandingsAt
<1>5. Standings(v)[l] = "alive"
  <2>1. Standings(v)[l] = Standing(v[u.id])
    BY <1>1, <1>2, <1>3, StandingsAt
  <2> QED
    BY <1>2, <2>1 DEF Standing
<1>6. ASSUME NEW m \in Labels, m # l PROVE Standings(v)[m] = Standings(t)[m]
  <2>1. \A i \in DOMAIN t : LabelOf(t[i]) = m => i \in DOMAIN v /\ v[i] = t[i]
    BY <1>2, <1>6
  <2>2. \A i \in DOMAIN v : LabelOf(v[i]) = m => i \in DOMAIN t /\ v[i] = t[i]
    BY <1>2, <1>6
  <2> QED
    BY <1>3, <2>1, <2>2, StandingsKept
<1>7. DOMAIN Standings(t) = Labels /\ DOMAIN Standings(v) = Labels
  BY DEF Standings
<1>8. Standings(v) = [Standings(t) EXCEPT ![l] = "alive"]
  <2>1. \A m \in Labels : Standings(v)[m] = IF m = l THEN "alive" ELSE Standings(t)[m]
    BY <1>5, <1>6
  <2>2. Standings(v) = [m \in Labels |-> IF m = l THEN "alive" ELSE Standings(t)[m]]
    BY <2>1 DEF Standings
  <2> QED
    BY <1>7, <2>2
<1> QED
  BY <1>4, <1>8, StandingPresent DEF v

\* A failure written to a row brings its label down if it was alive, and changes
\* nothing of how it stands if it was not.
LEMMA FailStep ==
    ASSUME NEW t, TableOK(t), Distinct(t), NEW A, Proven(t, A), NEW u, NEW at,
           u.id \in DOMAIN t
    PROVE  IF t[u.id].alive
           THEN /\ Standings(t)[LabelOf(t[u.id])] = "alive"
                /\ Standings(RecordFail(t, u, at)) =
                     [Standings(t) EXCEPT ![LabelOf(t[u.id])] = "down"]
           ELSE Standings(RecordFail(t, u, at)) = Standings(t)
<1> DEFINE v == RecordFail(t, u, at)
           l == LabelOf(t[u.id])
<1>1. l \in Labels /\ \A i \in DOMAIN t : t[i] \in Row
  BY RowLabel
<1>2. /\ DOMAIN v = DOMAIN t /\ \A i \in DOMAIN t : LabelOf(v[i]) = LabelOf(t[i])
      /\ \A i \in DOMAIN t \ {u.id} : v[i] = t[i]
      /\ v[u.id].alive = FALSE /\ v[u.id].checks_ok = t[u.id].checks_ok
  BY <1>1 DEF RecordFail, Row, LabelOf
<1>3. Distinct(v)
  BY RecordDistinct
<1> HIDE DEF v
<1>4. Standings(t)[l] = Standing(t[u.id]) /\ Standings(v)[l] = Standing(v[u.id])
  BY <1>1, <1>2, <1>3, StandingsAt
<1>5. ASSUME NEW m \in Labels, m # l PROVE Standings(v)[m] = Standings(t)[m]
  <2>1. \A i \in DOMAIN t : LabelOf(t[i]) = m => i \in DOMAIN v /\ v[i] = t[i]
    BY <1>2, <1>5
  <2>2. \A i \in DOMAIN v : LabelOf(v[i]) = m => i \in DOMAIN t /\ v[i] = t[i]
    BY <1>2, <1>5
  <2> QED
    BY <1>3, <2>1, <2>2, StandingsKept
<1>6. DOMAIN Standings(t) = Labels /\ DOMAIN Standings(v) = Labels
  BY DEF Standings
<1>7. Standings(v) = [Standings(t) EXCEPT ![l] = Standing(v[u.id])]
  <2>1. \A m \in Labels : Standings(v)[m] = IF m = l THEN Standing(v[u.id]) ELSE Standings(t)[m]
    BY <1>4, <1>5
  <2>2. Standings(v) = [m \in Labels |-> IF m = l THEN Standing(v[u.id]) ELSE Standings(t)[m]]
    BY <2>1 DEF Standings
  <2> QED
    BY <1>6, <2>2
<1>8. CASE t[u.id].alive
  <2>1. t[u.id].checks_ok > 0
    BY <1>8 DEF Proven
  <2>2. Standing(t[u.id]) = "alive" /\ Standing(v[u.id]) = "down"
    BY <1>2, <1>8, <2>1 DEF Standing
  <2> QED
    BY <1>4, <1>7, <1>8, <2>2 DEF v
<1>9. CASE ~t[u.id].alive
  <2>1. Standing(v[u.id]) = Standing(t[u.id])
    BY <1>2, <1>9 DEF Standing
  <2>2. Standings(v) = Standings(t)
    <3>1. \A m \in Labels : Standings(v)[m] = Standings(t)[m]
      BY <1>4, <1>5, <2>1
    <3> QED
      BY <3>1 DEF Standings
  <2> QED
    BY <1>9, <2>2 DEF v
<1> QED
  BY <1>8, <1>9

=============================================================================
