--------------------------- MODULE Reports_proofs ---------------------------
(***************************************************************************)
(* What client feedback promises, for any proxies and any cap.  The state  *)
(* type and the relation of each row to the reports it has taken are       *)
(* inductive together with PenaltySettles itself.                          *)
(***************************************************************************)
EXTENDS Reports, TLAPS

\* A row is never behind the last report that was queued for it, nor that
\* report ahead of the clock.
RowHeard ==
    \A p \in Proxies :
        /\ heard[p] <= now
        /\ row[p].failAt >= heard[p]
        /\ heard[p] # Never => row[p].fails > 0

LEMMA FailedType ==
    ASSUME NEW r \in Row, now \in Nat
    PROVE  /\ Failed(r) \in Row
           /\ Failed(r).failAt = now
           /\ Failed(r).fails > 0
           /\ Failed(r).alive = r.alive
  <1>1. r.fails \in 0 .. FailsCounted /\ r.alive \in BOOLEAN
    BY DEF Row
  <1>2. (IF r.fails < FailsCounted THEN r.fails + 1 ELSE r.fails) \in 1 .. FailsCounted
    BY <1>1, CapAssumption
  <1> DEFINE n == IF r.fails < FailsCounted THEN r.fails + 1 ELSE r.fails
  <1>3. n \in 0 .. FailsCounted /\ n > 0
    BY <1>2, CapAssumption
  <1>4. Failed(r) = [r EXCEPT !.fails = n, !.failAt = now]
    BY DEF Failed
  <1> HIDE DEF n
  <1>5. Failed(r).failAt = now /\ Failed(r).fails = n /\ Failed(r).alive = r.alive
    BY <1>4 DEF Row
  <1>6. Failed(r) \in Row
    BY <1>1, <1>3, <1>4 DEF Row
  <1> QED
    BY <1>3, <1>5, <1>6

LEMMA ServedType ==
    ASSUME NEW r \in [Proxies -> Row]
    PROVE  /\ DOMAIN Served(r) \subseteq Proxies
           /\ Served(r) \in [DOMAIN Served(r) -> [fails : 0 .. FailsCounted, failAt : Nat]]
           /\ \A p \in DOMAIN Served(r) :
                 Served(r)[p].fails = r[p].fails /\ Served(r)[p].failAt = r[p].failAt
  BY DEF Served, Row

LEMMA InitTypes == Init => TypeOK /\ RowHeard /\ PenaltySettles
  <1> SUFFICES ASSUME Init PROVE TypeOK /\ RowHeard /\ PenaltySettles
    OBVIOUS
  <1>1. row \in [Proxies -> Row]
    BY CapAssumption DEF Init, Row, Never
  <1>2. TypeOK
    BY <1>1, ServedType DEF Init, TypeOK, Never
  <1>3. RowHeard
    BY <1>1 DEF Init, RowHeard, Row, Never
  <1>4. PenaltySettles
    BY <1>1, <1>3, ServedType DEF Init, PenaltySettles, RowHeard
  <1> QED
    BY <1>2, <1>3, <1>4

LEMMA TypeStep == TypeOK /\ [Next]_vars => TypeOK'
  <1> SUFFICES ASSUME TypeOK, [Next]_vars PROVE TypeOK'
    OBVIOUS
  <1> USE DEF TypeOK
  <1>1. ASSUME NEW p \in Proxies, ReportFail(p) PROVE TypeOK'
    <2>1. Failed(row[p]) \in Row
      BY FailedType
    <2>2. row' \in [Proxies -> Row]
      BY <1>1, <2>1 DEF ReportFail
    <2> QED
      BY <1>1, <2>2 DEF ReportFail, Queued, Admitted
  <1>2. ASSUME NEW p \in Proxies, ReportOk(p) PROVE TypeOK'
    <2>1. row' \in [Proxies -> Row]
      BY <1>2 DEF ReportOk, Row, Never
    <2> QED
      BY <1>2, <2>1 DEF ReportOk, Never
  <1>3. ASSUME NEW p \in Proxies, Check(p) PROVE TypeOK'
    <2>1. row' \in [Proxies -> Row]
      BY <1>3 DEF Check, Row
    <2> QED
      BY <1>3, <2>1 DEF Check
  <1>4. CASE FetchReported
    BY <1>4 DEF FetchReported
  <1>5. CASE RecordRechecks
    <2>1. PICK ok \in [flight -> BOOLEAN] :
             row' = [p \in Proxies |->
                       IF p \in flight THEN [row[p] EXCEPT !.alive = ok[p]] ELSE row[p]]
      BY <1>5 DEF RecordRechecks
    <2>2. \A r \in Row, b \in BOOLEAN : [r EXCEPT !.alive = b] \in Row
      BY DEF Row
    <2>3. row' \in [Proxies -> Row]
      BY <2>1, <2>2
    <2> QED
      BY <1>5, <2>3 DEF RecordRechecks, AfterRecheck
  <1>6. CASE Rebuild
    BY <1>6, ServedType DEF Rebuild
  <1>7. CASE RebuildElsewhere
    BY <1>7, ServedType DEF RebuildElsewhere
  <1>8. CASE Restart
    BY <1>8, ServedType DEF Restart
  <1>9. CASE Tick
    BY <1>9 DEF Tick
  <1>10. CASE UNCHANGED vars
    BY <1>10 DEF vars
  <1> QED
    BY <1>1, <1>2, <1>3, <1>4, <1>5, <1>6, <1>7, <1>8, <1>9, <1>10 DEF Next

LEMMA HeardStep == TypeOK /\ RowHeard /\ [Next]_vars => RowHeard'
  <1> SUFFICES ASSUME TypeOK, RowHeard, [Next]_vars PROVE RowHeard'
    OBVIOUS
  <1> USE DEF TypeOK, RowHeard
  <1>1. ASSUME NEW p \in Proxies, ReportFail(p) PROVE RowHeard'
    <2>1. Failed(row[p]).failAt = now /\ Failed(row[p]).fails > 0
      BY FailedType
    <2>2. heard'[p] \in {now, heard[p]} /\ \A q \in Proxies \ {p} : heard'[q] = heard[q]
      BY <1>1 DEF ReportFail
    <2>3. row'[p] = Failed(row[p]) /\ \A q \in Proxies \ {p} : row'[q] = row[q]
      BY <1>1 DEF ReportFail
    <2>4. now' = now
      BY <1>1 DEF ReportFail
    <2> QED
      BY <2>1, <2>2, <2>3, <2>4
  <1>2. ASSUME NEW p \in Proxies, ReportOk(p) PROVE RowHeard'
    <2>1. heard'[p] = Never /\ row'[p].failAt = Never
      BY <1>2 DEF ReportOk, Row
    <2>2. \A q \in Proxies \ {p} : row'[q] = row[q] /\ heard'[q] = heard[q]
      BY <1>2 DEF ReportOk
    <2> QED
      BY <1>2, <2>1, <2>2 DEF ReportOk, Never
  <1>3. ASSUME NEW p \in Proxies, Check(p) PROVE RowHeard'
    BY <1>3 DEF Check, Row
  <1>4. CASE RecordRechecks
    BY <1>4 DEF RecordRechecks, Row
  <1>5. CASE Tick
    BY <1>5 DEF Tick
  <1>6. CASE FetchReported \/ Rebuild \/ RebuildElsewhere \/ Restart \/ UNCHANGED vars
    BY <1>6 DEF FetchReported, Rebuild, RebuildElsewhere, Restart, vars
  <1> QED
    BY <1>1, <1>2, <1>3, <1>4, <1>5, <1>6 DEF Next

LEMMA SettlesStep == TypeOK /\ RowHeard /\ PenaltySettles /\ [Next]_vars => PenaltySettles'
  <1> SUFFICES ASSUME TypeOK, RowHeard, PenaltySettles, [Next]_vars PROVE PenaltySettles'
    OBVIOUS
  <1> USE DEF TypeOK, PenaltySettles
  \* A pool read from the rows is never behind them.
  <1>1. ASSUME pool' = Served(row), row' = row, heard' = heard PROVE PenaltySettles'
    BY <1>1, ServedType DEF RowHeard
  <1>2. ASSUME NEW p \in Proxies, ReportFail(p) PROVE PenaltySettles'
    <2>1. CASE Admitted
      \* The report makes p wait for its recheck.
      BY <1>2, <2>1 DEF ReportFail
    <2>2. CASE ~Admitted
      BY <1>2, <2>2 DEF ReportFail
    <2> QED
      BY <2>1, <2>2
  <1>3. ASSUME NEW p \in Proxies, ReportOk(p) PROVE PenaltySettles'
    <2>1. \A q \in DOMAIN pool : pool[q].failAt \in Nat
      OBVIOUS
    <2> QED
      BY <1>3, <2>1 DEF ReportOk, Never
  <1>4. CASE FetchReported \/ RecordRechecks
    \* The loop is under way.
    BY <1>4 DEF FetchReported, RecordRechecks, AfterRecheck
  <1>5. CASE Rebuild \/ RebuildElsewhere \/ Restart
    BY <1>1, <1>5 DEF Rebuild, RebuildElsewhere, Restart
  <1>6. ASSUME NEW p \in Proxies, Check(p) PROVE PenaltySettles'
    BY <1>6 DEF Check
  <1>7. CASE Tick \/ UNCHANGED vars
    BY <1>7 DEF Tick, vars
  <1> QED
    BY <1>2, <1>3, <1>4, <1>5, <1>6, <1>7 DEF Next

\* The state of client feedback stays well typed, whatever reports, rechecks,
\* checks by other queues and restarts come.
THEOREM ReportTypes == Spec => []TypeOK
  BY InitTypes, TypeStep, PTL DEF Spec

\* POST /v1/report and _report_once: once the recheck a report was queued for is
\* over, the pool has the penalty of that report or the proxy no longer, for any
\* number of proxies, any cap and any interleaving with the other queues.
THEOREM PenaltySettlesHolds == Spec => []PenaltySettles
  BY InitTypes, TypeStep, HeardStep, SettlesStep, PTL DEF Spec

=============================================================================
