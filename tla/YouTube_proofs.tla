--------------------------- MODULE YouTube_proofs ---------------------------
(* The properties of YouTube, for every set of proxies and every setting. *)
EXTENDS YouTube, FiniteSetTheorems, TLAPS

PoolType ==
    /\ DOMAIN pool \subseteq Proxies
    /\ pool \in [DOMAIN pool -> [flags : Flags, at : Nat]]

Sound(f) == f.dual <=> f.parser /\ f.aiohttp

AllSound == /\ \A p \in Proxies : Sound(row[p].flags) /\ Sound(verdict[p].flags)
            /\ \A p \in DOMAIN pool : Sound(pool[p].flags)

\* The pool lags behind the table only between the record and the rebuild.
PoolAgrees ==
    pc # "rebuild" =>
        \A p \in DOMAIN pool : pool[p].flags = row[p].flags /\ pool[p].at = row[p].at

\* A probe that began in this run of the process is under way or recorded.
Accounted ==
    /\ \A p \in Proxies :
          /\ began[p] <= now
          /\ began[p] # Never /\ bootAt < began[p]
             => (pc = "probing" /\ p \in batch) \/ row[p].at >= began[p]
    /\ pc # "probing" => batch = {}

IInv == /\ TypeOK
        /\ PoolType
        /\ FlagsAreLastVerdict
        /\ AllSound
        /\ PoolAgrees
        /\ Accounted

\* Whatever a probe loads, its record keeps the row well-formed and sound.
LEMMA RecordedProps ==
    ASSUME NEW r \in Row, NEW pages \in Pages, now \in Nat
    PROVE  /\ Recorded(r, pages) \in Row
           /\ Sound(r.flags) => Sound(Recorded(r, pages).flags)
           /\ Recorded(r, pages).at = now
           /\ Recorded(r, pages).alive = r.alive
           /\ Recorded(r, pages).streak = IF Reached(pages) THEN 0 ELSE r.streak + 1
           /\ Recorded(r, pages).flags =
                 IF Reached(pages) THEN FlagsOf(pages)
                 ELSE IF r.streak + 1 >= Grace THEN NoFlags ELSE r.flags
<1> DEFINE streak == IF Reached(pages) THEN 0 ELSE r.streak + 1
           flags == IF Reached(pages) THEN FlagsOf(pages)
                    ELSE IF r.streak + 1 >= Grace THEN NoFlags ELSE r.flags
<1>1. FlagsOf(pages) \in Flags /\ NoFlags \in Flags
  BY DEF FlagsOf, NoFlags, Flags, Pages
<1>2. Sound(FlagsOf(pages)) /\ Sound(NoFlags)
  BY DEF FlagsOf, NoFlags, Sound
<1>3. streak \in Nat /\ flags \in Flags
  BY <1>1 DEF Row
<1>4. Recorded(r, pages) = [r EXCEPT !.streak = streak, !.flags = flags, !.at = now]
  BY DEF Recorded
<1> HIDE DEF streak, flags
<1>5. /\ Recorded(r, pages) \in Row
      /\ Recorded(r, pages).at = now
      /\ Recorded(r, pages).alive = r.alive
      /\ Recorded(r, pages).streak = streak
      /\ Recorded(r, pages).flags = flags
  BY <1>3, <1>4 DEF Row
<1> QED
  BY <1>2, <1>5 DEF streak, flags

LEMMA ServedProps ==
    ASSUME NEW r \in [Proxies -> Row]
    PROVE  /\ DOMAIN Served(r) \subseteq Proxies
           /\ Served(r) \in [DOMAIN Served(r) -> [flags : Flags, at : Nat]]
           /\ \A p \in DOMAIN Served(r) :
                 Served(r)[p].flags = r[p].flags /\ Served(r)[p].at = r[p].at
BY DEF Served, Row

LEMMA InitInv == Init => IInv
<1> SUFFICES ASSUME Init PROVE IInv
  OBVIOUS
<1>1. row \in [Proxies -> Row]
  BY DEF Init, Row, NoFlags, Flags, Never
<1>2. TypeOK
  BY <1>1 DEF Init, TypeOK, NoFlags, Flags, Never
<1>3. PoolType /\ PoolAgrees
  BY <1>1, ServedProps DEF Init, PoolType, PoolAgrees
<1>4. FlagsAreLastVerdict
  BY DEF Init, FlagsAreLastVerdict
<1>5. AllSound
  <2>1. \A p \in Proxies : row[p].flags = NoFlags /\ verdict[p].flags = NoFlags
    BY DEF Init
  <2>2. \A p \in DOMAIN pool : p \in Proxies /\ pool[p].flags = row[p].flags
    BY <1>1, ServedProps DEF Init
  <2>3. Sound(NoFlags)
    BY DEF Sound, NoFlags
  <2> QED
    BY <2>1, <2>2, <2>3 DEF AllSound
<1>6. Accounted
  BY DEF Init, Accounted, Never
<1> QED
  BY <1>2, <1>3, <1>4, <1>5, <1>6 DEF IInv

LEMMA RecordInv == IInv /\ Record => IInv'
<1> SUFFICES ASSUME IInv, Record PROVE IInv'
  OBVIOUS
<1>1. PICK result \in [batch -> Pages] :
         /\ row' = [p \in Proxies |->
                      IF p \in batch THEN Recorded(row[p], result[p]) ELSE row[p]]
         /\ verdict' = [p \in Proxies |->
                          IF p \in batch /\ Reached(result[p])
                          THEN [at |-> now, flags |-> FlagsOf(result[p])]
                          ELSE verdict[p]]
  BY DEF Record
<1>2. TypeOK /\ AllSound /\ FlagsAreLastVerdict /\ Accounted /\ PoolType
  BY DEF IInv
<1>3. \A p \in Proxies : row[p] \in Row /\ row[p].streak \in Nat
  BY <1>2 DEF TypeOK, Row
<1>4. \A p \in batch : p \in Proxies /\ result[p] \in Pages
  BY <1>2 DEF TypeOK
<1>5. now \in Nat
  BY <1>2 DEF TypeOK
<1>6. row' \in [Proxies -> Row]
  BY <1>1, <1>3, <1>4, <1>5, RecordedProps
<1>7. \A pages \in Pages : FlagsOf(pages) \in Flags /\ Sound(FlagsOf(pages))
  BY DEF FlagsOf, Flags, Pages, Sound
<1>8. TypeOK'
  <2>1. verdict' \in [Proxies -> [at : Nat, flags : Flags]]
    BY <1>1, <1>2, <1>4, <1>5, <1>7 DEF TypeOK
  <2> QED
    BY <1>2, <1>6, <2>1 DEF TypeOK, Record
<1>9. PoolType'
  BY <1>2 DEF PoolType, Record
<1>10. FlagsAreLastVerdict'
  <2> SUFFICES ASSUME NEW p \in Proxies
               PROVE  row'[p].flags = IF row'[p].streak = 0 \/ row'[p].streak < Grace
                                      THEN verdict'[p].flags ELSE NoFlags
    BY DEF FlagsAreLastVerdict
  <2>1. CASE p \notin batch
    BY <1>1, <1>2, <2>1 DEF FlagsAreLastVerdict
  <2>2. CASE p \in batch /\ Reached(result[p])
    BY <1>1, <1>3, <1>4, <1>5, <2>2, RecordedProps
  <2>3. CASE p \in batch /\ ~Reached(result[p])
    <3>1. row'[p] = Recorded(row[p], result[p]) /\ verdict'[p] = verdict[p]
      BY <1>1, <2>3
    <3>2. /\ row'[p].streak = row[p].streak + 1
          /\ row'[p].flags = IF row[p].streak + 1 >= Grace THEN NoFlags ELSE row[p].flags
      BY <1>3, <1>4, <1>5, <2>3, <3>1, RecordedProps
    <3>3. row[p].flags = IF row[p].streak = 0 \/ row[p].streak < Grace
                         THEN verdict[p].flags ELSE NoFlags
      BY <1>2 DEF FlagsAreLastVerdict
    <3> QED
      BY <1>3, <3>1, <3>2, <3>3, GraceAssumption
  <2> QED
    BY <2>1, <2>2, <2>3
<1>11. AllSound'
  <2>1. \A p \in Proxies : Sound(row'[p].flags)
    BY <1>1, <1>2, <1>3, <1>4, <1>5, RecordedProps DEF AllSound
  <2>2. \A p \in Proxies : Sound(verdict'[p].flags)
    BY <1>1, <1>2, <1>4, <1>7 DEF AllSound
  <2> QED
    BY <1>2, <2>1, <2>2 DEF AllSound, Record
<1>12. PoolAgrees'
  BY DEF Record, PoolAgrees
<1>13. Accounted'
  <2> SUFFICES ASSUME NEW p \in Proxies
               PROVE  /\ began[p] <= now
                      /\ began[p] # Never /\ bootAt < began[p] => row'[p].at >= began[p]
    BY DEF Accounted, Record
  <2>1. began[p] <= now /\ began[p] \in Nat
    BY <1>2 DEF Accounted, TypeOK
  <2>2. CASE p \in batch
    <3>1. row'[p].at = now
      BY <1>1, <1>3, <1>4, <1>5, <2>2, RecordedProps
    <3> QED
      BY <1>5, <2>1, <3>1
  <2>3. CASE p \notin batch
    <3>1. row'[p] = row[p]
      BY <1>1, <2>3
    <3> QED
      BY <1>2, <2>1, <2>3, <3>1 DEF Accounted
  <2> QED
    BY <2>2, <2>3
<1> QED
  BY <1>8, <1>9, <1>10, <1>11, <1>12, <1>13 DEF IInv

\* The pool rebuilt from an unchanged table agrees with it.
LEMMA ServedInv ==
    ASSUME IInv, row' = row, pool' = Served(row), UNCHANGED verdict
    PROVE  PoolType' /\ PoolAgrees' /\ AllSound'
<1>1. row \in [Proxies -> Row] /\ AllSound
  BY DEF IInv, TypeOK
<1>2. PoolType' /\ PoolAgrees'
  BY <1>1, ServedProps DEF PoolType, PoolAgrees
<1>3. AllSound'
  BY <1>1, ServedProps DEF AllSound
<1> QED
  BY <1>2, <1>3

LEMMA NextInv == IInv /\ [Next]_vars => IInv'
<1> SUFFICES ASSUME IInv, [Next]_vars PROVE IInv'
  OBVIOUS
<1>1. CASE FetchDue
  <2>1. batch' \subseteq Proxies
    BY <1>1 DEF FetchDue, Oldest, Due
  <2>2. TypeOK'
    BY <1>1, <2>1 DEF IInv, TypeOK, FetchDue
  <2>3. Accounted'
    BY <1>1, <2>1 DEF IInv, TypeOK, FetchDue, Accounted
  <2>4. PoolType' /\ AllSound' /\ PoolAgrees' /\ FlagsAreLastVerdict'
    BY <1>1 DEF IInv, FetchDue, PoolType, AllSound, PoolAgrees, FlagsAreLastVerdict
  <2> QED
    BY <2>2, <2>3, <2>4 DEF IInv
<1>2. CASE Record
  BY <1>2, RecordInv
<1>3. CASE Rebuild
  <2>1. TypeOK' /\ FlagsAreLastVerdict'
    BY <1>3 DEF IInv, TypeOK, Rebuild, FlagsAreLastVerdict
  <2>2. PoolType' /\ PoolAgrees' /\ AllSound'
    BY <1>3, ServedInv DEF Rebuild
  <2>3. Accounted'
    <3>1. \A p \in Proxies : /\ began[p] <= now
                             /\ began[p] # Never /\ bootAt < began[p]
                                => row[p].at >= began[p]
      BY <1>3 DEF IInv, Accounted, Rebuild
    <3>2. batch' = batch /\ pc' = "idle"
      BY <1>3 DEF Rebuild
    <3>3. batch = {}
      BY <1>3 DEF IInv, Accounted, Rebuild
    <3> QED
      BY <1>3, <3>1, <3>2, <3>3 DEF Rebuild, Accounted
  <2> QED
    BY <2>1, <2>2, <2>3 DEF IInv
<1>4. CASE RebuildElsewhere
  <2>1. PoolType' /\ PoolAgrees' /\ AllSound'
    BY <1>4, ServedInv DEF RebuildElsewhere
  <2>2. TypeOK' /\ FlagsAreLastVerdict' /\ Accounted'
    BY <1>4 DEF IInv, TypeOK, RebuildElsewhere, FlagsAreLastVerdict, Accounted
  <2> QED
    BY <2>1, <2>2 DEF IInv
<1>5. ASSUME NEW p \in Proxies, Liveness(p)
      PROVE  IInv'
  <2>1. row \in [Proxies -> Row]
    BY DEF IInv, TypeOK
  <2>2. row' \in [Proxies -> Row]
    BY <1>5, <2>1 DEF Liveness, Row
  <2>3. \A q \in Proxies : /\ row'[q].flags = row[q].flags
                           /\ row'[q].at = row[q].at
                           /\ row'[q].streak = row[q].streak
    BY <1>5, <2>1 DEF Liveness, Row
  <2>4. TypeOK'
    BY <1>5, <2>2 DEF IInv, TypeOK, Liveness
  <2>5. FlagsAreLastVerdict' /\ AllSound' /\ Accounted'
    BY <1>5, <2>3 DEF IInv, Liveness, FlagsAreLastVerdict, AllSound, Accounted
  <2>6. PoolType' /\ PoolAgrees'
    BY <1>5, <2>3 DEF IInv, Liveness, PoolType, PoolAgrees
  <2> QED
    BY <2>4, <2>5, <2>6 DEF IInv
<1>6. CASE Restart
  <2>1. TypeOK' /\ FlagsAreLastVerdict' /\ Accounted'
    BY <1>6 DEF IInv, TypeOK, Restart, FlagsAreLastVerdict, Accounted
  <2>2. PoolType' /\ PoolAgrees' /\ AllSound'
    BY <1>6, ServedInv DEF Restart
  <2> QED
    BY <2>1, <2>2 DEF IInv
<1>7. CASE Tick
  BY <1>7 DEF IInv, TypeOK, Tick, PoolType, FlagsAreLastVerdict, AllSound,
              PoolAgrees, Accounted
<1>8. CASE UNCHANGED vars
  BY <1>8 DEF IInv, TypeOK, vars, PoolType, FlagsAreLastVerdict, AllSound,
              PoolAgrees, Accounted
<1> QED
  BY <1>1, <1>2, <1>3, <1>4, <1>5, <1>6, <1>7, <1>8 DEF Next

LEMMA InvariantHolds == Spec => []IInv
BY InitInv, NextInv, PTL DEF Spec

\* The columns of the table and the state of the sweep keep their types, streak
\* and stamps included, for any grace, interval and batch.
THEOREM YouTubeTypes == Spec => []TypeOK
<1>1. IInv => TypeOK
  BY DEF IInv
<1> QED
  BY <1>1, InvariantHolds, PTL

\* The flags of every proxy are those of its last probe that reached YouTube,
\* until the misses that follow it use up the grace.
THEOREM FlagsHold == Spec => []FlagsAreLastVerdict
<1>1. IInv => FlagsAreLastVerdict
  BY DEF IInv
<1> QED
  BY <1>1, InvariantHolds, PTL

\* `youtube` never differs from both pages, in the table or in the pool.
THEOREM DualHolds == Spec => []DualIsBoth
<1>1. IInv => DualIsBoth
  BY DEF IInv, AllSound, Sound, DualIsBoth
<1> QED
  BY <1>1, InvariantHolds, PTL

\* Whenever no sweep is under way, the API filters by the flags of the table.
THEOREM PoolHolds == Spec => []PoolHasFlags
<1>1. IInv => PoolHasFlags
  BY DEF IInv, PoolAgrees, PoolHasFlags
<1> QED
  BY <1>1, InvariantHolds, PTL

\* Only a restart makes two probes of one proxy come closer than the interval.
THEOREM SpacingHolds == Spec => SpacedProbes
<1>1. ASSUME IInv, [Next]_vars, NEW p \in Proxies, began'[p] # began[p],
             began[p] # Never, ~(bootAt >= began[p])
      PROVE  began'[p] > began[p] + MinInterval
  <2>1. FetchDue
    BY <1>1 DEF Next, vars, Record, Rebuild, RebuildElsewhere, Liveness, Restart, Tick
  <2>2. p \in batch' /\ began'[p] = now /\ p \in Due /\ pc = "idle"
    BY <1>1, <2>1 DEF FetchDue, Oldest
  <2>3. /\ began[p] \in Nat /\ row[p].at \in Nat /\ now \in Nat /\ bootAt \in Nat
    BY <1>1 DEF IInv, TypeOK, Row
  <2>4. row[p].at >= began[p]
    BY <1>1, <2>2, <2>3 DEF IInv, Accounted
  <2>5. row[p].at < now - MinInterval
    BY <1>1, <2>2, <2>3, <2>4 DEF Due, Never
  <2> QED
    BY <2>2, <2>3, <2>4, <2>5, IntervalAssumption
<1>2. IInv /\ [Next]_vars =>
        [\A p \in Proxies :
            began'[p] # began[p] /\ began[p] # Never
            => began'[p] > began[p] + MinInterval \/ bootAt >= began[p]]_vars
  BY <1>1
<1> QED
  BY <1>2, InvariantHolds, PTL DEF Spec, SpacedProbes

=============================================================================
