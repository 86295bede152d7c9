------------------------------- MODULE Sweeps -------------------------------
(***************************************************************************)
(* The liveness half of scheduler.py: the five loops that run L1 checks    *)
(* (cold, hot, warm, quarantine, report), the scrape and the maintenance   *)
(* that create and delete the rows they work on, client reports, and the   *)
(* in-memory pool rebuilt from the table.                                  *)
(*                                                                         *)
(* A loop reads a batch of rows under `_db_lock`, releases the lock for    *)
(* the seconds its probes take, and takes it again to write the results;   *)
(* the other loops run meanwhile.  The write section of `_run_l1` awaits   *)
(* one statement after another, so it is one step per statement, with `tx` *)
(* holding the lock; the sections with a single statement are one step.    *)
(*                                                                         *)
(* Bounds of the instance: MaxNow on the clock and MaxChecks on the        *)
(* checks of one address, beyond which no loop takes it up again.          *)
(***************************************************************************)
EXTENDS ProxyStore

CONSTANTS Running,       \* the loops scheduled in the instance
          Listed,        \* the labels that sources can carry
          ColdBatch, ColdWindow, HotBatch, WarmBatch, QuarantineBatch,
          ReportCap,     \* _REPORT_RECHECK_CAP
          MaxNow, MaxChecks

Loops == {"cold", "hot", "warm", "quarantine", "report"}

ASSUME RunningAssumption == Running \subseteq Loops
ASSUME ListedAssumption  == Listed \subseteq Labels /\ IsFiniteSet(Listed)
ASSUME BatchAssumption   ==
    /\ ColdBatch \in Nat \ {0} /\ ColdWindow \in Nat /\ HotBatch \in Nat
    /\ WarmBatch \in Nat /\ QuarantineBatch \in Nat /\ ReportCap \in Nat

VARIABLES rows,        \* the proxies table
          now,         \* the wall clock
          pc,          \* where each loop stands
          flight,      \* flight[q]: the snapshots whose probes loop q awaits
          tx,          \* the write section of _run_l1 that holds _db_lock
          coldBuffer,  \* Scheduler._cold_buffer
          recheck,     \* Scheduler._report_recheck, in insertion order
          pool,        \* Scheduler.pool
          answered,    \* history: the addresses that have answered a probe
          spoiled      \* history: the rows of the pool that cold has failed, or
                       \* settled, since it was built

vars == <<rows, now, pc, flight, tx, coldBuffer, recheck, pool, answered, spoiled>>

\* A result waiting for its UPDATE.  `landed` is a history field: the row of
\* the probed address `ep` was there when the result was applied.
Update == [id : Nat, ep : Endpoints, history : Seq(BOOLEAN), landed : BOOLEAN]

NoTx == [by |-> "none", todo |-> <<>>, oks |-> <<>>, fails |-> <<>>]

LockFree == tx = NoTx

Alive(t) == {[id |-> i, ep |-> t[i].ep, protocol |-> t[i].protocol] :
                i \in {j \in DOMAIN t : t[j].alive}}

Init ==
    /\ rows = <<>>
    /\ now = 1
    /\ pc = [q \in Loops |-> "idle"]
    /\ flight = [q \in Loops |-> <<>>]
    /\ tx = NoTx
    /\ coldBuffer = <<>>
    /\ recheck = <<>>
    /\ pool = {}
    /\ answered = {}
    /\ spoiled = {}

-----------------------------------------------------------------------------
(* Reading a batch *)

WithinBound(batch) ==
    \A k \in DOMAIN batch, i \in DOMAIN rows :
        rows[i].ep = batch[k].ep => rows[i].checks_total < MaxChecks

Probe(q, batch) ==
    /\ q \in Running
    /\ pc[q] = "idle"
    /\ batch # <<>>
    /\ WithinBound(batch)
    /\ flight' = [flight EXCEPT ![q] = batch]
    /\ pc' = [pc EXCEPT ![q] = "probing"]

\* The rest of the window once a batch is taken off its front.
ColdRest(window) == SubSeq(window, ColdBatch + 1, Len(window))

ColdHead(window) ==
    IF Len(window) <= ColdBatch THEN window ELSE SubSeq(window, 1, ColdBatch)

\* _cold_once, its buffer empty: fetch a window, keep what exceeds a batch.
ColdFetch ==
    /\ coldBuffer = <<>>
    /\ LockFree
    /\ \E window \in Fetched(rows, {i \in DOMAIN rows : InCold(rows[i])}, ColdWindow) :
          /\ Probe("cold", ColdHead(window))
          /\ coldBuffer' = ColdRest(window)
    /\ UNCHANGED <<rows, now, tx, recheck, pool, answered, spoiled>>

\* _cold_once on a buffer read one or more batches ago; no row is read again.
ColdNext ==
    /\ coldBuffer # <<>>
    /\ Probe("cold", ColdHead(coldBuffer))
    /\ coldBuffer' = ColdRest(coldBuffer)
    /\ UNCHANGED <<rows, now, tx, recheck, pool, answered, spoiled>>

Fetch(q, selected, limit) ==
    /\ LockFree
    /\ \E batch \in Fetched(rows, selected, limit) : Probe(q, batch)
    /\ UNCHANGED <<rows, now, tx, coldBuffer, recheck, pool, answered, spoiled>>

HotFetch == Fetch("hot", {i \in DOMAIN rows : InHot(rows[i])}, HotBatch)

WarmFetch == Fetch("warm", {i \in DOMAIN rows : InWarm(rows[i])}, WarmBatch)

QuarantineFetch ==
    Fetch("quarantine",
          {i \in DOMAIN rows : RestedInQuarantine(rows[i], now)}, QuarantineBatch)

\* _report_once: everything reported so far, without reading the table.
ReportFetch ==
    /\ Probe("report", recheck)
    /\ recheck' = <<>>
    /\ UNCHANGED <<rows, now, tx, coldBuffer, pool, answered, spoiled>>

-----------------------------------------------------------------------------
(* Writing the results of a batch *)

\* _run_l1 takes the lock once every probe of the batch is over.
BeginWrite(q) ==
    /\ pc[q] = "probing"
    /\ LockFree
    /\ tx' = [NoTx EXCEPT !.by = q, !.todo = flight[q]]
    /\ pc' = [pc EXCEPT ![q] = "writing"]
    /\ flight' = [flight EXCEPT ![q] = <<>>]
    /\ UNCHANGED <<rows, now, coldBuffer, recheck, pool, answered, spoiled>>

\* check_l1 tries the known protocol, or each of them when it is unknown.
CanAnswer(s, p) == p \in Protocols /\ s.protocol \in {p, Unknown}

\* What the row i is to the pool once this section has changed it: the cold
\* loop will not rebuild.
Spoiled(i) ==
    IF tx.by = "cold" THEN spoiled \cup ({i} \cap {e.id : e \in pool}) ELSE spoiled

\* _apply_l1 for a probe that answered over p.  A protocol other than the
\* snapshot's is written to the table, which may drop the row.
ApplyOk(p) ==
    LET s == Head(tx.todo)
        settles == p # s.protocol
    IN /\ tx.todo # <<>>
       /\ CanAnswer(s, p)
       /\ rows' = IF settles THEN Resolved(rows, s, p) ELSE rows
       /\ tx' = [tx EXCEPT
                   !.todo = Tail(@),
                   !.oks = Append(@,
                      [id |-> IF settles THEN SurvivingId(rows, s, p) ELSE s.id,
                       ep |-> s.ep, history |-> PushHistory(s.history, TRUE),
                       landed |-> s.id \in DOMAIN rows /\ rows[s.id].ep = s.ep])]
       /\ answered' = answered \cup {<<s.ep, p>>}
       /\ spoiled' = IF settles THEN Spoiled(s.id) ELSE spoiled
       /\ UNCHANGED <<now, pc, flight, coldBuffer, recheck, pool>>

\* _apply_l1 for a probe that failed or raised.
ApplyFail ==
    LET s == Head(tx.todo)
    IN /\ tx.todo # <<>>
       /\ tx' = [tx EXCEPT
                   !.todo = Tail(@),
                   !.fails = Append(@,
                      [id |-> s.id,
                       ep |-> s.ep, history |-> PushHistory(s.history, FALSE),
                       landed |-> s.id \in DOMAIN rows /\ rows[s.id].ep = s.ep])]
       /\ UNCHANGED <<rows, now, pc, flight, coldBuffer, recheck, pool, answered, spoiled>>

\* record_l1_many: every success of the batch first, whatever their places in
\* it, then every failure.
WriteOk ==
    /\ tx.todo = <<>> /\ tx.oks # <<>>
    /\ rows' = RecordOk(rows, Head(tx.oks), now)
    /\ tx' = [tx EXCEPT !.oks = Tail(@)]
    /\ UNCHANGED <<now, pc, flight, coldBuffer, recheck, pool, answered, spoiled>>

WriteFail ==
    /\ tx.todo = <<>> /\ tx.oks = <<>> /\ tx.fails # <<>>
    /\ rows' = RecordFail(rows, Head(tx.fails), now)
    /\ tx' = [tx EXCEPT !.fails = Tail(@)]
    /\ spoiled' = Spoiled(Head(tx.fails).id)
    /\ UNCHANGED <<now, pc, flight, coldBuffer, recheck, pool, answered>>

\* Mutant: the hot loop leaves the pool to the other loops.
AfterWriteNoHot(q) == IF q \in {"cold", "hot"} THEN "idle" ELSE "rebuild"

\* What a loop does after its commit: every loop but cold rebuilds the pool.
AfterWrite(q) == IF q = "cold" THEN "idle" ELSE "rebuild"

Commit(q) ==
    /\ tx = [NoTx EXCEPT !.by = q]
    /\ tx' = NoTx
    /\ pc' = [pc EXCEPT ![q] = AfterWrite(q)]
    /\ UNCHANGED <<rows, now, flight, coldBuffer, recheck, pool, answered, spoiled>>

\* rebuild_pool: nothing is awaited between the read and the assignment.
Rebuild(q) ==
    /\ pc[q] = "rebuild"
    /\ LockFree
    /\ pool' = Alive(rows)
    /\ spoiled' = {}
    /\ pc' = [pc EXCEPT ![q] = "idle"]
    /\ UNCHANGED <<rows, now, flight, tx, coldBuffer, recheck, answered>>

-----------------------------------------------------------------------------
(* The other writers *)

\* Scraper.store, for the labels the fetched sources carry.
Scrape ==
    /\ LockFree
    /\ \E C \in SUBSET Listed, top \in DOMAIN rows \cup {0} :
          /\ IsLastRowid(rows, top)
          /\ rows' \in UpsertCandidates(rows, C, now, top)
    /\ UNCHANGED <<now, pc, flight, tx, coldBuffer, recheck, pool, answered, spoiled>>

\* _maintenance_once.
Prune ==
    /\ LockFree
    /\ rows' = Pruned(rows, now)
    /\ UNCHANGED <<now, pc, flight, tx, coldBuffer, recheck, pool, answered, spoiled>>

\* A dict assignment: a key already present keeps its place.
PutRecheck(s) ==
    IF \E k \in DOMAIN recheck : recheck[k].id = s.id
    THEN [k \in DOMAIN recheck |-> IF recheck[k].id = s.id THEN s ELSE recheck[k]]
    ELSE Append(recheck, s)

\* POST /v1/report of a failure; only a settled protocol can be named.
Report(i) ==
    /\ LockFree
    /\ rows[i].protocol # Unknown
    /\ Len(recheck) < ReportCap
    /\ recheck' = PutRecheck(Snap(rows, i))
    /\ UNCHANGED <<rows, now, pc, flight, tx, coldBuffer, pool, answered, spoiled>>

\* The process stops, for however long, and starts again: the memory is gone,
\* and start() rebuilds the pool before any loop runs.  An open write section
\* is rolled back, as if the stop had come before it.
Restart ==
    /\ LockFree
    /\ pc' = [q \in Loops |-> "idle"]
    /\ flight' = [q \in Loops |-> <<>>]
    /\ coldBuffer' = <<>>
    /\ recheck' = <<>>
    /\ pool' = Alive(rows)
    /\ spoiled' = {}
    /\ UNCHANGED <<rows, now, tx, answered>>

\* A write section takes less than a tick: its statements share one utcnow().
Tick ==
    /\ LockFree
    /\ now < MaxNow
    /\ now' = now + 1
    /\ UNCHANGED <<rows, pc, flight, tx, coldBuffer, recheck, pool, answered, spoiled>>

-----------------------------------------------------------------------------
Write(q) == BeginWrite(q) \/ Commit(q)

Next ==
    \/ ColdFetch \/ ColdNext \/ HotFetch \/ WarmFetch \/ QuarantineFetch
    \/ ReportFetch
    \/ \E q \in Loops : Write(q) \/ Rebuild(q)
    \/ (\E p \in Protocols : ApplyOk(p)) \/ ApplyFail \/ WriteOk \/ WriteFail
    \/ Scrape \/ Prune \/ (\E i \in DOMAIN rows : Report(i))
    \/ Restart \/ Tick

Spec == Init /\ [][Next]_vars

-----------------------------------------------------------------------------
(* Properties *)

TypeOK ==
    /\ DOMAIN rows \subseteq Nat \ {0}
    /\ rows \in [DOMAIN rows -> Row]
    /\ now \in Nat \ {0}
    /\ pc \in [Loops -> {"idle", "probing", "writing", "rebuild"}]
    /\ flight \in [Loops -> Seq(Snapshot)]
    /\ tx \in [by : Loops \cup {"none"}, todo : Seq(Snapshot),
               oks : Seq(Update), fails : Seq(Update)]
    /\ coldBuffer \in Seq(Snapshot)
    /\ recheck \in Seq(Snapshot)
    /\ pool \subseteq [id : Nat, ep : Endpoints, protocol : Protocols \cup {Unknown}]
    /\ answered \subseteq Labels
    /\ spoiled \subseteq Nat

\* No address falls out of every queue: whatever probes, merges and prunings a
\* row went through, some loop still selects it.  fetch_cold's docstring tells
\* of the predicate that left 782 127 rows in no queue at all.
NoOrphan ==
    \A i \in DOMAIN rows :
        InCold(rows[i]) \/ InHot(rows[i]) \/ InWarm(rows[i]) \/ InQuarantine(rows[i])

\* The (host, port, protocol) triples stay distinct through the upserts, the
\* protocols that handshakes settle, and the reuse of rowids.
UniqueTriple == IsInjective([i \in DOMAIN rows |-> LabelOf(rows[i])])

\* A successful check of a listed address is recorded against a row of that
\* address, the surviving one when resolve_protocol has dropped the probed
\* placeholder: "or the successful check is lost entirely".
SuccessLands ==
    \A k \in DOMAIN tx.oks :
        tx.oks[k].landed => /\ tx.oks[k].id \in DOMAIN rows
                            /\ rows[tx.oks[k].id].ep = tx.oks[k].ep

\* An address leaves the table only as prune lets it: dead, and unanswered or
\* unlisted for the whole of its retention period.  A merge of two rows of one
\* address never loses the address.
OnlyPruneForgets ==
    [][\A i \in DOMAIN rows :
          \/ Doomed(rows[i], now)
          \/ \E j \in DOMAIN rows' : rows'[j].ep = rows[i].ep]_vars

\* An address that has worked within proven_stale_days keeps a row that says so:
\* prune's docstring refuses to retire a proxy for failed probes, and no merge
\* or lost write takes the record away.
ProvenRetained ==
    [][\A i \in DOMAIN rows :
          rows[i].checks_ok > 0 /\ rows[i].last_verified_at >= now - ProvenStale
          => \E j \in DOMAIN rows' :
                rows'[j].ep = rows[i].ep /\ rows'[j].checks_ok > 0]_vars

\* What the API serves is alive in the table and under its label, unless a loop
\* that has changed the table still has the pool to rebuild.  One exception is
\* the code's: the cold loop does not rebuild, so a row that came alive while
\* cold held it (by a report's recheck, or as the survivor of a merge) and that
\* cold then fails is served, dead, until another loop rebuilds.  No other loop,
\* and neither prune nor a scrape nor a restart, leaves such an entry.
PoolSettled ==
    \/ \E q \in Loops \ {"cold"} : pc[q] \in {"writing", "rebuild"}
    \/ \A e \in pool : \/ e.id \in spoiled
                      \/ /\ e.id \in DOMAIN rows
                         /\ rows[e.id].alive
                         /\ LabelOf(rows[e.id]) = <<e.ep, e.protocol>>

\* A row is alive only if its address has answered over its protocol.
AliveAnswered ==
    \A i \in DOMAIN rows : rows[i].alive => LabelOf(rows[i]) \in answered

\* Proxy.history is the "sliding window of the last checks, oldest first": as
\* long as the checks that were counted, up to HISTORY_WINDOW of them.
HistoryIsWindow ==
    \A i \in DOMAIN rows :
        \/ Len(rows[i].history) = HistoryWindow
        \/ Len(rows[i].history) = rows[i].checks_total

\* The table as the promise sees it.
Lifecycle == INSTANCE ProxyLifecycle WITH state <- Standings(rows)

\* Through the overlapping sweeps, the merges and the restarts, the table steps
\* only as ProxyLifecycle allows: no live triple vanishes and none that has
\* answered becomes a candidate again.
FollowsLifecycle == Lifecycle!Spec

=============================================================================
