------------------------------ MODULE Reports ------------------------------
(***************************************************************************)
(* Client feedback: POST /v1/report marks the row, queues a recheck and    *)
(* answers; _report_once rechecks what has been queued, in one batch, and  *)
(* rebuilds the pool whose scores carry the penalty.  The other queues     *)
(* check proxies and rebuild the pool at any time.  Rows stay: what prune  *)
(* deletes is the business of Sweeps.                                      *)
(*                                                                         *)
(* Of the score only the penalty's inputs are kept: the reported failures, *)
(* as many as it counts, and the time of the last of them.                 *)
(*                                                                         *)
(* Bound of the instance: MaxNow on the clock.                             *)
(*                                                                         *)
(* An operator whose comment begins with "Mutant" is a faulty version of   *)
(* a definition after it, which a property must tell from the original.    *)
(***************************************************************************)
EXTENDS Integers, FiniteSets

CONSTANTS Proxies,
          FailsCounted,  \* the failures client_failure_penalty tells apart, 3
          RecheckCap,    \* _REPORT_RECHECK_CAP
          MaxNow

ASSUME CapAssumption ==
    /\ FailsCounted \in Nat \ {0} /\ RecheckCap \in Nat
    /\ IsFiniteSet(Proxies)

VARIABLES row,      \* row[p]: the columns of p that feedback reads or writes
          pool,     \* Scheduler.pool, as the report columns of each entry
          recheck,  \* the keys of Scheduler._report_recheck
          pc,       \* where _report_once stands
          flight,   \* the proxies whose rechecks it awaits
          now,
          owed,     \* history: what p's last failing report is waiting for
          heard     \* history: the time of p's last failing report that was queued

vars == <<row, pool, recheck, pc, flight, now, owed, heard>>

Never == 0

Row == [alive : BOOLEAN, fails : 0 .. FailsCounted, failAt : Nat]

\* What rebuild_pool reads.
Served(r) == [p \in {q \in Proxies : r[q].alive} |-> [fails |-> r[p].fails, failAt |-> r[p].failAt]]

Init ==
    /\ row \in [Proxies -> [alive : BOOLEAN, fails : {0}, failAt : {Never}]]
    /\ pool = Served(row)
    /\ recheck = {}
    /\ pc = "idle"
    /\ flight = {}
    /\ now = 1
    /\ owed = [p \in Proxies |-> "nothing"]
    /\ heard = [p \in Proxies |-> Never]

-----------------------------------------------------------------------------
(* The endpoint *)

\* Mutant: no recheck for a proxy that is being rechecked.
QueuedIdle(p) ==
    IF Cardinality(recheck) < RecheckCap /\ p \notin flight THEN recheck \cup {p} ELSE recheck

Queued(p) == IF Cardinality(recheck) < RecheckCap THEN recheck \cup {p} ELSE recheck

Admitted == Cardinality(recheck) < RecheckCap

\* Mutant: every failure goes on costing.
FailedUncapped(r) == [r EXCEPT !.fails = @ + 1, !.failAt = now]

Failed(r) ==
    [r EXCEPT !.fails = IF @ < FailsCounted THEN @ + 1 ELSE @, !.failAt = now]

\* A failing report: the row and the queue change before the answer goes out.
ReportFail(p) ==
    /\ row' = [row EXCEPT ![p] = Failed(@)]
    /\ recheck' = Queued(p)
    /\ owed' = IF Admitted THEN [owed EXCEPT ![p] = "probe"] ELSE owed
    /\ heard' = IF Admitted THEN [heard EXCEPT ![p] = now] ELSE heard
    /\ UNCHANGED <<pool, pc, flight, now>>

\* A success clears the stamp, and so the penalty; the count stays.
ReportOk(p) ==
    /\ row' = [row EXCEPT ![p].failAt = Never]
    /\ heard' = [heard EXCEPT ![p] = Never]
    /\ UNCHANGED <<pool, recheck, pc, flight, now, owed>>

-----------------------------------------------------------------------------
(* _report_once *)

\* The dict is emptied before the first probe begins.
FetchReported ==
    /\ pc = "idle"
    /\ recheck # {}
    /\ flight' = recheck
    /\ recheck' = {}
    /\ pc' = "probing"
    /\ owed' = [p \in Proxies |->
                  IF p \in recheck /\ owed[p] = "probe" THEN "result" ELSE owed[p]]
    /\ UNCHANGED <<row, pool, now, heard>>

\* Mutant: the loop leaves the pool to the other queues.
AfterRecheckIdle == "idle"

AfterRecheck == "rebuild"

RecordRechecks ==
    /\ pc = "probing"
    /\ \E ok \in [flight -> BOOLEAN] :
          row' = [p \in Proxies |->
                    IF p \in flight THEN [row[p] EXCEPT !.alive = ok[p]] ELSE row[p]]
    /\ flight' = {}
    /\ pc' = AfterRecheck
    /\ owed' = [p \in Proxies |-> IF owed[p] = "result" THEN "nothing" ELSE owed[p]]
    /\ UNCHANGED <<pool, recheck, now, heard>>

Rebuild ==
    /\ pc = "rebuild"
    /\ pool' = Served(row)
    /\ pc' = "idle"
    /\ UNCHANGED <<row, recheck, flight, now, owed, heard>>

-----------------------------------------------------------------------------
(* The surroundings *)

\* A check of p by another queue.
Check(p) ==
    /\ row' = [row EXCEPT ![p].alive = ~@]
    /\ UNCHANGED <<pool, recheck, pc, flight, now, owed, heard>>

RebuildElsewhere ==
    /\ pool' = Served(row)
    /\ UNCHANGED <<row, recheck, pc, flight, now, owed, heard>>

\* The process stops and starts again: the queued rechecks are forgotten, the
\* rows keep their marks, and start() rebuilds the pool.
Restart ==
    /\ pool' = Served(row)
    /\ recheck' = {}
    /\ flight' = {}
    /\ pc' = "idle"
    /\ owed' = [p \in Proxies |-> "nothing"]
    /\ UNCHANGED <<row, now, heard>>

Tick ==
    /\ now < MaxNow
    /\ now' = now + 1
    /\ UNCHANGED <<row, pool, recheck, pc, flight, owed, heard>>

Next ==
    \/ \E p \in Proxies : ReportFail(p) \/ ReportOk(p) \/ Check(p)
    \/ FetchReported \/ RecordRechecks \/ Rebuild
    \/ RebuildElsewhere \/ Restart \/ Tick

Spec == Init /\ [][Next]_vars

\* The report loop comes round again, and its probes end.
FairSpec ==
    Spec /\ WF_vars(FetchReported) /\ WF_vars(RecordRechecks) /\ WF_vars(Rebuild)

-----------------------------------------------------------------------------
(* Properties *)

TypeOK ==
    /\ row \in [Proxies -> Row]
    /\ DOMAIN pool \subseteq Proxies
    /\ pool \in [DOMAIN pool -> [fails : 0 .. FailsCounted, failAt : Nat]]
    /\ recheck \subseteq Proxies
    /\ pc \in {"idle", "probing", "rebuild"}
    /\ flight \subseteq Proxies
    /\ now \in Nat \ {0}
    /\ owed \in [Proxies -> {"nothing", "probe", "result"}]
    /\ heard \in [Proxies -> Nat]

\* A failing report that was queued is followed by a recheck that begins after
\* it: "deferred, not dropped", also when it comes in while the same proxy is
\* being rechecked.  Only a restart forgets it.
Deferred == \A p \in Proxies : owed[p] = "probe" ~> owed[p] # "probe"

\* Once its recheck is over, the pool carries the penalty of the report or the
\* proxy no longer: no client is handed a proxy at the score it had before
\* another client burned it.
PenaltySettles ==
    \A p \in DOMAIN pool :
        pc = "idle" /\ owed[p] = "nothing"
        => pool[p].failAt >= heard[p] /\ (heard[p] # Never => pool[p].fails > 0)

=============================================================================
