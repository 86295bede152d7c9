------------------------------- MODULE YouTube -------------------------------
(***************************************************************************)
(* The sweep behind `?target=`: scheduler.py's _yt_once, the flags that    *)
(* record_yt_many keeps for each proxy, and what the API's filter makes of *)
(* them.  The liveness sweeps appear as what they do to this one: proxies  *)
(* live and die, and the pool is rebuilt, at any time between two writes.  *)
(*                                                                         *)
(* Bound of the instance: MaxNow on the clock.                             *)
(*                                                                         *)
(* An operator whose comment begins with "Mutant" is a faulty version of   *)
(* a definition after it, which a property must tell from the original.    *)
(***************************************************************************)
EXTENDS Integers, FiniteSets

CONSTANTS Proxies,
          Grace,         \* queues.yt_fail_grace
          Batch,         \* queues.yt_batch
          MinInterval,   \* checker.yt_min_interval_sec, in ticks
          MaxTargetAge,  \* the request's max_target_age_sec, in ticks
          MaxNow

ASSUME GraceAssumption    == Grace \in Nat
ASSUME BatchAssumption    == Batch \in Nat \ {0}
ASSUME IntervalAssumption == MinInterval \in Nat /\ MaxTargetAge \in Nat

VARIABLES row,      \* row[p]: the columns of p that this sweep reads or writes
          now,
          pc,       \* where _yt_once stands
          batch,    \* the proxies whose probes it awaits
          pool,     \* Scheduler.pool, as the flags it serves for each entry
          verdict,  \* history: the last probe of p that reached YouTube
          began,    \* history: when the last probe of p began
          bootAt    \* history: when the process last started

vars == <<row, now, pc, batch, pool, verdict, began, bootAt>>

Never == 0

Flags == [parser : BOOLEAN, aiohttp : BOOLEAN, dual : BOOLEAN]

NoFlags == [parser |-> FALSE, aiohttp |-> FALSE, dual |-> FALSE]

\* Two page loads: the search page and the watch page.
Pages == [search : BOOLEAN, watch : BOOLEAN]

Reached(pages) == pages.search \/ pages.watch

\* Mutant: either page is enough for `youtube`.
FlagsOfEither(pages) == [parser |-> pages.search, aiohttp |-> pages.watch,
                         dual |-> pages.search \/ pages.watch]

FlagsOf(pages) == [parser |-> pages.search, aiohttp |-> pages.watch,
                   dual |-> pages.search /\ pages.watch]

Row == [alive : BOOLEAN, flags : Flags, streak : Nat, at : Nat]

\* What rebuild_pool reads.
Served(r) == [p \in {q \in Proxies : r[q].alive} |-> [flags |-> r[p].flags, at |-> r[p].at]]

Init ==
    /\ row = [p \in Proxies |-> [alive |-> TRUE, flags |-> NoFlags, streak |-> 0, at |-> Never]]
    /\ now = 1
    /\ pc = "idle"
    /\ batch = {}
    /\ pool = Served(row)
    /\ verdict = [p \in Proxies |-> [at |-> Never, flags |-> NoFlags]]
    /\ began = [p \in Proxies |-> Never]
    /\ bootAt = 1

-----------------------------------------------------------------------------
\* Mutant: a proxy that has its flags is due in every sweep.
DueClean == {p \in Proxies : /\ row[p].alive
                             /\ \/ row[p].flags.dual
                                \/ row[p].at = Never
                                \/ row[p].at < now - MinInterval}

Due == {p \in Proxies : /\ row[p].alive
                        /\ row[p].at = Never \/ row[p].at < now - MinInterval}

\* fetch_yt_due: ORDER BY last_yt_at LIMIT, with NULL first.
Oldest(S) ==
    {b \in SUBSET S :
        /\ Cardinality(b) = Batch \/ (b = S /\ Cardinality(S) < Batch)
        /\ \A p \in b, q \in S \ b : row[p].at <= row[q].at}

FetchDue ==
    /\ pc = "idle"
    /\ batch' \in Oldest(Due) \ {{}}
    /\ pc' = "probing"
    /\ began' = [p \in Proxies |-> IF p \in batch' THEN now ELSE began[p]]
    /\ UNCHANGED <<row, now, pool, verdict, bootAt>>

\* Mutant: the grace compared with the streak before this probe.
RecordedLate(r, pages) ==
    [r EXCEPT
        !.streak = IF Reached(pages) THEN 0 ELSE @ + 1,
        !.flags  = IF Reached(pages) THEN FlagsOf(pages)
                   ELSE IF r.streak >= Grace THEN NoFlags ELSE @,
        !.at     = now]

\* Mutant: the misses counted down.
RecordedDown(r, pages) ==
    [r EXCEPT
        !.streak = IF Reached(pages) THEN 0 ELSE @ - 1,
        !.flags  = IF Reached(pages) THEN FlagsOf(pages)
                   ELSE IF r.streak + 1 >= Grace THEN NoFlags ELSE @,
        !.at     = now]

\* record_yt_many, for one entry.  Both columns are read before the update, so
\* the streak compared with the grace counts this probe.
Recorded(r, pages) ==
    [r EXCEPT
        !.streak = IF Reached(pages) THEN 0 ELSE @ + 1,
        !.flags  = IF Reached(pages) THEN FlagsOf(pages)
                   ELSE IF r.streak + 1 >= Grace THEN NoFlags ELSE @,
        !.at     = now]

\* The write section of _yt_once, a single UPDATE of the whole batch.  A probe
\* that raised counts as one that loaded nothing.
Record ==
    /\ pc = "probing"
    /\ \E result \in [batch -> Pages] :
          /\ row' = [p \in Proxies |->
                        IF p \in batch THEN Recorded(row[p], result[p]) ELSE row[p]]
          /\ verdict' = [p \in Proxies |->
                            IF p \in batch /\ Reached(result[p])
                            THEN [at |-> now, flags |-> FlagsOf(result[p])]
                            ELSE verdict[p]]
    /\ batch' = {}
    /\ pc' = "rebuild"
    /\ UNCHANGED <<now, pool, began, bootAt>>

\* Mutant: the sweep leaves the pool to the other queues.
RebuildNever ==
    /\ pc = "rebuild"
    /\ pc' = "idle"
    /\ UNCHANGED <<row, now, batch, pool, verdict, began, bootAt>>

\* rebuild_pool at the end of the sweep.
Rebuild ==
    /\ pc = "rebuild"
    /\ pool' = Served(row)
    /\ pc' = "idle"
    /\ UNCHANGED <<row, now, batch, verdict, began, bootAt>>

\* Another queue's rebuild.
RebuildElsewhere ==
    /\ pool' = Served(row)
    /\ UNCHANGED <<row, now, pc, batch, verdict, began, bootAt>>

\* A liveness check of p, whose record leaves the flags alone.
Liveness(p) ==
    /\ row' = [row EXCEPT ![p].alive = ~@]
    /\ UNCHANGED <<now, pc, batch, pool, verdict, began, bootAt>>

\* The process stops and starts again: a sweep under way is forgotten.
Restart ==
    /\ pc' = "idle"
    /\ batch' = {}
    /\ pool' = Served(row)
    /\ bootAt' = now
    /\ UNCHANGED <<row, now, verdict, began>>

Tick ==
    /\ now < MaxNow
    /\ now' = now + 1
    /\ UNCHANGED <<row, pc, batch, pool, verdict, began, bootAt>>

Next ==
    \/ FetchDue \/ Record \/ Rebuild \/ RebuildElsewhere \/ Restart \/ Tick
    \/ \E p \in Proxies : Liveness(p)

Spec == Init /\ [][Next]_vars

-----------------------------------------------------------------------------
(* The API's filter *)

\* `matches`, for the flag that a target reads: parser and search, aiohttp, or
\* youtube.  Its other filters leave proxies out and put none in.
Matches(entry, target) ==
    /\ entry.flags[target]
    /\ entry.at # Never
    /\ now - entry.at <= MaxTargetAge

Targets == {"parser", "aiohttp", "dual"}

-----------------------------------------------------------------------------
(* Properties *)

TypeOK ==
    /\ row \in [Proxies -> Row]
    /\ now \in Nat
    /\ pc \in {"idle", "probing", "rebuild"}
    /\ batch \subseteq Proxies
    /\ verdict \in [Proxies -> [at : Nat, flags : Flags]]
    /\ began \in [Proxies -> Nat]
    /\ bootAt \in Nat

\* The flags of a proxy are those of the last probe of it that reached YouTube,
\* and they are all cleared once Grace probes in a row reached nothing: "one
\* miss is noise, two in a row is a verdict" (record_yt_many).
FlagsAreLastVerdict ==
    \A p \in Proxies :
        row[p].flags = IF row[p].streak = 0 \/ row[p].streak < Grace
                       THEN verdict[p].flags ELSE NoFlags

\* `youtube` means both pages, whatever misses and grace have done to the
\* three columns, in the table as in the pool.
DualIsBoth ==
    \A f \in {row[p].flags : p \in Proxies} \cup {pool[p].flags : p \in DOMAIN pool} :
        f.dual <=> f.parser /\ f.aiohttp

\* Between two sweeps the API's answer to `?target=` is the table's, for every
\* proxy it still serves: _yt_once ends in the rebuild that "without" left the
\* flags in the database.
PoolHasFlags ==
    pc = "idle" =>
        \A p \in DOMAIN pool : /\ pool[p].flags = row[p].flags
                               /\ pool[p].at = row[p].at

\* A proxy is probed again within the interval only when a restart has come
\* between the two probes.
SpacedProbes ==
    [][\A p \in Proxies :
          began'[p] # began[p] /\ began[p] # Never
          => began'[p] > began[p] + MinInterval \/ bootAt >= began[p]]_vars

\* api.py:100: the filter is a "freshness bound for the ?target= verdict itself":
\* whatever it lets through loaded its page that recently.
TargetVerdictFresh ==
    \A p \in DOMAIN pool, target \in Targets :
        Matches(pool[p], target) =>
            verdict[p].at # Never /\ now - verdict[p].at <= MaxTargetAge

=============================================================================
