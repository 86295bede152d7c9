----------------------------- MODULE ProxyStore -----------------------------
(***************************************************************************)
(* The `proxies` table of storage.py, restricted to the columns that the   *)
(* liveness queues read and write, and the SQL statements on it as         *)
(* operators from tables to tables.  A table is a function from rowids to  *)
(* rows; a statement whose WHERE clause matches no row leaves it alone.    *)
(*                                                                         *)
(* Timestamps are clock ticks; Never is SQL's NULL, and 0 sorts before     *)
(* every tick as NULL sorts first in SQLite.                               *)
(*                                                                         *)
(* An operator whose comment begins with "Mutant" is a faulty version of   *)
(* the definition after it, which a property must tell from the original.  *)
(***************************************************************************)
EXTENDS Integers, Sequences, FiniteSets, Functions

CONSTANTS Endpoints,             \* the (host, port) pairs
          Protocols,             \* what a handshake can settle on
          Unknown,               \* the label of a candidate without one
          HistoryWindow,         \* HISTORY_WINDOW
          FailStreakQuarantine,  \* queues.fail_streak_quarantine
          QuarantineInterval,    \* queues.quarantine_interval_sec, in ticks
          ProvenStale,           \* queues.proven_stale_days, in ticks
          StaleUnseen            \* queues.stale_unseen_days, in ticks

ASSUME ProtocolAssumption == Unknown \notin Protocols
ASSUME WindowAssumption   == HistoryWindow \in Nat \ {0}
ASSUME StreakAssumption   == FailStreakQuarantine \in Nat \ {0}
ASSUME AgeAssumption      == /\ QuarantineInterval \in Nat
                             /\ ProvenStale \in Nat
                             /\ StaleUnseen \in Nat

Labels == Endpoints \X (Protocols \cup {Unknown})

Never == 0

Row == [ep : Endpoints, protocol : Protocols \cup {Unknown},
        alive : BOOLEAN, alive_streak : Nat, fail_streak : Nat,
        checks_total : Nat, checks_ok : Nat, history : Seq(BOOLEAN),
        last_check_at : Nat, last_verified_at : Nat, last_seen_at : Nat]

\* What a sweep keeps of a row between reading it and writing it back.
Snapshot == [id : Nat, ep : Endpoints, protocol : Protocols \cup {Unknown},
             history : Seq(BOOLEAN)]

LabelOf(row) == <<row.ep, row.protocol>>

Snap(t, i) == [id |-> i, ep |-> t[i].ep, protocol |-> t[i].protocol,
               history |-> t[i].history]

-----------------------------------------------------------------------------
(* Candidates *)

\* Mutant: the candidate's missing protocol stored as NULL.
NewRowNull(label, at) ==
    [ep |-> label[1], protocol |-> IF label[2] = Unknown THEN Never ELSE label[2],
     alive |-> FALSE, alive_streak |-> 0, fail_streak |-> 0,
     checks_total |-> 0, checks_ok |-> 0, history |-> <<>>,
     last_check_at |-> Never, last_verified_at |-> Never, last_seen_at |-> at]

NewRow(label, at) ==
    [ep |-> label[1], protocol |-> label[2],
     alive |-> FALSE, alive_streak |-> 0, fail_streak |-> 0,
     checks_total |-> 0, checks_ok |-> 0, history |-> <<>>,
     last_check_at |-> Never, last_verified_at |-> Never, last_seen_at |-> at]

\* The largest rowid in use, 0 for an empty table.
IsLastRowid(t, top) ==
    /\ top \in DOMAIN t \cup {0}
    /\ \A i \in DOMAIN t : i <= top

\* The rows the upsert of the labels C creates.
Unlisted(t, C) == {c \in C : \A i \in DOMAIN t : LabelOf(t[i]) # c}

\* The tables an upsert of C can leave, one for each order of the insertions:
\* `id INTEGER PRIMARY KEY` takes the rowid after the largest one in use, which
\* is the rowid of a deleted row when the largest one was deleted.
UpsertCandidates(t, C, at, top) ==
    LET new == Unlisted(t, C)
        ids == (top + 1) .. (top + Cardinality(new))
    IN {[i \in DOMAIN t \cup ids |->
            IF i \notin DOMAIN t THEN NewRow(f[i], at)
            ELSE IF LabelOf(t[i]) \in C THEN [t[i] EXCEPT !.last_seen_at = at]
            ELSE t[i]] : f \in Bijection(ids, new)}

-----------------------------------------------------------------------------
(* The rows a queue selects *)

\* Mutant: one look at each address, the predicate fetch_cold used to have.
InColdOnce(row) == row.last_check_at = Never

InCold(row) == row.checks_ok = 0 /\ ~row.alive

InHot(row) == row.alive /\ row.alive_streak > 0

InWarm(row) ==
    /\ ~row.alive
    /\ row.fail_streak \in 1 .. FailStreakQuarantine
    /\ row.checks_ok > 0

InQuarantine(row) ==
    row.fail_streak >= FailStreakQuarantine /\ row.checks_ok > 0

RestedInQuarantine(row, at) ==
    /\ InQuarantine(row)
    /\ row.last_check_at # Never
    /\ row.last_check_at < at - QuarantineInterval

\* ORDER BY last_check_at LIMIT n over the rows S: rows of one tick come in any
\* order, and no row left out is older than one taken.
OldestFirst(t, S, n) ==
    {b \in UNION {Injection(1 .. k, S) : k \in 0 .. n} :
        /\ Len(b) = n \/ S = Range(b)
        /\ \A j, k \in DOMAIN b :
              j < k => t[b[j]].last_check_at <= t[b[k]].last_check_at
        /\ \A i \in S \ Range(b), j \in DOMAIN b :
              t[b[j]].last_check_at <= t[i].last_check_at}

\* The batches of at most n snapshots a fetch over the rows S can return.
Fetched(t, S, n) ==
    {[j \in DOMAIN b |-> Snap(t, b[j])] : b \in OldestFirst(t, S, n)}

-----------------------------------------------------------------------------
(* Check results *)

\* Mutant: a table without its UNIQUE constraint.
CollidesNever(t, s, p) == FALSE

\* The UPDATE of the protocol raises IntegrityError: another row already has
\* the address of the updated row and the protocol p.
Collides(t, s, p) ==
    /\ s.id \in DOMAIN t
    /\ \E j \in DOMAIN t \ {s.id} : LabelOf(t[j]) = <<t[s.id].ep, p>>

\* Mutant: the merge deletes by address, the surviving row with the placeholder.
ResolvedByAddress(t, s, p) ==
    IF Collides(t, s, p) THEN Restrict(t, {i \in DOMAIN t : t[i].ep # s.ep})
    ELSE [i \in DOMAIN t |->
            IF i = s.id THEN [t[i] EXCEPT !.protocol = p] ELSE t[i]]

\* resolve_protocol: the table it leaves, and the id it returns.
Resolved(t, s, p) ==
    IF Collides(t, s, p) THEN Restrict(t, DOMAIN t \ {s.id})
    ELSE [i \in DOMAIN t |->
            IF i = s.id THEN [t[i] EXCEPT !.protocol = p] ELSE t[i]]

\* Mutant: the caller keeps the id of the dropped placeholder.
SurvivingIdStale(t, s, p) == s.id

\* Mutant: the survivor looked up by its address alone.
SurvivingIdByAddress(t, s, p) ==
    LET survivors == {j \in DOMAIN t \ {s.id} : t[j].ep = s.ep}
    IN IF Collides(t, s, p) /\ survivors # {}
       THEN CHOOSE j \in survivors : TRUE
       ELSE s.id

SurvivingId(t, s, p) ==
    LET survivors == {j \in DOMAIN t : LabelOf(t[j]) = <<s.ep, p>>}
    IN IF Collides(t, s, p) /\ survivors # {}
       THEN CHOOSE j \in survivors : TRUE
       ELSE s.id

PushHistory(history, ok) ==
    LET longer == Append(history, ok)
        n == Len(longer)
    IN IF n > HistoryWindow THEN SubSeq(longer, n - HistoryWindow + 1, n)
       ELSE longer

\* The two UPDATEs of record_l1_many, for one entry u of the batch.
RecordOk(t, u, at) ==
    [i \in DOMAIN t |->
        IF i # u.id THEN t[i]
        ELSE [t[i] EXCEPT !.alive = TRUE, !.alive_streak = @ + 1,
                 !.fail_streak = 0, !.checks_total = @ + 1,
                 !.checks_ok = @ + 1, !.history = u.history,
                 !.last_check_at = at, !.last_verified_at = at]]

RecordFail(t, u, at) ==
    [i \in DOMAIN t |->
        IF i # u.id THEN t[i]
        ELSE [t[i] EXCEPT !.alive = FALSE, !.alive_streak = 0,
                 !.fail_streak = @ + 1, !.checks_total = @ + 1,
                 !.history = u.history, !.last_check_at = at]]

-----------------------------------------------------------------------------
(* Maintenance *)

\* Mutant: a live row is retired like a dead one.
DoomedAlive(row, at) ==
    \/ /\ row.checks_ok > 0
       /\ row.last_verified_at = Never \/ row.last_verified_at < at - ProvenStale
    \/ row.checks_ok = 0 /\ row.last_seen_at < at - StaleUnseen

\* Mutant: retired after a number of failed probes, the rule prune used to have.
DoomedByStreak(row, at) ==
    /\ ~row.alive
    /\ \/ row.checks_ok > 0 /\ row.fail_streak > FailStreakQuarantine
       \/ row.checks_ok = 0 /\ row.last_seen_at < at - StaleUnseen

\* What `prune` deletes: a proven proxy by the time since it last worked, a
\* candidate that has never answered by the time since a source carried it.
Doomed(row, at) ==
    /\ ~row.alive
    /\ \/ /\ row.checks_ok > 0
          /\ row.last_verified_at = Never \/ row.last_verified_at < at - ProvenStale
       \/ row.checks_ok = 0 /\ row.last_seen_at < at - StaleUnseen

Pruned(t, at) == Restrict(t, {i \in DOMAIN t : ~Doomed(t[i], at)})

-----------------------------------------------------------------------------
(* The standing of each triple *)

\* The table, read as the state of each triple.
Standing(row) ==
    IF row.alive THEN "alive" ELSE IF row.checks_ok > 0 THEN "down" ELSE "candidate"

Standings(t) ==
    [l \in Labels |->
        IF \A i \in DOMAIN t : LabelOf(t[i]) # l THEN "absent"
        ELSE Standing(t[CHOOSE i \in DOMAIN t : LabelOf(t[i]) = l])]

=============================================================================
