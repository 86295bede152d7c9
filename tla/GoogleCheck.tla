---------------------------- MODULE GoogleCheck ----------------------------
(***************************************************************************)
(* The sweep behind `?google_clean=`: scheduler.py's _l2_once, the order   *)
(* in which fetch_l2_due takes the hot pool, what check_l2 makes of a page *)
(* and what record_l2 keeps of it.  As in YouTube, the liveness sweeps are *)
(* proxies that live and die and pools that are rebuilt at any time.       *)
(*                                                                         *)
(* A timestamp is its age, counted no further than anything tells apart,   *)
(* so time goes on for ever and the instances need no bound on it.  A      *)
(* result is never an exception: check_l2 catches them all, and a stop     *)
(* ends the sweep with its probes.                                         *)
(*                                                                         *)
(* An operator whose comment begins with "Mutant" is a faulty version of   *)
(* a definition after it, which a property must tell from the original.    *)
(***************************************************************************)
EXTENDS Integers, FiniteSets, Sequences

CONSTANTS Proxies,
          Limit,        \* what a sweep takes: eight times queues.l2_concurrency
          MinInterval   \* checker.l2_min_interval_sec, in ticks

ASSUME ProxiesAssumption  == IsFiniteSet(Proxies)
ASSUME LimitAssumption    == Limit \in Nat \ {0}
ASSUME IntervalAssumption == MinInterval \in Nat

VARIABLES row,      \* row[p]: the columns of p that this sweep reads or writes
          pc,       \* where _l2_once stands
          batch,    \* the proxies whose probes it awaits
          pool,     \* Scheduler.pool: a sequence, best score first
          verdict,  \* history: the last recorded page of p was a full one
          asked     \* history: the age of the last request through p since boot

vars == <<row, pc, batch, pool, verdict, asked>>

Never == -1

Ages == {Never} \cup (0 .. MinInterval + 1)

Aged(age) == IF age = Never \/ age > MinInterval THEN age ELSE age + 1

Row == [alive : BOOLEAN, clean : BOOLEAN, age : Ages]

-----------------------------------------------------------------------------
(* One probe *)

\* How large a body is against l2_partial_min_bytes and l2_ok_min_bytes.
Sizes == {"empty", "stub", "partial", "whole"}

\* An answer: whether it ended at /sorry/, and a body with or without one of
\* CAPTCHA_MARKERS.  A request may also come to nothing.  Neither its HTTP status,
\* of which classify_google only asks whether there is one, nor whose page it
\* really is makes a difference to the code, and neither is modelled.
Answers == [sorry : BOOLEAN, marked : BOOLEAN, size : Sizes]

NoAnswer == [sorry |-> FALSE, marked |-> FALSE, size |-> "empty"]

Pages == {[answered |-> TRUE, body |-> a] : a \in Answers}
             \cup {[answered |-> FALSE, body |-> NoAnswer]}

\* "Full results page, > 20 KB", README.md:52, as far as the code could tell one.
FullPage(page) == page.answered /\ page.body = [sorry |-> FALSE, marked |-> FALSE, size |-> "whole"]

\* Mutant: the size looked at before the markers.
ClassifyBySize(page) ==
    CASE ~page.answered            -> "FAIL"
      [] page.body.size = "whole"  -> "SEARCH_OK"
      [] page.body.size = "empty"  -> "FAIL"
      [] OTHER                     -> "PARTIAL"

\* check_l2 with classify_google: the first case that applies.
Classify(page) ==
    LET body == page.body
    IN  IF ~page.answered THEN "FAIL"
        ELSE IF body.sorry THEN "CAPTCHA"
        ELSE IF body.size = "empty" THEN "FAIL"
        ELSE IF body.marked THEN "CAPTCHA"
        ELSE CASE body.size = "whole"   -> "SEARCH_OK"
               [] body.size = "partial" -> "PARTIAL"
               [] OTHER                 -> "FAIL"

\* Mutant: stamped with a local time ahead of the clock that due rows are told by.
RecordedAhead(r, status) == [r EXCEPT !.clean = (status = "SEARCH_OK"), !.age = Never - 1]

\* Mutant: only a success is stamped.
RecordedIfOk(r, status) ==
    [r EXCEPT !.clean = (status = "SEARCH_OK"),
              !.age   = IF status = "SEARCH_OK" THEN 0 ELSE @]

\* record_l2.  It asks nothing of the row: one that died meanwhile is written too.
Recorded(r, status) == [r EXCEPT !.clean = (status = "SEARCH_OK"), !.age = 0]

-----------------------------------------------------------------------------
(* The sweep *)

\* rebuild_pool: the live rows by score.  The score weighs more than this sweep
\* knows of, so any order is possible.
Rankings ==
    LET alive == {p \in Proxies : row[p].alive}
    IN  {s \in [1 .. Cardinality(alive) -> alive] :
            \A i, j \in DOMAIN s : s[i] = s[j] => i = j}

Pooled(s) == [i \in DOMAIN s |-> [id |-> s[i], clean |-> row[s[i]].clean]]

Init ==
    /\ row = [p \in Proxies |-> [alive |-> TRUE, clean |-> FALSE, age |-> Never]]
    /\ pc = "idle"
    /\ batch = {}
    /\ pool \in {Pooled(s) : s \in Rankings}
    /\ verdict = [p \in Proxies |-> FALSE]
    /\ asked = [p \in Proxies |-> Never]

Due == {p \in Proxies : /\ row[p].alive
                        /\ row[p].age = Never \/ row[p].age > MinInterval}

\* Mutant: the rows that were never checked are not taken first.
BeforeByFlag(p, q) == row[p].clean /\ ~row[q].clean

\* The order of fetch_l2_due.  The score, its last term, decides the rest.
Before(p, q) ==
    \/ row[p].clean /\ ~row[q].clean
    \/ row[p].clean = row[q].clean /\ row[p].age = Never /\ row[q].age # Never

FirstOf(S) ==
    {b \in SUBSET S :
        /\ Cardinality(b) = Limit \/ (b = S /\ Cardinality(S) < Limit)
        /\ \A p \in b, q \in S \ b : ~Before(q, p)}

FetchDue ==
    /\ pc = "idle"
    /\ batch' \in FirstOf(Due) \ {{}}
    /\ pc' = "probing"
    /\ asked' = [p \in Proxies |-> IF p \in batch' THEN 0 ELSE asked[p]]
    /\ UNCHANGED <<row, pool, verdict>>

\* The write section of _l2_once.
Record ==
    /\ pc = "probing"
    /\ \E page \in [batch -> Pages] :
          /\ row' = [p \in Proxies |-> IF p \in batch THEN Recorded(row[p], Classify(page[p]))
                                       ELSE row[p]]
          /\ verdict' = [p \in Proxies |-> IF p \in batch THEN FullPage(page[p])
                                           ELSE verdict[p]]
    /\ batch' = {}
    /\ pc' = "rebuild"
    /\ UNCHANGED <<pool, asked>>

Rebuild ==
    /\ pc = "rebuild"
    /\ pool' \in {Pooled(s) : s \in Rankings}
    /\ pc' = "idle"
    /\ UNCHANGED <<row, batch, verdict, asked>>

\* Another queue's rebuild.
RebuildElsewhere ==
    /\ pool' \in {Pooled(s) : s \in Rankings}
    /\ UNCHANGED <<row, pc, batch, verdict, asked>>

\* A liveness check of p.  "google_clean is deliberately left alone on failure".
Liveness(p) ==
    /\ row' = [row EXCEPT ![p].alive = ~@]
    /\ UNCHANGED <<pc, batch, pool, verdict, asked>>

\* The process stops and starts again: a sweep under way is forgotten.
Restart ==
    /\ pc' = "idle"
    /\ batch' = {}
    /\ pool' \in {Pooled(s) : s \in Rankings}
    /\ asked' = [p \in Proxies |-> Never]
    /\ UNCHANGED <<row, verdict>>

Tick ==
    /\ row' = [p \in Proxies |-> [row[p] EXCEPT !.age = Aged(@)]]
    /\ asked' = [p \in Proxies |-> Aged(asked[p])]
    /\ UNCHANGED <<pc, batch, pool, verdict>>

Sweep == FetchDue \/ Record \/ Rebuild

Next ==
    \/ Sweep \/ RebuildElsewhere \/ Restart \/ Tick
    \/ \E p \in Proxies : Liveness(p)

Spec == Init /\ [][Next]_vars

-----------------------------------------------------------------------------
(* Properties *)

TypeOK ==
    /\ row \in [Proxies -> Row]
    /\ pc \in {"idle", "probing", "rebuild"}
    /\ batch \subseteq Proxies
    /\ verdict \in [Proxies -> BOOLEAN]
    /\ asked \in [Proxies -> Ages]

\* What the API calls google_clean is that a full page without a captcha came
\* through the proxy when last asked (README.md:52), whatever liveness, restarts
\* and rebuilds have done since; only a verdict not yet pooled is behind.
CleanIsVerdict ==
    pc # "rebuild" => \A i \in DOMAIN pool : pool[i].clean = verdict[pool[i].id]

\* "Never more often than l2_min_interval_sec per proxy" (_l2_once), within one
\* life of the process, although what is compared is written after the sweep.
SpacedGoogle ==
    [][FetchDue => \A p \in batch' : asked[p] = Never \/ asked[p] > MinInterval]_vars

\* A live row that was never checked gets its turn, unless clean rows fill
\* sweep after sweep, or the process is stopped again and again.
FirstVerdict ==
    \A p \in Proxies :
        \/ <>(row[p].age # Never)
        \/ []<>(~row[p].alive)
        \/ []<>(pc = "probing" /\ \A q \in batch : row[q].clean)
        \/ []<><<Restart>>_vars

=============================================================================
