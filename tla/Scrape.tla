------------------------------- MODULE Scrape -------------------------------
(***************************************************************************)
(* scraper.py: the sources polled with If-None-Match, page after page, and *)
(* the results stored one source after another, each with two commits: the *)
(* candidates, then the source's own row with its ETag.                    *)
(*                                                                         *)
(* A source is a list of editions it publishes one after the other; only   *)
(* candidates are followed here, the rows with checks_ok = 0.              *)
(*                                                                         *)
(* Bounds of the instance: MaxNow on the clock, MaxCrashes on the crashes, *)
(* and the editions of each source.                                        *)
(*                                                                         *)
(* An operator whose comment begins with "Mutant" is a faulty version of   *)
(* a definition after it, which a property must tell from the original.    *)
(***************************************************************************)
EXTENDS Integers, Sequences, FiniteSets

CONSTANTS Order,        \* the enabled sources, by (priority, name)
          Items,        \* the (host, port, protocol) triples
          Editions,     \* Editions[s]: what s publishes, one edition after another
          NoTag,        \* a response without an ETag, a source without one stored
          MaxPages,     \* MaxPages[s]: the source's `pages`
          StaleUnseen,  \* queues.stale_unseen_days, in ticks
          MaxNow, MaxCrashes

Sources == {Order[k] : k \in DOMAIN Order}

Tags == {NoTag} \cup UNION {{e.tag : e \in {Editions[s][n] : n \in DOMAIN Editions[s]}} :
                              s \in Sources}

ASSUME OrderAssumption ==
    /\ Order \in Seq(Sources) /\ Order # <<>>
    /\ \A j, k \in DOMAIN Order : Order[j] = Order[k] => j = k

ASSUME EditionAssumption ==
    \A s \in Sources :
        /\ Editions[s] \in Seq([tag : Tags, pages : Seq(SUBSET Items),
                               malformed : SUBSET Nat])
        /\ Editions[s] # <<>>
        /\ MaxPages[s] \in Nat \ {0}

\* The page p of an edition; past the last one, an empty list.
Page(e, p) == IF p \in DOMAIN e.pages THEN e.pages[p] ELSE {}

\* What HTTP promises of an ETag: it vouches for the page it came with.  Of the
\* pages after it, it says nothing.
ASSUME TagAssumption ==
    \A s \in Sources : \A m, n \in DOMAIN Editions[s] :
        Editions[s][m].tag = Editions[s][n].tag /\ Editions[s][m].tag # NoTag
        => Page(Editions[s][m], 1) = Page(Editions[s][n], 1)

VARIABLES edition,    \* edition[s]: which of its editions the source s serves
          seen,       \* seen[i]: last_seen_in_source_at, 0 when i is not in the table
          etag,       \* etag[s]: the ETag in the row of s in `sources`
          phase,      \* where _scrape_once stands
          fetch,      \* fetch[s]: the ScrapeResult of s and the page it is at
          at,         \* store: the place in Order of the source being stored
          upserted,   \* store: its candidates are in, its own row is not
          now, crashes,
          stored,     \* history: the items that have ever been upserted
          confirmed   \* history: when a poll last showed that a source carries i

vars == <<edition, seen, etag, phase, fetch, at, upserted, now, crashes, stored, confirmed>>

Current(s) == Editions[s][edition[s]]

\* The pages that a fetch of the current edition reads: up to the first one without
\* a candidate, which the code takes for the end of the list.
Reached(s) ==
    {p \in 1 .. MaxPages[s] : \A q \in 1 .. p - 1 : Page(Current(s), q) # {}}

\* No earlier edition came under the tag of the current one.
NewTag(s) == \A n \in 1 .. edition[s] - 1 : Editions[s][n].tag # Current(s).tag

\* The pages of which a 304 for the first may be taken to say that they are known:
\* the first itself, and the others while the tag stands for one edition only.
Covered(s) == {p \in Reached(s) : p = 1 \/ NewTag(s)}

NoResult == [page |-> 1, items |-> {}, tag |-> NoTag, outcome |-> "reading"]

Init ==
    /\ edition = [s \in Sources |-> 1]
    /\ seen = [i \in Items |-> 0]
    /\ etag = [s \in Sources |-> NoTag]
    /\ phase = "idle"
    /\ fetch = [s \in Sources |-> NoResult]
    /\ at = 1
    /\ upserted = FALSE
    /\ now = 1
    /\ crashes = 0
    /\ stored = {}
    /\ confirmed = [i \in Items |-> 0]

-----------------------------------------------------------------------------
(* fetch_all: no lock is held, and the sources answer in any order *)

StartScrape ==
    /\ phase = "idle"
    /\ phase' = "fetching"
    /\ fetch' = [s \in Sources |-> NoResult]
    /\ UNCHANGED <<edition, seen, etag, at, upserted, now, crashes, stored, confirmed>>

Reading(s, p) ==
    phase = "fetching" /\ fetch[s].outcome = "reading" /\ fetch[s].page = p

\* Only page 1 is asked for with If-None-Match.
IsNotModified(s, p) == p = 1 /\ etag[s] # NoTag /\ Current(s).tag = etag[s]

\* A 304: the source is left as it was stored.  It tells of page 1 alone.
NotModified(s) ==
    /\ Reading(s, 1)
    /\ IsNotModified(s, 1)
    /\ fetch' = [fetch EXCEPT ![s].outcome = "notModified"]
    /\ confirmed' = [i \in Items |-> IF i \in Page(Current(s), 1) THEN now ELSE confirmed[i]]
    /\ UNCHANGED <<edition, seen, etag, phase, at, upserted, now, crashes, stored>>

\* Mutant: the page count taken for the index of the last page but one.
LastPageEarly(s, p, body) == body = {} \/ p + 1 >= MaxPages[s]

LastPage(s, p, body) == body = {} \/ p = MaxPages[s]

\* A page that parses; the ETag kept is the one of page 1.
GetPage(s, p) ==
    LET body == Page(Current(s), p)
    IN /\ Reading(s, p)
       /\ ~IsNotModified(s, p)
       /\ p \notin Current(s).malformed
       /\ fetch' = [fetch EXCEPT ![s] =
                      [page |-> p + 1,
                       items |-> @.items \cup body,
                       tag |-> IF p = 1 THEN Current(s).tag ELSE @.tag,
                       outcome |-> IF LastPage(s, p, body) THEN "ok" ELSE "reading"]]
       /\ UNCHANGED <<edition, seen, etag, phase, at, upserted, now, crashes, stored, confirmed>>

\* A timeout, a status or a size that _get refuses: the pages read before it stay.
FailPage(s) ==
    /\ \E p \in 1 .. MaxPages[s] : Reading(s, p)
    /\ fetch' = [fetch EXCEPT ![s].outcome = "error"]
    /\ UNCHANGED <<edition, seen, etag, phase, at, upserted, now, crashes, stored, confirmed>>

\* A body that makes its parser raise.  `parse` is called outside the try: the
\* exception ends gather, and with it the whole cycle, which _loop logs.
ParseRaises(s) ==
    /\ \E p \in Current(s).malformed : Reading(s, p) /\ ~IsNotModified(s, p)
    /\ phase' = "idle"
    /\ fetch' = [r \in Sources |-> NoResult]
    /\ UNCHANGED <<edition, seen, etag, at, upserted, now, crashes, stored, confirmed>>

-----------------------------------------------------------------------------
(* store: _db_lock is held from the first source to the last *)

StartStore ==
    /\ phase = "fetching"
    /\ \A s \in Sources : fetch[s].outcome # "reading"
    /\ phase' = "storing"
    /\ at' = 1
    /\ upserted' = FALSE
    /\ UNCHANGED <<edition, seen, etag, fetch, now, crashes, stored, confirmed>>

\* Mutant: what later sources of the scrape carry is left to them.
UniqueLater(k) ==
    fetch[Order[k]].items \ UNION {fetch[Order[j]].items : j \in k + 1 .. Len(Order)}

\* What earlier sources of the same scrape have not upserted already.
Unique(k) == fetch[Order[k]].items \ UNION {fetch[Order[j]].items : j \in 1 .. k - 1}

UpsertTo(k) ==
    /\ seen' = [i \in Items |-> IF i \in Unique(k) THEN now ELSE seen[i]]
    /\ stored' = stored \cup Unique(k)
    /\ confirmed' = [i \in Items |-> IF i \in Unique(k) THEN now ELSE confirmed[i]]

\* Mutant: the ETag of a fetch that broke off after page 1.
TagAfterAny(s) == IF fetch[s].outcome # "notModified" THEN fetch[s].tag ELSE etag[s]

TagAfter(s) == IF fetch[s].outcome = "ok" THEN fetch[s].tag ELSE etag[s]

Upsert ==
    /\ phase = "storing" /\ ~upserted
    /\ UpsertTo(at)
    /\ upserted' = TRUE
    /\ UNCHANGED <<edition, etag, phase, fetch, at, now, crashes>>

\* Mutant: one source too many.
LastSourceOver(k) == k > Len(Order)

LastSource(k) == k = Len(Order)

SaveSource ==
    /\ phase = "storing" /\ upserted
    /\ etag' = [etag EXCEPT ![Order[at]] = TagAfter(Order[at])]
    /\ IF LastSource(at) THEN phase' = "idle" /\ at' = 1 ELSE phase' = phase /\ at' = at + 1
    /\ upserted' = FALSE
    /\ UNCHANGED <<edition, seen, fetch, now, crashes, stored, confirmed>>

-----------------------------------------------------------------------------
(* The surroundings *)

Publish(s) ==
    /\ edition[s] < Len(Editions[s])
    /\ edition' = [edition EXCEPT ![s] = @ + 1]
    /\ UNCHANGED <<seen, etag, phase, fetch, at, upserted, now, crashes, stored, confirmed>>

Stale(i) == seen[i] # 0 /\ seen[i] < now - StaleUnseen

\* _maintenance_once, under the same lock.
Prune ==
    /\ phase # "storing"
    /\ \E i \in Items : Stale(i)
    /\ seen' = [i \in Items |-> IF Stale(i) THEN 0 ELSE seen[i]]
    /\ UNCHANGED <<edition, etag, phase, fetch, at, upserted, now, crashes, stored, confirmed>>

\* The process stops between two commits and starts again.
Crash ==
    /\ phase # "idle"
    /\ crashes < MaxCrashes
    /\ crashes' = crashes + 1
    /\ phase' = "idle"
    /\ fetch' = [s \in Sources |-> NoResult]
    /\ at' = 1
    /\ upserted' = FALSE
    /\ UNCHANGED <<edition, seen, etag, now, stored, confirmed>>

Tick ==
    /\ now < MaxNow
    /\ now' = now + 1
    /\ UNCHANGED <<edition, seen, etag, phase, fetch, at, upserted, crashes, stored, confirmed>>

-----------------------------------------------------------------------------
Get(s) ==
    NotModified(s) \/ (\E p \in 1 .. MaxPages[s] : GetPage(s, p)) \/ FailPage(s) \/ ParseRaises(s)

Next ==
    \/ StartScrape \/ StartStore \/ Upsert \/ SaveSource
    \/ \E s \in Sources : Get(s) \/ Publish(s)
    \/ Prune \/ Crash \/ Tick

Spec == Init /\ [][Next]_vars

-----------------------------------------------------------------------------
(* Properties *)

TypeOK ==
    /\ edition \in [Sources -> Nat \ {0}]
    /\ \A s \in Sources : edition[s] \in DOMAIN Editions[s]
    /\ seen \in [Items -> Nat]
    /\ etag \in [Sources -> Tags]
    /\ phase \in {"idle", "fetching", "storing"}
    /\ fetch \in [Sources -> [page : Nat \ {0}, items : SUBSET Items, tag : Tags,
                              outcome : {"reading", "ok", "notModified", "error"}]]
    /\ at \in DOMAIN Order
    /\ upserted \in BOOLEAN
    /\ now \in Nat \ {0} /\ crashes \in Nat
    /\ stored \subseteq Items
    /\ confirmed \in [Items -> Nat]

\* A 304 hides no address of the page it answers for, nor of the later pages the
\* fetch that stored the tag has read, as long as the tag is not given to another
\* edition: while the ETag on record is the one the source answers with, all that
\* has been put in the table.  A page that fails, a crash between the two commits of
\* store, an edition that changes between two pages could each leave the ETag
\* without its candidates.
NothingHidden ==
    \A s \in Sources :
        etag[s] # NoTag /\ etag[s] = Current(s).tag
        => \A p \in Covered(s) : Page(Current(s), p) \subseteq stored

\* prune's docstring: a candidate goes "when no list has carried it for
\* stale_unseen_days", so none goes that a poll has found on a list since.
StillCarriedKept ==
    [][\A i \in Items :
          seen[i] # 0 /\ seen'[i] = 0 => confirmed[i] < now - StaleUnseen]_vars

=============================================================================
