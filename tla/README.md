# Unlim Proxy: the verification project

TLA+ models of the proxy engine in `src/src/unlimproxy`: the modules, the TLC
configurations that check them on small instances, and the proofs that TLAPS
checks. Paths below are relative to `src/src/unlimproxy` unless they say otherwise.

## 1. The system

One Python process, one event loop, one SQLite file. Candidates come from public
proxy lists, are probed by several queues, and what answers is served from a
list in memory.

| part | state it keeps | operations | how it meets the others |
|---|---|---|---|
| proxy table (`storage.py`, `models.py`) | `proxies`, `sources`, `checks` rows | upsert, queue selections, `resolve_protocol`, `record_*`, `prune` | one shared connection; callers hold `Scheduler._db_lock` |
| liveness sweeps (`scheduler.py`) | `_cold_buffer`, `_report_recheck`, batches in flight | `_cold_once`, `_hot_once`, `_warm_once`, `_quarantine_once`, `_report_once`, `_run_l1` | read a batch under the lock, probe without it, write by rowid under it again |
| YouTube sweep | `yt_*` columns, `last_yt_at`, the streak | `_yt_once`, `fetch_yt_due`, `record_yt_many` | its flags reach the API through `rebuild_pool` |
| Google sweep (L2) | `google_*`, `last_l2_at` | `_l2_once`, `fetch_l2_due`, `record_l2` | same shape as the YouTube sweep |
| check budgets (`checker.py`) | `_gate`, `_heavy`, one semaphore per sweep | `check_l1`, `check_l2`, `check_youtube`, `gather_limited` | shared by all queues |
| scraper (`scraper.py`) | the ETag and the totals of each source | `fetch_all`, `store` | upserts candidates under the lock, two commits per source |
| parsers (`parsers.py`) | none | `parse_prefixed`, `_plain`, `_scan`, `_hideip`, `_geonode` | called by the scraper for each page |
| enrichment (`geo.py`, `_enrich_once`) | database files, open readers, `geo_done`, `anonymity_done` | `refresh`, `lookup`, `set_geo_many`, `set_anonymity` | two loops that meet in `Geo.ready` |
| client reports (`api.py`, `scheduler.py`) | `client_reports_*`, `last_report_fail_at`, the recheck dict | `report`, `_report_once` | a row write and a dict entry at once, a probe later |
| pool and API | `Scheduler.pool`, `_recently_served`, the stats cache | `rebuild_pool`, filters, `select`, `pick`, `stats` | reads the pool without a lock |
| entry point (`__main__.py`, `Storage.open`) | tables, columns and indexes on disk | `lifespan`: open, migrate, start, stop | no loop runs before it is through |
| score, config, pages, deployment | none that steps | | |

**What is hard here.** There is one thread, so an interleaving happens at an
`await`: every sweep reads rows, awaits probes for seconds to minutes, and writes
what it computed from the old snapshot. Meanwhile other queues hold the same rows,
a merge may have dropped them, `prune` may have deleted them, and SQLite may have
given their rowid to another proxy. A stop loses everything in memory: batches,
the cold window, queued rechecks, open databases. Commits that belong together
(candidates and the ETag and totals of their source; the columns of one migration) are separate. Three nested semaphores are
held at once by different kinds of checks. What each part has to get right:

* table and sweeps: no row falls out of every queue; triples stay unique; a success
  is recorded, against the right triple; only retention forgets; the pool serves what is
  alive, which it does but for what the cold loop has failed since the last rebuild (section 6); the
  history is the history;
* YouTube: flags are a verdict, consistent with each other, timely, and probes are spaced;
* budgets: no slot lost or created, page loads keep to their share, everything ends;
* scraper: a 304 never hides an address that its ETag vouches for, one source's trouble is not another's (except
  a list that makes its parser raise), what is still listed is kept, a row is attributed to the best source, totals cover rows;
* parsers: only public addresses get in, no line keeps its neighbours out, a label is one
  that a trusted source gave to this address;
* entry point: no loop on a half-migrated table, and no database keeps a start from getting through;
* Google and rotation: `google_clean` is the last verdict, requests are spaced, nothing waits for ever for its
  first verdict, and a proxy is not handed out twice in a row for nothing;
* reports: no queued report goes without a recheck and a penalty;
* enrichment: only whole databases are installed, everything is settled in the end.

`PROJECT.json` lists the hazards one by one, at their lines, with the
properties that watch them or the reason none does.

## 2. The modules

| module | models | composition |
|---|---|---|
| `ProxyStore` | the liveness columns of `proxies` and every statement on them, as operators from tables to tables | extended by `Sweeps` |
| `Sweeps` | the five liveness loops, the write section of `_run_l1` statement by statement, scrape and prune as writers, reports, pool, restarts | extends `ProxyStore`, instantiates `ProxyLifecycle` |
| `ProxyLifecycle` | the abstract specification: what may happen to one `(host, port, protocol)` | implemented by `Sweeps` (proved in `Sweeps_proofs`), through `Standings` of `ProxyStore` |
| `YouTube` | `_yt_once`, `record_yt_many`, the grace, the rebuild, the `?target=` filter | stands alone; liveness appears as flapping |
| `Gate` | `_gate`, `_heavy`, `gather_limited` with first-come-first-served queues | stands alone |
| `Scrape` | `fetch_all` and `store` over sources that change, fail and garble | `prune` on candidates; extended by `Sources` |
| `Parsers` | the five parsers as operators from bodies to sets of candidates | constant-level; extended by `Sources` |
| `Sources` | the scraper on bodies instead of candidates, with the column `source` and `fetched_total` | extends `Scrape` and `Parsers`; every step is one of `Scrape` |
| `Reports` | `POST /v1/report`, the recheck dict, `_report_once`, the penalty's way to the pool | stands alone; other loops as checks and rebuilds |
| `Geo` | `Geo.refresh`, `lookup`, `_enrich_once` | liveness as flapping; extended by `Lifespan` |
| `Lifespan` | `Storage.open` with tables, `_migrate` and indexes, `Scheduler.start`, kill and launch | extends `Geo`, whose loops run when it is up |
| `GoogleCheck` | `_l2_once`, `fetch_l2_due`'s order, `check_l2` with `classify_google`, `record_l2`, the rebuild | extended by `Serving` |
| `Serving` | `GET /v1/proxy`: `select`, `pick`, `_recently_served` and the maintenance that trims it | over the pool of `GoogleCheck` |
| `MCSweeps`, `MCYouTube`, `MCGate`, `MCScrape`, `MCLifespan` | instances | |
| `*_proofs` | theorems | extend their component (`Sweeps_proofs` also `ProxyStore_proofs`) |

Why several modules stand alone: they write disjoint columns of the row and share
only `alive`, the pool and the lock. Each models the others as nondeterministic steps at every
point where the lock is free, which is more than the other modules can do.

### How state and actions correspond

`ProxyStore`. A table is a function from rowids to rows with the columns the queues
read or write (`TABLES`, `storage.py:24`). Statements are operators: `UpsertCandidates`
(with the rowid rule of `INTEGER PRIMARY KEY`: one more than the largest in use, so a
deleted row's id comes back), `InCold`/`InHot`/`InWarm`/`InQuarantine` (the `WHERE`
clauses), `OldestFirst` (`ORDER BY last_check_at LIMIT`, ties in any order),
`Resolved` and `SurvivingId` (`resolve_protocol`: table left and id returned),
`RecordOk`/`RecordFail` (the two `UPDATE`s of `record_l1_many`), `Doomed`/`Pruned`.

`Sweeps`. `pc`, `flight` and `tx` say where each loop stands: `idle`, `probing` with the
snapshots in `flight`, `writing` with `tx` holding the lock, `rebuild`. A write section awaits
between statements, so it is one action per statement (`BeginWrite`, `ApplyOk`/`ApplyFail`
per result, `WriteOk`/`WriteFail` per row, `Commit`); every other section has one statement
and is one action, guarded by `LockFree`. A section that a stop interrupts is rolled back by SQLite, so
`Restart` needs no open section. `answered` and `spoiled` are history, the second the pool entries whose rows the cold loop
has failed or settled since the pool was built: `_cold_once` is the one sweep that ends without `rebuild_pool`.

`YouTube`. `row[p]` has the flags, the miss streak and `last_yt_at`; `FetchDue`, `Record`,
`Rebuild` are the three parts of `_yt_once` between its awaits. Page loads are a choice
of outcomes. `verdict`, `began`, `bootAt` are history.

`GoogleCheck`. The three parts of `_l2_once` again, with timestamps as ages that are counted up to where nothing
tells them apart, so that no clock bound is needed and liveness can be checked. A page is what `classify_google`
looks at; the pool is a sequence, in any order that includes all live rows. `Serving` adds `Pick`, which leaves the
sweep alone, and joins `Tick` and `Restart` with what they do to `served`. `verdict`, `asked`, `given` are history.

`Gate`. A task's `stage` is what it holds or waits for; a semaphore is its free slots and
its queue. `asyncio.Semaphore` hands a released slot to the first waiter, and so does `Give`.

`Scrape`. A source publishes editions; `GetPage`, `NotModified`, `FailPage` and
`ParseRaises` are the ways out of one page of `_fetch_source`; `Upsert` and `SaveSource` are
the two commits of `store` for a source; `Crash` may come between them. Pages may be empty, at which a fetch ends as
if the list did, and editions may share an ETag as long as they share their first page (`TagAssumption`).
A page in `malformed` makes its parser raise.

`Parsers`. A body is a sequence of lines or a set of JSON objects. A line is what a regular
expression can tell apart around one address: the scheme in front, credentials, the tail, the label at the
end; a JSON object is a host, a port and the names in its protocol fields. Each parser is one operator from
a source's configuration and a body to candidates, `Raises` says when it throws. A host is public, reserved or
malformed (`Kind`). `Found` is the backward search of `_ANY_HOST_PORT`, which takes the scheme nearest in front of an
address, also across a line break.

`Sources`. `Editions`, a parameter of `Scrape`, is no longer free: `ListAssumption` ties it to the `Lists` through
the parsers, so `Get` reads what parsing makes of a body. `StoreUpsert` and `StoreSave` are `Upsert` and `SaveSource`
with the `source` of new rows and the count; `PruneRows` and `CrashStore` likewise; all else is `Along`. `counted` is
history: the sources whose new rows have all been counted.

`Reports`. `ReportFail` is one step: the row and the dict change with no await in
between that another writer could use. The score is reduced to what the penalty reads.

`Geo`. `download[d]` follows `_download`; `Finalize` tries the `.part` file and swaps it in,
or raises past every handler and ends `refresh`. `LookUp` covers the fetch of a batch and the
lookups, which await nothing; `WriteGeo` the section that writes the columns and reads who is to
be asked for anonymity; `WriteAnonymity` the last one.

`Lifespan`. `process` is where the start stands. `CreateTables`, each column of `_migrate` and each index is one action and
one commit, `present` is what `table_info` named at the start of the migration, and `Kill` may come between any two.
`Run` guards the steps of `Geo` with a process that is up. A start that raises (`StartRaises`, or an index over a missing column) leaves
the process `"hung"`, from where only `Kill` leads on. The initial database is none at all, or one of any
earlier release, with the index that a later one dropped or without.

Operators whose comment begins with "Mutant" are faulty versions of the definition after
them. They are used by no specification: putting one in place of its original must
break the property it is listed with, so each property is known to depend on the code.

## 3. The runs

| run | instance and bounds | what it shows |
|---|---|---|
| `lifecycle` | `Sweeps`, 1 address, 1 protocol, all five loops, streak 1, clock 3, 3 checks a row | `FollowsLifecycle` (refinement), `ProvenRetained`, `NoOrphan`, `PoolSettled` |
| `merge` | `Sweeps`, 1 address, 2 protocols and the placeholder, cold (window 3, batch 2) and hot, 2 checks a row | `UniqueTriple`, `SuccessLands`, `AliveAnswered`, `OnlyPruneForgets`, `TypeOK` |
| `history` | `Sweeps`, 1 row, cold, hot, warm, quarantine | violates `HistoryIsWindow` |
| `youtube` | 2 symmetric proxies, grace 2, batches of 1, interval 1, clock 5 | `FlagsAreLastVerdict`, `DualIsBoth`, `PoolHasFlags`, `SpacedProbes`, `TypeOK` |
| `yt_fresh` | 1 proxy, grace 2, clock 7 | violates `TargetVerdictFresh` |
| `gate` | gate 2, heavy 1; two liveness sweeps of 2, a YouTube sweep of 2 with two loads each, a Google sweep | `BudgetKept`, `HeavyShare`, `LivenessHasRest`, `SweepsEnd` (liveness), `TypeOK` |
| `scrape` | `Sources`, a JSON source of two pages with a blank one and a reused ETag, and a trusted text source that is garbled for as long as it likes, with reserved, malformed and out-of-range addresses, 1 crash, clock 2 | `NothingHidden`, `OnlyPublic`, `LabelHonest`, `TotalCovers`, `BestSourceOwns`, `AddressesListed` (liveness), `SourcesTypeOK` |
| `scrape_304` | two lists that never change | violates `StillCarriedKept` |
| `scan_labels` | a text source with labels behind the address | violates `LabelHonest` |
| `reports` | 2 proxies, cap 1, clock 2 | `PenaltySettles`, `Deferred` (liveness), `TypeOK` |
| `geo` | `Lifespan` over `Geo`: three added columns, two indexes, a database of any release, 1 geo database, 2 proxies, batches of 1, 2 restarts | `UpMeansReady`, `EventuallyUp` (liveness), `GeoSettles` and `AnonymitySettles` (liveness), `LifespanTypeOK` with whole files only |
| `serving` | 2 proxies, sweeps of 1, interval 1, slice 2, cooldown 1 | `CleanIsVerdict`, `SpacedGoogle`, `NoEarlyRepeat`, `FirstVerdict` (liveness), `ServingTypeOK` |

**Why these bounds are enough to be interesting.** In `lifecycle` one row is in
the hands of several loops at once, is selected by warm and quarantine alike at the threshold, and
outlives or not both retention periods; ages and clock are chosen so that prune can fire
between any two steps. In `merge` three rows of one address are in one cold window, so a batch
merges rows that another batch, or the rest of the window, holds as snapshots; `StaleUnseen` is
beyond the clock there, because a pruned row's reused rowid is a case of its own (section 6).
In `serving` the single place of a sweep is
contested by a clean row, a failed one and a never-checked one in turn, and both proxies are in the slice, so that a repeat
has an alternative wherever the filters leave one. In `gate` every semaphore has more customers than slots. In `scrape` editions change between
pages, have a page that parses to nothing, go back to an old ETag with another second page, and break; the two sources share an address, and have lines that a parser
must leave out next to lines that it must take. Labels stand in front of the addresses only; for labels behind them see
`scan_labels`. In `geo` every prefix of the added
columns may be there at the first start, the process may end in each of the steps, and one index
is over the second of the added columns. Batches of one in `youtube` and `geo` make proxies
compete for a place. `MaxNow`, `MaxChecks`, `MaxCrashes` and `MaxRestarts` are bounds of the instances
only, and each is a guard named in its module.

**Fairness.** `FairSpec` of each module, only where a run checks liveness.
`Gate`: every request has a timeout and the event loop runs what is ready, so `Step` of each
task and `Return` of each sweep are weakly fair; starting a sweep is not. `Sources`: the loop comes round and
requests end (weak fairness of the cycle's own steps and of `Get`, which a timeout satisfies). Nothing makes a source answer, publish or
repair a list: what `AddressesListed` needs of the world are premises of the property itself, per source: that its
pages answer when asked again and again (`Answers`), and that from some point on no list makes its parser raise (`NoneRaises`). `Serving`: weak fairness of the sweep's own steps; nothing makes time pass, and `FirstVerdict` allows for
what really keeps a row waiting: clean rows that fill every sweep, or a process stopped again and again. `Reports` and `Geo`: `_loop` catches every exception and
comes round again, and probes have timeouts, so the steps of their own loop are weakly fair;
restarts, reports, checks, downloads are not. `Lifespan` adds that a process that has ended is launched
again (`compose.yaml:6`, `restart: unless-stopped`) and that a start goes on to where it succeeds or raises (weak); that it succeeds is not
assumed, and nobody has to kill a process that hangs. `EventuallyUp` and `AnonymitySettles` say what holds then. The run `geo` does
not check for deadlock, because a hung process has no next step. `MaxRestarts` bounds how often it is killed. `Deferred` allows a restart to forget a report, as the
code does.

**What the violations say.**

* `history`: `_apply_l1` writes back the history of its snapshot, so the later of two
  overlapping checks drops the earlier from the window that `models.py:92` calls the
  "sliding window of the last checks", and from the uptime ratio, 25 points of the score.
* `yt_fresh`: a miss within the grace stamps `last_yt_at` and keeps the flags, so `max_target_age_sec`
  (`api.py:100`) passes a verdict older than it bounds.
* `scrape_304`: a 304 refreshes no `last_seen_in_source_at`; a list that never changes is
  pruned although it still carries its candidates (`storage.py:506`).
* `scan_labels`: `parse_scan` takes the scheme that stands nearest in front of an address, and a line break does not
  stop it (`parsers.py:36`). In a list of `address protocol` lines each address gets the label of the line
  before, and since the source is trusted, the label is never put to the test; `models.py:27` has None for what is not known.

## 4. The proofs

Every theorem holds for all values of the constants that satisfy the named
assumptions of its module.

* **`Sweeps_proofs`.** `IInv` is `TypeOK`, plus `AllStanding` (a row's counters agree: alive with
  a live streak, or unproven, or proven with a fail streak), plus `Distinct` (no two rows share a
  label). `NoOrphan` is not inductive by itself: whether a row stays in a queue depends on streaks and counters
  changing together. `ProxyStore_proofs` has one lemma per statement for each part; `NextInv` has one
  case per action. From it follow `TypeCorrect`, `NoOrphanHolds`, `UniqueTripleHolds`, and
  `OnlyPruneForgetsHolds`, an action property whose heart is that a merge drops a row
  only for another of its address. `PoolSettledHolds` has no
  hypothesis: every loop runs, rows are pruned and rowids reused. `PoolIInv` says of each pool entry that its row is alive under its label or `spoiled`, unless
  a loop other than cold has still to rebuild. What makes it inductive is that a
  section of cold either keeps the row of a pool entry as it is for the pool or enters it in `spoiled` (`ColdKeepsOrSpoils`), and that every
  other section ends in a rebuild.

  *Snapshots and rows.* What a write section does depends on snapshots that were read long before, so the properties of
  recorded results need an invariant about everything that is held: `Held`, the snapshots in `flight`, in the open section, in the cold
  window and in the recheck dict. `LinkInv` says of them that a row that is still there has the label it was read with (`LabelInv`),
  that only the cold loop holds placeholders (`BulkInv`) and each of them once, in the batch or in the rest of the window
  (`OnceInv`), that the loop that has the lock is the one that writes (`LockInv`), that what is about to be recorded as a success is
  for a triple that has answered (`OksInv`), and that a row without a protocol has no success (`Proven`). No part is inductive alone: an
  answer settles its own placeholder and no other row's because of the labels; the labels stay because nobody else holds that
  placeholder; nobody does because the other queues select rows with a success; and those have a protocol.
  From it `SuccessLandsHolds`, `AliveAnsweredHolds`, `ProvenRetainedLinked` and the refinement `FollowsLifecycleLinked`.

  *Rowids.* These four assume `NoReuse`: while a snapshot is held, its rowid is given to no other row. The table does not
  promise that (`INTEGER PRIMARY KEY` without `AUTOINCREMENT`, `storage.py:26`), and without it TLC finds `AliveAnswered` and
  `FollowsLifecycle` violated (section 6): the hypothesis is where the design depends on the retention periods
  being far longer than a sweep. `SparedKeepsRowids` reduces it to just that, with `HeldPresent`: if prune deletes no row of which a snapshot is held, no
  rowid is reused, whatever the merges drop. In the `merge` run nothing is pruned, so the hypothesis holds there.

  *The refinement*, step by step (`RefineStep`): the upsert is `List`, an answer that settles a protocol `Settle`, a recorded success `Answer`,
  a recorded failure `Fail`, prune `Retire`, all else a stutter. `ProxyStore_proofs` has one lemma per statement that says what it does to
  `Standings`, the table read as a function from triples (`ListStep`, `SettleStep`, `AnswerStep`, `FailStep`, `RetireStep`). What a step
  needs of the state is `StepInv`, which `LinkInv` implies. In the `lifecycle` run rowids are reused under snapshots and the refinement
  holds all the same, because its lists name the protocol; that case is model-checked only.
* **`YouTube_proofs`.** `YouTubeTypes`, `FlagsHold`, `DualHolds`, `PoolHolds`, `SpacingHolds`: flags are sound, the pool
  agrees with the rows whenever the sweep is idle, every probe begun since boot is
  recorded or under way.
* **`Gate_proofs`.** `GateTypes`, `BudgetHolds`, `HeavyShareHolds`, `LivenessHasRestHolds`. A slot handed
  to a task that has one, or is not queued, would break the counts, so `IInv` also says that each
  queue holds exactly the tasks in the stage that waits for it, once.
* **`Scrape_proofs`.** `ScrapeTypes`, `NothingHiddenHolds`: what makes an ETag on record trustworthy is
  what fetches and a half-done store already hold of the tag they carry (`FetchInv`, `StoreInv`). Of a tag nothing is assumed but that it vouches
  for the page it came with (`TagAssumption`); so the theorem covers page 1 always, and the later pages that a fetch reaches
  (`Reached`: up to the first empty one) while the tag has stood for one edition only (`First`).
  `SourcesImplements` maps each step of `Sources` to one of `Scrape`, so both hold with sources as well
  (`NothingHiddenWithSources`). For the rest, one strengthening each: `RowInv` (a row is in the table exactly while it has a
  source) for `SourcesTypesHold`; `CountInv` (what has been upserted and not yet counted is pending, and only while
  the store is under way) for `TotalCoversHolds`, with the cardinalities of finite sets; `PublicInv` (what is fetched is public
  already) with one case per parser for `OnlyPublicHolds`, whatever the bodies say. `BestSourceOwnsHolds` needs the types
  alone: the first of two sources that carry an address leaves nothing of it in the `Unique` of the second. `ScanCoversHolds` compares the
  scan parser with the three line parsers on any text without trailing labels; it is about operators only, and no run states it.
  `LabelHonestHolds`: `HonestInv` says that what is fetched has its label from a published body already, with one lemma per kind of parser, and an
  edition once published stays so. It assumes `PlainTexts`, that no trusted text for the scan parser has a label behind an address or an
  address in a comment, because with labels behind them the property fails (`scan_labels`), and because scan takes comments for text.
  `BodyAssumption` in `Sources` says that lines and protocols of an object are sequences.
* **`Serving_proofs`.** `CleanIsVerdictHolds`, `SpacedGoogleHolds`, `NoEarlyRepeatHolds`: that a stamp is never older than
  the last request (`ProbesLogged`), although it is written when the sweep is over, and that the table of what was
  served is right in both directions (`ServedIsGiven`), although another loop trims it. `StepProjects` carries the
  sweep's invariant over to the composition.
* **`Reports_proofs`.** `ReportTypes`, `PenaltySettlesHolds`: no row is behind the last report that was
  queued for it (`RowHeard`), so a pool read from the rows is not either.

* **`Lifespan_proofs`.** `UpMeansReadyHolds` rests on `StageInv`: in each stage of the start, what the stages
  before it and the steps of this one so far were to bring about is there. That a start on a half-migrated table
  is covered shows in `present`, which may be any part of the columns. `LifespanTypes` also needs
  `QuietInv` (no reader and no loop unless the process is up).

**Model-checked only.** Liveness (`SweepsEnd`, `AddressesListed`, `FirstVerdict`, `Deferred`, `GeoSettles`, `AnonymitySettles`, `EventuallyUp`):
the prover has no backend for `ENABLED` and fairness.
Properties that a run violates (`HistoryIsWindow`, `TargetVerdictFresh`, `StillCarriedKept`; `LabelHonest` with labels behind the
addresses) are, of course, not theorems. Every other property of a passing run is one.

## 5. Not modelled

Handshakes and YouTube page classification (they decide from bytes on the wire; outcomes are chosen instead), the score's
arithmetic, configuration, HTML, deployment scripts, `PRAGMA`s, logging, the stats endpoint with its cache,
authentication. `PROJECT.json` gives each its reason. Of modelled
parts, these are abstracted: latencies and durations; the geo fields that geonode carries along; how a text is split
into lines and an address found in it (a line is given with its parts); errors of SQLite itself; what a database says
of an address; the HTTP status of a Google answer and whose page it really is (the code asks for neither, section 6); prune in `YouTube`, `Reports`, `Geo` and `GoogleCheck` (rows stay and none is added).

## 6. Seen while modelling, kept as notes

Behaviours that no run states, most of them corners of a property above:

* The pool can serve a dead proxy. The cold loop may hold the snapshot of a candidate that meanwhile comes alive (a report's recheck, or a
  merge in an earlier batch of its window) and enters the pool; if cold then fails it, the entry is served, dead,
  until another loop rebuilds. By then the row has a success and a fail streak, so warm takes it within a minute or so and rebuilds; no run states
  how soon. `PoolSettled`
  makes exactly this exception (`spoiled`); in the `lifecycle` run it occurs.

* After a merge, `_apply_l1` writes the placeholder's own history to the surviving row.
* A cold window is used up to ten batches after it was read, with the prefilter on; a row that
  became alive in the meantime through a merge can be failed by it (`README.md:313` wants no prefilter on
  live rows).
* A row past its retention whose probe is in flight can be pruned and its rowid given to the next
  candidate, which is then credited with the result: alive without an answer of its own, against `AliveAnswered`. If that candidate is a placeholder,
  it comes alive without a protocol, against `FollowsLifecycle`; a merge later in the batch may drop it, and the success is lost, against
  `SuccessLands`. It takes a service that was down for the retention period. In the `merge` run nothing is pruned; the theorems name the condition (`NoReuse`).
* `README.md:286` says ten failures delete a proven proxy; `prune` goes by the time since it last worked.
* The intervals of YouTube and Google probes are kept through timestamps written after the sweep, so a
  restart repeats a probe early (`config.toml:53` and `:72` say "never").
* `parse` is called outside the `try` of `scraper.py:110`: a list that makes its parser raise (`parse_geonode` on a
  protocol that is not a string, `parse_scan` on an endless number) ends the cycle for all sources, against
  `parsers.py:4`. `Scrape` has the step (`ParseRaises`), and for as long as such a list is served no other list
  gets in: `AddressesListed` has the premise that in the end there is none (`NoneRaises`), and fails without it.
* A 304 for page 1 is taken for the whole list (`scraper.py:96`, `:105`): where an ETag is given again to a list whose later pages have
  changed, what is new on them is hidden. And a page that parses to nothing ends the list with its ETag kept (`scraper.py:113`), so what
  follows it is skipped until the ETag changes. `NothingHidden` leaves both out by what it says of the later pages (`Covered`).
* `classify_google` looks at a body's size and markers, not at the HTTP status nor at whose page it is: a page of more than 20 KB that the proxy
  itself makes up, or an error page of that size, is `SEARCH_OK`. `README.md:57` promises "a real results page". `CleanIsVerdict`
  takes the criterion of `README.md:52` for what a page is (`FullPage`), so it does not show that.
* `README.md:112` says that a proxy is not returned twice within the cooldown "as long as an alternative exists"; `pick`
  looks for alternatives in the top slice only, and repeats one of it while the 21st has not been served.
* `fetch_l2_due` orders checked, failed rows by score: while more are due than a sweep takes, the low scores among them
  are not asked again. `FirstVerdict` is about the never-checked ones, which come before them.
* `ready` means that any one database is open, while `scheduler.py:299` ("The databases are loaded and still have nothing on this
  address") takes it for all: with one of two databases missing, a row that the other does not know is marked done for good.
* A boot that does not learn its own address (`detect_own_ip` gives up) marks every row it gets to as `anonymity_done`, without asking:
  `check_anonymity` returns None at once, and `set_anonymity` settles that.
* An address service that answers with JSON other than an object makes `detect_own_ip` raise (`StartRaises` in `Lifespan`). `lifespan` has opened
  the storage by then and is not yet in the `try` that closes it (`__main__.py:28-35`). The worker thread of an open aiosqlite connection
  (`uv.lock:154`, 0.22.1) is not a daemon, so uvicorn's exit waits for it for ever: the process neither serves nor ends, and
  `compose.yaml:6` has nothing to restart. The part about the thread is known of the library, whose code is not in the repository.
  An index that cannot be made would hang the start the same way (`CreateIndex`), which the order of the start rules out.
* `parse_scan` ignores all text of a JSON body as soon as one object in it has a host and a port, and drops
  ports of one digit; against its own docstring, "regardless of what surrounds it". `ScanCovers` allows for the latter.
* A fetch that breaks off at a later page, or a stop between the two commits of a source, stores rows that `fetched_total` never
  counts, so that `source_score` can exceed 1 (`README.md:215` calls it a hit rate). `TotalCovers` is about the sources without
  such an accident (`counted`).
* `scoring.py:52` says that one failure costs "the full 20 points"; it costs a third of them, and three cost them all.
* `/v1/stats` takes no lock and shares the connection: between the two INSERTs of `record_checks` (`storage.py:340`) it sees the
  successes of a sweep without its attempts, and a yield above 100 %. Its cache is stamped when the computation
  ends, so an answer can be older than the thirty seconds of `api.py:320` by as long as that took.
* A download that `maxminddb` rejects raises `InvalidDatabaseError`, which `geo.py:92` does not catch:
  no database is opened in that round (`EndRaised` in `Geo`).

## 7. The plan

Done, in order of weight: table and sweeps with the abstract lifecycle, YouTube, budgets, scraper, reports,
enrichment, Google and rotation; then parsers and source attribution, boot and migration; then the theorems above, down to the refinement of the lifecycle. Next:

1. `Sources` over `ProxyStore`, so that the attribution also follows a merge of two rows.
2. `/v1/stats` with its cache and its unlocked reads.

## 8. Running

In this directory: `tlc -workers 2 -config <run>.cfg <module>` with the module that `PROJECT.json` gives for
the run, and `tlapm <module>_proofs.tla`. The passing runs take between a few seconds and two minutes.
