------------------------------ MODULE Sources ------------------------------
(***************************************************************************)
(* The scraper with its parsers and with the record it keeps of the        *)
(* sources: what the bodies of the lists say, which source a row is        *)
(* attributed to, and how many new rows have been counted for a source.    *)
(*                                                                         *)
(* The state adds to that of Scrape; every step of Scrape is taken along   *)
(* with what it does to the attribution and to the counts.                 *)
(*                                                                         *)
(* An operator whose comment begins with "Mutant" is a faulty version of   *)
(* a definition after it, which a property must tell from the original.    *)
(***************************************************************************)
EXTENDS Scrape, Parsers

CONSTANTS Config,   \* Config[s]: the parser, hint and trust_protocol of s
          Lists,    \* Lists[s]: the editions of s, with the bodies of their pages
          Nobody    \* the source of a row that is not in the table

\* A candidate as it is stored: the triple, with "unknown" for no protocol.
EditionOf(s, list) ==
    LET raising == {p \in DOMAIN list.pages : Raises(Config[s], list.pages[p])}
    IN [tag |-> list.tag,
        pages |-> [p \in DOMAIN list.pages |->
                     IF p \in raising THEN {} ELSE Parse(Config[s], list.pages[p])],
        malformed |-> raising]

ASSUME NobodyAssumption == Nobody \notin Sources

ASSUME ItemsAssumption == IsFiniteSet(Items)

ASSUME ConfigAssumption ==
    \A s \in Sources : Config[s].parser \in {"prefixed", "plain", "hideip", "scan", "geonode"}

ASSUME ListAssumption ==
    Editions = [s \in Sources |-> [n \in DOMAIN Lists[s] |-> EditionOf(s, Lists[s][n])]]

\* Lines come one after the other, and so do the protocols of a JSON object.
ASSUME BodyAssumption ==
    \A s \in Sources : \A n \in DOMAIN Lists[s] : \A p \in DOMAIN Lists[s][n].pages :
        LET body == Lists[s][n].pages[p]
        IN /\ body.lines \in Seq(Range(body.lines))
           /\ \A o \in body.objects : o.protocols \in Seq(Range(o.protocols))

VARIABLES owner,    \* owner[i]: the column `source` of the row of i
          fetched,  \* fetched[s]: fetched_total in the row of s
          new,      \* ScrapeResult.new of the source being stored
          counted   \* history: the sources all of whose new rows have been counted

sourceVars == <<owner, fetched, new, counted>>

SourcesInit ==
    /\ Init
    /\ owner = [i \in Items |-> Nobody]
    /\ fetched = [s \in Sources |-> 0]
    /\ new = 0
    /\ counted = Sources

-----------------------------------------------------------------------------
\* The candidates of the source at k that the table does not have.
Fresh(k) == {i \in Unique(k) : seen[i] = 0}

\* The upsert leaves the `source` of a row that is there alone.
StoreUpsert ==
    /\ Upsert
    /\ owner' = [i \in Items |-> IF i \in Fresh(at) THEN Order[at] ELSE owner[i]]
    /\ new' = Cardinality(Fresh(at))
    /\ UNCHANGED <<fetched, counted>>

\* Mutant: the total of this scrape alone.
CountAfterLast(s) == IF fetch[s].outcome = "ok" THEN new ELSE fetched[s]

CountAfter(s) == IF fetch[s].outcome = "ok" THEN fetched[s] + new ELSE fetched[s]

\* A fetch that broke off has its rows stored, and not counted.
StoreSave ==
    /\ SaveSource
    /\ fetched' = [fetched EXCEPT ![Order[at]] = CountAfter(Order[at])]
    /\ counted' = IF fetch[Order[at]].outcome # "ok" /\ new # 0 THEN counted \ {Order[at]}
                                                                 ELSE counted
    /\ new' = 0
    /\ UNCHANGED owner

PruneRows ==
    /\ Prune
    /\ owner' = [i \in Items |-> IF Stale(i) THEN Nobody ELSE owner[i]]
    /\ UNCHANGED <<fetched, new, counted>>

\* A stop between the two commits of a source: its new rows stay uncounted.
CrashStore ==
    /\ Crash
    /\ new' = 0
    /\ counted' = IF upserted /\ new # 0 THEN counted \ {Order[at]} ELSE counted
    /\ UNCHANGED <<owner, fetched>>

Along ==
    /\ \/ StartScrape \/ StartStore \/ Tick
       \/ \E s \in Sources : Get(s) \/ Publish(s)
    /\ UNCHANGED sourceVars

SourcesNext == Along \/ StoreUpsert \/ StoreSave \/ PruneRows \/ CrashStore

SourcesSpec == SourcesInit /\ [][SourcesNext]_<<vars, sourceVars>>

\* The loop comes round again and its requests end, by a timeout if need be.
\* Nothing makes a source answer, publish, or repair what it has published.
SourcesFairSpec ==
    /\ SourcesSpec
    /\ WF_vars(StartScrape) /\ WF_vars(StartStore) /\ WF_vars(Upsert) /\ WF_vars(SaveSource)
    /\ \A s \in Sources : WF_vars(Get(s))

-----------------------------------------------------------------------------
(* Properties *)

\* The types, and a row has a source as long as it is in the table.
SourcesTypeOK ==
    /\ TypeOK
    /\ owner \in [Items -> Sources \cup {Nobody}]
    /\ \A i \in Items : owner[i] = Nobody <=> seen[i] = 0
    /\ fetched \in [Sources -> Nat] /\ new \in Nat
    /\ counted \subseteq Sources

\* parsers.py:3, "every host and port is validated": whatever the lists say,
\* what enters the table is a public address with a port in range.
OnlyPublic == \A i \in stored : Reachable(i)

\* Pages the source has published, in this edition or in an earlier one.
Published(s) ==
    UNION {{Lists[s][n].pages[p] : p \in DOMAIN Lists[s][n].pages} : n \in 1 .. edition[s]}

\* models.py:27, "None means the protocol is unknown and must be resolved by
\* handshake": a row that enters the table with a protocol has it from a source
\* that is trusted, which names it for this very address or vouches for it as
\* the protocol of the whole list.  A wrong label is never put right: the
\* candidate is only ever tried under it.
LabelHonest ==
    \A i \in stored : i.protocol # None =>
        \E s \in Sources : Config[s].trust /\
            \E body \in Published(s) : \E e \in Listed(body) :
                /\ e.host = i.host /\ e.port = i.port
                /\ \/ \E name \in e.names : Normalized(name) = i.protocol
                   \/ Config[s].hint = i.protocol

\* The public addresses that the page p of an edition of s names.
Named ==
    [s \in Sources |-> [n \in DOMAIN Lists[s] |-> [p \in DOMAIN Lists[s][n].pages |->
        {[host |-> e.host, port |-> e.port] :
            e \in {x \in Listed(Lists[s][n].pages[p]) : Reachable(x)}}]]]

InTable(address) == \E i \in stored : i.host = address.host /\ i.port = address.port

\* Each address on the covered pages of the list that s serves is in the table.
ListIn(s) ==
    \A p \in Covered(s) \cap DOMAIN Named[s][edition[s]] :
        \A a \in Named[s][edition[s]][p] : InTable(a)

\* No list has a page that makes its parser raise.
NoneRaises == \A s \in Sources : Current(s).malformed = {}

\* The source answers in the end when a page is asked for again and again.
Answers(s) == \A p \in 1 .. MaxPages[s] : SF_vars(GetPage(s, p))

\* Every address that a list names, on the pages a fetch reaches, comes into the
\* table once the list stops changing and its source answers, whatever stands
\* around the address, whatever pages fail, whether or not the other sources
\* answer, and wherever the process stops.  The premise that no list makes its
\* parser raise is needed, against parsers.py:3 ("dropped silently rather than
\* raising"): one such list keeps all the others out, for as long as it is served.
AddressesListed ==
    <>[]NoneRaises => \A s \in Sources : Answers(s) => <>[]ListIn(s)

\* scraper.py:50, "so the best source wins the `source` attribution": of the
\* sources of one scrape that carry it, a new row goes to the first in order.
BestSourceOwns ==
    [][\A i \in Items : \A j, k \in DOMAIN Order :
          owner[i] = Nobody /\ owner'[i] = Order[k] /\ j < k => i \notin fetch[Order[j]].items
      ]_<<vars, sourceVars>>

\* README.md:215, "per-source hit rates": the total that alive rows are divided by
\* covers the rows attributed to the source, through prunings and new finds, but
\* for the sources with a fetch that broke off or a store that a stop cut short.
TotalCovers ==
    \A s \in counted :
        Cardinality({i \in Items : owner[i] = s})
            <= fetched[s] + (IF upserted /\ Order[at] = s THEN new ELSE 0)

=============================================================================
