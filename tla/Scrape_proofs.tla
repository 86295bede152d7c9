---------------------------- MODULE Scrape_proofs ----------------------------
(***************************************************************************)
(* What holds of the scraper for every set of sources, editions and        *)
(* bodies: a conditional request hides nothing that its ETag vouches for,  *)
(* rows go to the best source and are counted for it, only public          *)
(* addresses enter the table, and labels are those the lists gave.         *)
(***************************************************************************)
EXTENDS Sources, SequenceTheorems, FiniteSetTheorems, TLAPS

\* X has what a fetch finds on the first p pages of the edition n of s.
Holds(s, n, p, X) ==
    \A k \in 1 .. p :
        (\A q \in 1 .. k - 1 : Page(Editions[s][n], q) # {}) => Page(Editions[s][n], k) \subseteq X

\* The e-th edition of s is the first one with its tag.
First(s, e) == \A n \in 1 .. e - 1 : Editions[s][n].tag # Editions[s][e].tag

\* What the tag T of an edition of s up to the e-th, the current one, vouches for:
\* page 1 of whatever had it, and as its first edition also the pages after that.
Vouched(s, e, T, p, X) ==
    /\ \E m \in 1 .. e : Editions[s][m].tag = T
    /\ \A n \in 1 .. e : Editions[s][n].tag = T => Page(Editions[s][n], 1) \subseteq X
    /\ Editions[s][e].tag = T /\ First(s, e) => Holds(s, e, p, X)

EtagInv == \A s \in Sources :
    etag[s] # NoTag => Vouched(s, edition[s], etag[s], MaxPages[s], stored)

FetchInv == \A s \in Sources :
    /\ fetch[s].outcome = "reading" => fetch[s].page \in 1 .. MaxPages[s]
    /\ fetch[s].outcome = "ok" /\ fetch[s].tag # NoTag =>
          Vouched(s, edition[s], fetch[s].tag, MaxPages[s], fetch[s].items)
    /\ fetch[s].outcome = "reading" /\ fetch[s].page > 1 /\ fetch[s].tag # NoTag =>
          Vouched(s, edition[s], fetch[s].tag, fetch[s].page - 1, fetch[s].items)

\* The candidates of a source are in the table before its own row is saved.
StoreInv == \A k \in DOMAIN Order :
    phase = "storing" /\ (k < at \/ (k = at /\ upserted)) => fetch[Order[k]].items \subseteq stored

\* NothingHidden speaks of the ETags on record; what makes it last is what the
\* fetches and the half-done store already hold of the tags they carry.
IInv == TypeOK /\ EtagInv /\ FetchInv /\ StoreInv

-----------------------------------------------------------------------------
LEMMA OrderFacts ==
    /\ \A k \in DOMAIN Order : Order[k] \in Sources
    /\ Len(Order) \in Nat \ {0} /\ DOMAIN Order = 1 .. Len(Order)
    /\ 1 \in DOMAIN Order
<1>1. Order \in Seq(Sources) /\ Order # <<>>
  BY OrderAssumption
<1>2. Len(Order) \in Nat /\ DOMAIN Order = 1 .. Len(Order)
  BY <1>1, LenProperties
<1>3. Len(Order) # 0
  BY <1>1, EmptySeq
<1> QED
  BY <1>2, <1>3 DEF Sources

LEMMA NextPlace ==
    ASSUME NEW n \in Nat, NEW k \in 1 .. n
    PROVE  /\ k # n => k + 1 \in 1 .. n
           /\ \A j \in 1 .. n : j < k + 1 => j < k \/ j = k
OBVIOUS

LEMMA EditionFacts ==
    ASSUME NEW s \in Sources, NEW n \in DOMAIN Editions[s]
    PROVE  /\ Editions[s][n].pages \in Seq(SUBSET Items)
           /\ Editions[s][n].tag \in Tags
           /\ n \in Nat \ {0}
           /\ DOMAIN Editions[s] = 1 .. Len(Editions[s]) /\ Len(Editions[s]) \in Nat
           /\ MaxPages[s] \in Nat \ {0}
<1>1. /\ Editions[s] \in Seq([tag : Tags, pages : Seq(SUBSET Items), malformed : SUBSET Nat])
      /\ MaxPages[s] \in Nat \ {0}
  BY EditionAssumption
<1>2. DOMAIN Editions[s] = 1 .. Len(Editions[s]) /\ Len(Editions[s]) \in Nat
  BY <1>1, LenProperties
<1>3. Editions[s][n] \in [tag : Tags, pages : Seq(SUBSET Items), malformed : SUBSET Nat]
  BY <1>1, <1>2, ElementOfSeq
<1> QED
  BY <1>1, <1>2, <1>3

LEMMA PageFacts ==
    ASSUME NEW s \in Sources, NEW n \in DOMAIN Editions[s], NEW p
    PROVE  Page(Editions[s][n], p) \subseteq Items
<1> DEFINE pages == Editions[s][n].pages
<1>1. pages \in Seq(SUBSET Items)
  BY EditionFacts
<1>2. \A k \in DOMAIN pages : pages[k] \in SUBSET Items
  BY <1>1, LenProperties, ElementOfSeq
<1> QED
  BY <1>2 DEF Page

-----------------------------------------------------------------------------
(* Vouching *)

LEMMA VouchedMore ==
    ASSUME NEW s, NEW e, NEW T, NEW p, NEW X, NEW Y, X \subseteq Y, Vouched(s, e, T, p, X)
    PROVE  Vouched(s, e, T, p, Y)
BY DEF Vouched, Holds

\* A new edition has a new tag, or an old one with the page 1 that came with it.
LEMMA VouchedNext ==
    ASSUME NEW s \in Sources, NEW e \in Nat, e + 1 \in DOMAIN Editions[s],
           NEW T, T # NoTag, NEW p, NEW X, Vouched(s, e, T, p, X)
    PROVE  Vouched(s, e + 1, T, p, X)
<1>1. \A n \in 1 .. e + 1 : n \in DOMAIN Editions[s]
  BY EditionFacts
<1>2. PICK m \in 1 .. e : Editions[s][m].tag = T
  BY DEF Vouched
<1>3. m \in 1 .. e + 1 /\ m \in 1 .. (e + 1) - 1
  OBVIOUS
<1>4. ASSUME NEW n \in 1 .. e + 1, Editions[s][n].tag = T
      PROVE  Page(Editions[s][n], 1) \subseteq X
  <2>1. Page(Editions[s][m], 1) = Page(Editions[s][n], 1)
    BY <1>1, <1>2, <1>3, <1>4, TagAssumption
  <2>2. Page(Editions[s][m], 1) \subseteq X
    BY <1>2 DEF Vouched
  <2> QED
    BY <2>1, <2>2
<1>5. ~(Editions[s][e + 1].tag = T /\ First(s, e + 1))
  BY <1>2, <1>3 DEF First
<1> QED
  BY <1>2, <1>3, <1>4, <1>5 DEF Vouched

\* The first page comes with the tag of the edition it is read from.
LEMMA VouchedFirst ==
    ASSUME NEW s \in Sources, NEW e \in DOMAIN Editions[s], NEW X,
           Page(Editions[s][e], 1) \subseteq X, Editions[s][e].tag # NoTag
    PROVE  Vouched(s, e, Editions[s][e].tag, 1, X)
<1>1. e \in Nat \ {0} /\ \A n \in 1 .. e : n \in DOMAIN Editions[s]
  BY EditionFacts
<1>2. ASSUME NEW n \in 1 .. e, Editions[s][n].tag = Editions[s][e].tag
      PROVE  Page(Editions[s][n], 1) \subseteq X
  BY <1>1, <1>2, TagAssumption
<1>3. Holds(s, e, 1, X)
  BY DEF Holds
<1> QED
  BY <1>1, <1>2, <1>3 DEF Vouched

LEMMA VouchedLater ==
    ASSUME NEW s \in Sources, NEW e \in DOMAIN Editions[s], NEW T, NEW X,
           NEW p \in 2 .. MaxPages[s], Vouched(s, e, T, p - 1, X)
    PROVE  Vouched(s, e, T, p, X \cup Page(Editions[s][e], p))
<1> DEFINE Y == X \cup Page(Editions[s][e], p)
<1>1. ASSUME Editions[s][e].tag = T, First(s, e)
      PROVE  Holds(s, e, p, Y)
  <2>1. Holds(s, e, p - 1, X) /\ p \in Nat
    BY <1>1, EditionFacts DEF Vouched
  <2>2. \A k \in 1 .. p : k = p \/ k \in 1 .. p - 1
    BY <2>1
  <2> QED
    BY <2>1, <2>2 DEF Holds
<1> QED
  BY <1>1 DEF Vouched

\* Past an empty page there is nothing that a fetch reads.
LEMMA VouchedLast ==
    ASSUME NEW s \in Sources, NEW e \in DOMAIN Editions[s], NEW T, NEW X,
           NEW p \in 1 .. MaxPages[s], Vouched(s, e, T, p, X),
           LastPage(s, p, Page(Editions[s][e], p))
    PROVE  Vouched(s, e, T, MaxPages[s], X)
<1>1. MaxPages[s] \in Nat \ {0} /\ p \in Nat \ {0}
  BY EditionFacts
<1>2. CASE p = MaxPages[s]
  BY <1>2
<1>3. CASE p # MaxPages[s] /\ Page(Editions[s][e], p) = {}
  <2>1. ASSUME Editions[s][e].tag = T, First(s, e)
        PROVE  Holds(s, e, MaxPages[s], X)
    <3>1. Holds(s, e, p, X)
      BY <2>1 DEF Vouched
    <3>2. \A k \in 1 .. MaxPages[s] : k \in 1 .. p \/ p \in 1 .. k - 1
      BY <1>1
    <3> QED
      BY <1>3, <3>1, <3>2 DEF Holds
  <2> QED
    BY <2>1 DEF Vouched
<1> QED
  BY <1>2, <1>3 DEF LastPage

-----------------------------------------------------------------------------
LEMMA InitInv == Init => IInv
<1> SUFFICES ASSUME Init PROVE IInv
  OBVIOUS
<1>1. \A s \in Sources : 1 \in DOMAIN Editions[s] /\ MaxPages[s] \in Nat \ {0}
  BY EditionAssumption, EmptySeq, LenProperties
<1>2. TypeOK
  <2>1. /\ etag \in [Sources -> Tags]
        /\ edition \in [Sources -> Nat \ {0}]
        /\ \A s \in Sources : edition[s] \in DOMAIN Editions[s]
    BY <1>1 DEF Init, Tags
  <2>2. fetch \in [Sources -> [page : Nat \ {0}, items : SUBSET Items, tag : Tags,
                               outcome : {"reading", "ok", "notModified", "error"}]]
    BY DEF Init, NoResult, Tags
  <2>3. at \in DOMAIN Order
    BY OrderFacts DEF Init
  <2>4. seen \in [Items -> Nat] /\ confirmed \in [Items -> Nat]
    BY DEF Init
  <2>5. phase \in {"idle", "fetching", "storing"} /\ stored \subseteq Items
    BY DEF Init
  <2>6. upserted \in BOOLEAN
    BY DEF Init
  <2>7. now \in Nat \ {0} /\ crashes \in Nat
    BY DEF Init
  <2> QED
    BY <2>1, <2>2, <2>3, <2>4, <2>5, <2>6, <2>7 DEF TypeOK
<1>3. EtagInv /\ FetchInv /\ StoreInv
  BY <1>1 DEF Init, EtagInv, FetchInv, StoreInv, NoResult
<1> QED
  BY <1>2, <1>3 DEF IInv

\* A step that leaves the editions, the ETags, the fetches and the store alone.
LEMMA QuietInv ==
    ASSUME IInv, TypeOK', UNCHANGED <<edition, etag, fetch, stored>>,
           phase' = "storing" => UNCHANGED <<phase, at, upserted>>
    PROVE  IInv'
<1>1. EtagInv' /\ FetchInv' /\ StoreInv'
  BY DEF IInv, EtagInv, FetchInv, StoreInv
<1> QED
  BY <1>1 DEF IInv

\* A step that throws the results away.
LEMMA ResetInv ==
    ASSUME IInv, TypeOK', UNCHANGED <<edition, etag, stored>>, phase' # "storing",
           fetch' = [s \in Sources |-> NoResult]
    PROVE  IInv'
<1>1. \A s \in Sources : MaxPages[s] \in Nat \ {0}
  BY EditionAssumption
<1>2. EtagInv' /\ FetchInv' /\ StoreInv'
  BY <1>1 DEF IInv, EtagInv, FetchInv, StoreInv, NoResult
<1> QED
  BY <1>2 DEF IInv

LEMMA GetPageInv ==
    ASSUME IInv, NEW s \in Sources, NEW p \in 1 .. MaxPages[s], GetPage(s, p)
    PROVE  IInv'
<1> DEFINE e == edition[s]
           body == Page(Current(s), p)
           r == fetch[s]
           last == LastPage(s, p, body)
           result == [page |-> p + 1, items |-> r.items \cup body,
                      tag |-> IF p = 1 THEN Current(s).tag ELSE r.tag,
                      outcome |-> IF last THEN "ok" ELSE "reading"]
<1>1. TypeOK /\ EtagInv /\ FetchInv /\ StoreInv
  BY DEF IInv
<1>2. e \in DOMAIN Editions[s] /\ Current(s) = Editions[s][e] /\ Current(s).tag \in Tags
      /\ MaxPages[s] \in Nat \ {0} /\ p \in Nat \ {0} /\ body \subseteq Items
      /\ body = Page(Editions[s][e], p)
  <2>1. e \in DOMAIN Editions[s] /\ Current(s) = Editions[s][e]
    BY <1>1 DEF TypeOK, Current
  <2>2. Editions[s][e].tag \in Tags /\ MaxPages[s] \in Nat \ {0}
    BY <2>1, EditionFacts
  <2>3. Page(Editions[s][e], p) \subseteq Items
    BY <2>1, PageFacts
  <2> QED
    BY <2>1, <2>2, <2>3
<1>3. phase = "fetching" /\ r.outcome = "reading" /\ r.page = p
  BY DEF GetPage, Reading
<1>4. /\ fetch' = [fetch EXCEPT ![s] = result]
      /\ UNCHANGED <<edition, seen, etag, phase, at, upserted, now, crashes, stored, confirmed>>
  BY DEF GetPage
<1>5. r \in [page : Nat \ {0}, items : SUBSET Items, tag : Tags,
             outcome : {"reading", "ok", "notModified", "error"}]
  BY <1>1 DEF TypeOK
<1>6. result \in [page : Nat \ {0}, items : SUBSET Items, tag : Tags,
               outcome : {"reading", "ok", "notModified", "error"}]
  BY <1>2, <1>5
<1>7. TypeOK'
  BY <1>1, <1>4, <1>6 DEF TypeOK
<1>8. EtagInv' /\ StoreInv'
  BY <1>1, <1>3, <1>4 DEF EtagInv, StoreInv
<1>9. ASSUME result.tag # NoTag
      PROVE  Vouched(s, e, result.tag, p, result.items)
  <2>1. CASE p = 1
    BY <1>2, <1>9, <2>1, VouchedFirst
  <2>2. CASE p # 1
    <3>1. p \in 2 .. MaxPages[s]
      BY <1>2, <2>2
    <3>2. Vouched(s, e, r.tag, p - 1, r.items)
      BY <1>1, <1>2, <1>3, <1>9, <2>2 DEF FetchInv
    <3> QED
      BY <1>2, <2>2, <3>1, <3>2, VouchedLater
  <2> QED
    BY <2>1, <2>2
<1>10. ASSUME result.tag # NoTag, last
       PROVE  Vouched(s, e, result.tag, MaxPages[s], result.items)
  BY <1>2, <1>9, <1>10, VouchedLast
<1>11. ~last => p + 1 \in 1 .. MaxPages[s]
  BY <1>2 DEF LastPage
<1>12. FetchInv'
  <2> SUFFICES ASSUME NEW u \in Sources
      PROVE  /\ fetch'[u].outcome = "reading" => fetch'[u].page \in 1 .. MaxPages[u]
             /\ fetch'[u].outcome = "ok" /\ fetch'[u].tag # NoTag =>
                   Vouched(u, edition[u], fetch'[u].tag, MaxPages[u], fetch'[u].items)
             /\ fetch'[u].outcome = "reading" /\ fetch'[u].page > 1 /\ fetch'[u].tag # NoTag =>
                   Vouched(u, edition[u], fetch'[u].tag, fetch'[u].page - 1, fetch'[u].items)
    BY <1>4 DEF FetchInv
  <2>1. CASE u # s
    <3>1. fetch'[u] = fetch[u]
      BY <1>4, <2>1
    <3> QED
      BY <1>1, <3>1 DEF FetchInv
  <2>2. CASE u = s
    <3>1. fetch'[u] = result
      BY <1>1, <1>4, <2>2 DEF TypeOK
    <3>2. result.page - 1 = p
      BY <1>2
    <3> QED
      BY <1>9, <1>10, <1>11, <2>2, <3>1, <3>2
  <2> QED
    BY <2>1, <2>2
<1> QED
  BY <1>7, <1>8, <1>12 DEF IInv

LEMMA UpsertInv == ASSUME IInv, Upsert PROVE IInv'
<1>1. TypeOK /\ EtagInv /\ FetchInv /\ StoreInv /\ phase = "storing" /\ ~upserted
  BY DEF IInv, Upsert
<1>2. /\ stored' = stored \cup Unique(at)
      /\ upserted' = TRUE
      /\ UNCHANGED <<edition, etag, phase, fetch, at, now, crashes>>
  BY DEF Upsert, UpsertTo
<1>3. at \in 1 .. Len(Order) /\ Len(Order) \in Nat /\ DOMAIN Order = 1 .. Len(Order)
      /\ Order[at] \in Sources /\ fetch[Order[at]].items \subseteq Items
  BY <1>1, OrderFacts DEF TypeOK
<1>4. fetch[Order[at]].items \subseteq stored'
  <2>1. \A j \in 1 .. at - 1 : fetch[Order[j]].items \subseteq stored
    BY <1>1, <1>3 DEF StoreInv
  <2> QED
    BY <1>2, <2>1 DEF Unique
<1>5. StoreInv'
  BY <1>1, <1>2, <1>3, <1>4 DEF StoreInv
<1>6. EtagInv'
  BY <1>1, <1>2, VouchedMore DEF EtagInv
<1>7. FetchInv'
  BY <1>1, <1>2 DEF FetchInv
<1>8. Unique(at) \subseteq Items
  BY <1>3 DEF Unique
<1>9. seen' \in [Items -> Nat] /\ confirmed' \in [Items -> Nat]
  BY <1>1 DEF Upsert, UpsertTo, TypeOK
<1>10. TypeOK'
  BY <1>1, <1>2, <1>8, <1>9 DEF TypeOK
<1> QED
  BY <1>5, <1>6, <1>7, <1>10 DEF IInv

LEMMA SaveSourceInv == ASSUME IInv, SaveSource PROVE IInv'
<1> DEFINE s == Order[at]
<1>1. TypeOK /\ EtagInv /\ FetchInv /\ StoreInv /\ phase = "storing" /\ upserted
  BY DEF IInv, SaveSource
<1>2. /\ etag' = [etag EXCEPT ![s] = TagAfter(s)]
      /\ \/ at = Len(Order) /\ phase' = "idle" /\ at' = 1
         \/ at # Len(Order) /\ phase' = phase /\ at' = at + 1
      /\ upserted' = FALSE
      /\ UNCHANGED <<edition, seen, fetch, now, crashes, stored, confirmed>>
  BY DEF SaveSource, LastSource
<1>3. at \in 1 .. Len(Order) /\ Len(Order) \in Nat \ {0} /\ DOMAIN Order = 1 .. Len(Order)
      /\ s \in Sources
  BY <1>1, OrderFacts DEF TypeOK
<1>4. TagAfter(s) \in Tags
  BY <1>1, <1>3 DEF TypeOK, TagAfter
<1>5. TypeOK'
  <2>1. at' \in DOMAIN Order /\ phase' \in {"idle", "fetching", "storing"}
    <3>1. CASE at = Len(Order)
      BY <1>2, <1>3, <3>1, OrderFacts
    <3>2. CASE at # Len(Order)
      <4>1. at + 1 \in 1 .. Len(Order)
        BY <1>3, <3>2, NextPlace
      <4> QED
        BY <1>1, <1>2, <1>3, <3>2, <4>1
    <3> QED
      BY <3>1, <3>2
  <2>2. etag' \in [Sources -> Tags]
    BY <1>1, <1>2, <1>4 DEF TypeOK
  <2>3. UNCHANGED <<edition, seen, fetch, now, crashes, stored, confirmed>> /\ upserted' \in BOOLEAN
    BY <1>2
  <2> QED
    BY <1>1, <2>1, <2>2, <2>3 DEF TypeOK
<1>6. fetch[s].items \subseteq stored
  BY <1>1, <1>3 DEF StoreInv
<1>7. TagAfter(s) # NoTag => Vouched(s, edition[s], TagAfter(s), MaxPages[s], stored)
  BY <1>1, <1>3, <1>6, VouchedMore DEF TagAfter, FetchInv, EtagInv
<1>8. EtagInv'
  <2> SUFFICES ASSUME NEW u \in Sources, etag'[u] # NoTag
               PROVE  Vouched(u, edition[u], etag'[u], MaxPages[u], stored)
    BY <1>2 DEF EtagInv
  <2>1. etag'[u] = IF u = s THEN TagAfter(s) ELSE etag[u]
    BY <1>1, <1>2 DEF TypeOK
  <2> QED
    BY <1>1, <1>7, <2>1 DEF EtagInv
<1>9. FetchInv'
  BY <1>1, <1>2 DEF FetchInv
<1>10. StoreInv'
  <2> SUFFICES ASSUME NEW k \in DOMAIN Order, phase' = "storing", k < at'
               PROVE  fetch[Order[k]].items \subseteq stored
    BY <1>2 DEF StoreInv
  <2>1. at' = at + 1 /\ k \in 1 .. Len(Order)
    BY <1>2, <1>3
  <2>2. k < at \/ k = at
    BY <1>3, <2>1, NextPlace
  <2> QED
    BY <1>1, <2>2 DEF StoreInv
<1> QED
  BY <1>5, <1>8, <1>9, <1>10 DEF IInv

LEMMA PublishInv ==
    ASSUME IInv, NEW s \in Sources, Publish(s)
    PROVE  IInv'
<1>1. TypeOK /\ EtagInv /\ FetchInv /\ StoreInv
  BY DEF IInv
<1>2. /\ edition[s] < Len(Editions[s])
      /\ edition' = [edition EXCEPT ![s] = edition[s] + 1]
      /\ UNCHANGED <<seen, etag, phase, fetch, at, upserted, now, crashes, stored, confirmed>>
  BY DEF Publish
<1>3. edition[s] \in Nat \ {0} /\ edition[s] + 1 \in DOMAIN Editions[s]
  BY <1>1, <1>2, EditionFacts DEF TypeOK
<1>4. TypeOK'
  BY <1>1, <1>2, <1>3 DEF TypeOK
<1>5. \A u \in Sources : edition'[u] = IF u = s THEN edition[s] + 1 ELSE edition[u]
  BY <1>1, <1>2 DEF TypeOK
<1>6. ASSUME NEW u \in Sources, NEW T, T # NoTag, NEW p, NEW X,
             Vouched(u, edition[u], T, p, X)
      PROVE  Vouched(u, edition'[u], T, p, X)
  BY <1>3, <1>5, <1>6, VouchedNext
<1>7. EtagInv'
  BY <1>1, <1>2, <1>6 DEF EtagInv
<1>8. FetchInv'
  BY <1>1, <1>2, <1>6 DEF FetchInv
<1>9. StoreInv'
  BY <1>1, <1>2 DEF StoreInv
<1> QED
  BY <1>4, <1>7, <1>8, <1>9 DEF IInv

LEMMA NextInv == IInv /\ [Next]_vars => IInv'
<1> SUFFICES ASSUME IInv, [Next]_vars PROVE IInv'
  OBVIOUS
<1>1. TypeOK /\ \A s \in Sources : MaxPages[s] \in Nat \ {0}
  BY EditionAssumption DEF IInv
<1>2. \A s \in Sources : NoResult \in [page : Nat \ {0}, items : SUBSET Items, tag : Tags,
                                       outcome : {"reading", "ok", "notModified", "error"}]
  BY DEF NoResult, Tags
<1>3. CASE StartScrape
  <2>1. TypeOK'
    BY <1>1, <1>2, <1>3 DEF StartScrape, TypeOK
  <2> QED
    BY <1>3, <2>1, ResetInv DEF StartScrape
<1>4. CASE StartStore
  <2>1. TypeOK'
    <3>1. at' \in DOMAIN Order
      BY <1>4, OrderFacts DEF StartStore
    <3>2. /\ UNCHANGED <<edition, seen, etag, fetch, now, crashes, stored, confirmed>>
          /\ upserted' \in BOOLEAN /\ phase' \in {"idle", "fetching", "storing"}
      BY <1>4 DEF StartStore
    <3> QED
      BY <1>1, <3>1, <3>2 DEF TypeOK
  <2>2. EtagInv' /\ FetchInv'
    BY <1>4 DEF StartStore, IInv, EtagInv, FetchInv
  <2>3. StoreInv'
    BY <1>4, OrderFacts DEF StartStore, StoreInv
  <2> QED
    BY <2>1, <2>2, <2>3 DEF IInv
<1>5. ASSUME NEW s \in Sources, NotModified(s) \/ FailPage(s)
      PROVE  IInv'
  <2>1. /\ phase = "fetching" /\ phase' = phase /\ UNCHANGED <<edition, seen, etag, at, upserted, now, crashes, stored>>
        /\ \E o \in {"notModified", "error"} : fetch' = [fetch EXCEPT ![s].outcome = o]
    BY <1>5 DEF NotModified, FailPage, Reading
  <2>2. TypeOK'
    <3>1. fetch' \in [Sources -> [page : Nat \ {0}, items : SUBSET Items, tag : Tags,
                                  outcome : {"reading", "ok", "notModified", "error"}]]
      <4> PICK o \in {"notModified", "error"} : fetch' = [fetch EXCEPT ![s].outcome = o]
        BY <2>1
      <4>1. fetch[s] \in [page : Nat \ {0}, items : SUBSET Items, tag : Tags,
                          outcome : {"reading", "ok", "notModified", "error"}]
        BY <1>1 DEF TypeOK
      <4>2. [fetch[s] EXCEPT !.outcome = o] \in
               [page : Nat \ {0}, items : SUBSET Items, tag : Tags,
                outcome : {"reading", "ok", "notModified", "error"}]
        BY <4>1
      <4>3. fetch' = [fetch EXCEPT ![s] = [fetch[s] EXCEPT !.outcome = o]]
        BY <1>1 DEF TypeOK
      <4> QED
        BY <1>1, <4>2, <4>3 DEF TypeOK
    <3>2. now' = now
      BY <1>5 DEF NotModified, FailPage
    <3>3. confirmed' \in [Items -> Nat]
      BY <1>1, <1>5 DEF NotModified, FailPage, TypeOK
    <3> QED
      BY <1>1, <2>1, <3>1, <3>2, <3>3 DEF TypeOK
  <2>3. \A u \in Sources : \/ fetch'[u] = fetch[u]
                           \/ fetch'[u].outcome \in {"notModified", "error"}
    BY <1>1, <2>1 DEF TypeOK
  <2>4. EtagInv' /\ FetchInv' /\ StoreInv'
    BY <2>1, <2>3 DEF IInv, EtagInv, FetchInv, StoreInv
  <2> QED
    BY <2>2, <2>4 DEF IInv
<1>6. ASSUME NEW s \in Sources, ParseRaises(s)
      PROVE  IInv'
  <2>1. TypeOK'
    BY <1>1, <1>2, <1>6 DEF ParseRaises, TypeOK
  <2> QED
    BY <1>6, <2>1, ResetInv DEF ParseRaises
<1>7. CASE Prune
  <2>1. seen' \in [Items -> Nat]
    BY <1>1, <1>7 DEF Prune, TypeOK
  <2>2. TypeOK'
    BY <1>1, <1>7, <2>1 DEF Prune, TypeOK
  <2> QED
    BY <1>7, <2>2, QuietInv DEF Prune
<1>8. CASE Crash
  <2>1. TypeOK'
    <3>1. at' \in DOMAIN Order
      BY <1>8, OrderFacts DEF Crash
    <3>2. fetch' \in [Sources -> [page : Nat \ {0}, items : SUBSET Items, tag : Tags,
                                  outcome : {"reading", "ok", "notModified", "error"}]]
      BY <1>2, <1>8 DEF Crash
    <3>3. /\ UNCHANGED <<edition, seen, etag, now, stored, confirmed>>
          /\ upserted' \in BOOLEAN /\ phase' \in {"idle", "fetching", "storing"}
      BY <1>8 DEF Crash
    <3>4. crashes' \in Nat
      BY <1>1, <1>8 DEF Crash, TypeOK
    <3> QED
      BY <1>1, <3>1, <3>2, <3>3, <3>4 DEF TypeOK
  <2> QED
    BY <1>8, <2>1, ResetInv DEF Crash
<1>9. CASE Tick
  <2>1. TypeOK'
    BY <1>1, <1>9 DEF Tick, TypeOK
  <2> QED
    BY <1>9, <2>1, QuietInv DEF Tick
<1>10. CASE UNCHANGED vars
  <2>1. TypeOK'
    BY <1>1, <1>10 DEF vars, TypeOK
  <2> QED
    BY <1>10, <2>1, QuietInv DEF vars
<1> QED
  BY <1>3, <1>4, <1>5, <1>6, <1>7, <1>8, <1>9, <1>10, GetPageInv, UpsertInv, SaveSourceInv,
     PublishInv DEF Next, Get

LEMMA InvHolds == Spec => []IInv
BY InitInv, NextInv, PTL DEF Spec

-----------------------------------------------------------------------------
\* The state of a scrape has its type through every failure, crash and edition:
\* the store never runs past the last source, whatever their number.
THEOREM ScrapeTypes == Spec => []TypeOK
<1>1. IInv => TypeOK
  BY DEF IInv
<1> QED
  BY <1>1, InvHolds, PTL

\* While the ETag on record is the one a source answers with, page 1 of what it serves
\* has been put in the table, and so have the later pages that a fetch reads while no
\* other edition had that tag, whatever failed or crashed on the way.
THEOREM NothingHiddenHolds == Spec => []NothingHidden
<1>1. IInv => NothingHidden
  <2> SUFFICES ASSUME IInv, NEW s \in Sources, etag[s] # NoTag, etag[s] = Current(s).tag,
                      NEW p \in Covered(s)
               PROVE  Page(Current(s), p) \subseteq stored
    BY DEF NothingHidden
  <2>1. edition[s] \in DOMAIN Editions[s]
    BY DEF IInv, TypeOK
  <2>2. edition[s] \in 1 .. edition[s]
    BY <2>1, EditionFacts
  <2>3. Vouched(s, edition[s], Current(s).tag, MaxPages[s], stored)
    BY DEF IInv, EtagInv
  <2>4. CASE p = 1
    BY <2>2, <2>3, <2>4 DEF Vouched, Current
  <2>5. CASE p # 1
    <3>1. p \in 1 .. MaxPages[s] /\ \A q \in 1 .. p - 1 : Page(Editions[s][edition[s]], q) # {}
      BY DEF Covered, Reached, Current
    <3>2. First(s, edition[s])
      BY <2>5 DEF Covered, NewTag, First, Current
    <3> QED
      BY <2>3, <3>1, <3>2 DEF Vouched, Holds, Current
  <2> QED
    BY <2>4, <2>5
<1> QED
  BY <1>1, InvHolds, PTL

-----------------------------------------------------------------------------
(* With the parsers and the rows of the sources *)

allVars == <<vars, sourceVars>>

\* Every step of Sources is one of Scrape or leaves its state alone.
LEMMA SourcesStep == [SourcesNext]_allVars => [Next]_vars
<1> SUFFICES ASSUME [SourcesNext]_allVars PROVE [Next]_vars
  OBVIOUS
<1>1. CASE Along
  BY <1>1 DEF Along, Next
<1>2. CASE StoreUpsert \/ StoreSave \/ PruneRows \/ CrashStore
  BY <1>2 DEF StoreUpsert, StoreSave, PruneRows, CrashStore, Next
<1>3. CASE UNCHANGED allVars
  BY <1>3 DEF allVars
<1> QED
  BY <1>1, <1>2, <1>3 DEF SourcesNext

LEMMA SourcesImplements == SourcesSpec => Spec
<1>1. SourcesInit => Init
  BY DEF SourcesInit
<1> QED
  BY <1>1, SourcesStep, PTL DEF SourcesSpec, Spec, allVars

LEMMA SourcesTypes == SourcesSpec => []TypeOK
BY SourcesImplements, ScrapeTypes, PTL

\* NothingHidden, with the bodies that the parsers make of the lists.
THEOREM NothingHiddenWithSources == SourcesSpec => []NothingHidden
BY SourcesImplements, NothingHiddenHolds, PTL

\* A row has a source exactly as long as it is in the table.
RowInv ==
    /\ owner \in [Items -> Sources \cup {Nobody}]
    /\ \A i \in Items : owner[i] = Nobody <=> seen[i] = 0
    /\ fetched \in [Sources -> Nat] /\ new \in Nat
    /\ counted \subseteq Sources

LEMMA RowNext == TypeOK /\ RowInv /\ [SourcesNext]_allVars => RowInv'
<1> SUFFICES ASSUME TypeOK, RowInv, [SourcesNext]_allVars PROVE RowInv'
  OBVIOUS
<1>0. Order[at] \in Sources /\ Order[at] # Nobody
  BY OrderFacts, NobodyAssumption DEF TypeOK
<1>1. CASE StoreUpsert
  <2>1. /\ owner' = [i \in Items |-> IF i \in Fresh(at) THEN Order[at] ELSE owner[i]]
        /\ seen' = [i \in Items |-> IF i \in Unique(at) THEN now ELSE seen[i]]
        /\ fetched' = fetched /\ counted' = counted /\ new' = Cardinality(Fresh(at))
    BY <1>1 DEF StoreUpsert, Upsert, UpsertTo
  <2>2. now # 0
    BY DEF TypeOK
  <2>3. \A i \in Items : owner'[i] = Nobody <=> seen'[i] = 0
    BY <1>0, <2>1, <2>2 DEF RowInv, Fresh
  <2>4. owner' \in [Items -> Sources \cup {Nobody}]
    BY <1>0, <2>1 DEF RowInv
  <2>5. Fresh(at) \subseteq Items
    BY <1>0 DEF Fresh, Unique, TypeOK
  <2>6. Cardinality(Fresh(at)) \in Nat
    BY <2>5, ItemsAssumption, FS_Subset, FS_CardinalityType
  <2> QED
    BY <2>1, <2>3, <2>4, <2>6 DEF RowInv
<1>2. CASE StoreSave
  <2>1. CountAfter(Order[at]) \in Nat
    BY <1>0 DEF CountAfter, RowInv
  <2>2. fetched' \in [Sources -> Nat]
    BY <1>2, <2>1 DEF StoreSave, RowInv
  <2>3. /\ owner' = owner /\ seen' = seen /\ new' = 0 /\ counted' \subseteq Sources
    BY <1>2 DEF StoreSave, SaveSource, RowInv
  <2> QED
    BY <2>2, <2>3 DEF RowInv
<1>3. CASE PruneRows
  <2>1. /\ owner' = [i \in Items |-> IF Stale(i) THEN Nobody ELSE owner[i]]
        /\ seen' = [i \in Items |-> IF Stale(i) THEN 0 ELSE seen[i]]
        /\ UNCHANGED <<fetched, new, counted>>
    BY <1>3 DEF PruneRows, Prune
  <2> QED
    BY <2>1 DEF RowInv
<1>4. CASE CrashStore
  BY <1>4 DEF CrashStore, Crash, RowInv
<1>5. CASE Along
  <2>1. seen' = seen /\ UNCHANGED sourceVars
    BY <1>5 DEF Along, StartScrape, StartStore, Tick, Get, NotModified, GetPage, FailPage,
                ParseRaises, Publish
  <2> QED
    BY <2>1 DEF RowInv, sourceVars
<1>6. CASE UNCHANGED allVars
  BY <1>6 DEF allVars, vars, sourceVars, RowInv
<1> QED
  BY <1>1, <1>2, <1>3, <1>4, <1>5, <1>6 DEF SourcesNext

\* The types of the scraper's state, for any sources, lists and failures.
THEOREM SourcesTypesHold == SourcesSpec => []SourcesTypeOK
<1>1. SourcesInit => RowInv
  BY DEF SourcesInit, Init, RowInv
<1>2. TypeOK /\ RowInv => SourcesTypeOK
  BY DEF RowInv, SourcesTypeOK
<1> QED
  BY <1>1, <1>2, RowNext, SourcesTypes, PTL DEF SourcesSpec, allVars

\* The first source in order gets a new row, for any order, lists and failures of
\* the fetches.
THEOREM BestSourceOwnsHolds == SourcesSpec => BestSourceOwns
<1> DEFINE Best == \A i \in Items : \A j, k \in DOMAIN Order :
          owner[i] = Nobody /\ owner'[i] = Order[k] /\ j < k => i \notin fetch[Order[j]].items
<1>1. TypeOK /\ [SourcesNext]_allVars => [Best]_allVars
  <2> SUFFICES ASSUME TypeOK, SourcesNext, NEW i \in Items, NEW j \in DOMAIN Order,
                      NEW k \in DOMAIN Order,
                      owner[i] = Nobody, owner'[i] = Order[k], j < k
               PROVE  i \notin fetch[Order[j]].items
    OBVIOUS
  <2>1. owner' # owner
    BY OrderFacts, NobodyAssumption
  <2>2. CASE StoreUpsert
    <3>1. at \in DOMAIN Order
      BY DEF TypeOK
    <3>2. owner' = [x \in Items |-> IF x \in Fresh(at) THEN Order[at] ELSE owner[x]]
      BY <2>2 DEF StoreUpsert
    <3>3. i \in Fresh(at) /\ Order[k] = Order[at]
      BY <3>2, OrderFacts, NobodyAssumption
    <3>4. k = at
      BY <3>1, <3>3, OrderAssumption
    <3>5. j \in 1 .. at - 1
      BY <3>1, <3>4, OrderFacts
    <3> QED
      BY <3>3, <3>5 DEF Fresh, Unique
  <2>3. CASE PruneRows
    BY <2>3, OrderFacts, NobodyAssumption DEF PruneRows
  <2>4. CASE Along \/ StoreSave \/ CrashStore
    BY <2>1, <2>4 DEF Along, StoreSave, CrashStore, sourceVars
  <2> QED
    BY <2>2, <2>3, <2>4 DEF SourcesNext
<1> QED
  BY <1>1, SourcesTypes, PTL DEF SourcesSpec, BestSourceOwns, allVars

-----------------------------------------------------------------------------
(* The totals of the sources *)

Owned(s) == {i \in Items : owner[i] = s}

Pending(s) == IF upserted /\ Order[at] = s THEN new ELSE 0

\* What is pending is so only while the store is under way.
CountInv ==
    /\ upserted \in BOOLEAN /\ (upserted => phase = "storing")
    /\ fetched \in [Sources -> Nat] /\ new \in Nat
    /\ counted \subseteq Sources
    /\ \A s \in counted : Cardinality(Owned(s)) <= fetched[s] + Pending(s)

LEMMA OwnedFinite == \A s : IsFiniteSet(Owned(s)) /\ Cardinality(Owned(s)) \in Nat
BY ItemsAssumption, FS_Subset, FS_CardinalityType DEF Owned

LEMMA OwnedPrime == \A s : IsFiniteSet(Owned(s)') /\ Cardinality(Owned(s)') \in Nat
BY ItemsAssumption, FS_Subset, FS_CardinalityType DEF Owned

LEMMA CountInit == SourcesInit => CountInv
<1> SUFFICES ASSUME SourcesInit PROVE CountInv
  OBVIOUS
<1>1. \A s \in Sources : Owned(s) = {}
  BY NobodyAssumption DEF SourcesInit, Owned
<1>2. \A s \in Sources : Cardinality(Owned(s)) = 0
  BY <1>1, FS_EmptySet
<1>3. \A s \in Sources : Pending(s) = 0 /\ fetched[s] = 0
  BY DEF SourcesInit, Init, Pending
<1>4. upserted = FALSE /\ fetched \in [Sources -> Nat] /\ new \in Nat /\ counted = Sources
  BY DEF SourcesInit, Init
<1>5. ASSUME NEW s \in counted PROVE Cardinality(Owned(s)) <= fetched[s] + Pending(s)
  BY <1>2, <1>3, <1>4
<1> QED
  BY <1>4, <1>5 DEF CountInv

LEMMA UpsertCounts == TypeOK /\ CountInv /\ StoreUpsert => CountInv'
<1> SUFFICES ASSUME TypeOK, CountInv, StoreUpsert PROVE CountInv'
  OBVIOUS
<1>1. /\ ~upserted /\ upserted' = TRUE /\ at' = at /\ phase' = phase /\ phase = "storing"
      /\ fetched' = fetched /\ counted' = counted /\ new' = Cardinality(Fresh(at))
      /\ owner' = [i \in Items |-> IF i \in Fresh(at) THEN Order[at] ELSE owner[i]]
  BY DEF StoreUpsert, Upsert
<1>2. Fresh(at) \subseteq Items
  <2>1. fetch[Order[at]].items \subseteq Items
    BY OrderFacts DEF TypeOK
  <2> QED
    BY <2>1 DEF Fresh, Unique
<1>3. IsFiniteSet(Fresh(at)) /\ Cardinality(Fresh(at)) \in Nat
  BY <1>2, ItemsAssumption, FS_Subset, FS_CardinalityType
<1>4. ASSUME NEW s \in counted
      PROVE  Cardinality(Owned(s)') <= fetched'[s] + Pending(s)'
  <2>1. Cardinality(Owned(s)) <= fetched[s] /\ fetched[s] \in Nat
    BY <1>1, <1>4 DEF CountInv, Pending
  <2>2. CASE s = Order[at]
    <3>1. Owned(s)' \subseteq Owned(s) \cup Fresh(at)
      BY <1>1 DEF Owned
    <3>2. /\ IsFiniteSet(Owned(s) \cup Fresh(at))
          /\ Cardinality(Owned(s) \cup Fresh(at)) <= Cardinality(Owned(s)) + Cardinality(Fresh(at))
      <4>1. IsFiniteSet(Owned(s) \cap Fresh(at)) /\ Cardinality(Owned(s) \cap Fresh(at)) \in Nat
        BY <1>3, FS_Subset, FS_CardinalityType
      <4>2. /\ IsFiniteSet(Owned(s) \cup Fresh(at))
            /\ Cardinality(Owned(s) \cup Fresh(at)) =
                 Cardinality(Owned(s)) + Cardinality(Fresh(at)) - Cardinality(Owned(s) \cap Fresh(at))
        BY <1>3, OwnedFinite, FS_Union
      <4> QED
        BY <1>3, <4>1, <4>2, OwnedFinite
    <3>3. /\ Cardinality(Owned(s)') <= Cardinality(Owned(s) \cup Fresh(at))
          /\ Cardinality(Owned(s) \cup Fresh(at)) \in Nat
      BY <3>1, <3>2, FS_Subset, FS_CardinalityType
    <3>4. Pending(s)' = Cardinality(Fresh(at))
      BY <1>1, <2>2 DEF Pending
    <3> QED
      BY <1>1, <1>3, <2>1, <3>2, <3>3, <3>4, OwnedFinite, OwnedPrime
  <2>3. CASE s # Order[at]
    <3>1. Owned(s)' \subseteq Owned(s)
      BY <1>1, <2>3 DEF Owned
    <3>2. Cardinality(Owned(s)') <= Cardinality(Owned(s))
      BY <3>1, OwnedFinite, FS_Subset
    <3>3. Pending(s)' = 0
      BY <1>1, <2>3 DEF Pending
    <3> QED
      BY <1>1, <2>1, <3>2, <3>3, OwnedFinite, OwnedPrime
  <2> QED
    BY <2>2, <2>3
<1> QED
  BY <1>1, <1>3, <1>4 DEF CountInv

LEMMA SaveCounts == TypeOK /\ CountInv /\ StoreSave => CountInv'
<1> SUFFICES ASSUME TypeOK, CountInv, StoreSave PROVE CountInv'
  OBVIOUS
<1>1. /\ upserted /\ upserted' = FALSE /\ new' = 0 /\ owner' = owner
      /\ fetched' = [fetched EXCEPT ![Order[at]] = CountAfter(Order[at])]
      /\ counted' = IF fetch[Order[at]].outcome # "ok" /\ new # 0 THEN counted \ {Order[at]}
                                                                   ELSE counted
  BY DEF StoreSave, SaveSource
<1>2. Order[at] \in Sources /\ fetched \in [Sources -> Nat] /\ new \in Nat
  BY OrderFacts DEF TypeOK, CountInv
<1>3. CountAfter(Order[at]) \in Nat
  BY <1>2 DEF CountAfter
<1>4. fetched' \in [Sources -> Nat] /\ counted' \subseteq counted /\ counted \subseteq Sources
  BY <1>1, <1>2, <1>3 DEF CountInv
<1>5. ASSUME NEW s \in counted'
      PROVE  Cardinality(Owned(s)') <= fetched'[s] + Pending(s)'
  <2>1. Cardinality(Owned(s)) <= fetched[s] + Pending(s) /\ s \in Sources
    BY <1>4 DEF CountInv
  <2>2. Owned(s)' = Owned(s) /\ Pending(s)' = 0
    BY <1>1 DEF Owned, Pending
  <2>3. CASE s = Order[at]
    <3>1. fetched'[s] = CountAfter(s) /\ Pending(s) = new
      BY <1>1, <1>2, <2>3 DEF Pending
    <3>2. fetch[s].outcome = "ok" \/ new = 0
      BY <1>1, <2>3
    <3>3. CountAfter(s) = fetched[s] + new
      BY <1>2, <2>1, <3>2 DEF CountAfter
    <3> QED
      BY <1>2, <2>1, <2>2, <3>1, <3>3
  <2>4. CASE s # Order[at]
    <3>1. fetched'[s] = fetched[s] /\ Pending(s) = 0
      BY <1>1, <1>2, <2>1, <2>4 DEF Pending
    <3> QED
      BY <2>1, <2>2, <3>1
  <2> QED
    BY <2>3, <2>4
<1> QED
  BY <1>1, <1>4, <1>5 DEF CountInv

\* A step that adds no row to a source, and leaves nothing pending uncounted.
LEMMA QuietCounts ==
    ASSUME CountInv, fetched' = fetched, counted' \subseteq counted, new' \in Nat,
           upserted' \in BOOLEAN, upserted' => phase' = "storing",
           \A s \in counted' : Owned(s)' \subseteq Owned(s) /\ Pending(s)' = Pending(s)
    PROVE  CountInv'
<1>1. ASSUME NEW s \in counted'
      PROVE  Cardinality(Owned(s)') <= fetched'[s] + Pending(s)'
  <2>1. Cardinality(Owned(s)') <= Cardinality(Owned(s))
    BY OwnedFinite, FS_Subset
  <2>2. Cardinality(Owned(s)) <= fetched[s] + Pending(s) /\ fetched[s] \in Nat
    BY DEF CountInv
  <2>3. Pending(s) \in Nat
    BY DEF CountInv, Pending
  <2> QED
    BY <2>1, <2>2, <2>3, OwnedFinite, OwnedPrime
<1> QED
  BY <1>1 DEF CountInv

LEMMA CountNext == TypeOK /\ CountInv /\ [SourcesNext]_allVars => CountInv'
<1> SUFFICES ASSUME TypeOK, CountInv, [SourcesNext]_allVars PROVE CountInv'
  OBVIOUS
<1>1. CASE PruneRows
  <2>1. /\ fetched' = fetched /\ counted' = counted /\ new' = new
        /\ upserted' = upserted /\ at' = at /\ phase' = phase
        /\ owner' = [i \in Items |-> IF Stale(i) THEN Nobody ELSE owner[i]]
    BY <1>1 DEF PruneRows, Prune
  <2>2. \A s \in counted' : Owned(s)' \subseteq Owned(s) /\ Pending(s)' = Pending(s)
    BY <2>1, NobodyAssumption DEF Owned, Pending, CountInv
  <2>3. new' \in Nat /\ upserted' \in BOOLEAN /\ (upserted' => phase' = "storing")
    BY <2>1 DEF CountInv
  <2> QED
    BY <2>1, <2>2, <2>3, QuietCounts
<1>2. CASE CrashStore
  <2>1. /\ owner' = owner /\ fetched' = fetched /\ new' = 0 /\ upserted' = FALSE
        /\ counted' = IF upserted /\ new # 0 THEN counted \ {Order[at]} ELSE counted
    BY <1>2 DEF CrashStore, Crash
  <2>2. \A s \in counted' : Owned(s)' \subseteq Owned(s) /\ Pending(s)' = Pending(s)
    BY <2>1 DEF Owned, Pending, CountInv
  <2> QED
    BY <2>1, <2>2, QuietCounts
<1>3. CASE Along
  <2>1. owner' = owner /\ fetched' = fetched /\ new' = new /\ counted' = counted
    BY <1>3 DEF Along, sourceVars
  <2>2. \/ upserted' = upserted /\ at' = at /\ phase' = phase
        \/ upserted = FALSE /\ upserted' = FALSE
    <3>1. CASE StartScrape \/ \E s \in Sources : ParseRaises(s)
      BY <3>1 DEF StartScrape, ParseRaises, Reading, CountInv
    <3>2. CASE StartStore
      BY <3>2 DEF StartStore, CountInv
    <3>3. CASE Tick \/ \E s \in Sources : Publish(s)
      BY <3>3 DEF Tick, Publish
    <3>4. CASE \E s \in Sources : NotModified(s) \/ FailPage(s)
      BY <3>4 DEF NotModified, FailPage
    <3>5. CASE \E s \in Sources : \E p \in 1 .. MaxPages[s] : GetPage(s, p)
      BY <3>5 DEF GetPage
    <3> QED
      BY <1>3, <3>1, <3>2, <3>3, <3>4, <3>5 DEF Along, Get
  <2>3. \A s \in counted' : Owned(s)' \subseteq Owned(s) /\ Pending(s)' = Pending(s)
    BY <2>1, <2>2 DEF Owned, Pending
  <2>4. new' \in Nat /\ upserted' \in BOOLEAN
    BY <2>1, <2>2 DEF CountInv
  <2>5. ASSUME upserted' PROVE phase' = "storing"
    <3>1. upserted' = upserted /\ phase' = phase
      BY <2>2, <2>5
    <3> QED
      BY <2>5, <3>1 DEF CountInv
  <2> QED
    BY <2>1, <2>3, <2>4, <2>5, QuietCounts
<1>4. CASE UNCHANGED allVars
  <2>1. /\ UNCHANGED <<owner, fetched, new, counted, upserted, at, phase>>
    BY <1>4 DEF allVars, vars, sourceVars
  <2>2. \A s \in counted' : Owned(s)' \subseteq Owned(s) /\ Pending(s)' = Pending(s)
    BY <2>1 DEF Owned, Pending
  <2>3. new' \in Nat /\ upserted' \in BOOLEAN /\ (upserted' => phase' = "storing")
    BY <2>1 DEF CountInv
  <2> QED
    BY <2>1, <2>2, <2>3, QuietCounts
<1> QED
  BY <1>1, <1>2, <1>3, <1>4, UpsertCounts, SaveCounts DEF SourcesNext

\* The total of a source covers its rows, for any sources, lists and failures.
THEOREM TotalCoversHolds == SourcesSpec => []TotalCovers
<1>1. CountInv => TotalCovers
  BY DEF CountInv, TotalCovers, Owned, Pending
<1> QED
  BY <1>1, CountInit, CountNext, SourcesTypes, PTL DEF SourcesSpec, allVars

-----------------------------------------------------------------------------
(* What the parsers let through *)

LEMMA ParsePublic ==
    ASSUME NEW source, NEW body, NEW c \in Parse(source, body),
           source.parser \in {"prefixed", "plain", "hideip", "scan", "geonode"}
    PROVE  Reachable(c)
<1>1. ASSUME NEW e, NEW q, Valid(e.host, e.port), c = Candidate(e, q) PROVE Reachable(c)
  <2>1. c.host = e.host /\ c.port = e.port
    BY <1>1 DEF Candidate
  <2>2. e.port \in Ports /\ Kind[e.host] = "public"
    BY <1>1 DEF Valid
  <2> QED
    BY <2>1, <2>2 DEF Reachable
<1>2. CASE source.parser = "prefixed"
  <2>1. \E l, protocol : Valid(l.host, l.port) /\ c = Candidate(l, protocol)
    BY <1>2 DEF Parse, Prefixed, Accepted
  <2> QED
    BY <1>1, <2>1
<1>3. CASE source.parser = "plain"
  <2>1. \E l, protocol : Valid(l.host, l.port) /\ c = Candidate(l, protocol)
    BY <1>3 DEF Parse, Plain, Accepted
  <2> QED
    BY <1>1, <2>1
<1>4. CASE source.parser = "hideip"
  <2>1. \E l, protocol : Valid(l.host, l.port) /\ c = Candidate(l, protocol)
    BY <1>4 DEF Parse, Hideip, Accepted
  <2> QED
    BY <1>1, <2>1
<1>5. CASE source.parser = "scan"
  <2>1. \E entry, protocol : Valid(entry.host, entry.port) /\ c = Candidate(entry, protocol)
    BY <1>5 DEF Parse, Scan
  <2> QED
    BY <1>1, <2>1
<1>6. CASE source.parser = "geonode"
  <2>1. \E entry, protocol : Valid(entry.host, entry.port) /\ c = Candidate(entry, protocol)
    BY <1>6 DEF Parse, Geonode
  <2> QED
    BY <1>1, <2>1
<1> QED
  BY <1>2, <1>3, <1>4, <1>5, <1>6

LEMMA PagePublic ==
    ASSUME TypeOK, NEW s \in Sources, NEW p, NEW c \in Page(Current(s), p)
    PROVE  Reachable(c)
<1>1. edition[s] \in DOMAIN Editions[s] /\ p \in DOMAIN Current(s).pages
  BY DEF TypeOK, Page
<1>2. Current(s) = EditionOf(s, Lists[s][edition[s]])
  BY <1>1, ListAssumption DEF Current
<1>3. c \in Parse(Config[s], Lists[s][edition[s]].pages[p])
  BY <1>1, <1>2 DEF EditionOf, Page
<1> QED
  BY <1>3, ConfigAssumption, ParsePublic

\* scan reads what the line parsers read, in any text whose lines name no protocol
\* at their end.
THEOREM ScanCoversHolds ==
    ASSUME NEW source, NEW Line, NEW text \in Seq(Line),
           \A k \in DOMAIN text : text[k].label = None
    PROVE  ScanCovers(source, text)
<1> DEFINE body == [lines |-> text, objects |-> {}, endless |-> FALSE]
<1>1. Walked(body) = {}
  BY DEF Walked
<1>2. ASSUME NEW k \in DOMAIN text, Accepted(text[k]), text[k].port > 9
      PROVE  Candidate(text[k], Scanned(source, Found(text, k))) \in Scan(source, body)
  BY <1>1, <1>2 DEF Scan, Accepted
<1>3. Normalized(None) = None
  BY DEF Normalized, Alias, None
<1>4. ASSUME NEW k \in DOMAIN text, text[k].user \/ text[k].scheme = None
      PROVE  Scanned(source, Found(text, k)) = Trusted(source, source.hint)
  <2>1. k = 1 \/ k - 1 \in DOMAIN text
    OBVIOUS
  <2>2. Found(text, k) = None
    BY <1>4, <2>1 DEF Found
  <2> QED
    BY <1>3, <2>2 DEF Scanned
<1>5. ASSUME NEW k \in DOMAIN text, ~text[k].user, Normalized(text[k].scheme) # None
      PROVE  Scanned(source, Found(text, k)) \in
                {Trusted(source, Normalized(text[k].scheme)), Trusted(source, source.hint)}
  <2>1. Found(text, k) = text[k].scheme
    BY <1>3, <1>5 DEF Found
  <2> QED
    BY <1>5, <2>1 DEF Scanned, Trusted
<1>6. ASSUME NEW c \in Prefixed(source, text) \cup Plain(source, text) \cup Hideip(source, text)
      PROVE  \E k \in DOMAIN text :
                /\ Accepted(text[k]) /\ c.host = text[k].host /\ c.port = text[k].port
                /\ Scanned(source, Found(text, k)) \in {c.protocol, Trusted(source, source.hint)}
  <2>1. CASE c \in Prefixed(source, text)
    <3>1. PICK k \in DOMAIN text :
             /\ Accepted(text[k]) /\ Normalized(text[k].scheme) # None
             /\ c = Candidate(text[k], Trusted(source, Normalized(text[k].scheme)))
      BY <2>1 DEF Prefixed, Range
    <3>2. /\ c.host = text[k].host /\ c.port = text[k].port
          /\ c.protocol = Trusted(source, Normalized(text[k].scheme))
      BY <3>1 DEF Candidate
    <3> QED
      BY <1>4, <1>5, <3>1, <3>2
  <2>2. CASE c \in Plain(source, text) \cup Hideip(source, text)
    <3>1. PICK k \in DOMAIN text :
             /\ Accepted(text[k]) /\ Bare(text[k])
             /\ c = Candidate(text[k], Trusted(source, source.hint))
      BY <2>2 DEF Plain, Hideip, Range
    <3>2. c.host = text[k].host /\ c.port = text[k].port
      BY <3>1 DEF Candidate
    <3>3. text[k].scheme = None
      BY <3>1 DEF Bare
    <3> QED
      BY <1>4, <3>1, <3>2, <3>3
  <2> QED
    BY <1>6, <2>1, <2>2
<1>7. ASSUME NEW c \in Prefixed(source, text) \cup Plain(source, text) \cup Hideip(source, text),
             c.port > 9
      PROVE  \E d \in Scan(source, body) :
                /\ d.host = c.host /\ d.port = c.port
                /\ d.protocol \in {c.protocol, Trusted(source, source.hint)}
  <2>1. PICK k \in DOMAIN text :
           /\ Accepted(text[k]) /\ c.host = text[k].host /\ c.port = text[k].port
           /\ Scanned(source, Found(text, k)) \in {c.protocol, Trusted(source, source.hint)}
    BY <1>6
  <2> DEFINE d == Candidate(text[k], Scanned(source, Found(text, k)))
  <2>2. d \in Scan(source, body)
    BY <1>2, <1>7, <2>1
  <2>3. d.host = c.host /\ d.port = c.port /\ d.protocol = Scanned(source, Found(text, k))
    BY <2>1 DEF Candidate
  <2> QED
    BY <2>1, <2>2, <2>3
<1> QED
  BY <1>7 DEF ScanCovers

\* What is on its way into the table is public as well.
PublicInv ==
    /\ \A i \in stored : Reachable(i)
    /\ \A s \in Sources : \A i \in fetch[s].items : Reachable(i)

LEMMA PublicNext == TypeOK /\ PublicInv /\ [Next]_vars => PublicInv'
<1> SUFFICES ASSUME TypeOK, PublicInv, [Next]_vars PROVE PublicInv'
  OBVIOUS
<1>0. \A i : Reachable(i)' <=> Reachable(i)
  BY DEF Reachable
<1>1. ASSUME NEW s \in Sources, NEW p \in 1 .. MaxPages[s], GetPage(s, p) PROVE PublicInv'
  <2>1. /\ stored' = stored
        /\ \A r \in Sources \ {s} : fetch'[r].items = fetch[r].items
        /\ fetch'[s].items = fetch[s].items \cup Page(Current(s), p)
    BY <1>1 DEF GetPage, TypeOK
  <2> QED
    BY <1>0, <2>1, PagePublic DEF PublicInv
<1>2. ASSUME NEW s \in Sources, NotModified(s) \/ FailPage(s) PROVE PublicInv'
  <2>1. stored' = stored /\ \A r \in Sources : fetch'[r].items = fetch[r].items
    <3>1. CASE NotModified(s)
      BY <3>1 DEF NotModified, TypeOK
    <3>2. CASE FailPage(s)
      BY <3>2 DEF FailPage, TypeOK
    <3> QED
      BY <1>2, <3>1, <3>2
  <2> QED
    BY <1>0, <2>1 DEF PublicInv
<1>3. CASE StartScrape \/ Crash \/ \E s \in Sources : ParseRaises(s)
  <2>1. stored' = stored /\ \A r \in Sources : fetch'[r].items = {}
    BY <1>3 DEF StartScrape, Crash, ParseRaises, NoResult
  <2> QED
    BY <1>0, <2>1 DEF PublicInv
<1>4. CASE Upsert
  <2>1. fetch' = fetch /\ stored' = stored \cup Unique(at)
    BY <1>4 DEF Upsert, UpsertTo
  <2>2. Unique(at) \subseteq fetch[Order[at]].items /\ Order[at] \in Sources
    BY OrderFacts DEF Unique, TypeOK
  <2> QED
    BY <1>0, <2>1, <2>2 DEF PublicInv
<1>5. CASE \/ StartStore \/ SaveSource \/ Prune \/ Tick \/ UNCHANGED vars
           \/ \E s \in Sources : Publish(s)
  <2>1. stored' = stored /\ fetch' = fetch
    BY <1>5 DEF StartStore, SaveSource, Prune, Tick, Publish, vars
  <2> QED
    BY <1>0, <2>1 DEF PublicInv
<1> QED
  BY <1>1, <1>2, <1>3, <1>4, <1>5 DEF Next, Get

\* Only public addresses enter the table, whatever the lists say.
THEOREM OnlyPublicHolds == SourcesSpec => []OnlyPublic
<1>1. Init => PublicInv
  BY DEF Init, PublicInv, NoResult
<1>2. PublicInv => OnlyPublic
  BY DEF PublicInv, OnlyPublic
<1> QED
  BY <1>1, <1>2, PublicNext, ScrapeTypes, SourcesImplements, PTL DEF Spec

-----------------------------------------------------------------------------
(* Where a protocol comes from *)

\* The body names the protocol of the candidate c for its address, or the source
\* has it as the hint for the whole list.
Names(source, body, c) ==
    \E e \in Listed(body) :
        /\ e.host = c.host /\ e.port = c.port
        /\ \/ \E name \in e.names : Normalized(name) = c.protocol
           \/ source.hint = c.protocol

\* The texts that trusted lists give the scan parser have no protocol at the end
\* of a line and no address in a comment.
PlainTexts ==
    \A s \in Sources : Config[s].trust /\ Config[s].parser = "scan" =>
        \A n \in DOMAIN Lists[s] : \A p \in DOMAIN Lists[s][n].pages :
            \A k \in DOMAIN Lists[s][n].pages[p].lines :
                /\ ~Lists[s][n].pages[p].lines[k].comment
                /\ Lists[s][n].pages[p].lines[k].label = None

\* A line that is no comment names its scheme for its address.
LEMMA LineNames ==
    ASSUME NEW source, NEW body, NEW k \in DOMAIN body.lines, ~body.lines[k].comment,
           NEW c, c.host = body.lines[k].host, c.port = body.lines[k].port,
           Normalized(body.lines[k].scheme) = c.protocol \/ source.hint = c.protocol
    PROVE  Names(source, body, c)
<1> DEFINE l == body.lines[k]
           e == [host |-> l.host, port |-> l.port, names |-> {l.scheme, l.label}]
<1>1. e \in Listed(body)
  BY DEF Listed
<1>2. e.host = c.host /\ e.port = c.port /\ l.scheme \in e.names
  OBVIOUS
<1> HIDE DEF e
<1> QED
  BY <1>1, <1>2 DEF Names

\* An object names its protocols for its address.
LEMMA ObjectNames ==
    ASSUME NEW source, NEW body, NEW o \in body.objects, NEW c,
           c.host = o.host, c.port = o.port,
           \/ \E j \in DOMAIN o.protocols : Normalized(o.protocols[j]) = c.protocol
           \/ source.hint = c.protocol
    PROVE  Names(source, body, c)
<1> DEFINE e == [host |-> o.host, port |-> o.port,
                 names |-> {o.protocols[j] : j \in DOMAIN o.protocols}]
<1>1. e \in Listed(body)
  BY DEF Listed
<1>2. /\ e.host = c.host /\ e.port = c.port
      /\ \A j \in DOMAIN o.protocols : o.protocols[j] \in e.names
  OBVIOUS
<1> HIDE DEF e
<1> QED
  BY <1>1, <1>2 DEF Names

\* A candidate has the address of its entry and the protocol it was given.
LEMMA CandidateFields ==
    ASSUME NEW e, NEW q
    PROVE  /\ Candidate(e, q).host = e.host
           /\ Candidate(e, q).port = e.port
           /\ Candidate(e, q).protocol = q
BY DEF Candidate

\* No scheme is no protocol.
LEMMA NoNames == Normalized(None) = None
BY DEF Normalized, Alias, None

\* The line parsers take the scheme of the line, or the hint of a trusted source.
LEMMA TextNames ==
    ASSUME NEW source, NEW body, NEW c,
           \/ c \in Prefixed(source, body.lines)
           \/ c \in Plain(source, body.lines)
           \/ c \in Hideip(source, body.lines),
           c.protocol # None
    PROVE  source.trust /\ Names(source, body, c)
<1>1. PICK k \in DOMAIN body.lines : \E q \in {Normalized(body.lines[k].scheme), source.hint} :
         Accepted(body.lines[k]) /\ c = Candidate(body.lines[k], Trusted(source, q))
  BY DEF Prefixed, Plain, Hideip, Range
<1>2. PICK q \in {Normalized(body.lines[k].scheme), source.hint} :
         Accepted(body.lines[k]) /\ c = Candidate(body.lines[k], Trusted(source, q))
  BY <1>1
<1>3. /\ c.host = body.lines[k].host /\ c.port = body.lines[k].port
      /\ c.protocol = Trusted(source, q)
  BY <1>2, CandidateFields
<1>4. source.trust /\ c.protocol = q
  BY <1>3 DEF Trusted
<1> QED
  BY <1>2, <1>3, <1>4, LineNames DEF Accepted

\* The geonode parser takes a name of the object, or the hint of a trusted source.
LEMMA GeonodeNames ==
    ASSUME NEW source, NEW body, NEW c \in Geonode(source, body), c.protocol # None
    PROVE  source.trust /\ Names(source, body, c)
<1>1. PICK o \in body.objects :
         \E q \in Offered(source, o) : c = Candidate(o, Trusted(source, q))
  BY DEF Geonode
<1>2. PICK q \in Offered(source, o) : c = Candidate(o, Trusted(source, q))
  BY <1>1
<1>3. c.host = o.host /\ c.port = o.port /\ c.protocol = Trusted(source, q)
  BY <1>2, CandidateFields
<1>4. source.trust /\ c.protocol = q
  BY <1>3 DEF Trusted
<1>5. (\E j \in DOMAIN o.protocols : Normalized(o.protocols[j]) = q) \/ source.hint = q
  BY <1>2 DEF Offered
<1> QED
  BY <1>3, <1>4, <1>5, ObjectNames

\* The scan parser looks back over the line before only where that has a label.
LEMMA ScanNames ==
    ASSUME NEW source, NEW body, NEW c \in Scan(source, body), c.protocol # None,
           body.lines \in Seq(Range(body.lines)),
           \A o \in body.objects : o.protocols \in Seq(Range(o.protocols)),
           source.trust => \A k \in DOMAIN body.lines :
                              ~body.lines[k].comment /\ body.lines[k].label = None
    PROVE  source.trust /\ Names(source, body, c)
<1>1. ASSUME NEW name, c.protocol = Scanned(source, name)
      PROVE  /\ source.trust
             /\ \/ Normalized(name) = c.protocol /\ name # None
                \/ source.hint = c.protocol
  BY <1>1, NoNames DEF Scanned, Trusted
<1>2. CASE Walked(body) # {}
  <2>1. PICK o \in Walked(body) : c = Candidate(o, Scanned(source, FirstName(o)))
    BY <1>2 DEF Scan
  <2>2. o \in body.objects /\ c.host = o.host /\ c.port = o.port
        /\ c.protocol = Scanned(source, FirstName(o))
    BY <2>1, CandidateFields DEF Walked
  <2>3. ASSUME FirstName(o) # None
        PROVE  \E j \in DOMAIN o.protocols : o.protocols[j] = FirstName(o)
    <3>1. o.protocols # <<>> /\ FirstName(o) = Head(o.protocols)
      BY <2>3 DEF FirstName
    <3>2. o.protocols \in Seq(Range(o.protocols))
      BY <2>2
    <3>3. Len(o.protocols) \in Nat \ {0} /\ DOMAIN o.protocols = 1 .. Len(o.protocols)
      BY <3>1, <3>2, EmptySeq, LenProperties
    <3>4. 1 \in DOMAIN o.protocols /\ o.protocols[1] = Head(o.protocols)
      BY <3>2, <3>3
    <3> QED
      BY <3>1, <3>4
  <2> QED
    BY <1>1, <2>2, <2>3, ObjectNames
<1>3. CASE Walked(body) = {}
  <2>1. PICK k \in DOMAIN body.lines :
           c = Candidate(body.lines[k], Scanned(source, Found(body.lines, k)))
    BY <1>3 DEF Scan
  <2>2. c.host = body.lines[k].host /\ c.port = body.lines[k].port
        /\ c.protocol = Scanned(source, Found(body.lines, k))
    BY <2>1, CandidateFields
  <2>3. source.trust
    BY <1>1, <2>2
  <2>4. DOMAIN body.lines = 1 .. Len(body.lines) /\ Len(body.lines) \in Nat
    BY LenProperties
  <2>5. Found(body.lines, k) \in {None, body.lines[k].scheme}
    <3>1. k = 1 \/ k - 1 \in DOMAIN body.lines
      BY <2>4
    <3> QED
      BY <2>3, <3>1 DEF Found
  <2> QED
    BY <1>1, <2>2, <2>3, <2>5, LineNames
<1> QED
  BY <1>2, <1>3

\* Somebody who is trusted has published the protocol of i, if it has one.
Backed(i) ==
    i.protocol # None =>
        \E s \in Sources : Config[s].trust /\ \E body \in Published(s) : Names(Config[s], body, i)

\* What a page of the current edition gives is backed by the body it came from.
LEMMA PageBacked ==
    ASSUME PlainTexts, TypeOK, NEW s \in Sources, NEW p, NEW c \in Page(Current(s), p)
    PROVE  Backed(c)
<1> DEFINE list == Lists[s][edition[s]]
           body == list.pages[p]
<1>1. edition[s] \in DOMAIN Editions[s] /\ p \in DOMAIN Current(s).pages
  BY DEF TypeOK, Page
<1>2. Current(s) = EditionOf(s, list) /\ edition[s] \in DOMAIN Lists[s]
  BY <1>1, ListAssumption DEF Current
<1>3. c \in Parse(Config[s], body) /\ p \in DOMAIN list.pages
  BY <1>1, <1>2 DEF EditionOf, Page
<1>4. /\ body.lines \in Seq(Range(body.lines))
      /\ \A o \in body.objects : o.protocols \in Seq(Range(o.protocols))
  BY <1>2, <1>3, BodyAssumption
<1>5. body \in Published(s)
  <2>1. edition[s] \in 1 .. edition[s]
    BY DEF TypeOK
  <2> QED
    BY <1>3, <2>1 DEF Published
<1>6. Config[s].trust /\ Config[s].parser = "scan" =>
         \A k \in DOMAIN body.lines : ~body.lines[k].comment /\ body.lines[k].label = None
  BY <1>2, <1>3 DEF PlainTexts
<1> HIDE DEF body, list
<1>7. c.protocol # None => Config[s].trust /\ Names(Config[s], body, c)
  <2>1. CASE Config[s].parser \in {"prefixed", "plain", "hideip"}
    BY <1>3, <2>1, TextNames DEF Parse
  <2>2. CASE Config[s].parser = "scan"
    BY <1>3, <1>4, <1>6, <2>2, ScanNames DEF Parse
  <2>3. CASE Config[s].parser = "geonode"
    BY <1>3, <2>3, GeonodeNames DEF Parse
  <2> QED
    BY <2>1, <2>2, <2>3, ConfigAssumption
<1> QED
  BY <1>5, <1>7 DEF Backed

\* What is on its way into the table has its protocol from a list as well.
HonestInv ==
    /\ \A i \in stored : Backed(i)
    /\ \A s \in Sources : \A i \in fetch[s].items : Backed(i)

\* Candidates enter a fetch from a page, and the table from a fetch; what a source
\* has published stays published.
LEMMA HonestNext == PlainTexts /\ TypeOK /\ HonestInv /\ [Next]_vars => HonestInv'
<1> SUFFICES ASSUME PlainTexts, TypeOK, HonestInv, [Next]_vars PROVE HonestInv'
  OBVIOUS
<1>0. ASSUME NEW i, Backed(i) PROVE Backed(i)'
  <2>1. \A s \in Sources : edition'[s] \in Nat /\ edition[s] \in Nat /\ edition'[s] >= edition[s]
    <3>1. CASE \E s \in Sources : Publish(s)
      BY <3>1 DEF TypeOK, Publish
    <3>2. CASE edition' = edition
      BY <3>2 DEF TypeOK
    <3> QED
      BY <3>1, <3>2 DEF Next, Get, vars, StartScrape, NotModified, GetPage, FailPage,
         ParseRaises, StartStore, Upsert, SaveSource, Prune, Crash, Tick
  <2>2. \A s \in Sources : 1 .. edition[s] \subseteq 1 .. edition'[s]
    BY <2>1
  <2>3. \A s \in Sources : Published(s) \subseteq Published(s)'
    BY <2>2 DEF Published
  <2> QED
    BY <1>0, <2>3 DEF Backed
<1>1. ASSUME NEW s \in Sources, NEW p \in 1 .. MaxPages[s], GetPage(s, p) PROVE HonestInv'
  <2>1. /\ stored' = stored
        /\ \A r \in Sources \ {s} : fetch'[r].items = fetch[r].items
        /\ fetch'[s].items = fetch[s].items \cup Page(Current(s), p)
    BY <1>1 DEF GetPage, TypeOK
  <2> QED
    BY <1>0, <2>1, PageBacked DEF HonestInv
<1>2. ASSUME NEW s \in Sources, NotModified(s) \/ FailPage(s) PROVE HonestInv'
  <2>1. stored' = stored /\ \A r \in Sources : fetch'[r].items = fetch[r].items
    <3>1. CASE NotModified(s)
      BY <3>1 DEF NotModified, TypeOK
    <3>2. CASE FailPage(s)
      BY <3>2 DEF FailPage, TypeOK
    <3> QED
      BY <1>2, <3>1, <3>2
  <2> QED
    BY <1>0, <2>1 DEF HonestInv
<1>3. CASE StartScrape \/ Crash \/ \E s \in Sources : ParseRaises(s)
  <2>1. stored' = stored /\ \A r \in Sources : fetch'[r].items = {}
    BY <1>3 DEF StartScrape, Crash, ParseRaises, NoResult
  <2> QED
    BY <1>0, <2>1 DEF HonestInv
<1>4. CASE Upsert
  <2>1. fetch' = fetch /\ stored' = stored \cup Unique(at)
    BY <1>4 DEF Upsert, UpsertTo
  <2>2. Unique(at) \subseteq fetch[Order[at]].items /\ Order[at] \in Sources
    BY OrderFacts DEF Unique, TypeOK
  <2> QED
    BY <1>0, <2>1, <2>2 DEF HonestInv
<1>5. CASE \/ StartStore \/ SaveSource \/ Prune \/ Tick \/ UNCHANGED vars
           \/ \E s \in Sources : Publish(s)
  <2>1. stored' = stored /\ fetch' = fetch
    BY <1>5 DEF StartStore, SaveSource, Prune, Tick, Publish, vars
  <2> QED
    BY <1>0, <2>1 DEF HonestInv
<1> QED
  BY <1>1, <1>2, <1>3, <1>4, <1>5 DEF Next, Get

\* Where no trusted text for the scan parser names a protocol after its address or
\* comments an address out, a label in the table is one that a trusted list gave
\* that address, through pages of several editions, merged sources and crashes.
THEOREM LabelHonestHolds ==
    ASSUME PlainTexts
    PROVE  SourcesSpec => []LabelHonest
<1>1. Init => HonestInv
  BY DEF Init, HonestInv, NoResult
<1>2. HonestInv => LabelHonest
  BY DEF HonestInv, LabelHonest, Backed, Names
<1>3. TypeOK /\ HonestInv /\ [Next]_vars => HonestInv'
  BY HonestNext
<1> QED
  BY <1>1, <1>2, <1>3, ScrapeTypes, SourcesImplements, PTL DEF Spec

=============================================================================
