--------------------------- MODULE Serving_proofs ---------------------------
(***************************************************************************)
(* What holds of GoogleCheck and Serving for every set of proxies, limit,  *)
(* interval, slice and cooldown.                                           *)
(*                                                                         *)
(* CleanIsVerdict is about the pool; it is inductive with the rows that    *)
(* pools are made of.  SpacedGoogle compares a request with the one before *)
(* it, of which only last_l2_at remains: ProbesLogged says that the stamp  *)
(* is never older than the request.  NoEarlyRepeat needs the table of what *)
(* was served to be right in both directions.                              *)
(***************************************************************************)
EXTENDS Serving, TLAPS

RowIsVerdict == \A p \in Proxies : row[p].clean = verdict[p]

IdleIsEmpty == pc # "probing" => batch = {}

ProbesLogged ==
    \A p \in Proxies \ batch :
        asked[p] # Never => row[p].age # Never /\ row[p].age <= asked[p]

SweepInv == /\ TypeOK
            /\ RowIsVerdict
            /\ CleanIsVerdict
            /\ IdleIsEmpty
            /\ ProbesLogged

ServedTypes ==
    /\ DOMAIN served \subseteq Proxies
    /\ \A p \in DOMAIN served : served[p] \in 0 .. Cooldown
    /\ given \in [Proxies -> 0 .. Cooldown]

ServedIsGiven ==
    /\ \A p \in DOMAIN served : served[p] = given[p]
    /\ \A p \in Proxies : given[p] < Cooldown => p \in DOMAIN served

IInv == SweepInv /\ ServedTypes /\ ServedIsGiven

-----------------------------------------------------------------------------
(* One probe, one tick *)

\* check_l2 says SEARCH_OK of a full page and of nothing else.
LEMMA ClassifyOk ==
    ASSUME NEW page \in Pages
    PROVE  (Classify(page) = "SEARCH_OK") <=> FullPage(page)
<1>1. CASE ~page.answered
  BY <1>1 DEF Classify, FullPage
<1>2. CASE page.answered
  <2>1. PICK a \in Answers : page = [answered |-> TRUE, body |-> a]
    BY <1>2 DEF Pages
  <2>2. /\ a.sorry \in BOOLEAN /\ a.marked \in BOOLEAN /\ a.size \in Sizes
        /\ a = [sorry |-> a.sorry, marked |-> a.marked, size |-> a.size]
    BY DEF Answers
  <2>3. /\ page.answered = TRUE
        /\ page.body = a
    BY <2>1
  <2>4. FullPage(page) <=> ~a.sorry /\ ~a.marked /\ a.size = "whole"
    BY <2>2, <2>3 DEF FullPage
  <2>5. (Classify(page) = "SEARCH_OK") <=> ~a.sorry /\ ~a.marked /\ a.size = "whole"
    BY <2>2, <2>3 DEF Classify, Sizes
  <2> QED
    BY <2>4, <2>5
<1> QED
  BY <1>1, <1>2

\* An age stays an age, and what is younger stays younger.
LEMMA AgedLemma ==
    /\ \A a \in Ages : Aged(a) \in Ages /\ (Aged(a) = Never <=> a = Never)
    /\ \A a, b \in Ages : a # Never /\ b # Never /\ a <= b => Aged(a) <= Aged(b)
  BY IntervalAssumption DEF Ages, Aged, Never

\* A pool made of the rows agrees with the verdicts.
LEMMA PooledAgrees ==
    ASSUME RowIsVerdict, NEW s \in Rankings
    PROVE  \A i \in DOMAIN Pooled(s) : Pooled(s)[i].clean = verdict[Pooled(s)[i].id]
<1>1. \A i \in DOMAIN s : s[i] \in Proxies
  BY DEF Rankings
<1> QED
  BY <1>1 DEF Pooled, RowIsVerdict

-----------------------------------------------------------------------------
(* The sweep *)

LEMMA InitSweepInv ==
    Init => SweepInv
<1> SUFFICES ASSUME Init PROVE SweepInv
  OBVIOUS
<1>1. TypeOK
  BY DEF Init, TypeOK, Row, Ages
<1>2. RowIsVerdict
  BY DEF Init, RowIsVerdict
<1>3. CleanIsVerdict
  BY <1>2, PooledAgrees DEF Init, CleanIsVerdict
<1>4. IdleIsEmpty /\ ProbesLogged
  BY DEF Init, IdleIsEmpty, ProbesLogged
<1> QED
  BY <1>1, <1>2, <1>3, <1>4 DEF SweepInv

LEMMA FetchKeeps ==
    SweepInv /\ FetchDue => SweepInv'
<1> SUFFICES ASSUME SweepInv, FetchDue PROVE SweepInv'
  OBVIOUS
<1> USE DEF SweepInv
<1>0. batch' \subseteq Proxies
  BY DEF FetchDue, FirstOf, Due
<1>1. TypeOK'
  BY <1>0, IntervalAssumption DEF TypeOK, FetchDue, Ages
<1>2. RowIsVerdict' /\ IdleIsEmpty'
  BY DEF RowIsVerdict, IdleIsEmpty, FetchDue
<1>3. CleanIsVerdict'
  BY DEF CleanIsVerdict, FetchDue
<1>4. ProbesLogged'
  BY <1>0 DEF ProbesLogged, IdleIsEmpty, FetchDue, TypeOK
<1> QED
  BY <1>1, <1>2, <1>3, <1>4

LEMMA RecordKeeps ==
    SweepInv /\ Record => SweepInv'
<1> SUFFICES ASSUME SweepInv, Record PROVE SweepInv'
  OBVIOUS
<1> USE DEF SweepInv
<1>1. PICK page \in [batch -> Pages] :
        /\ row' = [p \in Proxies |-> IF p \in batch THEN Recorded(row[p], Classify(page[p]))
                                     ELSE row[p]]
        /\ verdict' = [p \in Proxies |-> IF p \in batch THEN FullPage(page[p])
                                         ELSE verdict[p]]
  BY DEF Record
<1>2. \A r \in Row : \A status :
        /\ Recorded(r, status) \in Row
        /\ Recorded(r, status).clean = (status = "SEARCH_OK")
        /\ Recorded(r, status).age = 0
  <2> SUFFICES ASSUME NEW r \in Row, NEW status
               PROVE  /\ Recorded(r, status) \in Row
                      /\ Recorded(r, status).clean = (status = "SEARCH_OK")
                      /\ Recorded(r, status).age = 0
    OBVIOUS
  <2>1. 0 \in Ages
    BY IntervalAssumption DEF Ages
  <2>2. ASSUME NEW ok \in BOOLEAN
        PROVE  /\ [r EXCEPT !.clean = ok, !.age = 0] \in Row
               /\ [r EXCEPT !.clean = ok, !.age = 0].clean = ok
               /\ [r EXCEPT !.clean = ok, !.age = 0].age = 0
    BY <2>1 DEF Row
  <2>3. (status = "SEARCH_OK") \in BOOLEAN
    OBVIOUS
  <2> QED
    BY <2>2, <2>3, Zenon DEF Recorded
<1>3. \A p \in Proxies : row[p] \in Row
  BY DEF TypeOK
<1>4. \A p \in batch : FullPage(page[p]) \in BOOLEAN
  BY DEF FullPage, Pages
<1>5. TypeOK'
  <2>1. row' \in [Proxies -> Row]
    BY <1>1, <1>2, <1>3
  <2>2. verdict' \in [Proxies -> BOOLEAN]
    BY <1>1, <1>4 DEF TypeOK
  <2> QED
    BY <2>1, <2>2 DEF TypeOK, Record
<1>6. RowIsVerdict'
  <2> SUFFICES ASSUME NEW p \in Proxies PROVE row'[p].clean = verdict'[p]
    BY DEF RowIsVerdict
  <2>1. CASE p \in batch
    <3>1. row'[p].clean = (Classify(page[p]) = "SEARCH_OK")
      BY <1>1, <1>2, <1>3, <2>1
    <3>2. verdict'[p] = FullPage(page[p])
      BY <1>1, <2>1
    <3>3. (Classify(page[p]) = "SEARCH_OK") <=> FullPage(page[p])
      BY <2>1, ClassifyOk
    <3> QED
      BY <3>1, <3>2, <3>3, <1>4, <2>1, Zenon
  <2>2. CASE p \notin batch
    BY <1>1, <2>2 DEF RowIsVerdict
  <2> QED
    BY <2>1, <2>2
<1>7. CleanIsVerdict' /\ IdleIsEmpty'
  BY DEF CleanIsVerdict, IdleIsEmpty, Record
<1>8. ProbesLogged'
  <2> SUFFICES ASSUME NEW p \in Proxies, asked'[p] # Never
               PROVE  row'[p].age # Never /\ row'[p].age <= asked'[p]
    BY DEF ProbesLogged
  <2>0. asked' = asked /\ asked[p] \in Ages
    BY DEF Record, TypeOK
  <2>1. CASE p \in batch
    <3>1. row'[p].age = 0
      BY <1>1, <1>2, <1>3, <2>1
    <3> QED
      BY <3>1, <2>0, IntervalAssumption DEF Ages, Never
  <2>2. CASE p \notin batch
    BY <1>1, <2>0, <2>2 DEF ProbesLogged
  <2> QED
    BY <2>1, <2>2
<1> QED
  BY <1>5, <1>6, <1>7, <1>8

\* The three places that rebuild the pool.
LEMMA RebuildKeeps ==
    SweepInv /\ (Rebuild \/ RebuildElsewhere \/ Restart) => SweepInv'
<1> SUFFICES ASSUME SweepInv, Rebuild \/ RebuildElsewhere \/ Restart PROVE SweepInv'
  OBVIOUS
<1> USE DEF SweepInv
<1>1. PICK s \in Rankings : pool' = Pooled(s)
  BY DEF Rebuild, RebuildElsewhere, Restart
<1>2. UNCHANGED <<row, verdict>>
  BY DEF Rebuild, RebuildElsewhere, Restart
<1>3. TypeOK'
  BY DEF TypeOK, Rebuild, RebuildElsewhere, Restart, Ages
<1>4. RowIsVerdict'
  BY <1>2 DEF RowIsVerdict
<1>5. CleanIsVerdict'
  BY <1>1, <1>2, PooledAgrees DEF CleanIsVerdict
<1>6. IdleIsEmpty'
  BY DEF IdleIsEmpty, Rebuild, RebuildElsewhere, Restart
<1>7. ProbesLogged'
  BY DEF ProbesLogged, Rebuild, RebuildElsewhere, Restart
<1> QED
  BY <1>3, <1>4, <1>5, <1>6, <1>7

LEMMA LivenessKeeps ==
    ASSUME NEW p \in Proxies, SweepInv, Liveness(p)
    PROVE  SweepInv'
<1> USE DEF SweepInv
<1>1. \A q \in Proxies : /\ row'[q] \in Row
                         /\ row'[q].clean = row[q].clean
                         /\ row'[q].age = row[q].age
  BY DEF TypeOK, Liveness, Row
<1>2. TypeOK'
  BY <1>1 DEF TypeOK, Liveness
<1>3. RowIsVerdict' /\ CleanIsVerdict' /\ IdleIsEmpty'
  BY <1>1 DEF RowIsVerdict, CleanIsVerdict, IdleIsEmpty, Liveness
<1>4. ProbesLogged'
  BY <1>1 DEF ProbesLogged, Liveness
<1> QED
  BY <1>2, <1>3, <1>4

LEMMA TickKeeps ==
    SweepInv /\ Tick => SweepInv'
<1> SUFFICES ASSUME SweepInv, Tick PROVE SweepInv'
  OBVIOUS
<1> USE DEF SweepInv
<1>0. \A q \in Proxies : row[q] \in Row /\ row[q].age \in Ages /\ asked[q] \in Ages
  BY DEF TypeOK, Row
<1>1. \A q \in Proxies : /\ row'[q] \in Row
                         /\ row'[q].clean = row[q].clean
                         /\ row'[q].age = Aged(row[q].age)
                         /\ asked'[q] = Aged(asked[q])
  BY <1>0, AgedLemma DEF Tick, Row
<1>2. TypeOK'
  BY <1>0, <1>1, AgedLemma DEF TypeOK, Tick
<1>3. RowIsVerdict' /\ CleanIsVerdict' /\ IdleIsEmpty'
  BY <1>1 DEF RowIsVerdict, CleanIsVerdict, IdleIsEmpty, Tick
<1>4. ProbesLogged'
  <2> SUFFICES ASSUME NEW q \in Proxies \ batch, asked'[q] # Never
               PROVE  row'[q].age # Never /\ row'[q].age <= asked'[q]
    BY DEF ProbesLogged, Tick
  <2>1. asked[q] # Never
    BY <1>0, <1>1, AgedLemma
  <2>2. row[q].age # Never /\ row[q].age <= asked[q]
    BY <2>1 DEF ProbesLogged
  <2> QED
    BY <1>0, <1>1, <2>1, <2>2, AgedLemma
<1> QED
  BY <1>2, <1>3, <1>4

LEMMA NextSweepInv ==
    SweepInv /\ [Next]_vars => SweepInv'
<1> SUFFICES ASSUME SweepInv, [Next]_vars PROVE SweepInv'
  OBVIOUS
<1>1. CASE Sweep \/ RebuildElsewhere \/ Restart
  BY <1>1, FetchKeeps, RecordKeeps, RebuildKeeps DEF Sweep
<1>2. CASE Tick
  BY <1>2, TickKeeps
<1>3. CASE \E p \in Proxies : Liveness(p)
  BY <1>3, LivenessKeeps
<1>4. CASE UNCHANGED vars
  BY <1>4 DEF vars, SweepInv, TypeOK, RowIsVerdict, CleanIsVerdict, IdleIsEmpty, ProbesLogged
<1> QED
  BY <1>1, <1>2, <1>3, <1>4 DEF Next

-----------------------------------------------------------------------------
(* What is served *)

\* Seen from the sweep, a step of the whole is one of its own or none.
LEMMA StepProjects ==
    [ServingNext]_servingVars => [Next]_vars
  BY DEF ServingNext, servingVars, Pick, Trim, ServingTick, ServingRestart, Elsewhere, Next

LEMMA InitServed ==
    ServingInit => ServedTypes /\ ServedIsGiven
  BY CooldownAssumption DEF ServingInit, ServedTypes, ServedIsGiven

LEMMA NextServed ==
    ServedTypes /\ ServedIsGiven /\ [ServingNext]_servingVars => ServedTypes' /\ ServedIsGiven'
<1> SUFFICES ASSUME ServedTypes, ServedIsGiven, [ServingNext]_servingVars
             PROVE  ServedTypes' /\ ServedIsGiven'
  OBVIOUS
<1> USE CooldownAssumption
<1>1. ASSUME NEW others \in SUBSET Proxies, NEW cleanOnly \in BOOLEAN, NEW p \in Proxies,
             Pick(others, cleanOnly, p)
      PROVE  ServedTypes' /\ ServedIsGiven'
  <2>1. /\ served' = [q \in DOMAIN served \cup {p} |-> IF q = p THEN 0 ELSE served[q]]
        /\ given' = [given EXCEPT ![p] = 0]
    BY <1>1 DEF Pick
  <2> QED
    BY <2>1 DEF ServedTypes, ServedIsGiven
<1>2. CASE Trim
  BY <1>2 DEF Trim, Kept, ServedTypes, ServedIsGiven
<1>3. CASE ServingTick
  <2>1. /\ served' = [p \in DOMAIN served |-> Older(served[p])]
        /\ given' = [p \in Proxies |-> Older(given[p])]
    BY <1>3 DEF ServingTick
  <2>2. \A a \in 0 .. Cooldown : /\ Older(a) \in 0 .. Cooldown
                                 /\ Older(a) < Cooldown => a < Cooldown
    BY DEF Older
  <2> QED
    BY <2>1, <2>2 DEF ServedTypes, ServedIsGiven
<1>4. CASE ServingRestart
  BY <1>4 DEF ServingRestart, ServedTypes, ServedIsGiven
<1>5. CASE UNCHANGED <<served, given>>
  BY <1>5 DEF ServedTypes, ServedIsGiven
<1> QED
  BY <1>1, <1>2, <1>3, <1>4, <1>5 DEF ServingNext, servingVars

-----------------------------------------------------------------------------
(* The theorems *)

LEMMA Invariance ==
    ServingSpec => []IInv
<1>1. ServingInit => IInv
  BY InitSweepInv, InitServed DEF ServingInit, IInv
<1>2. IInv /\ [ServingNext]_servingVars => IInv'
  BY NextSweepInv, NextServed, StepProjects DEF IInv
<1> QED
  BY <1>1, <1>2, PTL DEF ServingSpec

\* The types of the sweep and of what is served.
THEOREM ServingTypes ==
    ServingSpec => []ServingTypeOK
<1>1. IInv => ServingTypeOK
  BY DEF IInv, SweepInv, ServedTypes, ServingTypeOK
<1> QED
  BY <1>1, Invariance, PTL

\* google_clean in the pool is the last verdict on record.
THEOREM CleanIsVerdictHolds ==
    ServingSpec => []CleanIsVerdict
<1>1. IInv => CleanIsVerdict
  BY DEF IInv, SweepInv
<1> QED
  BY <1>1, Invariance, PTL

\* No sweep asks Google through a proxy within the interval of its last request.
THEOREM SpacedGoogleHolds ==
    ServingSpec => SpacedGoogle
<1>1. SweepInv /\ FetchDue => \A p \in batch' : asked[p] = Never \/ asked[p] > MinInterval
  <2> SUFFICES ASSUME SweepInv, FetchDue, NEW p \in batch', asked[p] # Never
               PROVE  asked[p] > MinInterval
    OBVIOUS
  <2>1. p \in Proxies /\ (row[p].age = Never \/ row[p].age > MinInterval)
    BY DEF FetchDue, FirstOf, Due
  <2>2. batch = {}
    BY DEF SweepInv, IdleIsEmpty, FetchDue
  <2>3. row[p].age # Never /\ row[p].age <= asked[p]
    BY <2>1, <2>2 DEF SweepInv, ProbesLogged
  <2>4. row[p].age \in Ages /\ asked[p] \in Ages
    BY <2>1 DEF SweepInv, TypeOK, Row
  <2> QED
    BY <2>1, <2>3, <2>4, IntervalAssumption DEF Ages, Never
<1>2. IInv /\ [ServingNext]_servingVars
        => [FetchDue => \A p \in batch' : asked[p] = Never \/ asked[p] > MinInterval]_vars
  BY <1>1 DEF IInv
<1> QED
  BY <1>2, Invariance, PTL DEF ServingSpec, SpacedGoogle

\* The rotation repeats a proxy early only out of a slice served as a whole.
THEOREM NoEarlyRepeatHolds ==
    ServingSpec => NoEarlyRepeat
<1> DEFINE Repeats ==
      \A others \in SUBSET Proxies, cleanOnly \in BOOLEAN, p \in Proxies :
          Pick(others, cleanOnly, p) /\ given[p] < Cooldown
          => \A q \in Top(Selected(others, cleanOnly)) : given[q] < Cooldown
<1>1. IInv => Repeats
  <2> SUFFICES ASSUME IInv, NEW others \in SUBSET Proxies, NEW cleanOnly \in BOOLEAN,
                      NEW p \in Proxies, Pick(others, cleanOnly, p), given[p] < Cooldown,
                      NEW q \in Top(Selected(others, cleanOnly))
               PROVE  given[q] < Cooldown
    OBVIOUS
  <2> DEFINE top == Top(Selected(others, cleanOnly))
  <2>1. p \in DOMAIN served /\ served[p] < Cooldown
    BY DEF IInv, ServedIsGiven
  <2>2. p \notin Fresh(top)
    BY <2>1, CooldownAssumption DEF Fresh, IInv, ServedTypes
  <2>3. Fresh(top) = {}
    BY <2>2 DEF Pick
  <2>4. q \in DOMAIN served /\ ~(served[q] >= Cooldown)
    BY <2>3 DEF Fresh
  <2> QED
    BY <2>4, CooldownAssumption DEF IInv, ServedTypes, ServedIsGiven
<1>2. IInv /\ [ServingNext]_servingVars => [Repeats]_servingVars
  BY <1>1
<1> QED
  BY <1>2, Invariance, PTL DEF ServingSpec, NoEarlyRepeat

=============================================================================
