------------------------------ MODULE Serving ------------------------------
(***************************************************************************)
(* `GET /v1/proxy` over the pool that GoogleCheck keeps: the filters,      *)
(* scheduler.py's pick with its table of what was served lately, and the   *)
(* maintenance that trims it.                                              *)
(***************************************************************************)
EXTENDS GoogleCheck

CONSTANTS TopN,      \* app.rotation_top_n
          Cooldown   \* app.rotation_cooldown_sec, in ticks

ASSUME TopAssumption      == TopN \in Nat \ {0}
ASSUME CooldownAssumption == Cooldown \in Nat

VARIABLES served,  \* _recently_served: the ages of its entries, up to Cooldown
          given    \* history: the age of the last answer with p since boot

servingVars == <<vars, served, given>>

ServingInit ==
    /\ Init
    /\ served = << >>
    /\ given = [p \in Proxies |-> Cooldown]

\* `select`: the entries that pass.  The filters on other columns let some set
\* of proxies through.
Selected(others, cleanOnly) ==
    SelectSeq(pool, LAMBDA e : e.id \in others /\ (cleanOnly => e.clean))

\* The ids of candidates[:top_n].
Top(candidates) == {candidates[i].id : i \in {j \in DOMAIN candidates : j <= TopN}}

Fresh(top) == {p \in top : p \notin DOMAIN served \/ served[p] >= Cooldown}

\* one_proxy: an answer to one request.
Pick(others, cleanOnly, p) ==
    LET top == Top(Selected(others, cleanOnly))
    IN  /\ p \in IF Fresh(top) # {} THEN Fresh(top) ELSE top
        /\ served' = [q \in DOMAIN served \cup {p} |-> IF q = p THEN 0 ELSE served[q]]
        /\ given' = [given EXCEPT ![p] = 0]
        /\ UNCHANGED vars

\* Mutant: the trim forgets an entry in its last tick.
KeptLess == {p \in DOMAIN served : served[p] + 1 < Cooldown}

Kept == {p \in DOMAIN served : served[p] < Cooldown}

\* The last lines of _maintenance_once.
Trim ==
    /\ served' = [p \in Kept |-> served[p]]
    /\ UNCHANGED <<vars, given>>

Older(age) == IF age < Cooldown THEN age + 1 ELSE age

ServingTick ==
    /\ Tick
    /\ served' = [p \in DOMAIN served |-> Older(served[p])]
    /\ given' = [p \in Proxies |-> Older(given[p])]

ServingRestart ==
    /\ Restart
    /\ served' = << >>
    /\ given' = [p \in Proxies |-> Cooldown]

Elsewhere == Sweep \/ RebuildElsewhere \/ \E p \in Proxies : Liveness(p)

ServingNext ==
    \/ \E others \in SUBSET Proxies, cleanOnly \in BOOLEAN, p \in Proxies :
          Pick(others, cleanOnly, p)
    \/ Trim
    \/ ServingTick
    \/ ServingRestart
    \/ Elsewhere /\ UNCHANGED <<served, given>>

ServingSpec == ServingInit /\ [][ServingNext]_servingVars

\* _loop catches what a sweep raises and comes round again, and a request to
\* Google has a timeout.
FairSpec == ServingSpec /\ WF_vars(Sweep)

-----------------------------------------------------------------------------
(* Properties *)

ServingTypeOK ==
    /\ TypeOK
    /\ DOMAIN served \subseteq Proxies
    /\ \A p \in DOMAIN served : served[p] \in 0 .. Cooldown
    /\ given \in [Proxies -> 0 .. Cooldown]

\* A proxy is given twice within the cooldown only when everything in the top
\* slice of that request was given within it, whatever pool, sweeps and
\* maintenance did between the two answers ("skipping anything served in the
\* last `cooldown_sec`, unless that would leave nothing to return", pick).
NoEarlyRepeat ==
    [][\A others \in SUBSET Proxies, cleanOnly \in BOOLEAN, p \in Proxies :
          Pick(others, cleanOnly, p) /\ given[p] < Cooldown
          => \A q \in Top(Selected(others, cleanOnly)) : given[q] < Cooldown]_servingVars

=============================================================================
