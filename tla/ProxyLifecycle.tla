--------------------------- MODULE ProxyLifecycle ---------------------------
(***************************************************************************)
(* What the service promises about one (host, port, protocol) triple, with *)
(* no loops, batches, locks or rowids.  A triple is carried by a source,   *)
(* becomes alive by answering a probe and down by failing one; one that    *)
(* has answered is never a mere candidate again, and is forgotten only     *)
(* while it is down.                                                       *)
(***************************************************************************)
CONSTANTS Endpoints, Protocols, Unknown

Labels == Endpoints \X (Protocols \cup {Unknown})

VARIABLE state    \* state[l]: where the triple l stands

Init == state = [l \in Labels |-> "absent"]

\* Sources carry the triples C.
List(C) ==
    state' = [l \in Labels |->
                IF l \in C /\ state[l] = "absent" THEN "candidate" ELSE state[l]]

\* A handshake settles the protocol of a candidate listed without one: the
\* placeholder is gone, and the settled triple is there if it was not yet.
Settle(e, p) ==
    /\ state[<<e, Unknown>>] = "candidate"
    /\ state' = [state EXCEPT
                   ![<<e, Unknown>>] = "absent",
                   ![<<e, p>>] = IF @ = "absent" THEN "candidate" ELSE @]

Answer(l) ==
    /\ l[2] \in Protocols
    /\ state[l] # "absent"
    /\ state' = [state EXCEPT ![l] = "alive"]

Fail(l) ==
    /\ state[l] = "alive"
    /\ state' = [state EXCEPT ![l] = "down"]

Retire(C) ==
    /\ \A l \in C : state[l] \in {"candidate", "down"}
    /\ state' = [l \in Labels |-> IF l \in C THEN "absent" ELSE state[l]]

Next ==
    \/ \E C \in SUBSET Labels : List(C) \/ Retire(C)
    \/ \E e \in Endpoints, p \in Protocols : Settle(e, p)
    \/ \E l \in Labels : Answer(l) \/ Fail(l)

Spec == Init /\ [][Next]_state

=============================================================================
