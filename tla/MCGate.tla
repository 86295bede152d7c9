------------------------------- MODULE MCGate -------------------------------
(* An instance of Gate: two liveness sweeps that between them can keep the *)
(* gate busy for ever, a YouTube sweep of two page loads a task that admits *)
(* one task at a time, and a sweep of single page loads.                    *)
EXTENDS Gate

CONSTANTS a1, a2, w1, w2, y1, y2, g1

MCBatchOf ==
    [q \in Loops |-> IF q = "hot" THEN <<a1, a2>>
                     ELSE IF q = "warm" THEN <<w1, w2>>
                     ELSE IF q = "youtube" THEN <<y1, y2>> ELSE <<g1>>]

MCLoads ==
    [q \in Loops |-> IF q = "youtube" THEN 2 ELSE IF q = "l2" THEN 1 ELSE 0]

MCConcurrency == [q \in Loops |-> IF q \in {"hot", "warm"} THEN 2 ELSE 1]

=============================================================================
