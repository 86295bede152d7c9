-------------------------------- MODULE Gate --------------------------------
(***************************************************************************)
(* The budgets of checker.py and the sweeps that spend them.  A sweep runs *)
(* one task per proxy under gather_limited's semaphore; a liveness task    *)
(* takes one slot of the process-wide `_gate` for its whole check, and a   *)
(* page load takes a slot of `_heavy` and then one of `_gate`.  A YouTube  *)
(* task loads two pages in sequence, and asks for its slots twice.         *)
(*                                                                         *)
(* An operator whose comment begins with "Mutant" is a faulty version of   *)
(* a definition after it, which a property must tell from the original.    *)
(***************************************************************************)
EXTENDS Integers, Sequences, FiniteSets

CONSTANTS Loops,
          BatchOf,       \* BatchOf[q]: the tasks of a sweep of q, in order
          Loads,         \* Loads[q]: 0 for a liveness sweep, else pages a task loads
          Concurrency,   \* Concurrency[q]: queues.*_concurrency
          MaxInflight,   \* checker.max_inflight
          MaxHeavy       \* checker.max_inflight_heavy

Tasks == UNION {{BatchOf[q][k] : k \in DOMAIN BatchOf[q]} : q \in Loops}

LoopOf(t) == CHOOSE q \in Loops : \E k \in DOMAIN BatchOf[q] : BatchOf[q][k] = t

Heavy(t) == Loads[LoopOf(t)] > 0

ASSUME BudgetAssumption ==
    /\ MaxInflight \in Nat \ {0}
    /\ MaxHeavy \in Nat \ {0}

ASSUME TasksAssumption ==
    /\ IsFiniteSet(Tasks)
    /\ BatchOf \in [Loops -> Seq(Tasks)]
    /\ Loads \in [Loops -> Nat]
    /\ Concurrency \in [Loops -> Nat \ {0}]
    /\ \A q, r \in Loops : \A j \in DOMAIN BatchOf[q], k \in DOMAIN BatchOf[r] :
          BatchOf[q][j] = BatchOf[r][k] => q = r /\ j = k

VARIABLES stage,    \* stage[t]: what the task t holds or waits for
          left,     \* left[t]: the page loads t has still to make
          permit,   \* permit[q]: the semaphore of the sweep of q
          heavy,    \* Checker._heavy
          gate      \* Checker._gate

vars == <<stage, left, permit, heavy, gate>>

Stages == {"off", "permitWait", "permit", "heavyWait", "heavy", "gateWait", "gate", "done"}

-----------------------------------------------------------------------------
(* asyncio.Semaphore: the free slots and the tasks that wait, first come *)
(* first served; a slot given back goes straight to the first of them.   *)

Sem(n) == [free |-> n, queue |-> <<>>]

Open(sem) == sem.free > 0 /\ sem.queue = <<>>

\* Mutant: a task takes a slot whether one is free or not.
AskAnyway(sem, t) == [sem EXCEPT !.free = @ - 1]

\* Mutant: the task that asked last is served first.
AskFront(sem, t) ==
    IF Open(sem) THEN [sem EXCEPT !.free = @ - 1]
    ELSE [sem EXCEPT !.queue = <<t>> \o @]

Ask(sem, t) ==
    IF Open(sem) THEN [sem EXCEPT !.free = @ - 1]
    ELSE [sem EXCEPT !.queue = Append(@, t)]

\* Mutant: a slot is made free and handed on as well.
GiveTwice(sem) ==
    IF sem.queue = <<>> THEN [sem EXCEPT !.free = @ + 1]
    ELSE [sem EXCEPT !.queue = Tail(@), !.free = @ + 1]

Give(sem) ==
    IF sem.queue = <<>> THEN [sem EXCEPT !.free = @ + 1]
    ELSE [sem EXCEPT !.queue = Tail(@)]

\* The task that the slot goes to, if one waits.
HandedTo(sem) == IF sem.queue = <<>> THEN {} ELSE {Head(sem.queue)}

-----------------------------------------------------------------------------
Init ==
    /\ stage = [t \in Tasks |-> "off"]
    /\ left = [t \in Tasks |-> 0]
    /\ permit = [q \in Loops |-> Sem(Concurrency[q])]
    /\ heavy = Sem(MaxHeavy)
    /\ gate = Sem(MaxInflight)

TasksOf(q) == {BatchOf[q][k] : k \in DOMAIN BatchOf[q]}

\* A sweep begins: gather starts its tasks in order, and as many as the
\* concurrency admits get a permit.
Sweep(q) ==
    /\ \A t \in TasksOf(q) : stage[t] = "off"
    /\ LET tasks == BatchOf[q]
           n == IF Len(tasks) < Concurrency[q] THEN Len(tasks) ELSE Concurrency[q]
           first == {tasks[k] : k \in 1 .. n}
       IN /\ permit' = [permit EXCEPT ![q] =
                          [free |-> Concurrency[q] - n, queue |-> SubSeq(tasks, n + 1, Len(tasks))]]
          /\ stage' = [t \in Tasks |-> IF t \in first THEN "permit"
                                       ELSE IF t \in TasksOf(q) THEN "permitWait"
                                       ELSE stage[t]]
    /\ left' = [t \in Tasks |-> IF t \in TasksOf(q) THEN Loads[q] ELSE left[t]]
    /\ UNCHANGED <<heavy, gate>>

\* A page load asks for its share of the heavy budget first.
AskHeavy(t) ==
    /\ stage[t] = "permit"
    /\ Heavy(t)
    /\ heavy' = Ask(heavy, t)
    /\ stage' = [stage EXCEPT ![t] = IF Open(heavy) THEN "heavy" ELSE "heavyWait"]
    /\ UNCHANGED <<left, permit, gate>>

\* Mutant: a page load goes to the gate like any other check.
ReadyForGateAny(t) == stage[t] \in {"permit", "heavy"}

ReadyForGate(t) == stage[t] = IF Heavy(t) THEN "heavy" ELSE "permit"

AskGate(t) ==
    /\ ReadyForGate(t)
    /\ gate' = Ask(gate, t)
    /\ stage' = [stage EXCEPT ![t] = IF Open(gate) THEN "gate" ELSE "gateWait"]
    /\ UNCHANGED <<left, permit, heavy>>

\* A check or a page load answers, fails or times out: its slots go on to the
\* tasks that wait for them, with no await in between.
Release(t, after) ==
    /\ stage[t] = "gate"
    /\ gate' = Give(gate)
    /\ heavy' = IF Heavy(t) THEN Give(heavy) ELSE heavy
    /\ stage' = [u \in Tasks |->
                    IF u = t THEN after
                    ELSE IF u \in HandedTo(gate) THEN "gate"
                    ELSE IF Heavy(t) /\ u \in HandedTo(heavy) THEN "heavy"
                    ELSE IF after = "done" /\ u \in HandedTo(permit[LoopOf(t)]) THEN "permit"
                    ELSE stage[u]]

\* The first of the two pages of a YouTube check.
FinishPage(t) ==
    /\ left[t] > 1
    /\ Release(t, "permit")
    /\ left' = [left EXCEPT ![t] = @ - 1]
    /\ UNCHANGED permit

FinishTask(t) ==
    /\ left[t] <= 1
    /\ Release(t, "done")
    /\ left' = [left EXCEPT ![t] = 0]
    /\ permit' = [permit EXCEPT ![LoopOf(t)] = Give(@)]

\* gather returns when the last task of the sweep is done.
Return(q) ==
    /\ TasksOf(q) # {}
    /\ \A t \in TasksOf(q) : stage[t] = "done"
    /\ stage' = [t \in Tasks |-> IF t \in TasksOf(q) THEN "off" ELSE stage[t]]
    /\ UNCHANGED <<left, permit, heavy, gate>>

Step(t) == AskHeavy(t) \/ AskGate(t) \/ FinishPage(t) \/ FinishTask(t)

Next == (\E q \in Loops : Sweep(q) \/ Return(q)) \/ (\E t \in Tasks : Step(t))

Spec == Init /\ [][Next]_vars

\* Every request has a timeout, and the event loop runs every task that is
\* ready; whether a loop sweeps again is up to its interval.
FairSpec ==
    /\ Spec
    /\ \A t \in Tasks : WF_vars(Step(t))
    /\ \A q \in Loops : WF_vars(Return(q))

-----------------------------------------------------------------------------
(* Properties *)

InGate  == {t \in Tasks : stage[t] = "gate"}
InHeavy == {t \in Tasks : Heavy(t) /\ stage[t] \in {"heavy", "gateWait", "gate"}}

Queued(sem) == {sem.queue[k] : k \in DOMAIN sem.queue}

TypeOK ==
    /\ stage \in [Tasks -> Stages]
    /\ left \in [Tasks -> Nat]
    /\ permit \in [Loops -> [free : Nat, queue : Seq(Tasks)]]
    /\ heavy \in [free : Nat, queue : Seq(Tasks)]
    /\ gate \in [free : Nat, queue : Seq(Tasks)]

\* The sum over every queue stays within the process-wide budget, and no slot
\* of either budget is ever lost or created, whatever order checks end in.
BudgetKept ==
    /\ Cardinality(InGate) + gate.free = MaxInflight
    /\ Cardinality(InHeavy) + heavy.free = MaxHeavy

\* Page loads "can never hold more than max_inflight_heavy of the total", nor
\* stand before a liveness check in the queue of the gate in greater number.
HeavyShare ==
    Cardinality({t \in InGate \cup Queued(gate) : Heavy(t)}) <= MaxHeavy

\* "Liveness always has the rest": a liveness check waits for the gate only
\* while all the slots that page loads cannot take are at work on liveness.
LivenessHasRest ==
    \A t \in Queued(gate) :
        ~Heavy(t) => Cardinality({u \in InGate : ~Heavy(u)}) >= MaxInflight - MaxHeavy

\* Three semaphores are held at once and none is ever waited for in a circle or
\* passed over for good: every sweep ends, so every loop comes round again.
SweepsEnd ==
    \A q \in Loops :
        (\E t \in TasksOf(q) : stage[t] # "off") ~> (\A t \in TasksOf(q) : stage[t] = "off")

=============================================================================
