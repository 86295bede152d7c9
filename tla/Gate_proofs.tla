----------------------------- MODULE Gate_proofs -----------------------------
(***************************************************************************)
(* The budgets of Gate, for every set of loops and sweeps, every           *)
(* concurrency and every size of the two budgets.                          *)
(***************************************************************************)
EXTENDS Gate, FiniteSetTheorems, SequenceTheorems, TLAPS

SemType == [free : Nat, queue : Seq(Tasks)]

\* Who waits at a semaphore is in one place of its queue and in the stage w,
\* and nobody waits while a slot is free.
Waiting(s, sem, w) ==
    /\ \A k \in 1 .. Len(sem.queue) : s[sem.queue[k]] = w
    /\ \A j, k \in 1 .. Len(sem.queue) : sem.queue[j] = sem.queue[k] => j = k
    /\ sem.queue # <<>> => sem.free = 0

\* A sweep's own tasks are the only ones that wait for its permits.
PermitsOwned ==
    \A q \in Loops : \A k \in 1 .. Len(permit[q].queue) : permit[q].queue[k] \in TasksOf(q)

Queues ==
    /\ PermitsOwned
    /\ Waiting(stage, gate, "gateWait")
    /\ Waiting(stage, heavy, "heavyWait")
    /\ \A q \in Loops : Waiting(stage, permit[q], "permitWait")

HeavyStages == \A t \in Tasks : stage[t] \in {"heavyWait", "heavy"} => Heavy(t)

\* BudgetKept is not inductive alone: a slot handed to a task that already has
\* one, or that is not at the head of its queue, would break the count.
IInv == TypeOK /\ Queues /\ HeavyStages /\ BudgetKept

-----------------------------------------------------------------------------
(* Semaphores *)

LEMMA AskProps ==
    ASSUME NEW sem \in SemType, NEW t \in Tasks, NEW s \in [Tasks -> Stages],
           NEW w \in Stages, NEW h \in Stages, Waiting(s, sem, w), s[t] # w
    PROVE  /\ Ask(sem, t) \in SemType
           /\ Waiting([s EXCEPT ![t] = IF Open(sem) THEN h ELSE w], Ask(sem, t), w)
           /\ Ask(sem, t).free = IF Open(sem) THEN sem.free - 1 ELSE sem.free
<1> DEFINE s2 == [s EXCEPT ![t] = IF Open(sem) THEN h ELSE w]
<1>1. sem.free \in Nat /\ sem.queue \in Seq(Tasks)
  BY DEF SemType
<1>2. CASE Open(sem)
  <2>1. Ask(sem, t) = [free |-> sem.free - 1, queue |-> <<>>]
    BY <1>2 DEF Ask, Open, SemType
  <2>2. sem.free - 1 \in Nat /\ <<>> \in Seq(Tasks) /\ Len(<<>>) = 0
    BY <1>1, <1>2, EmptySeq DEF Open
  <2> QED
    BY <1>2, <2>1, <2>2 DEF SemType, Waiting
<1>3. CASE ~Open(sem)
  <2> DEFINE longer == Append(sem.queue, t)
  <2>1. Ask(sem, t) = [free |-> sem.free, queue |-> longer]
    BY <1>3 DEF Ask, SemType
  <2>2. /\ longer \in Seq(Tasks)
        /\ Len(longer) = Len(sem.queue) + 1
        /\ \A i \in 1 .. Len(sem.queue) : longer[i] = sem.queue[i]
        /\ longer[Len(sem.queue) + 1] = t
    BY <1>1, AppendProperties
  <2>3. sem.free = 0
    BY <1>1, <1>3 DEF Open, Waiting
  <2>4. Len(sem.queue) \in Nat /\ \A i \in 1 .. Len(sem.queue) : sem.queue[i] \in Tasks
    BY <1>1, LenProperties, ElementOfSeq
  <2>5. \A i \in 1 .. Len(sem.queue) : sem.queue[i] # t
    BY DEF Waiting
  <2> HIDE DEF longer
  <2>6. \A k \in 1 .. Len(longer) : s2[longer[k]] = w
    <3>1. \A i \in 1 .. Len(sem.queue) : s2[longer[i]] = w
      BY <2>2, <2>4, <2>5 DEF Waiting
    <3>2. s2[t] = w
      BY <1>3
    <3> QED
      BY <2>2, <2>4, <3>1, <3>2
  <2>7. \A j, k \in 1 .. Len(longer) : longer[j] = longer[k] => j = k
    BY <2>2, <2>4, <2>5 DEF Waiting
  <2>8. Waiting(s2, Ask(sem, t), w)
    BY <2>1, <2>3, <2>6, <2>7 DEF Waiting
  <2> QED
    BY <1>1, <1>3, <2>1, <2>2, <2>8 DEF SemType
<1> QED
  BY <1>2, <1>3

LEMMA GiveProps ==
    ASSUME NEW sem \in SemType, NEW w, NEW s, Waiting(s, sem, w), NEW s2,
           \A u \in Tasks : s[u] = w /\ u \notin HandedTo(sem) => s2[u] = w
    PROVE  /\ Give(sem) \in SemType
           /\ Waiting(s2, Give(sem), w)
           /\ Give(sem).free = IF sem.queue = <<>> THEN sem.free + 1 ELSE sem.free
<1>1. sem.free \in Nat /\ sem.queue \in Seq(Tasks)
  BY DEF SemType
<1>2. CASE sem.queue = <<>>
  <2>1. Give(sem) = [free |-> sem.free + 1, queue |-> <<>>] /\ Len(<<>>) = 0
    BY <1>2, EmptySeq DEF Give, SemType
  <2> QED
    BY <1>1, <1>2, <2>1 DEF SemType, Waiting
<1>3. CASE sem.queue # <<>>
  <2> DEFINE rest == Tail(sem.queue)
  <2>1. Give(sem) = [free |-> sem.free, queue |-> rest]
    BY <1>3 DEF Give, SemType
  <2>2. /\ rest \in Seq(Tasks)
        /\ Len(rest) = Len(sem.queue) - 1
        /\ \A i \in 1 .. Len(rest) : rest[i] = sem.queue[i + 1]
    BY <1>1, <1>3, HeadTailProperties
  <2>3. Len(sem.queue) \in Nat \ {0} /\ \A i \in 1 .. Len(sem.queue) : sem.queue[i] \in Tasks
    BY <1>1, <1>3, EmptySeq, LenProperties, ElementOfSeq
  <2>4. HandedTo(sem) = {sem.queue[1]}
    BY <1>1, <1>3 DEF HandedTo
  <2> HIDE DEF rest
  <2>5. \A i \in 1 .. Len(rest) : s2[rest[i]] = w
    <3> SUFFICES ASSUME NEW i \in 1 .. Len(rest) PROVE s2[rest[i]] = w
      OBVIOUS
    <3>1. i + 1 \in 1 .. Len(sem.queue) /\ i + 1 # 1 /\ 1 \in 1 .. Len(sem.queue)
      BY <2>2, <2>3
    <3>2. sem.queue[i + 1] # sem.queue[1] /\ s[sem.queue[i + 1]] = w
      BY <3>1 DEF Waiting
    <3> QED
      BY <2>2, <2>3, <2>4, <3>1, <3>2
  <2>6. \A j, k \in 1 .. Len(rest) : rest[j] = rest[k] => j = k
    <3> SUFFICES ASSUME NEW j \in 1 .. Len(rest), NEW k \in 1 .. Len(rest), rest[j] = rest[k]
                 PROVE  j = k
      OBVIOUS
    <3>1. j + 1 \in 1 .. Len(sem.queue) /\ k + 1 \in 1 .. Len(sem.queue)
      BY <2>2, <2>3
    <3>2. j + 1 = k + 1
      BY <2>2, <3>1 DEF Waiting
    <3> QED
      BY <3>2
  <2>7. Waiting(s2, Give(sem), w)
    BY <1>3, <2>1, <2>5, <2>6 DEF Waiting
  <2> QED
    BY <1>1, <1>3, <2>1, <2>2, <2>7 DEF SemType
<1> QED
  BY <1>2, <1>3

\* A step that leaves a semaphore and its waiters alone.
LEMMA StillWaiting ==
    ASSUME NEW sem \in SemType, NEW w, NEW s, Waiting(s, sem, w), NEW s2,
           \A u \in Tasks : s[u] = w => s2[u] = w
    PROVE  Waiting(s2, sem, w)
<1>1. \A k \in 1 .. Len(sem.queue) : sem.queue[k] \in Tasks
  BY ElementOfSeq DEF SemType
<1> QED
  BY <1>1 DEF Waiting

\* The task at the head of a queue waits in the queue's stage.
LEMMA HandedProps ==
    ASSUME NEW sem \in SemType, NEW w, NEW s, Waiting(s, sem, w)
    PROVE  \A u \in HandedTo(sem) : u \in Tasks /\ s[u] = w
<1> SUFFICES ASSUME sem.queue # <<>>
             PROVE  Head(sem.queue) \in Tasks /\ s[Head(sem.queue)] = w
  BY DEF HandedTo
<1>1. sem.queue \in Seq(Tasks)
  BY DEF SemType
<1>2. Head(sem.queue) \in Tasks /\ Len(sem.queue) \in Nat \ {0}
  BY <1>1, EmptySeq, HeadTailProperties
<1>3. Head(sem.queue) = sem.queue[1] /\ 1 \in 1 .. Len(sem.queue)
  BY <1>1, <1>2
<1> QED
  BY <1>2, <1>3 DEF Waiting

LEMMA OwnedHead ==
    ASSUME NEW sem \in SemType, NEW Owners,
           \A k \in 1 .. Len(sem.queue) : sem.queue[k] \in Owners
    PROVE  HandedTo(sem) \subseteq Owners
<1> SUFFICES ASSUME sem.queue # <<>>
             PROVE  Head(sem.queue) \in Owners
  BY DEF HandedTo
<1>1. sem.queue \in Seq(Tasks)
  BY DEF SemType
<1>2. Len(sem.queue) \in Nat \ {0}
  BY <1>1, EmptySeq, HeadTailProperties
<1>3. Head(sem.queue) = sem.queue[1] /\ 1 \in 1 .. Len(sem.queue)
  BY <1>1, <1>2
<1> QED
  BY <1>3

LEMMA GiveKeeps ==
    ASSUME NEW sem \in SemType, NEW Owners,
           \A k \in 1 .. Len(sem.queue) : sem.queue[k] \in Owners
    PROVE  \A k \in 1 .. Len(Give(sem).queue) : Give(sem).queue[k] \in Owners
<1>1. sem.free \in Nat /\ sem.queue \in Seq(Tasks)
  BY DEF SemType
<1>2. CASE sem.queue = <<>>
  <2>1. Give(sem).queue = <<>>
    BY <1>2 DEF Give, SemType
  <2> QED
    BY <1>2, <2>1
<1>3. CASE sem.queue # <<>>
  <2>1. Give(sem).queue = Tail(sem.queue)
    BY <1>3 DEF Give, SemType
  <2>2. /\ Len(Tail(sem.queue)) = Len(sem.queue) - 1
        /\ \A i \in 1 .. Len(Tail(sem.queue)) : Tail(sem.queue)[i] = sem.queue[i + 1]
        /\ Len(sem.queue) \in Nat
    BY <1>1, <1>3, HeadTailProperties, LenProperties
  <2> QED
    BY <2>1, <2>2
<1> QED
  BY <1>2, <1>3

\* Whoever waits is in the stage of the queue.
LEMMA QueuedWaits ==
    ASSUME NEW sem \in SemType, NEW w, NEW s, Waiting(s, sem, w)
    PROVE  \A u \in Queued(sem) : u \in Tasks /\ s[u] = w
<1>1. sem.queue \in Seq(Tasks)
  BY DEF SemType
<1> QED
  BY <1>1, LenProperties, ElementOfSeq DEF Queued, Waiting

\* A slot given back by t is free, or held by the task it was handed to.
LEMMA HandOver ==
    ASSUME NEW sem \in SemType, NEW S, IsFiniteSet(S), NEW t \in S, NEW n \in Nat,
           Cardinality(S) + sem.free = n,
           \A u \in HandedTo(sem) : u \notin S
    PROVE  Cardinality((S \ {t}) \cup HandedTo(sem))
              + (IF sem.queue = <<>> THEN sem.free + 1 ELSE sem.free) = n
<1>1. /\ IsFiniteSet(S \ {t})
      /\ Cardinality(S \ {t}) = Cardinality(S) - 1
      /\ Cardinality(S) \in Nat
      /\ sem.free \in Nat
  BY FS_RemoveElement, FS_CardinalityType DEF SemType
<1>2. CASE sem.queue = <<>>
  <2>1. (S \ {t}) \cup HandedTo(sem) = S \ {t}
    BY <1>2 DEF HandedTo
  <2>2. Cardinality((S \ {t}) \cup HandedTo(sem)) = Cardinality(S \ {t})
    BY <2>1, Zenon
  <2> QED
    BY <1>1, <1>2, <2>2
<1>3. CASE sem.queue # <<>>
  <2> DEFINE h == Head(sem.queue)
  <2>1. (S \ {t}) \cup HandedTo(sem) = (S \ {t}) \cup {h} /\ h \notin S \ {t}
    BY <1>3 DEF HandedTo
  <2>2. Cardinality((S \ {t}) \cup {h}) = Cardinality(S \ {t}) + 1
    BY <1>1, <2>1, FS_AddElement
  <2>3. Cardinality((S \ {t}) \cup HandedTo(sem)) = Cardinality((S \ {t}) \cup {h})
    BY <2>1, Zenon
  <2> HIDE DEF h
  <2> QED
    BY <1>1, <1>3, <2>2, <2>3
<1> QED
  BY <1>2, <1>3

\* A slot that is asked for is taken when there is one.
LEMMA TakeSlot ==
    ASSUME NEW sem \in SemType, NEW S, IsFiniteSet(S), NEW t, t \notin S, NEW n \in Nat,
           Cardinality(S) + sem.free = n
    PROVE  Cardinality(IF Open(sem) THEN S \cup {t} ELSE S)
              + (IF Open(sem) THEN sem.free - 1 ELSE sem.free) = n
<1>1. /\ Cardinality(S \cup {t}) = Cardinality(S) + 1
      /\ Cardinality(S) \in Nat
      /\ sem.free \in Nat
  BY FS_AddElement, FS_CardinalityType DEF SemType
<1> QED
  BY <1>1

-----------------------------------------------------------------------------
LEMMA LoopOfTask ==
    ASSUME NEW t \in Tasks
    PROVE  LoopOf(t) \in Loops /\ t \in TasksOf(LoopOf(t))
BY DEF Tasks, LoopOf, TasksOf

LEMMA TasksDisjoint ==
    ASSUME NEW q \in Loops, NEW r \in Loops, NEW t, t \in TasksOf(q), t \in TasksOf(r)
    PROVE  q = r
BY TasksAssumption DEF TasksOf

LEMMA FiniteHolders == IsFiniteSet(InGate) /\ IsFiniteSet(InHeavy)
<1>1. IsFiniteSet(Tasks)
  BY TasksAssumption
<1>2. InGate \in SUBSET Tasks /\ InHeavy \in SUBSET Tasks
  BY DEF InGate, InHeavy
<1> QED
  BY <1>1, <1>2, FS_Subset

LEMMA TypeFacts ==
    ASSUME TypeOK
    PROVE  /\ stage \in [Tasks -> Stages]
           /\ heavy \in SemType /\ gate \in SemType
           /\ \A q \in Loops : permit[q] \in SemType
BY DEF TypeOK, SemType

LEMMA InitInv == Init => IInv
<1> SUFFICES ASSUME Init PROVE IInv
  OBVIOUS
<1>1. /\ <<>> \in Seq(Tasks)
      /\ Len(<<>>) = 0
  BY EmptySeq
<1>2. TypeOK
  BY <1>1, BudgetAssumption, TasksAssumption DEF Init, TypeOK, Sem, Stages
<1>3. Queues
  BY <1>1 DEF Init, Queues, PermitsOwned, Waiting, Sem
<1>4. HeavyStages
  BY DEF Init, HeavyStages
<1>5. InGate = {} /\ InHeavy = {}
  BY DEF Init, InGate, InHeavy
<1>6. BudgetKept
  BY <1>5, FS_EmptySet, BudgetAssumption DEF Init, BudgetKept, Sem
<1> QED
  BY <1>2, <1>3, <1>4, <1>6 DEF IInv

LEMMA AskHeavyInv ==
    ASSUME IInv, NEW t \in Tasks, AskHeavy(t)
    PROVE  IInv'
<1>1. TypeOK /\ Queues /\ HeavyStages /\ BudgetKept
  BY DEF IInv
<1>2. /\ stage \in [Tasks -> Stages] /\ stage[t] = "permit" /\ Heavy(t)
      /\ heavy \in SemType /\ gate \in SemType /\ \A q \in Loops : permit[q] \in SemType
  BY <1>1, TypeFacts DEF AskHeavy
<1>3. /\ heavy' = Ask(heavy, t)
      /\ stage' = [stage EXCEPT ![t] = IF Open(heavy) THEN "heavy" ELSE "heavyWait"]
      /\ UNCHANGED <<left, permit, gate>>
  BY DEF AskHeavy
<1>4. /\ heavy' \in SemType
      /\ Waiting(stage', heavy', "heavyWait")
      /\ heavy'.free = IF Open(heavy) THEN heavy.free - 1 ELSE heavy.free
  BY <1>1, <1>2, <1>3, AskProps DEF Queues, Stages
<1>5. TypeOK'
  BY <1>1, <1>2, <1>3, <1>4 DEF TypeOK, SemType, Stages
<1>6. Waiting(stage', gate', "gateWait")
  BY <1>1, <1>2, <1>3, StillWaiting DEF Queues
<1>7. \A q \in Loops : Waiting(stage', permit'[q], "permitWait")
  BY <1>1, <1>2, <1>3, StillWaiting DEF Queues
<1>8. HeavyStages'
  BY <1>1, <1>2, <1>3 DEF HeavyStages
<1>9. InGate' = InGate
  BY <1>2, <1>3 DEF InGate
<1>10. InHeavy' = IF Open(heavy) THEN InHeavy \cup {t} ELSE InHeavy
  BY <1>2, <1>3 DEF InHeavy
<1>11. t \notin InHeavy
  BY <1>2 DEF InHeavy
<1>12. BudgetKept'
  BY <1>1, <1>2, <1>3, <1>4, <1>9, <1>10, <1>11, TakeSlot, FiniteHolders, BudgetAssumption
     DEF BudgetKept
<1>13. PermitsOwned'
  BY <1>1, <1>3 DEF Queues, PermitsOwned, TasksOf
<1> QED
  BY <1>4, <1>5, <1>6, <1>7, <1>8, <1>12, <1>13 DEF IInv, Queues

LEMMA AskGateInv ==
    ASSUME IInv, NEW t \in Tasks, AskGate(t)
    PROVE  IInv'
<1>1. TypeOK /\ Queues /\ HeavyStages /\ BudgetKept
  BY DEF IInv
<1>2. /\ stage \in [Tasks -> Stages]
      /\ stage[t] = IF Heavy(t) THEN "heavy" ELSE "permit"
      /\ heavy \in SemType /\ gate \in SemType /\ \A q \in Loops : permit[q] \in SemType
  BY <1>1, TypeFacts DEF AskGate, ReadyForGate
<1>3. /\ gate' = Ask(gate, t)
      /\ stage' = [stage EXCEPT ![t] = IF Open(gate) THEN "gate" ELSE "gateWait"]
      /\ UNCHANGED <<left, permit, heavy>>
  BY DEF AskGate
<1>4. /\ gate' \in SemType
      /\ Waiting(stage', gate', "gateWait")
      /\ gate'.free = IF Open(gate) THEN gate.free - 1 ELSE gate.free
  BY <1>1, <1>2, <1>3, AskProps DEF Queues, Stages
<1>5. TypeOK'
  BY <1>1, <1>2, <1>3, <1>4 DEF TypeOK, SemType, Stages
<1>6. Waiting(stage', heavy', "heavyWait")
  BY <1>1, <1>2, <1>3, StillWaiting DEF Queues
<1>7. \A q \in Loops : Waiting(stage', permit'[q], "permitWait")
  BY <1>1, <1>2, <1>3, StillWaiting DEF Queues
<1>8. HeavyStages'
  BY <1>1, <1>2, <1>3 DEF HeavyStages
<1>9. InHeavy' = InHeavy
  BY <1>2, <1>3 DEF InHeavy
<1>10. InGate' = IF Open(gate) THEN InGate \cup {t} ELSE InGate
  BY <1>2, <1>3 DEF InGate
<1>11. t \notin InGate
  BY <1>2 DEF InGate
<1>12. BudgetKept'
  BY <1>1, <1>2, <1>3, <1>4, <1>9, <1>10, <1>11, TakeSlot, FiniteHolders, BudgetAssumption
     DEF BudgetKept
<1>13. PermitsOwned'
  BY <1>1, <1>3 DEF Queues, PermitsOwned, TasksOf
<1> QED
  BY <1>4, <1>5, <1>6, <1>7, <1>8, <1>12, <1>13 DEF IInv, Queues

\* A check that ends: what its slots become, whatever the task does next.
LEMMA ReleaseInv ==
    ASSUME IInv, NEW t \in Tasks, NEW after \in {"permit", "done"}, Release(t, after),
           left' \in [Tasks -> Nat],
           permit' = IF after = "done"
                     THEN [permit EXCEPT ![LoopOf(t)] = Give(@)] ELSE permit
    PROVE  IInv'
<1> DEFINE q == LoopOf(t)
<1>1. TypeOK /\ Queues /\ HeavyStages /\ BudgetKept
  BY DEF IInv
<1>2. /\ stage \in [Tasks -> Stages] /\ stage[t] = "gate"
      /\ heavy \in SemType /\ gate \in SemType /\ \A r \in Loops : permit[r] \in SemType
      /\ q \in Loops
  BY <1>1, TypeFacts, LoopOfTask DEF Release
<1>3. /\ \A u \in HandedTo(gate) : u \in Tasks /\ stage[u] = "gateWait"
      /\ \A u \in HandedTo(heavy) : u \in Tasks /\ stage[u] = "heavyWait"
      /\ \A u \in HandedTo(permit[q]) : u \in Tasks /\ stage[u] = "permitWait"
  BY <1>1, <1>2, HandedProps DEF Queues
<1>4. /\ gate' = Give(gate)
      /\ heavy' = IF Heavy(t) THEN Give(heavy) ELSE heavy
      /\ stage' = [u \in Tasks |->
                    IF u = t THEN after
                    ELSE IF u \in HandedTo(gate) THEN "gate"
                    ELSE IF Heavy(t) /\ u \in HandedTo(heavy) THEN "heavy"
                    ELSE IF after = "done" /\ u \in HandedTo(permit[q]) THEN "permit"
                    ELSE stage[u]]
  BY DEF Release
<1>5. /\ \A u \in Tasks : stage[u] = "gateWait" /\ u \notin HandedTo(gate)
                          => stage'[u] = "gateWait"
      /\ \A u \in Tasks : stage[u] = "heavyWait" /\ (Heavy(t) => u \notin HandedTo(heavy))
                          => stage'[u] = "heavyWait"
      /\ \A u \in Tasks : stage[u] = "permitWait" /\ (after = "done" => u \notin HandedTo(permit[q]))
                          => stage'[u] = "permitWait"
  BY <1>2, <1>3, <1>4
<1>6. /\ gate' \in SemType /\ Waiting(stage', gate', "gateWait")
      /\ gate'.free = IF gate.queue = <<>> THEN gate.free + 1 ELSE gate.free
  BY <1>1, <1>2, <1>4, <1>5, GiveProps DEF Queues
<1>7. /\ heavy' \in SemType /\ Waiting(stage', heavy', "heavyWait")
      /\ heavy'.free = IF Heavy(t) /\ heavy.queue = <<>> THEN heavy.free + 1 ELSE heavy.free
  <2>1. CASE Heavy(t)
    BY <1>1, <1>2, <1>4, <1>5, <2>1, GiveProps DEF Queues
  <2>2. CASE ~Heavy(t)
    BY <1>1, <1>2, <1>4, <1>5, <2>2, StillWaiting DEF Queues
  <2> QED
    BY <2>1, <2>2
<1>8. /\ permit' \in [Loops -> SemType]
      /\ \A r \in Loops : Waiting(stage', permit'[r], "permitWait")
      /\ PermitsOwned'
  <2>1. permit \in [Loops -> SemType] /\ PermitsOwned
    BY <1>1 DEF TypeOK, SemType, Queues
  <2>2. CASE after = "permit"
    <3>1. permit' = permit
      BY <2>2
    <3>2. \A r \in Loops : Waiting(stage', permit[r], "permitWait")
      BY <1>1, <1>2, <1>5, <2>2, StillWaiting DEF Queues
    <3> QED
      BY <2>1, <3>1, <3>2 DEF PermitsOwned, TasksOf
  <2>3. CASE after = "done"
    <3>1. Give(permit[q]) \in SemType /\ Waiting(stage', Give(permit[q]), "permitWait")
      BY <1>1, <1>2, <1>5, <2>3, GiveProps DEF Queues
    <3>2. permit' = [permit EXCEPT ![q] = Give(permit[q])]
      BY <2>3
    <3>3. HandedTo(permit[q]) \subseteq TasksOf(q)
      BY <1>2, <2>1, OwnedHead DEF PermitsOwned
    <3>4. ASSUME NEW r \in Loops, r # q
          PROVE  Waiting(stage', permit[r], "permitWait")
      <4>1. \A k \in 1 .. Len(permit[r].queue) :
               /\ permit[r].queue[k] \in Tasks
               /\ permit[r].queue[k] \in TasksOf(r)
        BY <1>2, <2>1, ElementOfSeq DEF SemType, PermitsOwned
      <4>2. \A k \in 1 .. Len(permit[r].queue) : permit[r].queue[k] \notin HandedTo(permit[q])
        BY <1>2, <3>3, <3>4, <4>1, TasksDisjoint
      <4>3. Waiting(stage, permit[r], "permitWait")
        BY <1>1, <3>4 DEF Queues
      <4> QED
        BY <1>5, <4>1, <4>2, <4>3 DEF Waiting
    <3>5. \A k \in 1 .. Len(Give(permit[q]).queue) : Give(permit[q]).queue[k] \in TasksOf(q)
      BY <1>2, <2>1, GiveKeeps DEF PermitsOwned
    <3>6. PermitsOwned'
      BY <1>2, <2>1, <3>2, <3>5 DEF PermitsOwned, TasksOf
    <3> QED
      BY <1>2, <2>1, <3>1, <3>2, <3>4, <3>6
  <2> QED
    BY <2>2, <2>3
<1>9. stage' \in [Tasks -> Stages]
  BY <1>2, <1>4 DEF Stages
<1>10. TypeOK'
  BY <1>6, <1>7, <1>8, <1>9 DEF TypeOK, SemType
<1>11. HeavyStages'
  <2> SUFFICES ASSUME NEW u \in Tasks, stage'[u] \in {"heavyWait", "heavy"}
               PROVE  Heavy(u)
    BY DEF HeavyStages
  <2>1. stage[u] \in {"heavyWait", "heavy"}
    BY <1>2, <1>3, <1>4
  <2> QED
    BY <1>1, <2>1 DEF HeavyStages
<1>12. InGate' = (InGate \ {t}) \cup HandedTo(gate)
  BY <1>2, <1>3, <1>4 DEF InGate
<1>13. InHeavy' = IF Heavy(t) THEN (InHeavy \ {t}) \cup HandedTo(heavy) ELSE InHeavy
  <2>1. \A u \in HandedTo(heavy) : Heavy(u)
    BY <1>1, <1>3 DEF HeavyStages
  <2> QED
    BY <1>2, <1>3, <1>4, <2>1 DEF InHeavy
<1>14. t \in InGate /\ (Heavy(t) => t \in InHeavy)
  BY <1>2 DEF InGate, InHeavy
<1>15. /\ \A u \in HandedTo(gate) : u \notin InGate
       /\ \A u \in HandedTo(heavy) : u \notin InHeavy
  BY <1>3 DEF InGate, InHeavy
<1>16. Cardinality(InGate') + gate'.free = MaxInflight
  BY <1>1, <1>2, <1>6, <1>12, <1>14, <1>15, HandOver, FiniteHolders, BudgetAssumption
     DEF BudgetKept
<1>17. Cardinality(InHeavy') + heavy'.free = MaxHeavy
  <2>1. CASE Heavy(t)
    BY <1>1, <1>2, <1>7, <1>13, <1>14, <1>15, <2>1, HandOver, FiniteHolders, BudgetAssumption
       DEF BudgetKept
  <2>2. CASE ~Heavy(t)
    BY <1>1, <1>4, <1>13, <2>2 DEF BudgetKept
  <2> QED
    BY <2>1, <2>2
<1> QED
  BY <1>6, <1>7, <1>8, <1>10, <1>11, <1>16, <1>17 DEF IInv, Queues, BudgetKept

LEMMA SweepInv ==
    ASSUME IInv, NEW q \in Loops, Sweep(q)
    PROVE  IInv'
<1> DEFINE tasks == BatchOf[q]
           n == IF Len(tasks) < Concurrency[q] THEN Len(tasks) ELSE Concurrency[q]
           first == {tasks[k] : k \in 1 .. n}
           rest == SubSeq(tasks, n + 1, Len(tasks))
           sem == [free |-> Concurrency[q] - n, queue |-> rest]
<1>1. TypeOK /\ Queues /\ HeavyStages /\ BudgetKept
  BY DEF IInv
<1>2. /\ stage \in [Tasks -> Stages] /\ \A t \in TasksOf(q) : stage[t] = "off"
      /\ heavy \in SemType /\ gate \in SemType /\ \A r \in Loops : permit[r] \in SemType
      /\ permit \in [Loops -> SemType]
  BY <1>1, TypeFacts DEF Sweep, TypeOK, SemType
<1>3. /\ permit' = [permit EXCEPT ![q] = sem]
      /\ stage' = [t \in Tasks |-> IF t \in first THEN "permit"
                                   ELSE IF t \in TasksOf(q) THEN "permitWait"
                                   ELSE stage[t]]
      /\ left' = [t \in Tasks |-> IF t \in TasksOf(q) THEN Loads[q] ELSE left[t]]
      /\ UNCHANGED <<heavy, gate>>
  BY DEF Sweep
<1>4. /\ tasks \in Seq(Tasks) /\ Len(tasks) \in Nat /\ Concurrency[q] \in Nat \ {0}
      /\ DOMAIN tasks = 1 .. Len(tasks)
      /\ \A j, k \in 1 .. Len(tasks) : tasks[j] = tasks[k] => j = k
  BY TasksAssumption, LenProperties
<1>5. n \in Nat /\ n <= Len(tasks) /\ Concurrency[q] - n \in Nat
  BY <1>4
<1>6. \A k \in 1 .. Len(tasks) : tasks[k] \in TasksOf(q) /\ tasks[k] \in Tasks
  BY <1>4, ElementOfSeq DEF TasksOf
<1>7. first \subseteq TasksOf(q)
  BY <1>4, <1>5, <1>6
<1>8. /\ rest \in Seq(Tasks) /\ Len(rest) = Len(tasks) - n
      /\ \A k \in 1 .. Len(rest) : rest[k] = tasks[n + k]
  <2>1. rest \in Seq(Tasks)
    BY <1>4, <1>5, SubSeqProperties
  <2>2. CASE n = Len(tasks)
    <3>1. rest = <<>>
      BY <1>4, <1>5, <2>2, SubSeqProperties
    <3> QED
      BY <1>4, <2>1, <2>2, <3>1, EmptySeq
  <2>3. CASE n < Len(tasks)
    <3> DEFINE m == n + 1
    <3>1. /\ m \in Int /\ Len(tasks) \in Int /\ m <= Len(tasks)
          /\ \A i \in m .. Len(tasks) : tasks[i] \in Tasks
      BY <1>4, <1>5, <1>6, <2>3
    <3> HIDE DEF m
    <3>2. /\ Len(SubSeq(tasks, m, Len(tasks))) = Len(tasks) - m + 1
          /\ \A i \in 1 .. Len(tasks) - m + 1 :
                SubSeq(tasks, m, Len(tasks))[i] = tasks[m + i - 1]
      BY <3>1, SubSeqProperties
    <3>3. rest = SubSeq(tasks, m, Len(tasks))
      BY DEF m
    <3> HIDE DEF rest, n
    <3> QED
      BY <1>4, <1>5, <2>1, <3>2, <3>3 DEF m
  <2> QED
    BY <1>5, <2>2, <2>3
<1> HIDE DEF n, rest, first
<1>9. \A k \in 1 .. Len(rest) : n + k \in 1 .. Len(tasks)
  BY <1>4, <1>5, <1>8
<1>10. \A k \in 1 .. Len(rest) :
          rest[k] \in TasksOf(q) /\ rest[k] \in Tasks /\ rest[k] \notin first
  <2> SUFFICES ASSUME NEW k \in 1 .. Len(rest)
               PROVE  rest[k] \in TasksOf(q) /\ rest[k] \in Tasks /\ rest[k] \notin first
    OBVIOUS
  <2>1. \A j \in 1 .. n : tasks[j] # tasks[n + k]
    BY <1>4, <1>5, <1>8, <1>9
  <2> QED
    BY <1>6, <1>8, <1>9, <2>1 DEF first
<1>11. \A j, k \in 1 .. Len(rest) : rest[j] = rest[k] => j = k
  <2> SUFFICES ASSUME NEW j \in 1 .. Len(rest), NEW k \in 1 .. Len(rest), rest[j] = rest[k]
               PROVE  j = k
    OBVIOUS
  <2>1. n + j \in 1 .. Len(tasks) /\ n + k \in 1 .. Len(tasks) /\ tasks[n + j] = tasks[n + k]
    BY <1>8, <1>9
  <2>2. n + j = n + k
    BY <1>4, <2>1
  <2>3. j \in Int /\ k \in Int
    OBVIOUS
  <2> QED
    BY <1>5, <2>2, <2>3
<1>12. sem \in SemType
  BY <1>5, <1>8 DEF SemType
<1>13. rest # <<>> => Concurrency[q] - n = 0
  <2>1. rest # <<>> => Len(rest) # 0
    BY <1>8, EmptySeq
  <2> QED
    BY <1>4, <1>8, <2>1 DEF n
<1>14. Waiting(stage', sem, "permitWait")
  BY <1>3, <1>10, <1>11, <1>13 DEF Waiting
<1>15. \A u \in Tasks : stage[u] # "off" => stage'[u] = stage[u]
  BY <1>2, <1>3, <1>7
<1>16. /\ Waiting(stage', gate', "gateWait")
       /\ Waiting(stage', heavy', "heavyWait")
  BY <1>1, <1>2, <1>3, <1>15, StillWaiting DEF Queues
<1>17. \A r \in Loops : Waiting(stage', permit'[r], "permitWait")
  <2>1. \A r \in Loops : Waiting(stage', permit[r], "permitWait")
    BY <1>1, <1>2, <1>15, StillWaiting DEF Queues
  <2> QED
    BY <1>2, <1>3, <1>14, <2>1
<1>18. PermitsOwned'
  <2>1. \A r \in Loops : \A k \in 1 .. Len(permit'[r].queue) : permit'[r].queue[k] \in TasksOf(r)
    BY <1>1, <1>2, <1>3, <1>10 DEF Queues, PermitsOwned
  <2> QED
    BY <2>1 DEF PermitsOwned, TasksOf
<1>19. TypeOK'
  <2>1. stage' \in [Tasks -> Stages]
    BY <1>2, <1>3 DEF Stages
  <2>2. left' \in [Tasks -> Nat]
    BY <1>1, <1>3, TasksAssumption DEF TypeOK
  <2>3. permit' \in [Loops -> SemType]
    BY <1>2, <1>3, <1>12
  <2> QED
    BY <1>1, <1>3, <2>1, <2>2, <2>3 DEF TypeOK, SemType
<1>20. HeavyStages'
  BY <1>1, <1>2, <1>3 DEF HeavyStages
<1>21. InGate' = InGate /\ InHeavy' = InHeavy
  BY <1>2, <1>3, <1>7 DEF InGate, InHeavy
<1>22. BudgetKept'
  BY <1>1, <1>3, <1>21 DEF BudgetKept
<1> QED
  BY <1>16, <1>17, <1>18, <1>19, <1>20, <1>22 DEF IInv, Queues

LEMMA ReturnInv ==
    ASSUME IInv, NEW q \in Loops, Return(q)
    PROVE  IInv'
<1>1. TypeOK /\ Queues /\ HeavyStages /\ BudgetKept
  BY DEF IInv
<1>2. /\ stage \in [Tasks -> Stages] /\ \A t \in TasksOf(q) : stage[t] = "done"
      /\ heavy \in SemType /\ gate \in SemType /\ \A r \in Loops : permit[r] \in SemType
      /\ stage' = [t \in Tasks |-> IF t \in TasksOf(q) THEN "off" ELSE stage[t]]
      /\ UNCHANGED <<left, permit, heavy, gate>>
  BY <1>1, TypeFacts DEF Return
<1>3. Queues'
  <2>1. /\ Waiting(stage', gate', "gateWait")
        /\ Waiting(stage', heavy', "heavyWait")
        /\ \A r \in Loops : Waiting(stage', permit'[r], "permitWait")
    BY <1>1, <1>2, StillWaiting DEF Queues
  <2>2. PermitsOwned'
    BY <1>1, <1>2 DEF Queues, PermitsOwned, TasksOf
  <2> QED
    BY <2>1, <2>2 DEF Queues
<1>4. InGate' = InGate /\ InHeavy' = InHeavy
  BY <1>2 DEF InGate, InHeavy
<1>5. TypeOK' /\ HeavyStages'
  BY <1>1, <1>2 DEF TypeOK, Stages, HeavyStages
<1> QED
  BY <1>1, <1>2, <1>3, <1>4, <1>5 DEF IInv, BudgetKept

LEMMA NextInv == IInv /\ [Next]_vars => IInv'
<1> SUFFICES ASSUME IInv, [Next]_vars PROVE IInv'
  OBVIOUS
<1>1. ASSUME NEW t \in Tasks, FinishPage(t)
      PROVE  IInv'
  <2>1. left' \in [Tasks -> Nat]
    <3>1. left \in [Tasks -> Nat] /\ left[t] > 1 /\ left' = [left EXCEPT ![t] = left[t] - 1]
      BY <1>1 DEF FinishPage, IInv, TypeOK
    <3>2. left[t] - 1 \in Nat
      BY <3>1
    <3> QED
      BY <3>1, <3>2
  <2>2. Release(t, "permit") /\ permit' = permit
    BY <1>1 DEF FinishPage
  <2> QED
    BY <2>1, <2>2, ReleaseInv
<1>2. ASSUME NEW t \in Tasks, FinishTask(t)
      PROVE  IInv'
  <2>1. left' \in [Tasks -> Nat]
    BY <1>2 DEF FinishTask, IInv, TypeOK
  <2>2. Release(t, "done") /\ permit' = [permit EXCEPT ![LoopOf(t)] = Give(@)]
    BY <1>2 DEF FinishTask
  <2> QED
    BY <2>1, <2>2, ReleaseInv
<1>3. CASE UNCHANGED vars
  BY <1>3 DEF vars, IInv, TypeOK, Queues, PermitsOwned, TasksOf, Waiting, HeavyStages,
             BudgetKept, InGate, InHeavy
<1> QED
  BY <1>1, <1>2, <1>3, SweepInv, ReturnInv, AskHeavyInv, AskGateInv DEF Next, Step

LEMMA InvHolds == Spec => []IInv
BY InitInv, NextInv, PTL DEF Spec

-----------------------------------------------------------------------------
\* No semaphore is ever taken below zero, and
\* only tasks stand in their queues.
THEOREM GateTypes == Spec => []TypeOK
<1>1. IInv => TypeOK
  BY DEF IInv
<1> QED
  BY <1>1, InvHolds, PTL

\* Whatever the loops and their concurrency, the checks in flight never exceed
\* max_inflight, nor the page loads max_inflight_heavy, and no slot is lost.
THEOREM BudgetHolds == Spec => []BudgetKept
<1>1. IInv => BudgetKept
  BY DEF IInv
<1> QED
  BY <1>1, InvHolds, PTL

\* The page loads in the gate or in its queue are holders of the heavy budget.
THEOREM HeavyShareHolds == Spec => []HeavyShare
<1>1. IInv => HeavyShare
  <2> SUFFICES ASSUME IInv PROVE HeavyShare
    OBVIOUS
  <2> DEFINE H == {t \in InGate \cup Queued(gate) : Heavy(t)}
  <2>1. \A t \in Queued(gate) : t \in Tasks /\ stage[t] = "gateWait"
    BY QueuedWaits, TypeFacts DEF IInv, Queues
  <2>2. H \subseteq InHeavy
    BY <2>1 DEF InGate, InHeavy
  <2>3. Cardinality(H) <= Cardinality(InHeavy) /\ Cardinality(H) \in Nat
        /\ Cardinality(InHeavy) \in Nat
    BY <2>2, FiniteHolders, FS_Subset, FS_CardinalityType
  <2>4. heavy.free \in Nat /\ Cardinality(InHeavy) + heavy.free = MaxHeavy
    BY DEF IInv, TypeOK, BudgetKept
  <2> QED
    BY <2>3, <2>4, BudgetAssumption DEF HeavyShare
<1> QED
  BY <1>1, InvHolds, PTL

\* A liveness check that waits for the gate waits for a full gate, of which
\* page loads have no more than their share.
THEOREM LivenessHasRestHolds == Spec => []LivenessHasRest
<1>1. IInv => LivenessHasRest
  <2> SUFFICES ASSUME IInv, NEW t \in Queued(gate), ~Heavy(t)
               PROVE  Cardinality({u \in InGate : ~Heavy(u)}) >= MaxInflight - MaxHeavy
    BY DEF LivenessHasRest
  <2> DEFINE L == {u \in InGate : ~Heavy(u)}
             H == {u \in InGate : Heavy(u)}
  <2>1. gate \in SemType /\ heavy \in SemType /\ gate.free \in Nat /\ heavy.free \in Nat
    BY TypeFacts DEF IInv, SemType
  <2>2. gate.queue # <<>>
    BY <2>1, EmptySeq DEF Queued
  <2>3. Cardinality(InGate) = MaxInflight /\ MaxInflight \in Nat
    BY <2>1, <2>2, FiniteHolders, FS_CardinalityType, BudgetAssumption
       DEF IInv, Queues, Waiting, BudgetKept
  <2>4. L \cup H = InGate /\ L \cap H = {} /\ L \subseteq InGate /\ H \subseteq InHeavy
    BY DEF InGate, InHeavy
  <2>5. IsFiniteSet(L) /\ IsFiniteSet(H) /\ Cardinality(H) <= Cardinality(InHeavy)
    BY <2>4, FiniteHolders, FS_Subset
  <2>6. Cardinality(L \cup H) = Cardinality(L) + Cardinality(H) - Cardinality(L \cap H)
    BY <2>5, FS_Union
  <2>7. Cardinality(L \cap H) = 0
    BY <2>4, FS_EmptySet
  <2>8. /\ Cardinality(L) \in Nat /\ Cardinality(H) \in Nat /\ Cardinality(InHeavy) \in Nat
        /\ Cardinality(InHeavy) + heavy.free = MaxHeavy
    BY <2>5, FiniteHolders, FS_CardinalityType DEF IInv, BudgetKept
  <2>9. Cardinality(L \cup H) = Cardinality(InGate)
    BY <2>4, Zenon
  <2> HIDE DEF L, H
  <2>10. Cardinality(L) >= MaxInflight - MaxHeavy
    BY <2>1, <2>3, <2>5, <2>6, <2>7, <2>8, <2>9, BudgetAssumption
  <2> QED
    BY <2>10 DEF L
<1> QED
  BY <1>1, InvHolds, PTL

=============================================================================
