------------------------------ MODULE QueueSafety ------------------------------
(***************************************************************************)
(* Proofs about the job queue, for any jobs, tenants, workers and limits,  *)
(* and any number of copies, replays, losses and cancellations.            *)
(***************************************************************************)
EXTENDS QueueProperties, FiniteSetTheorems, TLAPS

USE TenantAssumption, WorkersAssumption, LimitAssumption, QueueBoundsAssumption, NoJobAssumption

Ats == [job : Ids \cup {NoJob}, label : Labels, ok : BOOLEAN, aborted : BOOLEAN]

\* An id is active exactly while one worker has it.
Worked ==
  /\ \A w \in Workers : at[w].job = NoJob <=> at[w] = Idle
  /\ \A w \in Workers : at[w].job # NoJob => state[at[w].job] = "active"
  /\ \A v, w \in Workers : (at[v].job = at[w].job /\ at[v].job # NoJob) => v = w

\* Each replay buys an id one attempt beyond its budget.
Counted ==
  \A i \in Ids :
    /\ made[i] <= Budget(i) + replays
    /\ state[i] \in {"waiting", "active"} => made[i] < Budget(i) + replays
    /\ state[i] = "absent" => made[i] = 0

Adding(w, i) == at[w].job = i /\ at[w].label = "add"
Owning(w, i) == at[w].job = i /\ at[w].label \in {"run", "post", "write", "release"}

\* The executions of a tenant that passed the count and have yet to add.
Adders(t) == {w \in Workers : \E i \in Ids : Tenant(i) = t /\ Adding(w, i)}

\* The slots somebody added and has yet to release, and those nobody will.
Owned(t) == {i \in slots[t] : \E w \in Workers : Owning(w, i)}
Leaked(t) == slots[t] \ Owned(t)

SlotsFitFor(t) ==
  /\ IsFiniteSet(slots[t])
  /\ \A i \in slots[t] : Tenant(i) = t
  /\ Cardinality(slots[t]) + Cardinality(Adders(t)) <= Limit - 1 + Cardinality(Workers)
  /\ Cardinality(Leaked(t)) <= losses

SlotsFit == \A t \in Tenants : SlotsFitFor(t)

QueueInv == QueueTypeOK /\ Worked /\ Counted /\ SlotsFit

-----------------------------------------------------------------------------

LEMMA IdleIsAt == Idle \in Ats /\ Idle.job = NoJob
  BY DEF Idle, Ats, Labels

LEMMA BudgetIsNat == \A i \in Ids : Budget(i) \in 1 .. MaxAttempts /\ Tenant(i) \in Tenants
  BY DEF Budget, Tenant, Ids

\* What a step may do to a worker keeps its type.
LEMMA AtTyped ==
  ASSUME at \in [Workers -> Ats], NEW w \in Workers, NEW i \in Ids, NEW label \in Labels, NEW ok \in BOOLEAN
  PROVE  /\ [at EXCEPT ![w] = Idle] \in [Workers -> Ats]
         /\ [at EXCEPT ![w].label = label] \in [Workers -> Ats]
         /\ [at EXCEPT ![w].aborted = TRUE] \in [Workers -> Ats]
         /\ [at EXCEPT ![w].label = label, ![w].ok = ok] \in [Workers -> Ats]
         /\ [at EXCEPT ![w] = [Idle EXCEPT !.job = i, !.label = label]] \in [Workers -> Ats]
<1>1. at[w] \in Ats
  OBVIOUS
<1>2. [at[w] EXCEPT !.label = label] \in Ats /\ [at[w] EXCEPT !.aborted = TRUE] \in Ats
  BY <1>1 DEF Ats
<1>3. [at[w] EXCEPT !.label = label, !.ok = ok] \in Ats
  BY <1>1 DEF Ats
<1>4. [Idle EXCEPT !.job = i, !.label = label] \in Ats
  BY IdleIsAt DEF Ats
<1>5. \A r \in Ats : [at EXCEPT ![w] = r] \in [Workers -> Ats]
  OBVIOUS
<1> QED  BY <1>2, <1>3, <1>4, <1>5, IdleIsAt

LEMMA TypeStep == QueueTypeOK /\ Worked /\ Counted /\ [Next]_queueVars => QueueTypeOK'
<1>1. SUFFICES ASSUME QueueTypeOK, Worked, Counted, Next
               PROVE  QueueTypeOK'
  BY DEF QueueTypeOK, queueVars, storedVars
<1>2. ASSUME NEW i \in Ids, NEW w \in Workers, at[w].job = i
      PROVE  state[i] = "active" /\ made[i] < Budget(i) + replays
  BY <1>1, <1>2 DEF Worked, Counted
<1>3. \A i \in Ids : Budget(i) \in 1 .. MaxAttempts /\ Tenant(i) \in Tenants
  BY BudgetIsNat
<1>4. ASSUME NEW i \in Ids, NEW w \in Workers, at[w].job = i, NEW reason \in Reasons, AttemptFails(i, reason)
      PROVE  /\ made' \in [Ids -> 0 .. MaxAttempts + MaxReplays]
             /\ state' \in [Ids -> JobStates] /\ failedReason' \in [Ids -> Reasons]
  <2>1. made[i] + 1 \in 0 .. MaxAttempts + MaxReplays
    BY <1>1, <1>2, <1>3, <1>4 DEF QueueTypeOK
  <2> QED  BY <1>1, <1>4, <2>1 DEF QueueTypeOK, AttemptFails, JobStates
<1> USE DEF QueueTypeOK, JobStates, Reasons, Labels, Idle, Goto, Added, On, storedVars
<1>a. CASE \E j \in Jobs : Enqueue(j)
  BY <1>1, <1>a DEF Enqueue, Ids
<1>b. CASE \E i \in Ids : CancelWaiting(i)
  BY <1>1, <1>b DEF CancelWaiting
<1>c. CASE \E i \in Ids : CancelFlag(i) \/ CancelKeyExpires(i)
  BY <1>1, <1>c DEF CancelFlag, CancelKeyExpires
<1>d. CASE \E i \in Ids : ReplayDeadLetter(i)
  BY <1>1, <1>d DEF ReplayDeadLetter
<1>5. at \in [Workers -> Ats]
  BY <1>1 DEF Ats
<1>e. CASE \E w \in Workers, i \in Ids : PickUp(w, i)
  <2> PICK w \in Workers, i \in Ids : PickUp(w, i)  BY <1>e
  <2>1. at' \in [Workers -> Ats]  BY <1>5, AtTyped DEF PickUp
  <2> QED  BY <1>1, <2>1 DEF PickUp, Ats
<1>f. CASE \E w \in Workers, i \in Ids : Admitted(w, i) \/ AddSlot(w, i) \/ PollCancel(w, i) \/ Release(w, i)
  <2> PICK w \in Workers, i \in Ids : Admitted(w, i) \/ AddSlot(w, i) \/ PollCancel(w, i) \/ Release(w, i)
    BY <1>f
  <2>1. at' \in [Workers -> Ats]
    <3>1. \A label \in Labels : [at EXCEPT ![w].label = label] \in [Workers -> Ats]
      BY <1>5, AtTyped
    <3>2. [at EXCEPT ![w].aborted = TRUE] \in [Workers -> Ats]
      BY <1>5, AtTyped
    <3> QED  BY <3>1, <3>2 DEF Admitted, AddSlot, PollCancel, Release
  <2>2. slots' \in [Tenants -> SUBSET Ids]
    BY <1>1, <1>3 DEF Admitted, AddSlot, PollCancel, Release
  <2> QED  BY <1>1, <2>1, <2>2 DEF Admitted, AddSlot, PollCancel, Release, Ats
<1>g. CASE \E w \in Workers, i \in Ids : Refused(w, i)
  <2> PICK w \in Workers, i \in Ids : Refused(w, i)  BY <1>g
  <2>1. AttemptFails(i, "refused") /\ at[w].job = i  BY DEF Refused
  <2> QED  BY <1>1, <1>4, <2>1 DEF Refused
<1>h. CASE \E w \in Workers, i \in Ids : Run(w, i)
  <2> PICK w \in Workers, i \in Ids, ok \in BOOLEAN : HandlerEnds(w, i, ok)  BY <1>h DEF Run
  <2>1. at' \in [Workers -> Ats]  BY <1>5, AtTyped DEF HandlerEnds
  <2> QED  BY <1>1, <2>1 DEF HandlerEnds, Ats
<1>i. CASE \E w \in Workers, i \in Ids : Settle(w, i)
  <2> PICK w \in Workers, i \in Ids : Settle(w, i)  BY <1>i
  <2>1. CASE at[w].ok  BY <1>1, <2>1 DEF Settle
  <2>2. CASE ~at[w].ok
    <3>1. AttemptFails(i, "handler") /\ at[w].job = i  BY <2>2 DEF Settle
    <3> QED  BY <1>1, <1>4, <3>1 DEF Settle
  <2> QED  BY <2>1, <2>2
<1>j. CASE \E i \in Ids : CopyRefused(i)
  BY <1>1, <1>j DEF CopyRefused, Ids
<1>k. CASE \E w \in Workers, i \in Ids : WorkerLost(w, i)
  <2> PICK w \in Workers, i \in Ids : WorkerLost(w, i)  BY <1>k
  <2>1. at' \in [Workers -> Ats]  BY <1>5, AtTyped DEF WorkerLost
  <2>2. /\ state' \in [Ids -> JobStates] /\ failedReason' \in [Ids -> Reasons]
        /\ stalled' \in SUBSET Ids /\ refused' \in SUBSET Ids /\ losses' \in 0 .. MaxLosses
    BY <1>1 DEF WorkerLost
  <2> QED  BY <1>1, <2>1, <2>2 DEF WorkerLost, Ats
<1> QED
  BY <1>1, <1>a, <1>b, <1>c, <1>d, <1>e, <1>f, <1>g, <1>h, <1>i, <1>j, <1>k
  DEF Next, ClientStep, QueueStep, WorkerStep

-----------------------------------------------------------------------------

\* What a step does to who works on what: nothing, or a worker takes an id that
\* waits, or one lets go of the id it has.
Keeps ==
  /\ \A w \in Workers : at'[w] = at[w] \/ (at[w].job # NoJob /\ at'[w].job = at[w].job)
  /\ \A i \in Ids : state[i] = "active" => state'[i] = "active"
Takes(w, i) ==
  /\ at[w] = Idle /\ state[i] = "waiting"
  /\ \A v \in Workers \ {w} : at'[v] = at[v]
  /\ at'[w].job = i
  /\ state' = [state EXCEPT ![i] = "active"]
LetsGo(w, i) ==
  /\ at[w].job = i
  /\ at' = [at EXCEPT ![w] = Idle]
  /\ \A k \in Ids \ {i} : state'[k] = state[k]

LEMMA StepShapes ==
  ASSUME QueueTypeOK, Worked, Next
  PROVE  Keeps \/ \E w \in Workers, i \in Ids : Takes(w, i) \/ LetsGo(w, i)
<1>1. at \in [Workers -> Ats] /\ state \in [Ids -> JobStates]
  BY DEF QueueTypeOK, Ats
<1> USE DEF Goto, Added, On, storedVars
<1>a. CASE ClientStep \/ (\E j \in Jobs : Enqueue(j)) \/ \E i \in Ids : CopyRefused(i)
  BY <1>1, <1>a DEF ClientStep, Enqueue, CancelWaiting, CancelFlag, CancelKeyExpires, ReplayDeadLetter,
     CopyRefused, Keeps, Ids
<1>b. CASE \E w \in Workers, i \in Ids : PickUp(w, i)
  <2> PICK w \in Workers, i \in Ids : PickUp(w, i)  BY <1>b
  <2>1. at'[w] = [Idle EXCEPT !.job = i, !.label = "count"]
    BY <1>1 DEF PickUp
  <2>2. at'[w].job = i
    BY <2>1 DEF Idle
  <2> QED  BY <1>1, <2>2 DEF PickUp, Takes
<1>c. CASE \E w \in Workers, i \in Ids :
             \/ Admitted(w, i) \/ AddSlot(w, i) \/ PollCancel(w, i) \/ Release(w, i) \/ Run(w, i)
  <2> PICK w \in Workers, i \in Ids :
             Admitted(w, i) \/ AddSlot(w, i) \/ PollCancel(w, i) \/ Release(w, i) \/ Run(w, i)
    BY <1>c
  <2>1. UNCHANGED state /\ at[w].job = i
    BY DEF Admitted, AddSlot, PollCancel, Release, Run, HandlerEnds
  <2>2. \A v \in Workers \ {w} : at'[v] = at[v]
    BY <1>1 DEF Admitted, AddSlot, PollCancel, Release, Run, HandlerEnds
  <2>3. at'[w].job = i
    BY <1>1, <2>1 DEF Admitted, AddSlot, PollCancel, Release, Run, HandlerEnds, Ats
  <2>4. i # NoJob
    OBVIOUS
  <2> QED  BY <2>1, <2>2, <2>3, <2>4 DEF Keeps
<1>d. CASE \E w \in Workers, i \in Ids : Refused(w, i) \/ Settle(w, i) \/ WorkerLost(w, i)
  <2> PICK w \in Workers, i \in Ids : Refused(w, i) \/ Settle(w, i) \/ WorkerLost(w, i)
    BY <1>d
  <2>1. at[w].job = i /\ at' = [at EXCEPT ![w] = Idle]
    BY DEF Refused, Settle, WorkerLost
  <2>2. \A k \in Ids \ {i} : state'[k] = state[k]
    BY <1>1 DEF Refused, Settle, WorkerLost, AttemptFails
  <2> QED  BY <2>1, <2>2 DEF LetsGo
<1> QED  BY <1>a, <1>b, <1>c, <1>d DEF Next, QueueStep, WorkerStep

LEMMA WorkedStep == QueueTypeOK /\ Worked /\ [Next]_queueVars => Worked'
<1>1. SUFFICES ASSUME QueueTypeOK, Worked, Next
               PROVE  Worked'
  BY DEF Worked, queueVars, storedVars
<1>2. at \in [Workers -> Ats] /\ state \in [Ids -> JobStates]
  BY <1>1 DEF QueueTypeOK, Ats
<1>3. Idle.job = NoJob
  BY IdleIsAt
<1>4. CASE Keeps
  BY <1>1, <1>2, <1>3, <1>4 DEF Keeps, Worked, Ats
<1>5. ASSUME NEW w \in Workers, NEW i \in Ids, Takes(w, i)
      PROVE  Worked'
  BY <1>1, <1>2, <1>3, <1>5 DEF Takes, Worked, Ats
<1>6. ASSUME NEW w \in Workers, NEW i \in Ids, LetsGo(w, i)
      PROVE  Worked'
  BY <1>1, <1>2, <1>3, <1>6 DEF LetsGo, Worked, Ats
<1> QED  BY <1>1, <1>4, <1>5, <1>6, StepShapes

LEMMA CountedStep == QueueTypeOK /\ Worked /\ Counted /\ [Next]_queueVars => Counted'
<1>1. SUFFICES ASSUME QueueTypeOK, Worked, Counted, Next
               PROVE  Counted'
  BY DEF Counted, queueVars, storedVars
<1>2. /\ made \in [Ids -> Nat] /\ state \in [Ids -> JobStates] /\ replays \in Nat
      /\ \A i \in Ids : Budget(i) \in Nat \ {0}
  BY <1>1, BudgetIsNat DEF QueueTypeOK
<1>3. ASSUME NEW i \in Ids, NEW reason, AttemptFails(i, reason), state[i] = "active", UNCHANGED replays
      PROVE  Counted'
  <2>1. made[i] < Budget(i) + replays  BY <1>1, <1>3 DEF Counted
  <2>2. state'[i] = "waiting" => made[i] + 1 < Budget(i)  BY <1>2, <1>3 DEF AttemptFails
  <2>3. state'[i] \notin {"active", "absent"}  BY <1>2, <1>3 DEF AttemptFails
  <2> QED  BY <1>1, <1>2, <1>3, <2>1, <2>2, <2>3 DEF Counted, AttemptFails
<1> USE DEF Counted, Added, On, Goto, storedVars
<1>a. CASE \/ \E i \in Ids : CancelFlag(i) \/ CancelKeyExpires(i)
           \/ \E w \in Workers, i \in Ids :
                Admitted(w, i) \/ AddSlot(w, i) \/ PollCancel(w, i) \/ Release(w, i) \/ Run(w, i)
  BY <1>1, <1>a DEF CancelFlag, CancelKeyExpires, Admitted, AddSlot, PollCancel, Release, Run, HandlerEnds
<1>b. CASE (\E j \in Jobs : Enqueue(j)) \/ \E i \in Ids : CopyRefused(i)
  <2>1. PICK k \in Ids : Added(k) /\ UNCHANGED replays
    <3>1. \A j \in Jobs, n \in 0 .. MaxCopies : <<j, n>> \in Ids
      BY DEF Ids
    <3>2. \A i \in Ids : i[1] \in Jobs
      BY DEF Ids
    <3>3. ASSUME NEW j \in Jobs, Enqueue(j)  PROVE  Added(<<j, 0>>) /\ UNCHANGED replays /\ <<j, 0>> \in Ids
      BY <3>1, <3>3 DEF Enqueue
    <3>4. ASSUME NEW i \in Ids, CopyRefused(i)
          PROVE  \E k \in Ids : Added(k) /\ UNCHANGED replays
      <4> HIDE DEF Added
      <4>1. PICK n \in 1 .. MaxCopies : Added(<<i[1], n>>)
        BY <3>4 DEF CopyRefused
      <4>2. UNCHANGED replays
        BY <3>4 DEF CopyRefused
      <4>3. n \in 0 .. MaxCopies
        OBVIOUS
      <4> QED  BY <3>1, <3>2, <4>1, <4>2, <4>3
    <3> HIDE DEF Added
    <3> QED  BY <1>b, <3>3, <3>4
  <2>2. made[k] = 0 /\ state' = [state EXCEPT ![k] = "waiting"] /\ UNCHANGED made
    BY <1>1, <2>1
  <2>3. made[k] < Budget(k) + replays
    BY <1>2, <2>2, <1>1 DEF QueueTypeOK
  <2> QED  BY <1>1, <1>2, <2>1, <2>2, <2>3
<1>c. CASE \E i \in Ids : CancelWaiting(i)
  BY <1>1, <1>2, <1>c DEF CancelWaiting
<1>d. CASE \E i \in Ids : ReplayDeadLetter(i)
  BY <1>1, <1>2, <1>d DEF ReplayDeadLetter
<1>e. CASE \E w \in Workers, i \in Ids : PickUp(w, i) \/ WorkerLost(w, i)
  <2> PICK w \in Workers, i \in Ids : PickUp(w, i) \/ WorkerLost(w, i)  BY <1>e
  <2>1. state[i] \in {"waiting", "active"}  BY <1>1 DEF PickUp, WorkerLost, Worked
  <2> QED  BY <1>1, <1>2, <2>1 DEF PickUp, WorkerLost
<1>f. CASE \E w \in Workers, i \in Ids : Refused(w, i) \/ Settle(w, i)
  <2> PICK w \in Workers, i \in Ids : Refused(w, i) \/ Settle(w, i)  BY <1>f
  <2>1. state[i] = "active" /\ UNCHANGED replays  BY <1>1 DEF Refused, Settle, Worked
  <2>2. CASE state' = [state EXCEPT ![i] = "completed"] /\ UNCHANGED made
    BY <1>1, <1>2, <2>1, <2>2
  <2>3. CASE AttemptFails(i, "refused") \/ AttemptFails(i, "handler")
    BY <1>3, <2>1, <2>3
  <2> QED  BY <2>2, <2>3 DEF Refused, Settle
<1> QED
  BY <1>1, <1>a, <1>b, <1>c, <1>d, <1>e, <1>f DEF Next, ClientStep, QueueStep, WorkerStep

-----------------------------------------------------------------------------

LEMMA AddersFinite ==
  \A t \in Tenants : /\ IsFiniteSet(Adders(t)) /\ Cardinality(Adders(t)) \in Nat
                     /\ Cardinality(Adders(t)) <= Cardinality(Workers) /\ Cardinality(Workers) \in Nat
<1>1. \A t \in Tenants : Adders(t) \in SUBSET Workers
  BY DEF Adders
<1> QED  BY <1>1, FS_Subset, FS_CardinalityType

LEMMA AddersFiniteNext ==
  \A t \in Tenants : /\ IsFiniteSet(Adders(t)') /\ Cardinality(Adders(t)') \in Nat
                     /\ Cardinality(Adders(t)') <= Cardinality(Workers)
<1>1. \A t \in Tenants : Adders(t)' \in SUBSET Workers
  BY DEF Adders
<1> QED  BY <1>1, FS_Subset, FS_CardinalityType

LEMMA Sizes ==
  ASSUME QueueTypeOK, SlotsFit, NEW t \in Tenants
  PROVE  /\ IsFiniteSet(slots[t]) /\ IsFiniteSet(Leaked(t)) /\ IsFiniteSet(Adders(t))
         /\ Cardinality(slots[t]) \in Nat /\ Cardinality(Leaked(t)) \in Nat /\ Cardinality(Adders(t)) \in Nat
         /\ Cardinality(Workers) \in Nat /\ losses \in Nat
         /\ SlotsFitFor(t) /\ slots[t] \in SUBSET Ids
<1>1. IsFiniteSet(slots[t]) /\ Leaked(t) \subseteq slots[t]
  BY DEF SlotsFit, SlotsFitFor, Leaked
<1>2. IsFiniteSet(Leaked(t))
  BY <1>1, FS_Subset
<1> QED  BY <1>1, <1>2, AddersFinite, FS_CardinalityType DEF QueueTypeOK, SlotsFit

LEMMA OneMore ==
  \A S, x : IsFiniteSet(S) => IsFiniteSet(S \cup {x}) /\ Cardinality(S \cup {x}) <= Cardinality(S) + 1
<1> SUFFICES ASSUME NEW S, NEW x, IsFiniteSet(S)
             PROVE  IsFiniteSet(S \cup {x}) /\ Cardinality(S \cup {x}) <= Cardinality(S) + 1
  OBVIOUS
<1>1. Cardinality(S) \in Nat
  BY FS_CardinalityType
<1>2. Cardinality(S \cup {x}) = Cardinality(S) \/ Cardinality(S \cup {x}) = Cardinality(S) + 1
  BY FS_AddElement
<1> QED  BY <1>1, <1>2, FS_AddElement

\* A tenant for whom nothing grows keeps fitting.
LEMMA ShrinkingFits ==
  ASSUME QueueTypeOK, SlotsFit, NEW t \in Tenants,
         slots'[t] \subseteq slots[t], Adders(t)' \subseteq Adders(t), Leaked(t)' \subseteq Leaked(t),
         losses' = losses
  PROVE  SlotsFitFor(t)'
<1>1. /\ IsFiniteSet(slots'[t]) /\ Cardinality(slots'[t]) <= Cardinality(slots[t])
      /\ Cardinality(slots'[t]) \in Nat
  BY Sizes, FS_Subset, FS_CardinalityType
<1>2. Cardinality(Adders(t)') <= Cardinality(Adders(t)) /\ Cardinality(Adders(t)') \in Nat
  BY Sizes, FS_Subset, FS_CardinalityType
<1>3. Cardinality(Leaked(t)') <= Cardinality(Leaked(t)) /\ Cardinality(Leaked(t)') \in Nat
  BY Sizes, FS_Subset, FS_CardinalityType
<1> QED  BY <1>1, <1>2, <1>3, Sizes DEF SlotsFitFor, Tenant

\* A step that lets nobody past the count, takes nobody's slot and adds none.
Calm ==
  /\ \A w \in Workers, i \in Ids : (Adding(w, i)' => Adding(w, i)) /\ (Owning(w, i) => Owning(w, i)')
  /\ UNCHANGED <<slots, losses>>

LEMMA CalmSlots ==
  ASSUME QueueTypeOK, SlotsFit, Calm
  PROVE  SlotsFit'
<1> SUFFICES ASSUME NEW t \in Tenants  PROVE SlotsFitFor(t)'
  BY DEF SlotsFit
<1>1. slots[t] \subseteq Ids /\ slots'[t] = slots[t] /\ losses' = losses
  BY DEF QueueTypeOK, Calm
<1>2. Adders(t)' \subseteq Adders(t)
  BY DEF Calm, Adders, Tenant
<1>3. Leaked(t)' \subseteq Leaked(t)
  BY <1>1 DEF Calm, Leaked, Owned
<1> QED  BY <1>1, <1>2, <1>3, ShrinkingFits

LEMMA AdmittedSlots ==
  ASSUME QueueTypeOK, SlotsFit, NEW w \in Workers, NEW i \in Ids, Admitted(w, i)
  PROVE  SlotsFit'
<1>1. at \in [Workers -> Ats] /\ slots \in [Tenants -> SUBSET Ids]
  BY DEF QueueTypeOK, Ats
<1>2. UNCHANGED <<slots, losses>> /\ at' = [at EXCEPT ![w].label = "add"] /\ at[w].job = i /\ at[w].label = "count"
  BY DEF Admitted, Goto, On
<1>3. at'[w].job = i /\ at'[w].label = "add" /\ \A v \in Workers \ {w} : at'[v] = at[v]
  BY <1>1, <1>2 DEF Ats
<1> SUFFICES ASSUME NEW t \in Tenants  PROVE SlotsFitFor(t)'
  BY DEF SlotsFit
<1>4. Leaked(t)' = Leaked(t)
  BY <1>2, <1>3 DEF Leaked, Owned, Owning
<1>5. CASE t = Tenant(i)
  <2>1. Cardinality(slots[t]) < Limit
    BY <1>5 DEF Admitted
  <2>2. Cardinality(Adders(t)') \in Nat /\ Cardinality(Adders(t)') <= Cardinality(Workers)
    BY AddersFiniteNext
  <2> QED  BY <1>2, <1>4, <2>1, <2>2, Sizes DEF SlotsFitFor, Tenant
<1>6. CASE t # Tenant(i)
  <2>1. Adders(t)' \subseteq Adders(t)
    BY <1>2, <1>3, <1>6 DEF Adders, Adding, Tenant
  <2> QED  BY <1>2, <1>4, <2>1, ShrinkingFits
<1> QED  BY <1>5, <1>6

LEMMA AddSlotSlots ==
  ASSUME QueueTypeOK, SlotsFit, NEW w \in Workers, NEW i \in Ids, AddSlot(w, i)
  PROVE  SlotsFit'
<1>1. at \in [Workers -> Ats] /\ slots \in [Tenants -> SUBSET Ids] /\ Tenant(i) \in Tenants
  BY BudgetIsNat DEF QueueTypeOK, Ats
<1>2. /\ slots' = [slots EXCEPT ![Tenant(i)] = @ \cup {i}] /\ losses' = losses
      /\ at' = [at EXCEPT ![w].label = "run"] /\ at[w].job = i /\ at[w].label = "add"
  BY DEF AddSlot, Goto, On
<1>3. at'[w].job = i /\ at'[w].label = "run" /\ \A v \in Workers \ {w} : at'[v] = at[v]
  BY <1>1, <1>2 DEF Ats
<1> SUFFICES ASSUME NEW t \in Tenants  PROVE SlotsFitFor(t)'
  BY DEF SlotsFit
<1>4. Leaked(t)' \subseteq Leaked(t)
  <2>1. slots'[t] \subseteq slots[t] \cup {i} /\ slots[t] \subseteq slots'[t] /\ slots[t] \subseteq Ids
    BY <1>1, <1>2
  <2>2. \A k \in Ids : (\E v \in Workers : Owning(v, k)) => \E v \in Workers : Owning(v, k)'
    BY <1>2, <1>3 DEF Owning
  <2>3. Owning(w, i)'
    BY <1>3 DEF Owning
  <2> QED  BY <2>1, <2>2, <2>3 DEF Leaked, Owned
<1>5. CASE t = Tenant(i)
  <2>1. slots'[t] = slots[t] \cup {i}
    BY <1>1, <1>2, <1>5
  <2>2. w \in Adders(t) /\ Adders(t)' \subseteq Adders(t) \ {w}
    BY <1>2, <1>3, <1>5 DEF Adders, Adding, Tenant
  <2>3. IsFiniteSet(Adders(t) \ {w}) /\ Cardinality(Adders(t) \ {w}) = Cardinality(Adders(t)) - 1
    BY <2>2, Sizes, FS_RemoveElement
  <2>4. IsFiniteSet(slots[t] \cup {i}) /\ Cardinality(slots[t] \cup {i}) <= Cardinality(slots[t]) + 1
    BY Sizes, OneMore
  <2>5. /\ Cardinality(Adders(t)') <= Cardinality(Adders(t)) - 1
        /\ Cardinality(Adders(t)') \in Nat /\ Cardinality(slots'[t]) \in Nat
    BY <2>1, <2>2, <2>3, <2>4, FS_Subset, FS_CardinalityType, AddersFiniteNext
  <2>6. Cardinality(Leaked(t)') <= Cardinality(Leaked(t)) /\ Cardinality(Leaked(t)') \in Nat
    BY <1>4, Sizes, FS_Subset, FS_CardinalityType
  <2>7. \A k \in slots'[t] : Tenant(k) = t
    BY <1>5, <2>1, Sizes DEF SlotsFitFor
  <2>8. IsFiniteSet(slots'[t]) /\ Cardinality(slots'[t]) <= Cardinality(slots[t]) + 1
    BY <2>1, <2>4
  <2>9. Cardinality(slots'[t]) + Cardinality(Adders(t)') <= Limit - 1 + Cardinality(Workers)
    BY <2>5, <2>8, Sizes DEF SlotsFitFor
  <2>10. Cardinality(Leaked(t)') <= losses'
    BY <1>2, <2>6, Sizes DEF SlotsFitFor
  <2> QED  BY <2>7, <2>8, <2>9, <2>10 DEF SlotsFitFor, Tenant
<1>6. CASE t # Tenant(i)
  <2>1. slots'[t] = slots[t]
    BY <1>1, <1>2, <1>6
  <2>2. Adders(t)' \subseteq Adders(t)
    BY <1>2, <1>3 DEF Adders, Adding, Tenant
  <2> QED  BY <1>2, <1>4, <2>1, <2>2, ShrinkingFits
<1> QED  BY <1>5, <1>6

LEMMA ReleaseSlots ==
  ASSUME QueueTypeOK, SlotsFit, NEW w \in Workers, NEW i \in Ids, Release(w, i)
  PROVE  SlotsFit'
<1>1. at \in [Workers -> Ats] /\ slots \in [Tenants -> SUBSET Ids] /\ Tenant(i) \in Tenants
  BY BudgetIsNat DEF QueueTypeOK, Ats
<1>2. /\ slots' = [slots EXCEPT ![Tenant(i)] = @ \ {i}] /\ losses' = losses
      /\ at' = [at EXCEPT ![w].label = "settle"] /\ at[w].job = i /\ at[w].label = "release"
  BY DEF Release, Goto, On
<1>3. at'[w].job = i /\ at'[w].label = "settle" /\ \A v \in Workers \ {w} : at'[v] = at[v]
  BY <1>1, <1>2 DEF Ats
<1> SUFFICES ASSUME NEW t \in Tenants  PROVE SlotsFitFor(t)'
  BY DEF SlotsFit
<1>4. slots'[t] \subseteq slots[t] /\ i \notin slots'[t]
  BY <1>1, <1>2, Sizes DEF SlotsFitFor
<1>5. Adders(t)' \subseteq Adders(t)
  BY <1>2, <1>3 DEF Adders, Adding, Tenant
<1>6. Leaked(t)' \subseteq Leaked(t)
  <2>1. \A k \in Ids \ {i} : (\E v \in Workers : Owning(v, k)) => \E v \in Workers : Owning(v, k)'
    BY <1>2, <1>3 DEF Owning
  <2> QED  BY <1>1, <1>4, <2>1 DEF Leaked, Owned
<1> QED  BY <1>2, <1>4, <1>5, <1>6, ShrinkingFits

LEMMA LostSlots ==
  ASSUME QueueTypeOK, SlotsFit, NEW w \in Workers, NEW i \in Ids, WorkerLost(w, i)
  PROVE  SlotsFit'
<1>1. at \in [Workers -> Ats] /\ slots \in [Tenants -> SUBSET Ids]
  BY DEF QueueTypeOK, Ats
<1>2. UNCHANGED slots /\ losses' = losses + 1 /\ at' = [at EXCEPT ![w] = Idle] /\ at[w].job = i
  BY DEF WorkerLost
<1>3. at'[w] = Idle /\ \A v \in Workers \ {w} : at'[v] = at[v]
  BY <1>1, <1>2
<1> SUFFICES ASSUME NEW t \in Tenants  PROVE SlotsFitFor(t)'
  BY DEF SlotsFit
<1>4. Adders(t)' \subseteq Adders(t)
  BY <1>3 DEF Adders, Adding, Tenant, Idle
<1>5. Leaked(t)' \subseteq Leaked(t) \cup {i}
  <2>1. \A k \in Ids \ {i} : (\E v \in Workers : Owning(v, k)) => \E v \in Workers : Owning(v, k)'
    BY <1>2, <1>3 DEF Owning
  <2> QED  BY <1>1, <1>2, <2>1 DEF Leaked, Owned
<1>6. IsFiniteSet(Leaked(t) \cup {i}) /\ Cardinality(Leaked(t) \cup {i}) <= Cardinality(Leaked(t)) + 1
  BY Sizes, OneMore
<1>7. /\ Cardinality(Leaked(t)') <= Cardinality(Leaked(t)) + 1 /\ Cardinality(Leaked(t)') \in Nat
      /\ Cardinality(Leaked(t) \cup {i}) \in Nat
  BY <1>5, <1>6, Sizes, FS_Subset, FS_CardinalityType
<1>8. Cardinality(Adders(t)') <= Cardinality(Adders(t)) /\ Cardinality(Adders(t)') \in Nat
  BY <1>4, Sizes, FS_Subset, FS_CardinalityType
<1> QED  BY <1>2, <1>7, <1>8, Sizes DEF SlotsFitFor, Tenant

\* Every other step is calm: it leaves the labels "add" to "release" to whom
\* they belong.
LEMMA SlotsStep == QueueTypeOK /\ Worked /\ SlotsFit /\ [Next]_queueVars => SlotsFit'
<1>1. SUFFICES ASSUME QueueTypeOK, Worked, SlotsFit, [Next]_queueVars
               PROVE  SlotsFit'
  OBVIOUS
<1>2. at \in [Workers -> Ats]
  BY <1>1 DEF QueueTypeOK, Ats
<1> USE DEF Added, On, Goto, storedVars
<1>a. CASE \/ ClientStep \/ UNCHANGED queueVars
           \/ (\E j \in Jobs : Enqueue(j)) \/ \E i \in Ids : CopyRefused(i)
  <2> UNCHANGED <<at, slots, losses>>
    BY <1>a DEF ClientStep, CancelWaiting, CancelFlag, CancelKeyExpires, ReplayDeadLetter, Enqueue, CopyRefused, queueVars
  <2> Calm  BY DEF Calm, Adding, Owning
  <2> QED  BY <1>1, CalmSlots
<1>b. CASE \E w \in Workers, i \in Ids :
             \/ PickUp(w, i) \/ Refused(w, i) \/ PollCancel(w, i) \/ Run(w, i) \/ Settle(w, i)
  <2> PICK w \in Workers, i \in Ids :
             \/ PickUp(w, i) \/ Refused(w, i) \/ PollCancel(w, i) \/ Run(w, i) \/ Settle(w, i)
    BY <1>b
  <2>1. UNCHANGED <<slots, losses>> /\ \A v \in Workers \ {w} : at'[v] = at[v]
    BY <1>2 DEF PickUp, Refused, PollCancel, Run, HandlerEnds, Settle
  <2>2. at[w].label \in {"idle", "count", "settle"} => at'[w].label \in {"idle", "count"}
    <3>1. CASE PickUp(w, i)
      BY <1>2, <3>1 DEF PickUp, Idle
    <3>2. CASE Refused(w, i) \/ Settle(w, i)
      BY <1>2, <3>2 DEF Refused, Settle, Idle
    <3>3. CASE PollCancel(w, i) \/ Run(w, i)
      BY <3>3 DEF PollCancel, Run, HandlerEnds
    <3> QED  BY <3>1, <3>2, <3>3
  <2>3. \/ at[w].label \in {"idle", "count", "settle"}
        \/ at'[w].job = at[w].job /\ at[w].label = "run" /\ at'[w].label \in {"run", "release"}
        \/ at'[w].job = at[w].job /\ at[w].label \in {"post", "write"} /\ at'[w].label = at[w].label
    BY <1>2 DEF PickUp, Refused, PollCancel, Run, HandlerEnds, Settle, Idle, Ats
  <2> Calm  BY <2>1, <2>2, <2>3 DEF Calm, Adding, Owning
  <2> QED  BY <1>1, CalmSlots
<1> QED
  BY <1>1, <1>a, <1>b, AdmittedSlots, AddSlotSlots, ReleaseSlots, LostSlots DEF Next, QueueStep, WorkerStep

-----------------------------------------------------------------------------

LEMMA InitInv == Init => QueueInv
<1> SUFFICES ASSUME Init PROVE QueueInv
  OBVIOUS
<1> USE DEF Init
<1>1. QueueTypeOK
  BY IdleIsAt DEF QueueTypeOK, JobStates, Reasons, Ats
<1>2. Worked
  BY IdleIsAt DEF Worked
<1>3. Counted
  BY BudgetIsNat DEF Counted
<1>4. SlotsFit
  <2> SUFFICES ASSUME NEW t \in Tenants PROVE SlotsFitFor(t)
    BY DEF SlotsFit
  <2>1. slots[t] = {} /\ Adders(t) = {} /\ Leaked(t) = {}
    BY DEF Adders, Adding, Idle, Leaked, Owned
  <2>2. Cardinality(Workers) \in Nat \ {0}
    BY FS_CardinalityType, FS_EmptySet
  <2> QED  BY <2>1, <2>2, FS_EmptySet DEF SlotsFitFor
<1> QED  BY <1>1, <1>2, <1>3, <1>4 DEF QueueInv

\* The inductive invariant of the queue (BullMqJobQueue and its limiter): a job
\* has one worker, an attempt has its budget, a slot has its worker or a loss.
THEOREM QueueInvariant == Spec => []QueueInv
<1>1. QueueInv /\ [Next]_queueVars => QueueInv'
  BY TypeStep, WorkedStep, CountedStep, SlotsStep DEF QueueInv
<1> QED  BY InitInv, <1>1, PTL DEF Spec

\* Every variable of the queue keeps its type, and no id is attempted more often
\* than its attempts option and the replays of dead letters allow.
THEOREM QueueTypeCorrect == Spec => []QueueTypeOK
<1>1. QueueInv => QueueTypeOK
  BY DEF QueueInv
<1> QED  BY <1>1, QueueInvariant, PTL

\* tryAcquire counts and adds in two commands, so a tenant can exceed its limit,
\* but only by the executions that passed the count together.
THEOREM SlotsAreBounded == Spec => []SlotsBounded
<1>1. QueueInv => SlotsBounded
  <2> SUFFICES ASSUME QueueInv, NEW t \in Tenants
               PROVE  Cardinality(slots[t]) <= Limit + Cardinality(Workers) - 1
    BY DEF SlotsBounded
  <2> QED  BY Sizes DEF QueueInv, SlotsFitFor
<1> QED  BY <1>1, QueueInvariant, PTL

\* Every slot that stays in Redis with nobody at work on it was left by a lost
\* worker: the processor releases it on every other way out.
THEOREM LeaksAreLosses == Spec => []SlotsLeakOnlyByLoss
<1>1. QueueInv => SlotsLeakOnlyByLoss
  <2> SUFFICES ASSUME QueueInv, NEW t \in Tenants
               PROVE  Cardinality(slots[t] \ HeldSlots(t)) <= losses
    BY DEF SlotsLeakOnlyByLoss
  <2>1. slots[t] \ HeldSlots(t) \subseteq Leaked(t)
    BY DEF HeldSlots, Leaked, Owned, Owning
  <2>2. QueueTypeOK /\ SlotsFit
    BY DEF QueueInv
  <2>3. Cardinality(slots[t] \ HeldSlots(t)) <= Cardinality(Leaked(t))
    BY <2>1, <2>2, Sizes, FS_Subset
  <2>4. Cardinality(slots[t] \ HeldSlots(t)) \in Nat
    BY <2>1, <2>2, Sizes, FS_Subset, FS_CardinalityType
  <2> QED  BY <2>2, <2>3, <2>4, Sizes DEF SlotsFitFor
<1> QED  BY <1>1, QueueInvariant, PTL

-----------------------------------------------------------------------------

\* What still stands for a job whose original is dead.
Stands(i) == Alive(i) \/ state[i] = "completed" \/ (state[i] = "failed" /\ failedReason[i] = "handler")
Kept(j) == state[<<j, 0>>] = "failed" => \E i \in Instances(j) : Stands(i)

\* What stands for a job goes on standing: only a cancelled copy and a loss
\* could end it, and a refused attempt hands over to its copy.
LEMMA StandsOn ==
  ASSUME "waiting" \notin CancellableCopies, QueueTypeOK, Worked, Next, losses' = losses,
         NEW i \in Ids, Stands(i), i[2] = 0 => state[i] = "failed"
  PROVE  Stands(i)' \/ \E k \in Instances(i[1]) : Stands(k)'
<1>1. /\ state \in [Ids -> JobStates] /\ failedReason \in [Ids -> Reasons] /\ at \in [Workers -> Ats]
      /\ losses \in Nat
  BY DEF QueueTypeOK, Ats
<1> USE DEF Stands, Alive, Added, On, Goto, storedVars
<1>a. CASE \/ (\E j \in Jobs : Enqueue(j))
           \/ \E k \in Ids : CancelFlag(k) \/ CancelKeyExpires(k) \/ ReplayDeadLetter(k)
  BY <1>1, <1>a DEF Enqueue, CancelFlag, CancelKeyExpires, ReplayDeadLetter
<1>b. CASE \E k \in Ids : CancelWaiting(k)
  <2> PICK k \in Ids : CancelWaiting(k)  BY <1>b
  <2>1. CASE k = i
    BY <2>1 DEF CancelWaiting, MayCancel
  <2>2. CASE k # i
    BY <1>1, <2>2 DEF CancelWaiting
  <2> QED  BY <2>1, <2>2
<1>c. CASE \E k \in Ids : CopyRefused(k)
  <2> PICK k \in Ids : CopyRefused(k)  BY <1>c
  <2>1. PICK n \in 1 .. MaxCopies : Added(<<k[1], n>>)
    BY DEF CopyRefused
  <2>2. <<k[1], n>> \in Instances(k[1]) /\ state'[<<k[1], n>>] = "waiting"
    BY <1>1, <2>1 DEF Instances, Ids
  <2>3. CASE k = i
    BY <2>2, <2>3
  <2>4. CASE k # i
    <3>1. i \in refused => i \in refused'
      BY <2>4 DEF CopyRefused
    <3>2. state[i] # "absent" => state'[i] = state[i] /\ failedReason'[i] = failedReason[i]
      BY <1>1, <2>1
    <3> QED  BY <3>1, <3>2
  <2> QED  BY <2>3, <2>4
<1>d. CASE \E w \in Workers, k \in Ids :
             \/ PickUp(w, k) \/ Admitted(w, k) \/ AddSlot(w, k) \/ PollCancel(w, k) \/ Release(w, k) \/ Run(w, k)
  BY <1>1, <1>d DEF PickUp, Admitted, AddSlot, PollCancel, Release, Run, HandlerEnds
<1>e. CASE \E w \in Workers, k \in Ids : Refused(w, k)
  BY <1>1, <1>e DEF Refused, AttemptFails
<1>f. CASE \E w \in Workers, k \in Ids : Settle(w, k)
  BY <1>1, <1>f DEF Settle, AttemptFails
<1>g. CASE \E w \in Workers, k \in Ids : WorkerLost(w, k)
  BY <1>1, <1>g DEF WorkerLost
<1> QED  BY <1>a, <1>b, <1>c, <1>d, <1>e, <1>f, <1>g DEF Next, ClientStep, QueueStep, WorkerStep

\* A job that dies has just been refused or has failed by itself.
LEMMA DiesStanding ==
  ASSUME QueueTypeOK, Worked, Next, losses' = losses, NEW i \in Ids, state[i] # "failed", state'[i] = "failed"
  PROVE  Stands(i)'
<1>1. /\ state \in [Ids -> JobStates] /\ failedReason \in [Ids -> Reasons] /\ losses \in Nat
  BY DEF QueueTypeOK
<1> USE DEF Stands, Alive, Added, On, Goto, storedVars
<1>a. CASE \/ (\E j \in Jobs : Enqueue(j)) \/ ClientStep \/ \E k \in Ids : CopyRefused(k)
  BY <1>1, <1>a DEF Enqueue, ClientStep, CancelWaiting, CancelFlag, CancelKeyExpires, ReplayDeadLetter, CopyRefused
<1>b. CASE \E w \in Workers, k \in Ids :
             \/ PickUp(w, k) \/ Admitted(w, k) \/ AddSlot(w, k) \/ PollCancel(w, k) \/ Release(w, k)
             \/ Run(w, k) \/ WorkerLost(w, k)
  BY <1>1, <1>b DEF PickUp, Admitted, AddSlot, PollCancel, Release, Run, HandlerEnds, WorkerLost
<1>c. CASE \E w \in Workers, k \in Ids : Refused(w, k) \/ Settle(w, k)
  BY <1>1, <1>c DEF Refused, Settle, AttemptFails
<1> QED  BY <1>a, <1>b, <1>c DEF Next, QueueStep, WorkerStep

LEMMA LossesGrow == Next => losses' = losses \/ losses' = losses + 1
<1> SUFFICES ASSUME Next PROVE losses' = losses \/ losses' = losses + 1
  OBVIOUS
<1>1. CASE (\E j \in Jobs : Enqueue(j)) \/ ClientStep \/ \E i \in Ids : CopyRefused(i)
  BY <1>1 DEF Enqueue, ClientStep, CancelWaiting, CancelFlag, CancelKeyExpires, ReplayDeadLetter, CopyRefused
<1>2. CASE \E w \in Workers, i \in Ids : WorkerStep(w, i) \/ PickUp(w, i)
  BY <1>2 DEF WorkerStep, PickUp, Admitted, Refused, AddSlot, Release, Settle
<1>3. CASE \E w \in Workers, i \in Ids : PollCancel(w, i) \/ WorkerLost(w, i) \/ Run(w, i)
  BY <1>3 DEF PollCancel, WorkerLost, Run, HandlerEnds
<1> QED  BY <1>1, <1>2, <1>3 DEF Next, QueueStep

\* As long as no worker is lost, and unless a client cancels a copy, a job whose
\* original ends in the dead letters by back-pressure has another instance that
\* is still to run, has run, or has failed by itself.
THEOREM RefusedIsKept ==
  ASSUME "waiting" \notin CancellableCopies
  PROVE  Spec => []RefusedIsNotForgotten
<1> DEFINE Inv == losses = 0 => \A j \in Jobs : Kept(j)
<1>1. Init => Inv
  BY DEF Init, Kept, Ids
<1>2. QueueInv /\ Inv /\ [Next]_queueVars => Inv'
  <2> SUFFICES ASSUME QueueInv, Inv, [Next]_queueVars, losses' = 0, NEW j \in Jobs, state'[<<j, 0>>] = "failed"
               PROVE  \E i \in Instances(j) : Stands(i)'
    BY DEF Kept
  <2>1. QueueTypeOK /\ Worked
    BY DEF QueueInv
  <2>2. <<j, 0>> \in Instances(j) /\ <<j, 0>> \in Ids
    BY DEF Instances, Ids
  <2>3. CASE UNCHANGED queueVars
    BY <2>3 DEF Kept, Stands, Alive, queueVars, storedVars
  <2>4. CASE Next
    <3>1. losses = 0 /\ losses' = losses
      BY <2>1, <2>4, LossesGrow DEF QueueTypeOK
    <3>2. CASE state[<<j, 0>>] # "failed"
      BY <2>1, <2>2, <2>4, <3>1, <3>2, DiesStanding
    <3>3. CASE state[<<j, 0>>] = "failed"
      <4>1. PICK i \in Instances(j) : Stands(i)
        BY <3>1, <3>3 DEF Kept
      <4>2. i \in Ids /\ i[1] = j /\ (i[2] = 0 => i = <<j, 0>>)
        BY DEF Instances, Ids
      <4> QED  BY <2>1, <2>4, <3>1, <3>3, <4>1, <4>2, StandsOn
    <3> QED  BY <3>2, <3>3
  <2> QED  BY <2>3, <2>4
<1>3. Inv => RefusedIsNotForgotten
  BY DEF RefusedIsNotForgotten, Kept, Stands
<1> HIDE DEF Inv
<1> QED  BY <1>1, <1>2, <1>3, QueueInvariant, PTL DEF Spec

-----------------------------------------------------------------------------
(* The queue keeps the contract of the in-memory queue but for its three   *)
(* departures, for any jobs, tenants, workers and limits, and for clients  *)
(* that cancel a job in any state.                                         *)

\* The refinement mapping of QueueProperties, by name.
Begun(v, n) == n + IF v \in {"active", "completed"} THEN 1 ELSE 0
Aborted(i) == \E w \in Workers : at[w].job = i /\ at[w].aborted

CState == [j \in Jobs |-> View(<<j, 0>>)]
CAttempts == [j \in Jobs |-> Begun(View(<<j, 0>>), made[<<j, 0>>])]
CAborting == {j \in Jobs : Aborted(<<j, 0>>)}

\* The mapping, written out.
LEMMA MappedNames ==
  /\ [j \in Jobs |-> View(<<j, 0>>)] = CState
  /\ [j \in Jobs |-> made[<<j, 0>>] + IF View(<<j, 0>>) \in {"active", "completed"} THEN 1 ELSE 0] = CAttempts
  /\ {j \in Jobs : \E w \in Workers : at[w].job = <<j, 0>> /\ at[w].aborted} = CAborting
  BY DEF CState, CAttempts, CAborting, Begun, Aborted

\* A signal is aborted only while its handler runs, so not before the limiter has
\* let the execution in.
AbortedLater == \A w \in Workers : at[w].label = "count" => ~at[w].aborted

-----------------------------------------------------------------------------

LEMMA IdsShape ==
  /\ \A j \in Jobs, n \in 0 .. MaxCopies : <<j, n>> \in Ids
  /\ \A i \in Ids : i = <<i[1], i[2]>> /\ i[1] \in Jobs /\ i[2] \in 0 .. MaxCopies
  /\ \A j \in Jobs : <<j, 0>> \in Ids /\ <<j, 0>> # NoJob /\ Budget(<<j, 0>>) = MaxAttempts
  /\ \A i \in Ids, j \in Jobs : i # <<j, 0>> <=> (i[2] # 0 \/ i[1] # j)
<1>1. \A j \in Jobs, n \in 0 .. MaxCopies : <<j, n>> \in Ids
  BY DEF Ids
<1>2. \A i \in Ids : i = <<i[1], i[2]>> /\ i[1] \in Jobs /\ i[2] \in 0 .. MaxCopies
  BY DEF Ids
<1>3. ASSUME NEW j \in Jobs
      PROVE  <<j, 0>> \in Ids /\ <<j, 0>> # NoJob /\ Budget(<<j, 0>>) = MaxAttempts
  <2>1. 0 \in 0 .. MaxCopies
    OBVIOUS
  <2>2. <<j, 0>> \in Ids
    BY <1>1, <2>1
  <2>3. <<j, 0>> # NoJob
    BY <2>2
  <2> QED  BY <2>2, <2>3 DEF Budget
<1>4. \A i \in Ids, j \in Jobs : i # <<j, 0>> <=> (i[2] # 0 \/ i[1] # j)
  BY <1>2
<1> QED  BY <1>1, <1>2, <1>3, <1>4

LEMMA AbortedLaterStep ==
  ASSUME QueueTypeOK, AbortedLater, [Next]_queueVars
  PROVE  AbortedLater'
<1>1. at \in [Workers -> Ats]
  BY DEF QueueTypeOK, Ats
<1> USE DEF Added, On, Goto, storedVars
<1>a. CASE \/ UNCHANGED queueVars \/ (\E j \in Jobs : Enqueue(j))
           \/ \E i \in Ids : \/ CancelWaiting(i) \/ CancelFlag(i) \/ CancelKeyExpires(i)
                             \/ ReplayDeadLetter(i) \/ CopyRefused(i)
  BY <1>a DEF AbortedLater, queueVars, Enqueue, CancelWaiting, CancelFlag, CancelKeyExpires,
     ReplayDeadLetter, CopyRefused
<1>b. CASE \E w \in Workers, i \in Ids :
             \/ PickUp(w, i) \/ WorkerStep(w, i) \/ PollCancel(w, i) \/ WorkerLost(w, i) \/ Run(w, i)
  <2> PICK w \in Workers, i \in Ids :
             \/ PickUp(w, i) \/ WorkerStep(w, i) \/ PollCancel(w, i) \/ WorkerLost(w, i) \/ Run(w, i)
    BY <1>b
  <2>1. \A v \in Workers \ {w} : at'[v] = at[v]
    BY <1>1 DEF PickUp, WorkerStep, Admitted, Refused, AddSlot, Release, Settle, PollCancel, WorkerLost,
       Run, HandlerEnds
  <2>2. at'[w].label = "count" => ~at'[w].aborted
    <3>1. Idle.aborted = FALSE /\ [Idle EXCEPT !.job = i, !.label = "count"].aborted = FALSE
      BY DEF Idle
    <3>2. PickUp(w, i) \/ Refused(w, i) \/ Settle(w, i) \/ WorkerLost(w, i) => at'[w].aborted = FALSE
      BY <1>1, <3>1 DEF PickUp, Refused, Settle, WorkerLost
    <3>3. Admitted(w, i) \/ AddSlot(w, i) \/ Release(w, i) => at'[w].label # "count"
      BY <1>1 DEF Admitted, AddSlot, Release, Ats
    <3>4. Run(w, i) \/ PollCancel(w, i) => at'[w].label # "count"
      BY <1>1 DEF Run, HandlerEnds, PollCancel, Ats
    <3> QED  BY <3>2, <3>3, <3>4 DEF WorkerStep
  <2> QED  BY <2>1, <2>2 DEF AbortedLater
<1> QED  BY <1>a, <1>b DEF Next, ClientStep, QueueStep

-----------------------------------------------------------------------------
(* What a step shows of the ids.                                           *)

\* Only what id i shows may change.
OnlyShows(i) ==
  \A k \in Ids \ {i} : View(k)' = View(k) /\ made'[k] = made[k] /\ (Aborted(k)' <=> Aborted(k))

\* The worker that has an id, or picks up one nobody has, is the only one to say
\* what the id shows.
LEMMA WorkerActs ==
  ASSUME QueueInv, NEW w \in Workers, NEW i \in Ids, NEW r \in Ats,
         at[w].job = i \/ (at[w].job = NoJob /\ state[i] # "active"),
         at' = [at EXCEPT ![w] = r], r.job \in {i, NoJob},
         \A k \in Ids \ {i} : state'[k] = state[k] /\ made'[k] = made[k]
  PROVE  /\ View(i) = IF at[w].job = i /\ at[w].label = "count" THEN "waiting" ELSE state[i]
         /\ Aborted(i) <=> (at[w].job = i /\ at[w].aborted)
         /\ View(i)' = IF r.job = i /\ r.label = "count" THEN "waiting" ELSE state'[i]
         /\ Aborted(i)' <=> (r.job = i /\ r.aborted)
         /\ OnlyShows(i)
<1>1. at \in [Workers -> Ats] /\ at'[w] = r /\ i # NoJob /\ \A v \in Workers \ {w} : at'[v] = at[v]
  BY DEF QueueInv, QueueTypeOK, Ats
<1>2. \A v \in Workers \ {w} : at[v].job # i
  BY <1>1 DEF QueueInv, Worked
<1>3. /\ Admitting(i) <=> (at[w].job = i /\ at[w].label = "count")
      /\ Aborted(i) <=> (at[w].job = i /\ at[w].aborted)
  BY <1>2 DEF Admitting, Aborted
<1>4. /\ Admitting(i)' <=> (r.job = i /\ r.label = "count")
      /\ Aborted(i)' <=> (r.job = i /\ r.aborted)
  BY <1>1, <1>2 DEF Admitting, Aborted
<1>5. ASSUME NEW k \in Ids \ {i}
      PROVE  (Admitting(k)' <=> Admitting(k)) /\ (Aborted(k)' <=> Aborted(k))
  <2>1. at[w].job # k /\ at'[w].job # k
    BY <1>1
  <2> QED  BY <1>1, <2>1 DEF Admitting, Aborted
<1> QED  BY <1>3, <1>4, <1>5 DEF View, OnlyShows

\* An id nobody works on shows its state.
LEMMA NobodyActs ==
  ASSUME QueueInv, NEW i \in Ids, state[i] # "active", UNCHANGED at,
         \A k \in Ids \ {i} : state'[k] = state[k] /\ made'[k] = made[k]
  PROVE  /\ View(i) = state[i] /\ ~Aborted(i)
         /\ View(i)' = state'[i] /\ ~Aborted(i)'
         /\ OnlyShows(i)
<1>1. i # NoJob
  OBVIOUS
<1>2. \A w \in Workers : at[w].job # i
  BY <1>1 DEF QueueInv, Worked
<1>3. /\ View(i) = state[i] /\ ~Aborted(i)
      /\ View(i)' = state'[i] /\ ~Aborted(i)'
  BY <1>2 DEF View, Admitting, Aborted
<1>4. \A k \in Ids \ {i} : View(k)' = View(k) /\ (Aborted(k)' <=> Aborted(k))
  BY DEF View, Admitting, Aborted
<1> QED  BY <1>3, <1>4 DEF OnlyShows

-----------------------------------------------------------------------------
(* The steps of the contract and its departures, in the mapped variables.  *)

Moves(j, v, n, aborted) ==
  /\ CState' = [CState EXCEPT ![j] = v]
  /\ CAttempts' = [CAttempts EXCEPT ![j] = n]
  /\ CAborting' = IF aborted THEN CAborting \cup {j} ELSE CAborting \ {j}

Stays == UNCHANGED <<CState, CAttempts, CAborting>>

Allowed == Contract!Unseen \/ Contract!Next \/ Contract!Departure

\* What original j may show next, without a loss and with one.
MayShow(j, v, n, aborted) ==
  \/ v = CState[j] /\ n = CAttempts[j] /\ (aborted <=> j \in CAborting)
  \/ /\ aborted <=> j \in CAborting
     /\ \/ CState[j] \in {"absent", "failed"} /\ v = "waiting" /\ n = CAttempts[j]
        \/ CState[j] = "waiting" /\ v = "active" /\ n = CAttempts[j] + 1
        \/ CState[j] = "waiting" /\ v = "absent" /\ n = 0
        \/ /\ CState[j] = "waiting" /\ n = CAttempts[j] + 1
           /\ v = IF n >= MaxAttempts THEN "failed" ELSE "waiting"
  \/ CState[j] = "active" /\ v = "active" /\ n = CAttempts[j] /\ aborted
  \/ /\ CState[j] = "active" /\ n = CAttempts[j] /\ ~aborted
     /\ v \in {"completed", IF CAttempts[j] >= MaxAttempts THEN "failed" ELSE "waiting"}

MayShowLoss(j, v, n, aborted) ==
  \/ v = CState[j] /\ n = CAttempts[j] /\ (aborted <=> j \in CAborting)
  \/ CState[j] = "waiting" /\ v = "failed" /\ n = CAttempts[j] /\ (aborted <=> j \in CAborting)
  \/ CState[j] = "active" /\ v \in {"waiting", "failed"} /\ n = CAttempts[j] - 1 /\ ~aborted

LEMMA SameStays ==
  ASSUME NEW j \in Jobs, NEW aborted \in BOOLEAN
  PROVE  /\ [CState EXCEPT ![j] = CState[j]] = CState
         /\ [CAttempts EXCEPT ![j] = CAttempts[j]] = CAttempts
         /\ (aborted <=> j \in CAborting) =>
               (IF aborted THEN CAborting \cup {j} ELSE CAborting \ {j}) = CAborting
<1> HIDE DEF Begun, View
<1>1. [CState EXCEPT ![j] = CState[j]] = CState
  BY DEF CState
<1>2. [CAttempts EXCEPT ![j] = CAttempts[j]] = CAttempts
  BY DEF CAttempts
<1> QED  BY <1>1, <1>2

\* In names of this module, the parts of the contract the mapping reaches.
LEMMA ContractMapped ==
  /\ Stays /\ UNCHANGED losses => Contract!Unseen
  /\ \A j \in Jobs :
       /\ /\ CState[j] = "absent" /\ CState' = [CState EXCEPT ![j] = "waiting"]
          /\ UNCHANGED <<CAttempts, CAborting>>
          => Contract!Enqueue(j)
       /\ /\ CState[j] = "waiting" /\ CState' = [CState EXCEPT ![j] = "active"]
          /\ CAttempts' = [CAttempts EXCEPT ![j] = @ + 1] /\ UNCHANGED CAborting
          => Contract!Start(j)
       /\ /\ CState[j] = "active" /\ CState' = [CState EXCEPT ![j] = "completed"]
          /\ CAborting' = CAborting \ {j} /\ UNCHANGED CAttempts
          => Contract!Complete(j)
       /\ /\ CState[j] = "active" /\ j \notin CAborting
          /\ CState' = [CState EXCEPT ![j] = IF CAttempts[j] >= MaxAttempts THEN "failed" ELSE "waiting"]
          /\ CAborting' = CAborting \ {j} /\ UNCHANGED CAttempts
          => Contract!Fail(j)
       /\ /\ CState[j] = "active" /\ j \in CAborting
          /\ CState' = [CState EXCEPT ![j] = IF CAttempts[j] >= MaxAttempts THEN "failed" ELSE "waiting"]
          /\ CAborting' = CAborting \ {j} /\ UNCHANGED CAttempts
          => Contract!CancelIsRetried(j)
       /\ /\ CState[j] = "waiting" /\ CState' = [CState EXCEPT ![j] = "absent"]
          /\ CAttempts' = [CAttempts EXCEPT ![j] = 0] /\ UNCHANGED CAborting
          => Contract!Cancel(j)
       /\ /\ CState[j] = "active" /\ CAborting' = CAborting \cup {j} /\ UNCHANGED <<CState, CAttempts>>
          => Contract!Cancel(j)
       /\ /\ CState[j] = "failed" /\ CState' = [CState EXCEPT ![j] = "waiting"]
          /\ UNCHANGED <<CAttempts, CAborting>>
          => Contract!ReplayKeepsCount(j)
       /\ /\ CState[j] = "waiting" /\ CAttempts' = [CAttempts EXCEPT ![j] = @ + 1]
          /\ CState' = [CState EXCEPT ![j] = IF CAttempts'[j] >= MaxAttempts THEN "failed" ELSE "waiting"]
          /\ UNCHANGED CAborting
          => Contract!RefusalCounts(j)
  BY DEF Stays, CState, CAttempts, CAborting, Aborted, Begun, Contract!Unseen, Contract!contractVars,
     Contract!Enqueue, Contract!Start, Contract!Complete, Contract!Fail, Contract!CancelIsRetried,
     Contract!Cancel, Contract!ReplayKeepsCount, Contract!RefusalCounts

LEMMA MovesAllowed ==
  ASSUME NEW j \in Jobs, NEW v, NEW n, NEW aborted \in BOOLEAN,
         Moves(j, v, n, aborted), MayShow(j, v, n, aborted), UNCHANGED losses
  PROVE  Allowed
<1>1. /\ v = CState[j] => UNCHANGED CState
      /\ n = CAttempts[j] => UNCHANGED CAttempts
      /\ (aborted <=> j \in CAborting) => UNCHANGED CAborting
  BY SameStays DEF Moves
<1>2. /\ CState' = [CState EXCEPT ![j] = v] /\ CAttempts' = [CAttempts EXCEPT ![j] = n] /\ CAttempts'[j] = n
      /\ aborted => CAborting' = CAborting \cup {j}
      /\ ~aborted => CAborting' = CAborting \ {j}
  BY DEF Moves, CAttempts
<1>a. CASE v = CState[j] /\ n = CAttempts[j] /\ (aborted <=> j \in CAborting)
  BY <1>a, <1>1, ContractMapped DEF Stays, Allowed
<1>b. CASE (aborted <=> j \in CAborting) /\ CState[j] = "absent" /\ v = "waiting" /\ n = CAttempts[j]
  BY <1>b, <1>1, <1>2, ContractMapped DEF Allowed, Contract!Next
<1>c. CASE (aborted <=> j \in CAborting) /\ CState[j] = "failed" /\ v = "waiting" /\ n = CAttempts[j]
  BY <1>c, <1>1, <1>2, ContractMapped DEF Allowed, Contract!Departure
<1>d. CASE (aborted <=> j \in CAborting) /\ CState[j] = "waiting" /\ v = "active" /\ n = CAttempts[j] + 1
  BY <1>d, <1>1, <1>2, ContractMapped DEF Allowed, Contract!Next
<1>e. CASE (aborted <=> j \in CAborting) /\ CState[j] = "waiting" /\ v = "absent" /\ n = 0
  BY <1>e, <1>1, <1>2, ContractMapped DEF Allowed, Contract!Next
<1>f. CASE /\ (aborted <=> j \in CAborting) /\ CState[j] = "waiting" /\ n = CAttempts[j] + 1
           /\ v = IF n >= MaxAttempts THEN "failed" ELSE "waiting"
  BY <1>f, <1>1, <1>2, ContractMapped DEF Allowed, Contract!Departure
<1>g. CASE CState[j] = "active" /\ v = "active" /\ n = CAttempts[j] /\ aborted
  BY <1>g, <1>1, <1>2, ContractMapped DEF Allowed, Contract!Next
<1>h. CASE CState[j] = "active" /\ n = CAttempts[j] /\ ~aborted /\ v = "completed"
  BY <1>h, <1>1, <1>2, ContractMapped DEF Allowed, Contract!Next
<1>i. CASE /\ CState[j] = "active" /\ n = CAttempts[j] /\ ~aborted
           /\ v = IF CAttempts[j] >= MaxAttempts THEN "failed" ELSE "waiting"
  BY <1>i, <1>1, <1>2, ContractMapped DEF Allowed, Contract!Next, Contract!Departure
<1> QED  BY <1>a, <1>b, <1>c, <1>d, <1>e, <1>f, <1>g, <1>h, <1>i DEF MayShow

LEMMA LossAllowed ==
  ASSUME losses < MaxLosses, losses' = losses + 1,
         \/ Stays
         \/ \E j \in Jobs, aborted \in BOOLEAN, v \in JobStates : \E n \in {CAttempts[j], CAttempts[j] - 1} :
               Moves(j, v, n, aborted) /\ MayShowLoss(j, v, n, aborted)
  PROVE  Allowed
<1>1. CASE Stays
  BY <1>1 DEF Stays, Allowed, Contract!Next, Contract!LoseWorker, CState, CAttempts, CAborting, Aborted, Begun
<1>2. CASE \E j \in Jobs, aborted \in BOOLEAN, v \in JobStates : \E n \in {CAttempts[j], CAttempts[j] - 1} :
               Moves(j, v, n, aborted) /\ MayShowLoss(j, v, n, aborted)
  <2>1. PICK j \in Jobs, aborted \in BOOLEAN, v \in JobStates :
               \E n \in {CAttempts[j], CAttempts[j] - 1} : Moves(j, v, n, aborted) /\ MayShowLoss(j, v, n, aborted)
    BY <1>2
  <2> PICK n \in {CAttempts[j], CAttempts[j] - 1} : Moves(j, v, n, aborted) /\ MayShowLoss(j, v, n, aborted)
    BY <2>1
  <2>2. \/ Stays
        \/ /\ CState[j] = "waiting" /\ CState' = [CState EXCEPT ![j] = "failed"]
           /\ UNCHANGED <<CAttempts, CAborting>>
        \/ /\ CState[j] = "active" /\ CState' \in {[CState EXCEPT ![j] = s] : s \in {"waiting", "failed"}}
           /\ CAttempts' = [CAttempts EXCEPT ![j] = @ - 1] /\ CAborting' = CAborting \ {j}
    BY SameStays DEF Moves, MayShowLoss, Stays
  <2>3. CASE /\ CState[j] = "waiting" /\ CState' = [CState EXCEPT ![j] = "failed"]
             /\ UNCHANGED <<CAttempts, CAborting>>
    BY <2>3 DEF Allowed, Contract!Next, Contract!LoseWorker, CState, CAttempts, CAborting, Aborted, Begun
  <2>4. CASE /\ CState[j] = "active" /\ CState' \in {[CState EXCEPT ![j] = s] : s \in {"waiting", "failed"}}
             /\ CAttempts' = [CAttempts EXCEPT ![j] = @ - 1] /\ CAborting' = CAborting \ {j}
    BY <2>4 DEF Allowed, Contract!Next, Contract!LoseWorker, CState, CAttempts, CAborting, Aborted, Begun
  <2> QED  BY <1>1, <2>2, <2>3, <2>4
<1> QED  BY <1>1, <1>2

\* What one id shows is what one original does, or none.
LEMMA OneIdChanges ==
  ASSUME QueueTypeOK, NEW i \in Ids, OnlyShows(i)
  PROVE  \/ Stays
         \/ \E j \in Jobs : /\ i = <<j, 0>> /\ Moves(j, View(i)', Begun(View(i)', made'[i]), Aborted(i)')
                            /\ CState[j] = View(i) /\ CAttempts[j] = Begun(View(i), made[i])
                            /\ j \in CAborting <=> Aborted(i)
<1>1. \A j \in Jobs : <<j, 0>> \in Ids
  BY IdsShape
<1>2. CASE \A j \in Jobs : i # <<j, 0>>
  <2>1. \A j \in Jobs : /\ View(<<j, 0>>)' = View(<<j, 0>>) /\ made'[<<j, 0>>] = made[<<j, 0>>]
                        /\ Aborted(<<j, 0>>)' <=> Aborted(<<j, 0>>)
    BY <1>1, <1>2 DEF OnlyShows
  <2> QED  BY <2>1 DEF Stays, CState, CAttempts, CAborting
<1>3. CASE \E j \in Jobs : i = <<j, 0>>
  <2>1. PICK j \in Jobs : i = <<j, 0>>
    BY <1>3
  <2>2. ASSUME NEW k \in Jobs \ {j}
        PROVE  /\ View(<<k, 0>>)' = View(<<k, 0>>) /\ made'[<<k, 0>>] = made[<<k, 0>>]
               /\ Aborted(<<k, 0>>)' <=> Aborted(<<k, 0>>)
    <3>1. <<k, 0>> \in Ids \ {i}
      BY <1>1, <2>1
    <3> QED  BY <3>1 DEF OnlyShows
  <2>3. CState' = [CState EXCEPT ![j] = View(i)'] /\ CState[j] = View(i)
    BY <2>1, <2>2 DEF CState
  <2>4. /\ CAttempts' = [CAttempts EXCEPT ![j] = Begun(View(i)', made'[i])]
        /\ CAttempts[j] = Begun(View(i), made[i])
    <3> HIDE DEF Begun
    <3> QED  BY <2>1, <2>2 DEF CAttempts
  <2>5. CAborting' = (IF Aborted(i)' THEN CAborting \cup {j} ELSE CAborting \ {j})
        /\ (j \in CAborting <=> Aborted(i))
    BY <2>1, <2>2 DEF CAborting
  <2> QED  BY <2>1, <2>3, <2>4, <2>5 DEF Moves
<1> QED  BY <1>2, <1>3

\* Whoever changes what an id shows need only say it is something an original may.
LEMMA ShownAllowed ==
  ASSUME QueueTypeOK, NEW i \in Ids, OnlyShows(i), UNCHANGED losses,
         \A j \in Jobs : /\ Budget(i) = MaxAttempts /\ CState[j] = View(i)
                         /\ CAttempts[j] = Begun(View(i), made[i]) /\ (j \in CAborting <=> Aborted(i))
                         => MayShow(j, View(i)', Begun(View(i)', made'[i]), Aborted(i)')
  PROVE  Allowed
<1>1. CASE Stays
  BY <1>1, ContractMapped DEF Allowed
<1>2. CASE ~Stays
  <2>1. PICK j \in Jobs : /\ i = <<j, 0>> /\ Moves(j, View(i)', Begun(View(i)', made'[i]), Aborted(i)')
                          /\ CState[j] = View(i) /\ CAttempts[j] = Begun(View(i), made[i])
                          /\ j \in CAborting <=> Aborted(i)
    BY <1>2, OneIdChanges
  <2>2. Budget(i) = MaxAttempts /\ Aborted(i)' \in BOOLEAN
    BY <2>1, IdsShape DEF Aborted
  <2>3. MayShow(j, View(i)', Begun(View(i)', made'[i]), Aborted(i)')
    BY <2>1, <2>2
  <2> QED  BY <2>1, <2>2, <2>3, MovesAllowed
<1> QED  BY <1>1, <1>2

-----------------------------------------------------------------------------
(* The steps of the queue.                                                 *)

\* Clients and the listener act on ids nobody works on.
LEMMA NobodyAllowed ==
  ASSUME QueueInv, NEW i \in Ids, UNCHANGED <<at, losses>>,
         \A k \in Ids \ {i} : state'[k] = state[k] /\ made'[k] = made[k],
         \/ state[i] \in {"absent", "failed"} /\ state'[i] = "waiting" /\ made'[i] = made[i]
         \/ state[i] = "waiting" /\ state'[i] = "absent" /\ made'[i] = 0
  PROVE  Allowed
<1>1. QueueTypeOK /\ made[i] \in Nat
  BY DEF QueueInv, QueueTypeOK
<1>2. View(i) = state[i] /\ ~Aborted(i) /\ View(i)' = state'[i] /\ ~Aborted(i)' /\ OnlyShows(i)
  BY NobodyActs
<1>3. ASSUME NEW j \in Jobs, CState[j] = View(i), CAttempts[j] = Begun(View(i), made[i]), j \notin CAborting
      PROVE  MayShow(j, View(i)', Begun(View(i)', made'[i]), Aborted(i)')
  BY <1>1, <1>2, <1>3 DEF MayShow, Begun
<1> QED  BY <1>1, <1>2, <1>3, ShownAllowed

LEMMA ClientAllowed ==
  ASSUME QueueInv, NEW i \in Ids,
         \/ i[2] = 0 /\ Enqueue(i[1])
         \/ CancelWaiting(i) \/ CancelFlag(i) \/ CancelKeyExpires(i) \/ ReplayDeadLetter(i) \/ CopyRefused(i)
  PROVE  Allowed
<1>1. state \in [Ids -> JobStates] /\ made \in [Ids -> Nat]
  BY DEF QueueInv, QueueTypeOK
<1>2. ASSUME NEW k \in Ids, Added(k), UNCHANGED <<at, losses>>
      PROVE  Allowed
  BY <1>1, <1>2, NobodyAllowed DEF Added
<1>3. CASE i[2] = 0 /\ Enqueue(i[1])
  BY <1>2, <1>3, IdsShape DEF Enqueue
<1>4. CASE CancelWaiting(i) \/ ReplayDeadLetter(i)
  BY <1>1, <1>4, NobodyAllowed DEF CancelWaiting, ReplayDeadLetter
<1>5. CASE CancelFlag(i) \/ CancelKeyExpires(i)
  <2>1. UNCHANGED <<state, made, at, losses>>
    BY <1>5 DEF CancelFlag, CancelKeyExpires, storedVars
  <2>2. Stays
    BY <2>1 DEF Stays, CState, CAttempts, CAborting, View, Admitting, Aborted
  <2> QED  BY <2>1, <2>2, ContractMapped DEF Allowed
<1>6. CASE CopyRefused(i)
  <2>1. PICK n \in 1 .. MaxCopies : Added(<<i[1], n>>) /\ UNCHANGED <<at, losses>>
    BY <1>6 DEF CopyRefused
  <2>2. <<i[1], n>> \in Ids
    BY IdsShape
  <2> QED  BY <1>2, <2>1, <2>2
<1> QED  BY <1>3, <1>4, <1>5, <1>6

\* A worker and its id, without a loss.
LEMMA WorkerAllowed ==
  ASSUME QueueInv, AbortedLater, NEW w \in Workers, NEW i \in Ids,
         PickUp(w, i) \/ WorkerStep(w, i) \/ PollCancel(w, i) \/ Run(w, i)
  PROVE  Allowed
<1> USE DEF On, Goto, storedVars
<1>1. /\ at \in [Workers -> Ats] /\ at[w] \in Ats /\ state \in [Ids -> JobStates] /\ made \in [Ids -> Nat]
      /\ QueueTypeOK /\ i # NoJob
  BY DEF QueueInv, QueueTypeOK, Ats
<1>2. at[w].job = i => state[i] = "active"
  BY <1>1 DEF QueueInv, Worked
<1>3. UNCHANGED losses
  BY DEF PickUp, WorkerStep, Admitted, Refused, AddSlot, Release, Settle, PollCancel, Run, HandlerEnds
<1>4. CASE PickUp(w, i)
  <2>1. PICK r \in Ats : at' = [at EXCEPT ![w] = r] /\ r.job = i /\ r.label = "count" /\ ~r.aborted
    <3>1. [Idle EXCEPT !.job = i, !.label = "count"] \in Ats
      BY IdleIsAt DEF Ats, Labels
    <3>2. [Idle EXCEPT !.job = i, !.label = "count"].aborted = FALSE
      BY DEF Idle
    <3> QED  BY <1>4, <3>1, <3>2, IdleIsAt DEF PickUp, Ats
  <2>2. /\ at[w].job = NoJob /\ state[i] = "waiting"
        /\ made' = made /\ \A k \in Ids \ {i} : state'[k] = state[k]
    BY <1>1, <1>4, IdleIsAt DEF PickUp
  <2>3. View(i) = "waiting" /\ ~Aborted(i) /\ View(i)' = "waiting" /\ ~Aborted(i)' /\ OnlyShows(i)
    <3>1. at' = [at EXCEPT ![w] = r] /\ r.job \in {i, NoJob}
      BY <2>1
    <3>a. at[w].job = i \/ (at[w].job = NoJob /\ state[i] # "active")
      BY <2>2
    <3>b. \A k \in Ids \ {i} : state'[k] = state[k] /\ made'[k] = made[k]
      BY <2>2
    <3>2. /\ View(i) = IF at[w].job = i /\ at[w].label = "count" THEN "waiting" ELSE state[i]
          /\ Aborted(i) <=> (at[w].job = i /\ at[w].aborted)
          /\ View(i)' = IF r.job = i /\ r.label = "count" THEN "waiting" ELSE state'[i]
          /\ Aborted(i)' <=> (r.job = i /\ r.aborted)
          /\ OnlyShows(i)
      BY <3>1, <3>a, <3>b, WorkerActs, Zenon
    <3>3. at[w].job # i
      BY <1>1, <2>2
    <3> QED  BY <2>1, <2>2, <3>2, <3>3
  <2>4. ASSUME NEW j \in Jobs, CState[j] = View(i), CAttempts[j] = Begun(View(i), made[i]), j \notin CAborting
        PROVE  MayShow(j, View(i)', Begun(View(i)', made'[i]), Aborted(i)')
    BY <2>2, <2>3, <2>4 DEF MayShow
  <2> QED  BY <1>1, <1>3, <2>3, <2>4, ShownAllowed
<1>5. CASE Admitted(w, i) \/ AddSlot(w, i) \/ Release(w, i) \/ Run(w, i) \/ PollCancel(w, i)
  <2>1. at[w].job = i /\ state[i] = "active" /\ UNCHANGED <<state, made>>
    BY <1>2, <1>5 DEF Admitted, AddSlot, Release, Run, HandlerEnds, PollCancel
  <2>2. PICK r \in Ats : /\ at' = [at EXCEPT ![w] = r] /\ r.job = i /\ r.label # "count"
                         /\ r.aborted = at[w].aborted \/ (r.aborted = TRUE /\ at[w].label # "count")
    <3>1. CASE Admitted(w, i) \/ AddSlot(w, i) \/ Release(w, i)
      <4>1. PICK l \in {"add", "run", "settle"} : at' = [at EXCEPT ![w] = [at[w] EXCEPT !.label = l]]
        BY <1>1, <3>1 DEF Admitted, AddSlot, Release
      <4> DEFINE r == [at[w] EXCEPT !.label = l]
      <4>2. r \in Ats /\ r.job = i /\ r.label # "count" /\ r.aborted = at[w].aborted
        BY <1>1, <2>1 DEF Ats, Labels
      <4> QED  BY <4>1, <4>2
    <3>2. CASE Run(w, i)
      <4>1. PICK ok \in BOOLEAN : at' = [at EXCEPT ![w] = [at[w] EXCEPT !.label = "release", !.ok = ok]]
        BY <1>1, <3>2 DEF Run, HandlerEnds
      <4> DEFINE r == [at[w] EXCEPT !.label = "release", !.ok = ok]
      <4>2. r \in Ats /\ r.job = i /\ r.label # "count" /\ r.aborted = at[w].aborted
        BY <1>1, <2>1 DEF Ats, Labels
      <4> QED  BY <4>1, <4>2
    <3>3. CASE PollCancel(w, i)
      <4> DEFINE r == [at[w] EXCEPT !.aborted = TRUE]
      <4>1. at' = [at EXCEPT ![w] = r] /\ at[w].label # "count"
        BY <1>1, <3>3 DEF PollCancel
      <4>2. r \in Ats /\ r.job = i /\ r.label # "count" /\ r.aborted = TRUE
        BY <1>1, <2>1, <4>1 DEF Ats
      <4> QED  BY <4>1, <4>2
    <3> QED  BY <1>5, <3>1, <3>2, <3>3
  <2>3. /\ View(i) = IF at[w].label = "count" THEN "waiting" ELSE "active"
        /\ Aborted(i) <=> at[w].aborted
        /\ View(i)' = "active" /\ (Aborted(i)' <=> r.aborted) /\ OnlyShows(i)
    <3>1. /\ r.job \in {i, NoJob} /\ state'[i] = "active"
          /\ \A k \in Ids \ {i} : state'[k] = state[k] /\ made'[k] = made[k]
      BY <2>1, <2>2
    <3>2. /\ View(i) = IF at[w].job = i /\ at[w].label = "count" THEN "waiting" ELSE state[i]
          /\ Aborted(i) <=> (at[w].job = i /\ at[w].aborted)
          /\ View(i)' = IF r.job = i /\ r.label = "count" THEN "waiting" ELSE state'[i]
          /\ Aborted(i)' <=> (r.job = i /\ r.aborted)
          /\ OnlyShows(i)
      BY <2>1, <2>2, <3>1, WorkerActs
    <3> QED  BY <2>1, <2>2, <3>1, <3>2
  <2>4. Aborted(i)' <=> Aborted(i) \/ (Aborted(i)' /\ View(i) = "active")
    BY <2>2, <2>3
  <2>5. ASSUME NEW j \in Jobs, CState[j] = View(i), CAttempts[j] = Begun(View(i), made[i]),
               j \in CAborting <=> Aborted(i)
        PROVE  MayShow(j, View(i)', Begun(View(i)', made'[i]), Aborted(i)')
    BY <1>1, <2>1, <2>3, <2>4, <2>5 DEF MayShow, Begun
  <2> QED  BY <1>1, <1>3, <2>3, <2>5, ShownAllowed
<1>6. CASE Refused(w, i) \/ Settle(w, i)
  <2>1. /\ at[w].job = i /\ state[i] = "active" /\ at' = [at EXCEPT ![w] = Idle]
        /\ \A k \in Ids \ {i} : state'[k] = state[k] /\ made'[k] = made[k]
    BY <1>1, <1>2, <1>6 DEF Refused, Settle, AttemptFails
  <2>2. \/ state'[i] = "completed" /\ made'[i] = made[i] /\ at[w].label # "count"
        \/ /\ made'[i] = made[i] + 1
           /\ state'[i] = IF made[i] + 1 < Budget(i) THEN "waiting" ELSE "failed"
    BY <1>1, <1>6 DEF Refused, Settle, AttemptFails
  <2>3. at[w].label = "count" => ~at[w].aborted
    BY DEF AbortedLater
  <2>4. /\ View(i) = IF at[w].label = "count" THEN "waiting" ELSE "active"
        /\ View(i) = "waiting" => ~Aborted(i)
        /\ View(i)' = state'[i] /\ ~Aborted(i)' /\ OnlyShows(i)
    <3>1. PICK r \in Ats : at' = [at EXCEPT ![w] = r] /\ r.job = NoJob /\ r.job # i
      BY <1>1, <2>1, IdleIsAt
    <3>a. at[w].job = i \/ (at[w].job = NoJob /\ state[i] # "active")
      BY <2>1
    <3>b. \A k \in Ids \ {i} : state'[k] = state[k] /\ made'[k] = made[k]
      BY <2>1
    <3>c. at' = [at EXCEPT ![w] = r] /\ r.job \in {i, NoJob}
      BY <3>1
    <3>2. /\ View(i) = IF at[w].job = i /\ at[w].label = "count" THEN "waiting" ELSE state[i]
          /\ Aborted(i) <=> (at[w].job = i /\ at[w].aborted)
          /\ View(i)' = IF r.job = i /\ r.label = "count" THEN "waiting" ELSE state'[i]
          /\ Aborted(i)' <=> (r.job = i /\ r.aborted)
          /\ OnlyShows(i)
      BY <3>a, <3>b, <3>c, WorkerActs, Zenon
    <3> QED  BY <2>1, <2>3, <3>1, <3>2
  <2>5. ASSUME NEW j \in Jobs, Budget(i) = MaxAttempts, CState[j] = View(i),
               CAttempts[j] = Begun(View(i), made[i]), j \in CAborting <=> Aborted(i)
        PROVE  MayShow(j, View(i)', Begun(View(i)', made'[i]), Aborted(i)')
    BY <1>1, <2>2, <2>4, <2>5 DEF MayShow, Begun
  <2> QED  BY <1>1, <1>3, <2>4, <2>5, ShownAllowed
<1> QED  BY <1>4, <1>5, <1>6 DEF WorkerStep

\* A worker is lost, with the signal of its handler.
LEMMA LostAllowed ==
  ASSUME QueueInv, AbortedLater, NEW w \in Workers, NEW i \in Ids, WorkerLost(w, i)
  PROVE  Allowed
<1>1. /\ at \in [Workers -> Ats] /\ state \in [Ids -> JobStates] /\ made \in [Ids -> Nat]
      /\ QueueTypeOK /\ i # NoJob
  BY DEF QueueInv, QueueTypeOK, Ats
<1>2. at[w].job = i /\ state[i] = "active" /\ losses < MaxLosses /\ losses' = losses + 1
  BY <1>1 DEF QueueInv, Worked, WorkerLost
<1>3. made' = made /\ state'[i] \in {"waiting", "failed"} /\ at' = [at EXCEPT ![w] = Idle]
  BY <1>1 DEF WorkerLost
<1>4. \A k \in Ids \ {i} : state'[k] = state[k] /\ made'[k] = made[k]
  BY <1>1 DEF WorkerLost
<1>5. /\ View(i) = IF at[w].label = "count" THEN "waiting" ELSE "active"
      /\ View(i) = "waiting" => ~Aborted(i)
      /\ View(i)' = state'[i] /\ ~Aborted(i)' /\ OnlyShows(i)
  <2>1. PICK r \in Ats : at' = [at EXCEPT ![w] = r] /\ r.job = NoJob /\ r.job # i
    BY <1>1, <1>3, IdleIsAt
  <2>2. at[w].job = i \/ (at[w].job = NoJob /\ state[i] # "active")
    BY <1>2
  <2>3. at' = [at EXCEPT ![w] = r] /\ r.job \in {i, NoJob}
    BY <2>1
  <2>4. /\ View(i) = IF at[w].job = i /\ at[w].label = "count" THEN "waiting" ELSE state[i]
        /\ Aborted(i) <=> (at[w].job = i /\ at[w].aborted)
        /\ View(i)' = IF r.job = i /\ r.label = "count" THEN "waiting" ELSE state'[i]
        /\ Aborted(i)' <=> (r.job = i /\ r.aborted)
        /\ OnlyShows(i)
    BY <1>4, <2>2, <2>3, WorkerActs, Zenon
  <2>5. at[w].label = "count" => ~at[w].aborted
    BY DEF AbortedLater
  <2> QED  BY <1>2, <2>1, <2>4, <2>5
<1>6. CASE Stays
  BY <1>2, <1>6, LossAllowed
<1>7. CASE ~Stays
  <2>1. PICK j \in Jobs : /\ i = <<j, 0>> /\ Moves(j, View(i)', Begun(View(i)', made'[i]), Aborted(i)')
                          /\ CState[j] = View(i) /\ CAttempts[j] = Begun(View(i), made[i])
                          /\ j \in CAborting <=> Aborted(i)
    BY <1>1, <1>5, <1>7, OneIdChanges
  <2>2. Begun(View(i)', made'[i]) \in {CAttempts[j], CAttempts[j] - 1}
        /\ MayShowLoss(j, View(i)', Begun(View(i)', made'[i]), Aborted(i)')
    BY <1>1, <1>3, <1>5, <2>1 DEF MayShowLoss, Begun
  <2>3. Aborted(i)' \in BOOLEAN /\ View(i)' \in JobStates
    BY <1>3, <1>5 DEF JobStates, Aborted
  <2> QED  BY <1>2, <2>1, <2>2, <2>3, LossAllowed
<1> QED  BY <1>6, <1>7

-----------------------------------------------------------------------------

LEMMA InitMapped == Init => Contract!Init /\ AbortedLater
<1> SUFFICES ASSUME Init PROVE Contract!Init /\ AbortedLater
  OBVIOUS
<1>1. \A j \in Jobs : state[<<j, 0>>] = "absent" /\ made[<<j, 0>>] = 0 /\ <<j, 0>> # NoJob
  BY IdsShape DEF Init
<1>2. \A w \in Workers : at[w].job = NoJob /\ at[w].label = "idle" /\ at[w].aborted = FALSE
  BY DEF Init, Idle
<1>3. ASSUME NEW j \in Jobs
      PROVE  View(<<j, 0>>) = "absent" /\ ~Aborted(<<j, 0>>)
  <2>1. \A w \in Workers : at[w].job # <<j, 0>>
    BY <1>1, <1>2
  <2> QED  BY <1>1, <2>1 DEF View, Admitting, Aborted
<1>4. Begun("absent", 0) = 0
  BY DEF Begun
<1>5. CState = [j \in Jobs |-> "absent"]
  BY <1>3 DEF CState
<1>6. CAttempts = [j \in Jobs |-> 0]
  BY <1>1, <1>3, <1>4 DEF CAttempts
<1>7. CAborting = {}
  BY <1>3 DEF CAborting
<1>8. losses = 0
  BY DEF Init
<1>9. Contract!Init
  BY <1>5, <1>6, <1>7, <1>8, MappedNames DEF Contract!Init
<1>10. AbortedLater
  BY <1>2 DEF AbortedLater
<1> QED  BY <1>9, <1>10

LEMMA StepAllowed ==
  ASSUME QueueInv, AbortedLater, [Next]_queueVars
  PROVE  Allowed
<1>1. CASE UNCHANGED queueVars
  <2>1. Stays /\ UNCHANGED losses
    BY <1>1 DEF queueVars, storedVars, Stays, CState, CAttempts, CAborting, View, Admitting, Aborted
  <2> QED  BY <2>1, ContractMapped DEF Allowed
<1>2. ASSUME NEW j \in Jobs, Enqueue(j)
      PROVE  Allowed
  <2>1. <<j, 0>> \in Ids /\ <<j, 0>>[1] = j /\ <<j, 0>>[2] = 0
    BY IdsShape
  <2> QED  BY <1>2, <2>1, ClientAllowed
<1>3. ASSUME ClientStep
      PROVE  Allowed
  BY <1>3, ClientAllowed DEF ClientStep
<1>4. ASSUME QueueStep \/ \E w \in Workers, i \in Ids : Run(w, i)
      PROVE  Allowed
  BY <1>4, ClientAllowed, WorkerAllowed, LostAllowed DEF QueueStep
<1> QED  BY <1>1, <1>2, <1>3, <1>4 DEF Next

\* With any jobs, tenants, workers and limits, and clients that cancel a job in
\* any state, BullMqJobQueue with its limiter, its copies and its lost workers
\* takes a job id only where the in-memory queue may take it, but for a replay
\* that keeps its count, an abort that is retried and a refusal that counts.
THEOREM QueueDepartsOnlyAsKnown == Spec => DepartsOnlyAsKnown
<1>1. Init => Contract!Init /\ AbortedLater
  BY InitMapped
<1>2. QueueInv /\ AbortedLater /\ [Next]_queueVars => AbortedLater'
  BY AbortedLaterStep DEF QueueInv
<1>3. QueueInv /\ AbortedLater /\ [Next]_queueVars
        => [Contract!Unseen \/ Contract!Next \/ Contract!Departure]_Contract!contractVars
  BY StepAllowed DEF Allowed
<1> QED
  BY <1>1, <1>2, <1>3, QueueInvariant, PTL DEF Spec, DepartsOnlyAsKnown, Contract!ContractButDepartures

=============================================================================
