---------------------------- MODULE BudgetProofs ----------------------------
(***************************************************************************)
(* For every number of goroutines and every configuration of the limits:   *)
(* the counters of module Budget bound what is granted, lose no slot, and  *)
(* implement module Quota.                                                 *)
(***************************************************************************)
EXTENDS Budget, FiniteSetTheorems, TLAPS

Types ==
  /\ counter \in [Resources -> Nat]
  /\ openFiles \in Int
  /\ slot \in [Slots -> SlotState]
  /\ pc \in [Workers -> WorkerState]
  /\ granted \in [Resources -> Nat]

CounterIsExact == openFiles = Cardinality(Held) + Cardinality(RollingBack)

HeldWithinLimit == MaxOpenFiles >= 0 => Cardinality(Held) <= MaxOpenFiles

DoneHoldsNothing ==
  \A w \in Workers : pc[w] = "done" =>
    \A i \in 1..MaxNested : slot[<<w, i>>] = "free"

UnitsAccounted ==
  \A r \in Resources :
    /\ ~ Exceeds(counter[r], Limit[r]) => granted[r] = counter[r]
    /\ Limit[r] >= 0 => granted[r] <= Limit[r]
    /\ Limit[r] >= 0 /\ Batch[r] = {1} /\ counter[r] > Limit[r]
         => granted[r] = Limit[r]

IInv ==
  /\ Types
  /\ CounterIsExact
  /\ HeldWithinLimit
  /\ DoneHoldsNothing
  /\ UnitsAccounted

-----------------------------------------------------------------------------
(* Counting slots and refusals. *)

\* There are finitely many slots, so the sets the counter stands for are finite.
LEMMA SetsFinite ==
  ASSUME Types
  PROVE  /\ IsFiniteSet(Held) /\ Cardinality(Held) \in Nat
         /\ IsFiniteSet(RollingBack) /\ Cardinality(RollingBack) \in Nat
<1>1. IsFiniteSet(1..MaxNested)
  BY NestedAssumption, FS_Interval
<1>2. IsFiniteSet(Slots)
  BY <1>1, WorkersAssumption, FS_Product DEF Slots
<1>3. Held \in SUBSET Slots /\ RollingBack \in SUBSET Workers
  BY DEF Held, RollingBack
<1>4. IsFiniteSet(Held) /\ IsFiniteSet(RollingBack)
  BY <1>2, <1>3, WorkersAssumption, FS_Subset
<1> QED
  BY <1>4, FS_CardinalityType

\* Reserving a free slot adds exactly one held slot.
LEMMA SlotTaken ==
  ASSUME Types, NEW s \in Slots, slot[s] = "free",
         slot' = [slot EXCEPT ![s] = "reserved"]
  PROVE  /\ Held' = Held \cup {s} /\ s \notin Held
         /\ Cardinality(Held') = Cardinality(Held) + 1
<1>1. Held' = Held \cup {s} /\ s \notin Held
  BY DEF Types, Held
<1> QED
  BY <1>1, SetsFinite, FS_AddElement

\* Freeing a held slot removes exactly one.
LEMMA SlotFreed ==
  ASSUME Types, NEW s \in Slots, slot[s] # "free",
         slot' = [slot EXCEPT ![s] = "free"]
  PROVE  /\ Held' = Held \ {s} /\ s \in Held
         /\ Cardinality(Held') = Cardinality(Held) - 1
<1>1. Held' = Held \ {s} /\ s \in Held
  BY DEF Types, Held
<1> QED
  BY <1>1, SetsFinite, FS_RemoveElement

\* Opening or closing the file of a held slot keeps the slot held.
LEMMA SlotKept ==
  ASSUME Types, NEW s \in Slots, NEW v \in SlotState \ {"free"},
         slot[s] # "free", slot' = [slot EXCEPT ![s] = v]
  PROVE  Held' = Held
BY DEF Types, Held

\* A refusal begins: one more goroutine has an Add to take back.
LEMMA RefusalBegins ==
  ASSUME Types, NEW w \in Workers, pc[w] # "rollback",
         pc' = [pc EXCEPT ![w] = "rollback"]
  PROVE  Cardinality(RollingBack') = Cardinality(RollingBack) + 1
<1>1. RollingBack' = RollingBack \cup {w} /\ w \notin RollingBack
  BY DEF Types, RollingBack
<1> QED
  BY <1>1, SetsFinite, FS_AddElement

\* It ends: one less.
LEMMA RefusalEnds ==
  ASSUME Types, NEW w \in Workers, NEW next \in WorkerState \ {"rollback"},
         pc[w] = "rollback", pc' = [pc EXCEPT ![w] = next]
  PROVE  Cardinality(RollingBack') = Cardinality(RollingBack) - 1
<1>1. RollingBack' = RollingBack \ {w} /\ w \in RollingBack
  BY DEF Types, RollingBack
<1> QED
  BY <1>1, SetsFinite, FS_RemoveElement

\* Any other move of a goroutine leaves the pending refusals alone.
LEMMA NoRefusal ==
  ASSUME Types, NEW w \in Workers, NEW next \in WorkerState \ {"rollback"},
         pc[w] # "rollback", pc' = [pc EXCEPT ![w] = next]
  PROVE  RollingBack' = RollingBack
BY DEF Types, RollingBack

-----------------------------------------------------------------------------
(* The invariant. *)

\* A Run starts with every counter at zero and nothing held.
LEMMA InitIInv == Init => IInv
<1> SUFFICES ASSUME Init PROVE IInv
  OBVIOUS
<1>1. Types
  BY DEF Init, Types, SlotState, WorkerState
<1>2. Held = {} /\ RollingBack = {}
  BY DEF Init, Held, RollingBack
<1>3. CounterIsExact
  BY <1>2, FS_EmptySet DEF CounterIsExact, Init
<1>4. HeldWithinLimit
  BY <1>2, FS_EmptySet, OpenFilesAssumption DEF HeldWithinLimit
<1>5. DoneHoldsNothing
  BY DEF Init, DoneHoldsNothing
<1>6. UnitsAccounted
  BY LimitAssumption DEF Init, UnitsAccounted, Exceeds
<1> QED
  BY <1>1, <1>3, <1>4, <1>5, <1>6 DEF IInv

\* consumeLimit: a granted unit is within the limit, a refusal grants nothing.
LEMMA ConsumeIInv ==
  ASSUME IInv, NEW w \in Workers, NEW r \in Resources, NEW n \in Batch[r],
         Consume(w, r, n)
  PROVE  IInv'
<1> USE DEF IInv
<1>0. n \in Nat \ {0} /\ Limit[r] \in Int
  BY BatchAssumption, LimitAssumption
<1>1. Types'
  BY <1>0 DEF Consume, Types, WorkerState
<1>2. Held' = Held /\ RollingBack' = RollingBack
  <2>1. Held' = Held
    BY DEF Consume, Held
  <2>2. RollingBack' = RollingBack
    BY DEF Consume, RollingBack, Types
  <2> QED
    BY <2>1, <2>2
<1>3. CounterIsExact' /\ HeldWithinLimit'
  BY <1>2 DEF Consume, CounterIsExact, HeldWithinLimit
<1>4. DoneHoldsNothing'
  BY DEF Consume, DoneHoldsNothing, Types
<1>5. UnitsAccounted'
  <2> SUFFICES ASSUME NEW q \in Resources
               PROVE  /\ ~ Exceeds(counter[q], Limit[q])' => granted'[q] = counter'[q]
                      /\ Limit[q] >= 0 => granted'[q] <= Limit[q]
                      /\ Limit[q] >= 0 /\ Batch[q] = {1} /\ counter'[q] > Limit[q]
                           => granted'[q] = Limit[q]
    BY DEF UnitsAccounted
  <2>1. CASE q # r
    BY <2>1 DEF Consume, UnitsAccounted, Types, Exceeds
  <2>2. CASE q = r
    <3>1. counter[r] \in Nat /\ granted[r] \in Nat /\ counter'[r] = counter[r] + n
      BY DEF Consume, Types
    <3>2. CASE Exceeds(counter[r] + n, Limit[r])
      <4>1. granted' = granted
        BY <3>2 DEF Consume
      <4>2. Limit[r] >= 0 /\ Batch[r] = {1} => granted[r] = Limit[r]
        BY <1>0, <3>1, <3>2 DEF UnitsAccounted, Exceeds
      <4> QED
        BY <2>2, <1>0, <3>1, <3>2, <4>1, <4>2 DEF UnitsAccounted, Exceeds
    <3>3. CASE ~ Exceeds(counter[r] + n, Limit[r])
      <4>1. granted'[r] = granted[r] + n
        BY <3>3 DEF Consume, Types
      <4>2. granted[r] = counter[r]
        BY <1>0, <3>1, <3>3 DEF UnitsAccounted, Exceeds
      <4> QED
        BY <2>2, <1>0, <3>1, <3>3, <4>1, <4>2 DEF Exceeds
    <3> QED
      BY <3>2, <3>3
  <2> QED
    BY <2>1, <2>2
<1> QED
  BY <1>1, <1>3, <1>4, <1>5

\* The consumable counters do not move when a file is reserved or released.
LEMMA UnitsUnchanged ==
  ASSUME UnitsAccounted, UNCHANGED <<counter, granted>>
  PROVE  UnitsAccounted'
BY DEF UnitsAccounted, Exceeds

\* acquireOpenFile: the Add that is within the limit takes a slot, the one
\* beyond it begins a refusal.
LEMMA ReserveIInv ==
  ASSUME IInv, NEW w \in Workers, NEW i \in 1..MaxNested, Reserve(w, i)
  PROVE  IInv'
<1> USE DEF IInv
<1> DEFINE s == <<w, i>>
<1>0. s \in Slots /\ slot[s] = "free" /\ pc[w] = "running"
  BY DEF Slots, Reserve, IsNext
<1>1. UnitsAccounted'
  BY UnitsUnchanged DEF Reserve
<1>2. CASE Exceeds(openFiles + 1, MaxOpenFiles)
  <2>1. pc' = [pc EXCEPT ![w] = "rollback"] /\ slot' = slot
    BY <1>2 DEF Reserve
  <2>2. Types'
    BY <2>1 DEF Reserve, Types, WorkerState
  <2>3. Held' = Held
    BY <2>1 DEF Held
  <2>4. Cardinality(RollingBack') = Cardinality(RollingBack) + 1
    BY <1>0, <2>1, RefusalBegins
  <2>5. CounterIsExact' /\ HeldWithinLimit'
    BY <2>3, <2>4, SetsFinite DEF CounterIsExact, HeldWithinLimit, Reserve
  <2>6. DoneHoldsNothing'
    BY <2>1 DEF DoneHoldsNothing, Types
  <2> QED
    BY <1>1, <2>2, <2>5, <2>6
<1>3. CASE ~ Exceeds(openFiles + 1, MaxOpenFiles)
  <2>1. pc' = pc /\ slot' = [slot EXCEPT ![s] = "reserved"]
    BY <1>3 DEF Reserve
  <2>2. Types'
    <3>1. slot' \in [Slots -> SlotState]
      BY <1>0, <2>1 DEF Types, SlotState
    <3> QED
      BY <2>1, <3>1 DEF Reserve, Types
  <2>3. RollingBack' = RollingBack
    BY <2>1 DEF RollingBack
  <2>4. Cardinality(Held') = Cardinality(Held) + 1
    BY <1>0, <2>1, SlotTaken
  <2>5. CounterIsExact'
    BY <2>3, <2>4, SetsFinite DEF CounterIsExact, Reserve
  <2>6. HeldWithinLimit'
    BY <1>3, <2>4, SetsFinite, OpenFilesAssumption
       DEF HeldWithinLimit, CounterIsExact, Exceeds
  <2>7. DoneHoldsNothing'
    BY <1>0, <2>1 DEF DoneHoldsNothing, Types, Slots
  <2> QED
    BY <1>1, <2>2, <2>5, <2>6, <2>7
<1> QED
  BY <1>2, <1>3

\* The second step of a refusal takes back exactly its own Add.
LEMMA RollBackIInv ==
  ASSUME IInv, NEW w \in Workers, RollBack(w)
  PROVE  IInv'
<1> USE DEF IInv
<1>0. PICK next \in {"running", "unwinding"} : pc' = [pc EXCEPT ![w] = next]
  BY DEF RollBack
<1>1. UnitsAccounted'
  BY UnitsUnchanged DEF RollBack
<1>2. Types'
  BY <1>0 DEF RollBack, Types, WorkerState
<1>3. Held' = Held
  BY DEF RollBack, Held
<1>4. Cardinality(RollingBack') = Cardinality(RollingBack) - 1
  BY <1>0, RefusalEnds DEF RollBack, WorkerState
<1>5. CounterIsExact' /\ HeldWithinLimit'
  BY <1>3, <1>4, SetsFinite DEF CounterIsExact, HeldWithinLimit, RollBack
<1>6. DoneHoldsNothing'
  BY <1>0 DEF RollBack, DoneHoldsNothing, Types
<1> QED
  BY <1>1, <1>2, <1>5, <1>6

\* A file that is opened or closed keeps its slot.
LEMMA FileIInv ==
  ASSUME IInv, NEW w \in Workers, NEW i \in 1..MaxNested,
         OpenFile(w, i) \/ CloseFile(w, i)
  PROVE  IInv'
<1> USE DEF IInv
<1>0. <<w, i>> \in Slots /\ slot[<<w, i>>] # "free"
  BY DEF OpenFile, CloseFile, Slots
<1>1. PICK v \in SlotState \ {"free"} : slot' = [slot EXCEPT ![<<w, i>>] = v]
  BY DEF OpenFile, CloseFile, SlotState
<1>2. UNCHANGED <<counter, openFiles, pc, granted>>
  BY DEF OpenFile, CloseFile
<1>3. Types'
  BY <1>1, <1>2 DEF Types
<1>4. Held' = Held /\ RollingBack' = RollingBack
  BY <1>0, <1>1, <1>2, SlotKept DEF RollingBack
<1>5. DoneHoldsNothing'
  BY <1>0, <1>1, <1>2 DEF DoneHoldsNothing, Types, Slots
<1> QED
  BY <1>2, <1>3, <1>4, <1>5, UnitsUnchanged DEF CounterIsExact, HeldWithinLimit

\* Releasing a slot, after a close or after a failed open, lowers the counter
\* by the one Add that reserved it.
LEMMA ReleaseIInv ==
  ASSUME IInv, NEW w \in Workers, NEW i \in 1..MaxNested,
         OpenFails(w, i) \/ Release(w, i)
  PROVE  IInv'
<1> USE DEF IInv
<1> DEFINE s == <<w, i>>
<1>0. s \in Slots /\ slot[s] # "free" /\ slot' = [slot EXCEPT ![s] = "free"]
  BY DEF OpenFails, Release, Slots
<1>1. UNCHANGED <<counter, granted>> /\ openFiles' = openFiles - 1
  BY DEF OpenFails, Release
<1>2. /\ pc[w] # "rollback"
      /\ \E next \in WorkerState \ {"rollback"} : pc' = [pc EXCEPT ![w] = next]
  <2>1. pc[w] \in WorkerState \ {"rollback"}
    BY DEF OpenFails, Release, WorkerState
  <2>2. CASE OpenFails(w, i)
    BY <2>1, <2>2 DEF OpenFails, WorkerState
  <2>3. CASE Release(w, i)
    BY <2>1, <2>3 DEF Release, Types
  <2> QED
    BY <2>1, <2>2, <2>3
<1>3. Types'
  BY <1>0, <1>1, <1>2 DEF Types, SlotState
<1>4. Cardinality(Held') = Cardinality(Held) - 1
  BY <1>0, SlotFreed
<1>5. RollingBack' = RollingBack
  BY <1>2, NoRefusal
<1>6. CounterIsExact' /\ HeldWithinLimit'
  BY <1>1, <1>4, <1>5, SetsFinite, OpenFilesAssumption DEF CounterIsExact, HeldWithinLimit
<1>7. DoneHoldsNothing'
  BY <1>0 DEF OpenFails, Release, DoneHoldsNothing, Types, Slots
<1> QED
  BY <1>1, <1>3, <1>6, <1>7, UnitsUnchanged

\* A goroutine ends with nothing held.
LEMMA FinishIInv ==
  ASSUME IInv, NEW w \in Workers, Finish(w)
  PROVE  IInv'
<1> USE DEF IInv
<1>0. pc[w] # "rollback" /\ pc' = [pc EXCEPT ![w] = "done"]
  BY DEF Finish
<1>1. Types'
  BY <1>0 DEF Finish, Types, WorkerState
<1>2. Held' = Held /\ RollingBack' = RollingBack
  BY <1>0, NoRefusal DEF Finish, Held, WorkerState
<1>3. DoneHoldsNothing'
  BY <1>0 DEF Finish, DoneHoldsNothing, Types
<1> QED
  BY <1>1, <1>2, <1>3, UnitsUnchanged DEF Finish, CounterIsExact, HeldWithinLimit

\* Every step of every goroutine preserves the invariant.
LEMMA NextIInv == IInv /\ [Next]_vars => IInv'
<1> SUFFICES ASSUME IInv, [Next]_vars PROVE IInv'
  OBVIOUS
<1>1. ASSUME NEW w \in Workers, NEW r \in Resources, NEW n \in Batch[r],
             Consume(w, r, n)
      PROVE  IInv'
  BY <1>1, ConsumeIInv
<1>2. ASSUME NEW w \in Workers, NEW i \in 1..MaxNested, Reserve(w, i)
      PROVE  IInv'
  BY <1>2, ReserveIInv
<1>3. ASSUME NEW w \in Workers, NEW i \in 1..MaxNested,
             OpenFile(w, i) \/ CloseFile(w, i)
      PROVE  IInv'
  BY <1>3, FileIInv
<1>4. ASSUME NEW w \in Workers, NEW i \in 1..MaxNested,
             OpenFails(w, i) \/ Release(w, i)
      PROVE  IInv'
  BY <1>4, ReleaseIInv
<1>5. ASSUME NEW w \in Workers, RollBack(w)
      PROVE  IInv'
  BY <1>5, RollBackIInv
<1>6. ASSUME NEW w \in Workers, Finish(w)
      PROVE  IInv'
  BY <1>6, FinishIInv
<1>7. CASE UNCHANGED vars
  BY <1>7 DEF vars, IInv, Types, CounterIsExact, HeldWithinLimit, DoneHoldsNothing,
              UnitsAccounted, Held, RollingBack, Exceeds
<1> QED
  BY <1>1, <1>2, <1>3, <1>4, <1>5, <1>6, <1>7 DEF Next, Terminated

\* The invariant holds throughout every Run.
THEOREM Invariance == Spec => []IInv
BY InitIInv, NextIInv, PTL DEF Spec

-----------------------------------------------------------------------------
(* What it gives the embedder. *)

\* limits.go keeps its types, and openFiles never falls below zero.
THEOREM TypeCorrect == Spec => []TypeOK
<1>1. IInv => TypeOK
  BY SetsFinite DEF IInv, Types, TypeOK, CounterIsExact
<1> QED
  BY <1>1, Invariance, PTL

\* The open-file counter is exact at every moment of every interleaving, and
\* back at zero when every goroutine has ended.
THEOREM SlotsExact == Spec => []SlotsAccounted
<1>1. ASSUME IInv, \A w \in Workers : pc[w] = "done"
      PROVE  openFiles = 0
  <2>1. Held = {} /\ RollingBack = {}
    BY <1>1 DEF IInv, DoneHoldsNothing, Held, RollingBack, Slots
  <2> QED
    BY <1>1, <2>1, FS_EmptySet DEF IInv, CounterIsExact
<1>2. IInv => SlotsAccounted
  BY <1>1 DEF SlotsAccounted, IInv, CounterIsExact
<1> QED
  BY <1>2, Invariance, PTL

\* At most MaxOpenFiles files are open at once, and the consumable limits are
\* respected and, for unit requests, exact.
THEOREM Bounded == Spec => []LimitsKept
<1>1. IInv => FilesWithinLimit
  <2> SUFFICES ASSUME IInv, MaxOpenFiles >= 0
               PROVE  /\ Cardinality(Opened) <= MaxOpenFiles
                      /\ Cardinality(Held) <= MaxOpenFiles
    BY DEF FilesWithinLimit
  <2>1. Cardinality(Held) <= MaxOpenFiles /\ IsFiniteSet(Held)
    BY SetsFinite DEF IInv, HeldWithinLimit
  <2>2. Opened \in SUBSET Held
    BY DEF Opened, Held
  <2>3. Cardinality(Opened) <= Cardinality(Held) /\ IsFiniteSet(Opened)
    BY <2>1, <2>2, FS_Subset
  <2>4. Cardinality(Opened) \in Nat /\ Cardinality(Held) \in Nat
    BY <2>1, <2>3, FS_CardinalityType
  <2> QED
    BY <2>1, <2>3, <2>4, OpenFilesAssumption
<1>2. IInv => ExactUnits
  BY DEF IInv, UnitsAccounted, ExactUnits
<1> QED
  BY <1>1, <1>2, Invariance, PTL DEF LimitsKept

\* A refused file is explained by slots held or refusals still in flight.
THEOREM RefusalsJustified == Spec => RefusalJustified
<1>1. IInv /\ [Next]_vars =>
        [\A w \in Workers : pc[w] = "running" /\ pc'[w] = "rollback"
           => Cardinality(Held) + Cardinality(RollingBack) >= MaxOpenFiles]_vars
  <2> SUFFICES ASSUME IInv, Next, NEW w \in Workers,
                      pc[w] = "running", pc'[w] = "rollback"
               PROVE  Cardinality(Held) + Cardinality(RollingBack) >= MaxOpenFiles
    OBVIOUS
  <2>1. ASSUME NEW v \in Workers, NEW i \in 1..MaxNested, Reserve(v, i)
        PROVE  openFiles >= MaxOpenFiles
    <3>1. Exceeds(openFiles + 1, MaxOpenFiles)
      BY <2>1 DEF Reserve
    <3> QED
      BY <3>1, OpenFilesAssumption DEF Exceeds, IInv, Types
  <2>2. \E v \in Workers, i \in 1..MaxNested : Reserve(v, i)
    BY DEF Next, Consume, OpenFile, OpenFails, CloseFile, Release, RollBack, Finish,
           Terminated, vars, IInv, Types
  <2> QED
    BY <2>1, <2>2 DEF IInv, CounterIsExact
<1> QED
  BY <1>1, Invariance, PTL DEF Spec, RefusalJustified

-----------------------------------------------------------------------------
(* Refinement. *)

\* Quota counts with the same Cardinality.
LEMMA SameCardinality == \A S : AbstractQuota!Cardinality(S) = Cardinality(S)
BY DEF AbstractQuota!Cardinality, Cardinality

\* Every step of the counters is a step of the abstract quota, or none.
LEMMA StepRefines ==
  ASSUME IInv, [Next]_vars
  PROVE  [AbstractQuota!Next]_(AbstractQuota!vars)
<1> USE DEF AbstractQuota!Next, AbstractQuota!vars
<1>1. ASSUME NEW w \in Workers, NEW r \in Resources, NEW n \in Batch[r],
             Consume(w, r, n)
      PROVE  [AbstractQuota!Next]_(AbstractQuota!vars)
  <2>1. Held' = Held
    BY <1>1 DEF Consume, Held
  <2>2. CASE Exceeds(counter[r] + n, Limit[r])
    BY <1>1, <2>1, <2>2 DEF Consume
  <2>3. CASE ~ Exceeds(counter[r] + n, Limit[r])
    <3>1. counter[r] \in Nat /\ n \in Nat /\ Limit[r] \in Int
      BY BatchAssumption, LimitAssumption DEF IInv, Types
    <3>2. granted[r] = counter[r]
      BY <2>3, <3>1 DEF IInv, UnitsAccounted, Exceeds
    <3>3. AbstractQuota!Grant(r, n)
      BY <1>1, <2>1, <2>3, <3>1, <3>2 DEF AbstractQuota!Grant, Consume, Exceeds
    <3> QED
      BY <3>3
  <2> QED
    BY <2>2, <2>3
<1>2. ASSUME NEW w \in Workers, NEW i \in 1..MaxNested, Reserve(w, i)
      PROVE  [AbstractQuota!Next]_(AbstractQuota!vars)
  <2>1. CASE Exceeds(openFiles + 1, MaxOpenFiles)
    BY <1>2, <2>1 DEF Reserve, Held
  <2>2. CASE ~ Exceeds(openFiles + 1, MaxOpenFiles)
    <3>1. <<w, i>> \in Slots /\ slot[<<w, i>>] = "free"
          /\ slot' = [slot EXCEPT ![<<w, i>>] = "reserved"]
      BY <1>2, <2>2 DEF Reserve, IsNext, Slots
    <3>2. Held' = Held \cup {<<w, i>>} /\ <<w, i>> \notin Held
      BY <3>1, SlotTaken DEF IInv
    <3>3. MaxOpenFiles >= 0 => Cardinality(Held) < MaxOpenFiles
      BY <2>2, SetsFinite, OpenFilesAssumption DEF IInv, CounterIsExact, Exceeds
    <3>4. AbstractQuota!Take(<<w, i>>)
      BY <1>2, <3>2, <3>3, SameCardinality DEF AbstractQuota!Take, Reserve
    <3> QED
      BY <3>1, <3>4
  <2> QED
    BY <2>1, <2>2
<1>3. ASSUME NEW w \in Workers, NEW i \in 1..MaxNested,
             OpenFile(w, i) \/ CloseFile(w, i)
      PROVE  [AbstractQuota!Next]_(AbstractQuota!vars)
  <2>1. <<w, i>> \in Slots /\ slot[<<w, i>>] # "free" /\ UNCHANGED granted
    BY <1>3 DEF OpenFile, CloseFile, Slots
  <2>2. PICK v \in SlotState \ {"free"} : slot' = [slot EXCEPT ![<<w, i>>] = v]
    BY <1>3 DEF OpenFile, CloseFile, SlotState
  <2> QED
    BY <2>1, <2>2, SlotKept DEF IInv
<1>4. ASSUME NEW w \in Workers, NEW i \in 1..MaxNested,
             OpenFails(w, i) \/ Release(w, i)
      PROVE  [AbstractQuota!Next]_(AbstractQuota!vars)
  <2>1. <<w, i>> \in Slots /\ slot[<<w, i>>] # "free"
        /\ slot' = [slot EXCEPT ![<<w, i>>] = "free"] /\ UNCHANGED granted
    BY <1>4 DEF OpenFails, Release, Slots
  <2>2. Held' = Held \ {<<w, i>>} /\ <<w, i>> \in Held
    BY <2>1, SlotFreed DEF IInv
  <2>3. AbstractQuota!Give(<<w, i>>)
    BY <2>1, <2>2 DEF AbstractQuota!Give
  <2> QED
    BY <2>1, <2>3
<1>5. ASSUME NEW w \in Workers, RollBack(w) \/ Finish(w)
      PROVE  [AbstractQuota!Next]_(AbstractQuota!vars)
  BY <1>5 DEF RollBack, Finish, Held
<1>6. CASE UNCHANGED vars
  BY <1>6 DEF vars, Held
<1> QED
  BY <1>1, <1>2, <1>3, <1>4, <1>5, <1>6 DEF Next, Terminated

\* The atomic counters of limits.go implement the quota Config promises.
THEOREM Refinement == Spec => RefinesQuota
<1>1. Init => AbstractQuota!Init
  BY DEF Init, AbstractQuota!Init, Held
<1>2. IInv /\ [Next]_vars => [AbstractQuota!Next]_(AbstractQuota!vars)
  BY StepRefines
<1> QED
  BY <1>1, <1>2, Invariance, PTL DEF Spec, RefinesQuota, AbstractQuota!Spec

=============================================================================
