------------------------------- MODULE Budget -------------------------------
(***************************************************************************)
(* limits.go: the executionBudget of one Run.  Every goroutine of the Run  *)
(* (pipeline stages, nested pipelines) shares it through shellState.budget *)
(* and touches it only with atomic Add, never under a lock:                *)
(*                                                                         *)
(*  - commands, loop iterations and brace results are consumed: the        *)
(*    counter is raised first and compared afterwards, and a refused       *)
(*    request is not taken back;                                           *)
(*  - an open-file slot is reserved the same way, but a refused request    *)
(*    lowers the counter again in a SECOND atomic step, so that between    *)
(*    the two steps the counter is too high.                               *)
(*                                                                         *)
(* A goroutine that is refused a consumable resource fails with a          *)
(* ResourceLimitError and only unwinds; one that is refused a file either  *)
(* fails (redirections) or reports a status and goes on (cat, head, ...).  *)
(***************************************************************************)
EXTENDS Integers, FiniteSets

CONSTANTS
  Workers,       \* the goroutines of the Run
  MaxNested,     \* bound: files one goroutine has open at once
  Resources,     \* the consumable resources
  Limit,         \* [Resources -> Int], a negative limit disables the bound
  Batch,         \* units one request of a resource may ask for
  MaxOpenFiles,  \* Config.MaxOpenFiles, negative disables
  CounterBound   \* bound: the largest counter explored

ASSUME WorkersAssumption == IsFiniteSet(Workers)
ASSUME NestedAssumption == MaxNested \in Nat
ASSUME LimitAssumption == Limit \in [Resources -> Int]
ASSUME BatchAssumption == Batch \in [Resources -> SUBSET (Nat \ {0})]
ASSUME OpenFilesAssumption == MaxOpenFiles \in Int
ASSUME BoundAssumption == CounterBound \in Nat

VARIABLES
  counter,    \* executionBudget.{commands, loops, braceResults}, by resource
  openFiles,  \* executionBudget.openFiles
  slot,       \* the slots: <<w, i>> is the i-th file goroutine w has reserved
  pc,         \* what each goroutine is doing
  granted     \* history: units whose request returned no error

vars == <<counter, openFiles, slot, pc, granted>>

Slots == Workers \X (1..MaxNested)
SlotState == {"free", "reserved", "open", "closed"}
WorkerState == {"running", "rollback", "unwinding", "done"}

Held == {s \in Slots : slot[s] # "free"}
Opened == {s \in Slots : slot[s] = "open"}
RollingBack == {w \in Workers : pc[w] = "rollback"}

Exceeds(value, limit) == limit >= 0 /\ value > limit

\* A goroutine closes its files in the reverse order of their opening.
IsTop(w, i) ==
  /\ slot[<<w, i>>] # "free"
  /\ \A j \in 1..MaxNested : j > i => slot[<<w, j>>] = "free"

IsNext(w, i) ==
  /\ slot[<<w, i>>] = "free"
  /\ \A j \in 1..MaxNested : slot[<<w, j>>] # "free" <=> j < i

\* Between reserving a slot and opening the file, and between closing the
\* file and releasing the slot, a goroutine does nothing else.
Settled(w) == \A i \in 1..MaxNested : slot[<<w, i>>] \in {"free", "open"}

-----------------------------------------------------------------------------
(* Plausible bugs, each in place of the action it is named after.          *)

\* The comparison uses the value before the Add.
ConsumeStale(w, r, n) ==
  /\ pc[w] = "running" /\ Settled(w)
  /\ counter[r] + n <= CounterBound
  /\ counter' = [counter EXCEPT ![r] = @ + n]
  /\ IF Exceeds(counter[r], Limit[r])
     THEN /\ pc' = [pc EXCEPT ![w] = "unwinding"]
          /\ UNCHANGED granted
     ELSE /\ granted' = [granted EXCEPT ![r] = @ + n]
          /\ UNCHANGED pc
  /\ UNCHANGED <<openFiles, slot>>

ReserveStale(w, i) ==
  /\ pc[w] = "running" /\ Settled(w)
  /\ IsNext(w, i)
  /\ openFiles' = openFiles + 1
  /\ IF Exceeds(openFiles, MaxOpenFiles)
     THEN /\ pc' = [pc EXCEPT ![w] = "rollback"]
          /\ UNCHANGED slot
     ELSE /\ slot' = [slot EXCEPT ![<<w, i>>] = "reserved"]
          /\ UNCHANGED pc
  /\ UNCHANGED <<counter, granted>>

\* A refusal gives back two slots: its own and the one it never had.
RollBackTwice(w) ==
  /\ pc[w] = "rollback"
  /\ openFiles' = openFiles - 2
  /\ \E next \in {"running", "unwinding"} : pc' = [pc EXCEPT ![w] = next]
  /\ UNCHANGED <<counter, slot, granted>>

\* The error path of the open forgets release().
OpenFailsLeaks(w, i) ==
  /\ pc[w] = "running"
  /\ IsTop(w, i) /\ slot[<<w, i>>] = "reserved"
  /\ slot' = [slot EXCEPT ![<<w, i>>] = "free"]
  /\ \E next \in {"running", "unwinding"} : pc' = [pc EXCEPT ![w] = next]
  /\ UNCHANGED <<counter, openFiles, granted>>

-----------------------------------------------------------------------------
Init ==
  /\ counter = [r \in Resources |-> 0]
  /\ openFiles = 0
  /\ slot = [s \in Slots |-> "free"]
  /\ pc = [w \in Workers |-> "running"]
  /\ granted = [r \in Resources |-> 0]

\* consumeLimit: Add, then compare the value Add returned.
Consume(w, r, n) ==
  /\ pc[w] = "running" /\ Settled(w)
  /\ counter[r] + n <= CounterBound
  /\ counter' = [counter EXCEPT ![r] = @ + n]
  /\ IF Exceeds(counter[r] + n, Limit[r])
     THEN /\ pc' = [pc EXCEPT ![w] = "unwinding"]
          /\ UNCHANGED granted
     ELSE /\ granted' = [granted EXCEPT ![r] = @ + n]
          /\ UNCHANGED pc
  /\ UNCHANGED <<openFiles, slot>>

\* acquireOpenFile, its first atomic step.
Reserve(w, i) ==
  /\ pc[w] = "running" /\ Settled(w)
  /\ IsNext(w, i)
  /\ openFiles' = openFiles + 1
  /\ IF Exceeds(openFiles + 1, MaxOpenFiles)
     THEN /\ pc' = [pc EXCEPT ![w] = "rollback"]
          /\ UNCHANGED slot
     ELSE /\ slot' = [slot EXCEPT ![<<w, i>>] = "reserved"]
          /\ UNCHANGED pc
  /\ UNCHANGED <<counter, granted>>

\* acquireOpenFile, the second step of a refusal.
RollBack(w) ==
  /\ pc[w] = "rollback"
  /\ openFiles' = openFiles - 1
  /\ \E next \in {"running", "unwinding"} : pc' = [pc EXCEPT ![w] = next]
  /\ UNCHANGED <<counter, slot, granted>>

OpenFile(w, i) ==
  /\ pc[w] = "running"
  /\ IsTop(w, i) /\ slot[<<w, i>>] = "reserved"
  /\ slot' = [slot EXCEPT ![<<w, i>>] = "open"]
  /\ UNCHANGED <<counter, openFiles, pc, granted>>

\* FileSystem.OpenFile fails: the slot is released and the error reported.
OpenFails(w, i) ==
  /\ pc[w] = "running"
  /\ IsTop(w, i) /\ slot[<<w, i>>] = "reserved"
  /\ slot' = [slot EXCEPT ![<<w, i>>] = "free"]
  /\ openFiles' = openFiles - 1
  /\ \E next \in {"running", "unwinding"} : pc' = [pc EXCEPT ![w] = next]
  /\ UNCHANGED <<counter, granted>>

\* releaseCloser.Close closes the file first ...
CloseFile(w, i) ==
  /\ pc[w] \in {"running", "unwinding"}
  /\ IsTop(w, i) /\ slot[<<w, i>>] = "open"
  /\ slot' = [slot EXCEPT ![<<w, i>>] = "closed"]
  /\ UNCHANGED <<counter, openFiles, pc, granted>>

\* ... and gives the slot back afterwards.
Release(w, i) ==
  /\ pc[w] \in {"running", "unwinding"}
  /\ IsTop(w, i) /\ slot[<<w, i>>] = "closed"
  /\ slot' = [slot EXCEPT ![<<w, i>>] = "free"]
  /\ openFiles' = openFiles - 1
  /\ UNCHANGED <<counter, pc, granted>>

\* The goroutine's deferred closers have all run when it ends.
Finish(w) ==
  /\ pc[w] \in {"running", "unwinding"}
  /\ \A i \in 1..MaxNested : slot[<<w, i>>] = "free"
  /\ pc' = [pc EXCEPT ![w] = "done"]
  /\ UNCHANGED <<counter, openFiles, slot, granted>>

Terminated ==
  /\ \A w \in Workers : pc[w] = "done"
  /\ UNCHANGED vars

Next ==
  \/ \E w \in Workers, r \in Resources : \E n \in Batch[r] : Consume(w, r, n)
  \/ \E w \in Workers, i \in 1..MaxNested :
       \/ Reserve(w, i)
       \/ OpenFile(w, i)
       \/ OpenFails(w, i)
       \/ CloseFile(w, i)
       \/ Release(w, i)
  \/ \E w \in Workers : RollBack(w) \/ Finish(w)
  \/ Terminated

Spec == Init /\ [][Next]_vars

-----------------------------------------------------------------------------
\* Types of the counters, the slots and the goroutines of limits.go; that
\* openFiles never goes below zero is part of it.
TypeOK ==
  /\ counter \in [Resources -> Nat]
  /\ openFiles \in Nat
  /\ slot \in [Slots -> SlotState]
  /\ pc \in [Workers -> WorkerState]
  /\ granted \in [Resources -> Nat]

\* Whatever the goroutines do at once, the limits of Config are kept: the
\* files really open and the slots reserved for them never exceed
\* MaxOpenFiles, however the two-step refusals interleave, and consumeLimit
\* grants no unit beyond Limit[r].  Where a request asks for one unit (commands,
\* loop iterations) it grants exactly the first Limit[r]: none is lost to a
\* request that is refused.
FilesWithinLimit ==
  MaxOpenFiles >= 0 =>
    /\ Cardinality(Opened) <= MaxOpenFiles
    /\ Cardinality(Held) <= MaxOpenFiles

ExactUnits ==
  \A r \in Resources : Limit[r] >= 0 =>
    /\ granted[r] <= Limit[r]
    /\ Batch[r] = {1} /\ counter[r] > Limit[r] => granted[r] = Limit[r]

LimitsKept == FilesWithinLimit /\ ExactUnits

\* acquireOpenFile's counter is explained at every moment: it counts the held
\* slots and the refusals that have not yet taken their Add back.  A slot lost
\* or released twice on any path (refusal, failed open, close) breaks it; when
\* every goroutine of the Run has ended, all slots have been given back.
SlotsAccounted ==
  /\ openFiles = Cardinality(Held) + Cardinality(RollingBack)
  /\ (\A w \in Workers : pc[w] = "done") => openFiles = 0

\* A goroutine is refused a file only while MaxOpenFiles slots are held or are
\* being taken back by other refusals: a Run that is quiet refuses nothing.
RefusalJustified ==
  [][\A w \in Workers : pc[w] = "running" /\ pc'[w] = "rollback"
       => Cardinality(Held) + Cardinality(RollingBack) >= MaxOpenFiles]_vars

\* The counters implement the promise the embedder reads in Config.
AbstractQuota == INSTANCE Quota WITH
  Holders <- Slots, holding <- Held

RefinesQuota == AbstractQuota!Spec

=============================================================================
