--------------------------- MODULE PipelineProofs ---------------------------
(***************************************************************************)
(* For every number of stages, every choice of host processes and every    *)
(* set of statuses: the safety invariants of module Pipeline.              *)
(***************************************************************************)
EXTENDS Pipeline, FiniteSetTheorems, TLAPS

-----------------------------------------------------------------------------
(* First and last stage of a set of stages. *)

\* Among some sets of stages one contains no other: inclusion is well founded.
LEMMA SmallestSet ==
  ASSUME NEW T, T \subseteq SUBSET Stages, T # {}
  PROVE  \E t \in T : \A u \in T : u \subseteq t => u = t
<1>1. IsFiniteSet(Stages)
  BY StagesAssumption, FS_Interval DEF Stages
<1>2. T \subseteq FiniteSubsetsOf(Stages)
  BY <1>1, FS_Subset DEF FiniteSubsetsOf
<1>3. PICK t \in T : \A u \in T : ~ (<<u, t>> \in StrictSubsetOrdering(Stages))
  BY <1>2, FS_StrictSubsetOrderingWellFounded, WFMin
<1> QED
  BY <1>3 DEF StrictSubsetOrdering

\* A set of stages that is not empty has a first one, and Min is it.
LEMMA FirstStage ==
  ASSUME NEW S, S \subseteq Stages, S # {}
  PROVE  Min(S) \in S /\ \A y \in S : Min(S) <= y
<1> DEFINE T == {1..x : x \in S}
<1>1. T \subseteq SUBSET Stages /\ T # {}
  <2>1. \A x \in S : 1..x \subseteq Stages
    BY StagesAssumption DEF Stages
  <2> QED BY <2>1
<1>2. PICK t \in T : \A u \in T : u \subseteq t => u = t
  <2> HIDE DEF T
  <2> QED BY <1>1, SmallestSet
<1>3. PICK x \in S : t = 1..x
  OBVIOUS
<1>4. \A y \in S : x <= y
  <2> SUFFICES ASSUME NEW y \in S, y < x PROVE FALSE
    BY StagesAssumption DEF Stages
  <2>1. 1..y \subseteq 1..x /\ x \in 1..x /\ x \notin 1..y
    BY StagesAssumption DEF Stages
  <2> QED BY <2>1, <1>2, <1>3
<1> QED
  BY <1>4 DEF Min

\* It has a last one, and Max is it.
LEMMA LastStage ==
  ASSUME NEW S, S \subseteq Stages, S # {}
  PROVE  Max(S) \in S /\ \A y \in S : Max(S) >= y
<1> DEFINE T == {x..N : x \in S}
<1>1. T \subseteq SUBSET Stages /\ T # {}
  <2>1. \A x \in S : x..N \subseteq Stages
    BY StagesAssumption DEF Stages
  <2> QED BY <2>1
<1>2. PICK t \in T : \A u \in T : u \subseteq t => u = t
  <2> HIDE DEF T
  <2> QED BY <1>1, SmallestSet
<1>3. PICK x \in S : t = x..N
  OBVIOUS
<1>4. \A y \in S : x >= y
  <2> SUFFICES ASSUME NEW y \in S, x < y PROVE FALSE
    BY StagesAssumption DEF Stages
  <2>1. y..N \subseteq x..N /\ x \in x..N /\ x \notin y..N
    BY StagesAssumption DEF Stages
  <2> QED BY <2>1, <1>2, <1>3
<1> QED
  BY <1>4 DEF Max

-----------------------------------------------------------------------------
(* The inductive invariant. *)

\* The ends of the pipes are closed by the stages' deferred calls, no sooner.
EndsFollowStages ==
  \A g \in Gaps :
    /\ g \in writerOpen <=> pc[g] \notin {"closeIn", "done"}
    /\ g \in readerOpen <=> pc[g + 1] # "done"

Closing == {"closeOut", "closeIn", "done"}

\* Where a dead context comes from.
Causes ==
  /\ parentErr # "none" => ctxErr # "none"
  /\ parentErr = "none" => \A i \in Stages : result[i].err # "deadline"
  /\ parentErr = "none" /\ ctxErr # "none" =>
       /\ ctxErr = "canceled"
       /\ \E i \in Stages :
            result[i].err \in {"failed", "brokenPipe"} /\ pc[i] \in Closing

\* A stage's library error kills the context before the stage closes its pipes.
ErrorsCancel ==
  \A i \in Stages :
    /\ pc[i] = "failed" => result[i].err # "none"
    /\ result[i].err # "none" =>
         result[i].status = 1 /\ pc[i] \in Closing \cup {"failed"}
    /\ result[i].err # "none" /\ ctxErr = "none" =>
         pc[i] = "failed" /\ result[i].err \in {"failed", "brokenPipe"}

\* A stage that ends with a Write still blocked knows that it has failed.
LossKnown ==
  \A g \in Gaps :
    /\ g \in lost => pc[g] \in {"closeIn", "done"} /\ result[g].status # 0
    /\ g \in writing /\ pc[g] \in {"failed", "closeOut"} =>
         result[g].status # 0

Answered ==
  main = "returned" =>
    /\ \A i \in Stages : pc[i] = "done"
    /\ InternalCancelStaysInside
    /\ NoErrorSwallowed

IInv ==
  /\ TypeOK
  /\ EndsFollowStages
  /\ Causes
  /\ ErrorsCancel
  /\ LossKnown
  /\ Answered

\* Every result a stage can return is a flowResult.
LEMMA ResultTypes ==
  /\ \A s \in Statuses \cup {CannotRun} : Normal(s) \in Result
  /\ \A s \in Statuses : Escape(s) \in Result
  /\ \A e \in Errors : Failure(e) \in Result
BY StatusesAssumption DEF Normal, Escape, Failure, Result, Errors, CtxErrors

\* A pipeline starts with every end open, nothing blocked and no error.
LEMMA InitIInv == Init => IInv
<1> SUFFICES ASSUME Init PROVE IInv
  OBVIOUS
<1>1. TypeOK
  BY ResultTypes, StatusesAssumption
  DEF Init, TypeOK, StagePC, CtxErrors
<1>2. EndsFollowStages
  BY StagesAssumption DEF Init, EndsFollowStages, Gaps, Stages
<1>3. Causes /\ ErrorsCancel
  BY DEF Init, Causes, ErrorsCancel, Normal
<1>4. LossKnown /\ Answered
  BY DEF Init, LossKnown, Answered
<1> QED
  BY <1>1, <1>2, <1>3, <1>4 DEF IInv

-----------------------------------------------------------------------------
(* The pipes. *)

\* A stage's command blocks in a Read or a Write, and the Reads and Writes of a
\* gap complete: only the pipes' own state changes.
LEMMA PipesIInv ==
  ASSUME IInv,
         reading' \subseteq readerOpen, writing' \subseteq writerOpen,
         eof' \subseteq Gaps, broken' \subseteq Gaps,
         \A g \in writing' : g \in writing \/ pc[g] \in {"running", "draining"},
         UNCHANGED <<mode, main, pc, code, readerOpen, writerOpen, lost, result,
                     ctxErr, parentErr, outcome>>
  PROVE  IInv'
<1> USE DEF IInv
<1>1. TypeOK'
  BY DEF TypeOK
<1>2. EndsFollowStages' /\ Causes' /\ ErrorsCancel'
  BY DEF EndsFollowStages, Causes, ErrorsCancel
<1>3. LossKnown'
  BY DEF LossKnown
<1>4. Answered'
  BY DEF Answered, InternalCancelStaysInside, NoErrorSwallowed
<1> QED
  BY <1>1, <1>2, <1>3, <1>4

\* A stage that has not ended has its ends of the pipes open.
LEMMA RunningEnds ==
  ASSUME IInv, NEW i \in Stages, pc[i] \in {"running", "draining"}
  PROVE  /\ i \in Gaps => i \in writerOpen
         /\ i - 1 \in Gaps => i - 1 \in readerOpen
<1>1. i - 1 \in Gaps => (i - 1) + 1 = i
  BY StagesAssumption DEF Stages, Gaps
<1> QED
  BY <1>1 DEF IInv, EndsFollowStages

\* A Read begins: the stage still holds its reader, so the types hold.
LEMMA BeginReadIInv ==
  ASSUME IInv, NEW i \in Stages, BeginRead(i)
  PROVE  IInv'
<1>1. reading' \subseteq readerOpen /\ writing' \subseteq writerOpen
  BY RunningEnds DEF BeginRead, IInv, TypeOK
<1> QED
  BY <1>1, PipesIInv DEF BeginRead, IInv, TypeOK

\* A Write begins: the stage, or its copier, still holds the writer.
LEMMA BeginWriteIInv ==
  ASSUME IInv, NEW i \in Stages, BeginWrite(i)
  PROVE  IInv'
<1>1. reading' \subseteq readerOpen /\ writing' \subseteq writerOpen
  BY RunningEnds DEF BeginWrite, IInv, TypeOK
<1>2. \A g \in writing' : g \in writing \/ pc[g] \in {"running", "draining"}
  BY DEF BeginWrite
<1> QED
  BY <1>1, <1>2, PipesIInv DEF BeginWrite, IInv, TypeOK

\* A blocked Read or Write completes, whichever way.
LEMMA PipeStepIInv ==
  ASSUME IInv, NEW g \in Gaps, PipeStep(g)
  PROVE  IInv'
<1>1. reading' \subseteq reading /\ writing' \subseteq writing
  BY DEF PipeStep, Transfer, ReadEOF, WriteBroken
<1>2. eof' \subseteq Gaps /\ broken' \subseteq Gaps
  BY DEF PipeStep, Transfer, ReadEOF, WriteBroken, IInv, TypeOK
<1>3. UNCHANGED <<mode, main, pc, code, readerOpen, writerOpen, lost, result,
                  ctxErr, parentErr, outcome>>
  BY DEF PipeStep, Transfer, ReadEOF, WriteBroken
<1>4. reading \subseteq readerOpen /\ writing \subseteq writerOpen
  BY DEF IInv, TypeOK
<1> QED
  BY <1>1, <1>2, <1>3, <1>4, PipesIInv

-----------------------------------------------------------------------------
(* The ends of the stages. *)

\* What a stage's result has to satisfy when the stage ends.
LEMMA EndedIInv ==
  ASSUME IInv, NEW i \in Stages, NEW r \in Result,
         pc[i] \in {"running", "draining"},
         Ended(i, r),
         r.err # "none" => r.status = 1,
         ctxErr = "none" => r.err \in {"none", "failed", "brokenPipe"},
         parentErr = "none" => r.err # "deadline",
         i \in writing => r.status # 0,
         UNCHANGED <<mode, main, code, ends, ctxErr, parentErr, outcome>>
  PROVE  IInv'
<1> USE DEF IInv, Ended, ends
<1>1. TypeOK'
  BY DEF TypeOK, StagePC
<1>2. EndsFollowStages'
  BY StagesAssumption DEF EndsFollowStages, TypeOK, Stages, Gaps
<1>3. Causes'
  BY DEF Causes, TypeOK, Closing
<1>4. ErrorsCancel'
  BY DEF ErrorsCancel, TypeOK, Closing
<1>5. LossKnown'
  BY DEF LossKnown, TypeOK
<1>6. Answered'
  BY DEF Answered
<1> QED
  BY <1>1, <1>2, <1>3, <1>4, <1>5, <1>6

\* A dead context of the pipeline is not past its deadline unless its parent is.
LEMMA ContextError ==
  ASSUME IInv, ctxErr # "none"
  PROVE  /\ ctxErr \in Errors
         /\ parentErr = "none" => ctxErr = "canceled"
BY DEF IInv, TypeOK, Causes, Errors

\* A shell stage ends in any of the ways its commands can end.
LEMMA ShellEndsIInv ==
  ASSUME IInv, NEW i \in Stages, ShellEnds(i)
  PROVE  IInv'
<1>1. PICK r \in ShellResults(i) : Ended(i, r)
  BY DEF ShellEnds
<1>2. r \in Result
  BY <1>1, ResultTypes DEF ShellResults, Errors
<1>3. /\ r.err \in {"none", "failed", "brokenPipe"}
      /\ r.err # "none" => r.status = 1
  BY <1>1 DEF ShellResults, Normal, Escape, Failure
<1>4. i \notin writing
  BY DEF ShellEnds, Blocked
<1> QED
  BY <1>1, <1>2, <1>3, <1>4, EndedIInv DEF ShellEnds

\* A shell stage stops because the context is dead; the cause is known.
LEMMA ShellStopsIInv ==
  ASSUME IInv, NEW i \in Stages, ShellStops(i)
  PROVE  IInv'
<1>1. Failure(ctxErr) \in Result
  BY ResultTypes, ContextError DEF ShellStops
<1>2. Failure(ctxErr).err = ctxErr /\ Failure(ctxErr).status = 1
  BY DEF Failure
<1>3. i \notin writing /\ ctxErr # "none" /\ pc[i] = "running"
  BY DEF ShellStops, Blocked
<1>4. parentErr = "none" => ctxErr # "deadline"
  BY <1>3, ContextError
<1> QED
  BY <1>1, <1>2, <1>3, <1>4, EndedIInv DEF ShellStops

\* runExternal reports a Write that was left behind, and no error but the
\* context's.
LEMMA ExternalResults ==
  ASSUME IInv, NEW i \in Stages, NEW delayed \in BOOLEAN
  PROVE  /\ ExternalResult(i, delayed) \in Result
         /\ ExternalResult(i, delayed).err # "none" =>
              ExternalResult(i, delayed).status = 1
         /\ ExternalResult(i, delayed).err # "none" =>
              ctxErr # "none" /\ ExternalResult(i, delayed).err = ctxErr
         /\ delayed => ExternalResult(i, delayed).status # 0
<1>1. code[i] \in Statuses /\ 0 \in Statuses
  BY StatusesAssumption DEF IInv, TypeOK
<1>2. ExternalResult(i, delayed) \in Result
  BY <1>1, ResultTypes, ContextError DEF ExternalResult
<1>3. /\ ExternalResult(i, delayed).err # "none" =>
           ExternalResult(i, delayed).status = 1
      /\ ExternalResult(i, delayed).err # "none" =>
           ctxErr # "none" /\ ExternalResult(i, delayed).err = ctxErr
      /\ delayed => ExternalResult(i, delayed).status # 0
  BY DEF ExternalResult, Normal, Failure, CannotRun
<1> QED
  BY <1>2, <1>3

\* Wait returns after its copiers: nothing can be lost any more.
LEMMA DrainedIInv ==
  ASSUME IInv, NEW i \in Stages, Drained(i)
  PROVE  IInv'
<1> DEFINE r == ExternalResult(i, FALSE)
<1>1. /\ r \in Result
      /\ r.err # "none" => r.status = 1
      /\ r.err # "none" => ctxErr # "none" /\ r.err = ctxErr
  BY ExternalResults
<1>2. i \notin writing /\ pc[i] = "draining" /\ Ended(i, r)
  BY DEF Drained, CopierStuck
<1>3. UNCHANGED <<mode, main, code, ends, ctxErr, parentErr, outcome>>
  BY DEF Drained
<1> HIDE DEF r
<1> QED
  BY <1>1, <1>2, <1>3, ContextError, EndedIInv

\* Wait gives up on its copiers: the status is not 0, so a loss is known.
LEMMA DrainTimeoutIInv ==
  ASSUME IInv, NEW i \in Stages, DrainTimeout(i)
  PROVE  IInv'
<1> DEFINE r == ExternalResult(i, TRUE)
<1>1. /\ r \in Result
      /\ r.err # "none" => r.status = 1
      /\ r.err # "none" => ctxErr # "none" /\ r.err = ctxErr
      /\ r.status # 0
  BY ExternalResults
<1>2. pc[i] = "draining" /\ Ended(i, r)
  BY DEF DrainTimeout
<1>3. UNCHANGED <<mode, main, code, ends, ctxErr, parentErr, outcome>>
  BY DEF DrainTimeout
<1> HIDE DEF r
<1> QED
  BY <1>1, <1>2, <1>3, ContextError, EndedIInv

\* A host process ends or is killed; Wait starts to wait for its copiers.
LEMMA ProcessIInv ==
  ASSUME IInv, NEW i \in Stages, ProcessEnds(i) \/ ProcessKilled(i)
  PROVE  IInv'
<1> USE DEF IInv
<1>1. /\ pc[i] = "running"
      /\ pc' = [pc EXCEPT ![i] = "draining"]
      /\ \E s \in Statuses : code' = [code EXCEPT ![i] = s]
      /\ UNCHANGED <<mode, main, writing, readerOpen, writerOpen, eof, broken,
                     lost, result, ctxErr, parentErr, outcome>>
  BY StatusesAssumption DEF ProcessEnds, ProcessKilled, ends
<1>2. reading' \subseteq readerOpen
  BY RunningEnds DEF ProcessEnds, ProcessKilled, ends, TypeOK
<1>3. TypeOK'
  BY <1>1, <1>2 DEF TypeOK, StagePC
<1>4. EndsFollowStages'
  BY <1>1, StagesAssumption DEF EndsFollowStages, TypeOK, Stages, Gaps
<1>5. Causes' /\ ErrorsCancel'
  BY <1>1 DEF Causes, ErrorsCancel, TypeOK, Closing
<1>6. LossKnown'
  BY <1>1 DEF LossKnown, TypeOK
<1>7. Answered'
  BY <1>1 DEF Answered
<1> QED
  BY <1>3, <1>4, <1>5, <1>6, <1>7

\* cancel(): the pipeline's context has this stage's error as its cause.
LEMMA CancelIInv ==
  ASSUME IInv, NEW i \in Stages, Cancel(i)
  PROVE  IInv'
<1> USE DEF IInv, Cancel, ends
<1>1. TypeOK'
  BY DEF TypeOK, StagePC, CtxErrors
<1>2. EndsFollowStages'
  BY StagesAssumption DEF EndsFollowStages, TypeOK, Stages, Gaps
<1>3. ctxErr = "none" => /\ parentErr = "none"
                         /\ result[i].err \in {"failed", "brokenPipe"}
  BY DEF ErrorsCancel, Causes
<1>4. Causes'
  BY <1>3 DEF Causes, TypeOK, Closing
<1>5. ErrorsCancel'
  BY DEF ErrorsCancel, TypeOK, Closing
<1>6. LossKnown'
  BY DEF LossKnown, TypeOK
<1>7. Answered'
  BY DEF Answered
<1> QED
  BY <1>1, <1>2, <1>4, <1>5, <1>6, <1>7

\* The writer is closed; a Write lost here is that of a failed stage.
LEMMA CloseOutIInv ==
  ASSUME IInv, NEW i \in Stages, CloseOut(i)
  PROVE  IInv'
<1> USE DEF IInv, CloseOut
<1>1. TypeOK'
  BY DEF TypeOK, StagePC
<1>2. EndsFollowStages'
  BY StagesAssumption DEF EndsFollowStages, TypeOK, Stages, Gaps
<1>3. Causes' /\ ErrorsCancel'
  BY DEF Causes, ErrorsCancel, TypeOK, Closing
<1>4. LossKnown'
  BY DEF LossKnown, TypeOK
<1>5. Answered'
  BY DEF Answered
<1> QED
  BY <1>1, <1>2, <1>3, <1>4, <1>5

\* The reader is closed, and its stage has ended.
LEMMA CloseInIInv ==
  ASSUME IInv, NEW i \in Stages, CloseIn(i)
  PROVE  IInv'
<1> USE DEF IInv, CloseIn
<1>1. TypeOK'
  BY DEF TypeOK, StagePC
<1>2. EndsFollowStages'
  BY StagesAssumption DEF EndsFollowStages, TypeOK, Stages, Gaps
<1>3. Causes' /\ ErrorsCancel'
  BY DEF Causes, ErrorsCancel, TypeOK, Closing
<1>4. LossKnown'
  BY DEF LossKnown, TypeOK
<1>5. Answered'
  BY DEF Answered
<1> QED
  BY <1>1, <1>2, <1>3, <1>4, <1>5

-----------------------------------------------------------------------------
(* The context and the answer. *)

\* The caller's context dies: every later error may name it.
LEMMA ParentCancelIInv ==
  ASSUME IInv, NEW e \in CtxErrors, ParentCancel(e)
  PROVE  IInv'
<1> USE DEF IInv, ParentCancel, ends
<1>1. TypeOK'
  BY DEF TypeOK
<1>2. EndsFollowStages'
  BY DEF EndsFollowStages
<1>3. Causes' /\ ErrorsCancel'
  BY DEF Causes, ErrorsCancel, CtxErrors
<1>4. LossKnown' /\ Answered'
  BY DEF LossKnown, Answered
<1> QED
  BY <1>1, <1>2, <1>3, <1>4

\* The answer, once every stage has ended: an error if a stage had one or the
\* context is dead, never the pipeline's own cancellation.
LEMMA DecisionFacts ==
  ASSUME IInv, \A i \in Stages : pc[i] = "done"
  PROVE  /\ Decision \in Result
         /\ ctxErr = "none" => Decision.err = "none"
         /\ ctxErr # "none" => Decision.err # "none" /\ Decision.status = 1
         /\ parentErr = "none" => Decision.err \notin CtxErrors
<1> USE DEF IInv
<1>1. result \in [Stages -> Result] /\ N \in Stages
  BY StagesAssumption DEF TypeOK, Stages
<1>2. CASE ctxErr # "none"
  <2>1. CASE Failing # {}
    <3>1. Min(Failing) \in Failing
      BY <2>1, FirstStage DEF Failing
    <3>2. Decision = result[Min(Failing)]
      BY <1>2, <2>1 DEF Decision
    <3>3. /\ Decision \in Result
          /\ Decision.err \notin {"none", "canceled"}
          /\ Decision.status = 1
          /\ parentErr = "none" => Decision.err # "deadline"
      BY <1>1, <3>1, <3>2 DEF Failing, ErrorsCancel, Causes
    <3> QED
      BY <1>2, <3>3 DEF CtxErrors
  <2>2. CASE Failing = {}
    <3>1. parentErr # "none"
      BY <1>2, <2>2 DEF Failing, Causes
    <3>2. Decision = Failure(ctxErr)
      BY <1>2, <2>2 DEF Decision
    <3>3. Decision \in Result
      BY <1>2, <3>2, ContextError, ResultTypes
    <3> QED
      BY <1>2, <3>1, <3>2, <3>3 DEF Failure
  <2> QED
    BY <2>1, <2>2
<1>3. CASE ctxErr = "none"
  <2>1. \A i \in Stages : result[i].err = "none"
    BY <1>3 DEF ErrorsCancel
  <2>2. \E i \in Stages :
          \/ Decision = result[i]
          \/ Decision = Negate(result[i])
    <3>1. CASE Stopping # {}
      <4>1. Min(Stopping) \in Stages
        BY <3>1, FirstStage DEF Stopping
      <4> QED
        BY <1>3, <3>1, <4>1 DEF Decision
    <3>2. CASE Stopping = {}
      <4>1. CASE NonZero # {}
        <5>1. Max(NonZero) \in Stages
          BY <4>1, LastStage DEF NonZero
        <5> QED
          BY <1>1, <1>3, <3>2, <5>1 DEF Decision, Selected
      <4>2. CASE NonZero = {}
        BY <1>1, <1>3, <3>2, <4>2 DEF Decision, Selected
      <4> QED
        BY <4>1, <4>2
    <3> QED
      BY <3>1, <3>2
  <2>3. \A i \in Stages :
          /\ Negate(result[i]) \in Result
          /\ Negate(result[i]).err = result[i].err
    BY <1>1, StatusesAssumption DEF Negate, Result
  <2>4. Decision \in Result /\ Decision.err = "none"
    BY <1>1, <2>1, <2>2, <2>3
  <2> QED
    BY <1>3, <2>4 DEF CtxErrors
<1> QED
  BY <1>2, <1>3

\* execPipeline returns: its answer is what DecisionFacts says.
LEMMA ReturnIInv ==
  ASSUME IInv, Return
  PROVE  IInv'
<1> USE DEF IInv
<1>1. /\ \A i \in Stages : pc[i] = "done"
      /\ outcome' = Decision
      /\ main' = "returned"
      /\ UNCHANGED <<mode, pc, code, ends, result, ctxErr, parentErr>>
  BY DEF Return
<1>2. TypeOK'
  BY <1>1, DecisionFacts DEF TypeOK, ends
<1>3. EndsFollowStages' /\ LossKnown'
  BY <1>1 DEF EndsFollowStages, LossKnown, ends
<1>4. Causes' /\ ErrorsCancel'
  BY <1>1 DEF Causes, ErrorsCancel
<1>5. InternalCancelStaysInside'
  BY <1>1, DecisionFacts DEF InternalCancelStaysInside
<1>6. NoErrorSwallowed'
  <2>1. (\E i \in Stages : result[i].err # "none") => ctxErr # "none"
    BY <1>1 DEF ErrorsCancel
  <2> QED
    BY <1>1, <2>1, DecisionFacts DEF NoErrorSwallowed
<1>7. Answered'
  BY <1>1, <1>5, <1>6 DEF Answered
<1> QED
  BY <1>2, <1>3, <1>4, <1>7

-----------------------------------------------------------------------------
(* The theorems. *)

\* Every step of every pipeline preserves the invariant.
LEMMA NextIInv == IInv /\ [Next]_vars => IInv'
<1> SUFFICES ASSUME IInv, [Next]_vars PROVE IInv'
  OBVIOUS
<1>1. ASSUME NEW i \in Stages, StageStep(i) PROVE IInv'
  BY <1>1, BeginReadIInv, BeginWriteIInv, ShellEndsIInv, ShellStopsIInv,
     ProcessIInv, DrainedIInv, DrainTimeoutIInv, CancelIInv, CloseOutIInv,
     CloseInIInv DEF StageStep
<1>2. ASSUME NEW g \in Gaps, PipeStep(g) PROVE IInv'
  BY <1>2, PipeStepIInv
<1>3. ASSUME NEW e \in CtxErrors, ParentCancel(e) PROVE IInv'
  BY <1>3, ParentCancelIInv
<1>4. CASE Return
  BY <1>4, ReturnIInv
<1>5. CASE UNCHANGED vars
  BY <1>5 DEF vars, ends, IInv, TypeOK, EndsFollowStages, Causes, ErrorsCancel,
     LossKnown, Answered, InternalCancelStaysInside, NoErrorSwallowed
<1> QED
  BY <1>1, <1>2, <1>3, <1>4, <1>5 DEF Next, Terminated

\* The strengthened invariant holds in every pipeline.
THEOREM Invariance == Spec => []IInv
<1> QED
  BY InitIInv, NextIInv, PTL DEF Spec

\* Types, and no Read or Write blocked on an end that is closed.
THEOREM TypeCorrect == Spec => []TypeOK
<1>1. IInv => TypeOK
  BY DEF IInv
<1> QED
  BY <1>1, Invariance, PTL

\* execPipeline never answers its own cancellation, for any number of stages.
THEOREM CancelIsPrivate == Spec => []InternalCancelStaysInside
<1>1. IInv => InternalCancelStaysInside
  BY DEF IInv, Answered, InternalCancelStaysInside
<1> QED
  BY <1>1, Invariance, PTL

\* Nor does it drop the error of any stage.
THEOREM ErrorsSurface == Spec => []NoErrorSwallowed
<1>1. IInv => NoErrorSwallowed
  BY DEF IInv, Answered, NoErrorSwallowed
<1> QED
  BY <1>1, Invariance, PTL

\* Output lost to WaitDelay leaves a failure status behind.
THEOREM LossSurfaces == Spec => []LossIsReported
<1>1. IInv => LossIsReported
  BY DEF IInv, TypeOK, LossKnown, LossIsReported
<1> QED
  BY <1>1, Invariance, PTL

\* In every reachable state of every pipeline some stage or pipe can move.
THEOREM DeadlockFree == Spec => []NoCircularWait
<1>1. ASSUME IInv PROVE NoCircularWait
  <2> DEFINE Alive == {i \in Stages : pc[i] # "done"}
             Readers == {i \in Alive : i - 1 \in reading}
  <2> SUFFICES ASSUME Alive # {},
                      \A i \in Alive : i \in writing \/ i - 1 \in reading,
                      \A g \in reading : g \notin writing /\ g \in writerOpen,
                      \A g \in writing : g \in readerOpen
               PROVE  FALSE
    BY DEF NoCircularWait, Blocked
  <2>1. /\ reading \subseteq Gaps /\ writing \subseteq Gaps
        /\ \A g \in Gaps : g \in Stages /\ g + 1 \in Stages
        /\ \A i \in Stages : i - 1 < i /\ i < i + 1 /\ i \in Int
    BY <1>1, StagesAssumption DEF IInv, TypeOK, Gaps, Stages
  <2>2. PICK m \in Alive : \A y \in Alive : m >= y
    BY LastStage
  <2>3. m \notin writing
    <3> SUFFICES ASSUME m \in writing PROVE FALSE
      OBVIOUS
    <3>1. m \in Gaps /\ m \in readerOpen
      BY <2>1
    <3>2. m + 1 \in Alive
      BY <1>1, <3>1, <2>1 DEF IInv, EndsFollowStages
    <3>3. m \in Int /\ m >= m + 1
      BY <3>1, <3>2, <2>1, <2>2
    <3> QED
      BY <3>3
  <2>4. Readers # {}
    BY <2>2, <2>3
  <2>5. PICK j \in Readers : \A y \in Readers : j <= y
    BY <2>4, FirstStage
  <2>6. j - 1 \in Gaps /\ j - 1 \in writerOpen /\ j - 1 \notin writing
    BY <2>1, <2>5
  <2>7. j - 1 \in Alive
    BY <1>1, <2>1, <2>6 DEF IInv, EndsFollowStages
  <2>8. j - 1 \in Readers
    BY <2>6, <2>7
  <2>9. j \in Int /\ j <= j - 1
    BY <2>5, <2>8, <2>1
  <2> QED
    BY <2>9
<1> QED
  BY <1>1, Invariance, PTL

=============================================================================
