------------------------------ MODULE Pipeline ------------------------------
(***************************************************************************)
(* execute.go: execPipeline for two stages or more.  Each stage runs in a  *)
(* goroutine of its own; gap g is the io.Pipe between stages g and g + 1.  *)
(* An io.Pipe has no buffer: a Write blocks until a Read takes its data or *)
(* an end is closed, and neither looks at the context.                     *)
(*                                                                         *)
(* A shell stage (builtins, functions, compound commands) reads and writes *)
(* the pipes itself and can do nothing else while blocked.  A stage that   *)
(* is a host process (external.go, process_unix.go) uses them through the  *)
(* two copying goroutines of os/exec: the process can be killed and Wait   *)
(* gives up on its copiers after WaitDelay, leaving them behind.           *)
(*                                                                         *)
(* The stages run on clones of the shell state; only their flowResults     *)
(* come back, and the first one with a library error cancels the others.   *)
(***************************************************************************)
EXTENDS Integers, FiniteSetsExt

CONSTANTS
  N,          \* number of stages
  Statuses,   \* exit statuses the stages' commands may have
  External,   \* the stages that are host processes
  Modes       \* the pipefail option and the ! of the pipelines explored

ASSUME StagesAssumption == N \in Nat /\ N >= 2
ASSUME StatusesAssumption == {0, 1} \subseteq Statuses /\ Statuses \subseteq 0..255
ASSUME ExternalAssumption == External \subseteq 1..N
ASSUME ModesAssumption == Modes \subseteq [pipefail : BOOLEAN, negated : BOOLEAN]

Stages == 1..N
Gaps == 1..(N - 1)

\* runExternal's status when the process is fine but its streams are not.
CannotRun == 126

CtxErrors == {"canceled", "deadline"}
Errors == {"none", "failed", "brokenPipe"} \cup CtxErrors
Result ==
  [status : Statuses \cup {CannotRun}, kind : {"none", "escape"}, err : Errors]

Normal(s) == [status |-> s, kind |-> "none", err |-> "none"]
\* exit, return, break or continue that no command of the stage consumed.
Escape(s) == [status |-> s, kind |-> "escape", err |-> "none"]
Failure(e) == [status |-> 1, kind |-> "none", err |-> e]

VARIABLES
  mode,        \* state.options.pipefail and pipeline.negated
  main,        \* execPipeline: "waiting" in wg.Wait, or "returned"
  pc,          \* what each stage's goroutine is doing
  code,        \* exit code of a host process that has ended
  reading,     \* gaps with a blocked Read
  writing,     \* gaps with a blocked Write
  readerOpen,  \* gaps whose PipeReader is open
  writerOpen,  \* gaps whose PipeWriter is open
  eof,         \* gaps at which the reading stage has seen EOF
  broken,      \* gaps at which the writing stage has seen ErrClosedPipe
  lost,        \* history: gaps whose last Write was abandoned
  result,      \* results[index]
  ctxErr,      \* ctx.Err() of the pipeline's context
  parentErr,   \* ctx.Err() of the context execPipeline was given
  outcome      \* the flowResult execPipeline returns

ends == <<reading, writing, readerOpen, writerOpen, eof, broken, lost>>
vars == <<mode, main, pc, code, ends, result, ctxErr, parentErr, outcome>>

\* "draining": the process has ended, Wait is waiting for its copiers.
StagePC == {"running", "draining", "failed", "closeOut", "closeIn", "done"}

\* A shell stage blocked on a pipe does nothing else.
Blocked(i) == i \notin External /\ (i \in writing \/ i - 1 \in reading)

\* The copiers of a host process that have not finished.
CopierStuck(i) == i \in writing \/ i - 1 \in reading

-----------------------------------------------------------------------------
Init ==
  /\ mode \in Modes
  /\ main = "waiting"
  /\ pc = [i \in Stages |-> "running"]
  /\ code = [i \in Stages |-> 0]
  /\ reading = {} /\ writing = {}
  /\ readerOpen = Gaps /\ writerOpen = Gaps
  /\ eof = {} /\ broken = {} /\ lost = {}
  /\ result = [i \in Stages |-> Normal(0)]
  /\ ctxErr = "none" /\ parentErr = "none"
  /\ outcome = Normal(0)

BeginRead(i) ==
  /\ pc[i] = "running" /\ ~ Blocked(i)
  /\ i - 1 \in Gaps \ (reading \cup eof)
  /\ reading' = reading \cup {i - 1}
  /\ UNCHANGED <<mode, main, pc, code, writing, readerOpen, writerOpen, eof,
                 broken, lost, result, ctxErr, parentErr, outcome>>

\* The output copier goes on after the process has ended.
BeginWrite(i) ==
  /\ pc[i] \in {"running", "draining"} /\ ~ Blocked(i)
  /\ i \in Gaps \ (writing \cup broken)
  /\ writing' = writing \cup {i}
  /\ UNCHANGED <<mode, main, pc, code, reading, readerOpen, writerOpen, eof,
                 broken, lost, result, ctxErr, parentErr, outcome>>

\* A Read and a Write of the same gap meet.
Transfer(g) ==
  /\ g \in reading /\ g \in writing
  /\ reading' = reading \ {g}
  /\ writing' = writing \ {g}
  /\ UNCHANGED <<mode, main, pc, code, readerOpen, writerOpen, eof, broken,
                 lost, result, ctxErr, parentErr, outcome>>

ReadEOF(g) ==
  /\ g \in reading /\ g \notin writerOpen
  /\ reading' = reading \ {g}
  /\ eof' = eof \cup {g}
  /\ UNCHANGED <<mode, main, pc, code, writing, readerOpen, writerOpen,
                 broken, lost, result, ctxErr, parentErr, outcome>>

WriteBroken(g) ==
  /\ g \in writing /\ g \notin readerOpen
  /\ writing' = writing \ {g}
  /\ broken' = broken \cup {g}
  /\ UNCHANGED <<mode, main, pc, code, reading, readerOpen, writerOpen, eof,
                 lost, result, ctxErr, parentErr, outcome>>

-----------------------------------------------------------------------------
(* Plausible bugs, each in place of the definition it is named after.      *)

\* Wait's error is looked at only for the exit code.
ExternalResultCodeOnly(i, delayed) ==
  IF code[i] = 0 THEN Normal(0)
  ELSE IF ctxErr # "none" THEN Failure(ctxErr) ELSE Normal(code[i])

\* The writer is closed, but a Write left behind in it is not woken up.
CloseOutLeavesWrite(i) ==
  /\ pc[i] = "closeOut"
  /\ pc' = [pc EXCEPT ![i] = "closeIn"]
  /\ writerOpen' = writerOpen \ {i}
  /\ UNCHANGED <<mode, main, code, reading, writing, readerOpen, eof, broken,
                 lost, result, ctxErr, parentErr, outcome>>

\* The stage forgets to close the reader it was given.
CloseInForgotten(i) ==
  /\ pc[i] = "closeIn"
  /\ pc' = [pc EXCEPT ![i] = "done"]
  /\ UNCHANGED <<mode, main, code, ends, result, ctxErr, parentErr, outcome>>

\* The errors.Is(err, context.Canceled) test is missing.
FailingAnyError == {i \in Stages : result[i].err # "none"}

\* The exit of a stage is looked for before the errors of the others.
DecisionExitFirst ==
  LET escapes == {i \in Stages : result[i].kind # "none"}
  IN IF escapes # {} THEN result[CHOOSE i \in escapes : \A j \in escapes : i <= j]
     ELSE IF \E i \in Stages : result[i].err # "none"
          THEN result[CHOOSE i \in Stages : result[i].err # "none"]
          ELSE IF ctxErr # "none" THEN Failure(ctxErr) ELSE result[N]

-----------------------------------------------------------------------------
(* How a stage's execNode ends. *)

\* A library error sends the stage through cancel() first.
Ended(i, r) ==
  /\ result' = [result EXCEPT ![i] = r]
  /\ pc' = [pc EXCEPT ![i] = IF r.err = "none" THEN "closeOut" ELSE "failed"]

\* What a shell stage may return: any status, an uncaught exit or break, a
\* library error of its own, the error of an echo whose reader has gone.
ShellResults(i) ==
  {Normal(s) : s \in Statuses} \cup {Escape(s) : s \in Statuses}
    \cup {Failure("failed")}
    \cup (IF i \in broken THEN {Failure("brokenPipe")} ELSE {})

ShellEnds(i) ==
  /\ i \notin External /\ pc[i] = "running" /\ ~ Blocked(i)
  /\ \E r \in ShellResults(i) : Ended(i, r)
  /\ UNCHANGED <<mode, main, code, ends, ctxErr, parentErr, outcome>>

\* execNode (and the loops of the utilities) look at ctx.Err().
ShellStops(i) ==
  /\ i \notin External /\ pc[i] = "running" /\ ~ Blocked(i)
  /\ ctxErr # "none"
  /\ Ended(i, Failure(ctxErr))
  /\ UNCHANGED <<mode, main, code, ends, ctxErr, parentErr, outcome>>

\* The process ends by itself.  Its input copier may be between two Reads and
\* not know it yet.
ProcessEnds(i) ==
  /\ i \in External /\ pc[i] = "running"
  /\ pc' = [pc EXCEPT ![i] = "draining"]
  /\ \E s \in Statuses : code' = [code EXCEPT ![i] = s]
  /\ reading' \in {reading, reading \cup ({i - 1} \cap (Gaps \ eof))}
  /\ UNCHANGED <<mode, main, writing, readerOpen, writerOpen, eof, broken,
                 lost, result, ctxErr, parentErr, outcome>>

\* cmd.Cancel: SIGKILL for the process group; a killed process has no status 0.
ProcessKilled(i) ==
  /\ i \in External /\ pc[i] = "running" /\ ctxErr # "none"
  /\ pc' = [pc EXCEPT ![i] = "draining"]
  /\ code' = [code EXCEPT ![i] = 1]
  /\ UNCHANGED <<mode, main, ends, result, ctxErr, parentErr, outcome>>

\* runExternal, and execSimple's failure(), on what cmd.Run returned.
ExternalResult(i, delayed) ==
  IF code[i] = 0 /\ ~ delayed /\ i \notin broken THEN Normal(0)
  ELSE IF ctxErr # "none" THEN Failure(ctxErr)
  ELSE IF code[i] # 0 THEN Normal(code[i]) ELSE Normal(CannotRun)

Drained(i) ==
  /\ pc[i] = "draining" /\ ~ CopierStuck(i)
  /\ Ended(i, ExternalResult(i, FALSE))
  /\ UNCHANGED <<mode, main, code, ends, ctxErr, parentErr, outcome>>

\* WaitDelay (2 s) has passed: Wait returns ErrWaitDelay without the copiers.
DrainTimeout(i) ==
  /\ pc[i] = "draining" /\ CopierStuck(i)
  /\ Ended(i, ExternalResult(i, TRUE))
  /\ UNCHANGED <<mode, main, code, ends, ctxErr, parentErr, outcome>>

Cancel(i) ==
  /\ pc[i] = "failed"
  /\ pc' = [pc EXCEPT ![i] = "closeOut"]
  /\ ctxErr' = IF ctxErr = "none" THEN "canceled" ELSE ctxErr
  /\ UNCHANGED <<mode, main, code, ends, result, parentErr, outcome>>

\* The deferred calls run last first: the writer is closed before the reader.
\* A Write that a copier left behind fails, and its data is lost.
CloseOut(i) ==
  /\ pc[i] = "closeOut"
  /\ pc' = [pc EXCEPT ![i] = "closeIn"]
  /\ writerOpen' = writerOpen \ {i}
  /\ writing' = writing \ {i}
  /\ lost' = lost \cup (writing \cap {i})
  /\ UNCHANGED <<mode, main, code, reading, readerOpen, eof, broken, result,
                 ctxErr, parentErr, outcome>>

CloseIn(i) ==
  /\ pc[i] = "closeIn"
  /\ pc' = [pc EXCEPT ![i] = "done"]
  /\ readerOpen' = readerOpen \ {i - 1}
  /\ reading' = reading \ {i - 1}
  /\ UNCHANGED <<mode, main, code, writing, writerOpen, eof, broken, lost,
                 result, ctxErr, parentErr, outcome>>

-----------------------------------------------------------------------------
(* The environment, and the goroutine that called execPipeline. *)

ParentCancel(e) ==
  /\ main = "waiting" /\ parentErr = "none"
  /\ parentErr' = e
  /\ ctxErr' = IF ctxErr = "none" THEN e ELSE ctxErr
  /\ UNCHANGED <<mode, main, pc, code, ends, result, outcome>>

Failing == {i \in Stages : result[i].err \notin {"none", "canceled"}}
Stopping == {i \in Stages : result[i].err # "none" \/ result[i].kind # "none"}
NonZero == {i \in Stages : result[i].status # 0}

Negate(r) == [r EXCEPT !.status = IF @ = 0 THEN 1 ELSE 0]

Selected ==
  IF mode.pipefail /\ NonZero # {} THEN result[Max(NonZero)] ELSE result[N]

Decision ==
  IF ctxErr # "none"
  THEN IF Failing # {} THEN result[Min(Failing)] ELSE Failure(ctxErr)
  ELSE IF Stopping # {} THEN result[Min(Stopping)]
  ELSE IF mode.negated THEN Negate(Selected) ELSE Selected

Return ==
  /\ main = "waiting"
  /\ \A i \in Stages : pc[i] = "done"
  /\ main' = "returned"
  /\ outcome' = Decision
  /\ UNCHANGED <<mode, pc, code, ends, result, ctxErr, parentErr>>

Terminated == main = "returned" /\ UNCHANGED vars

StageStep(i) ==
  \/ BeginRead(i)
  \/ BeginWrite(i)
  \/ ShellEnds(i)
  \/ ShellStops(i)
  \/ ProcessEnds(i)
  \/ ProcessKilled(i)
  \/ Drained(i)
  \/ DrainTimeout(i)
  \/ Cancel(i)
  \/ CloseOut(i)
  \/ CloseIn(i)

PipeStep(g) == Transfer(g) \/ ReadEOF(g) \/ WriteBroken(g)

Next ==
  \/ \E i \in Stages : StageStep(i)
  \/ \E g \in Gaps : PipeStep(g)
  \/ \E e \in CtxErrors : ParentCancel(e)
  \/ Return
  \/ Terminated

\* What happens to a stage whatever its command does.
StageMust(i) ==
  \/ ProcessKilled(i)
  \/ Drained(i)
  \/ DrainTimeout(i)
  \/ Cancel(i)
  \/ CloseOut(i)
  \/ CloseIn(i)

\* The Go scheduler runs every goroutine that can go on, the kernel delivers
\* SIGKILL and timers fire.  A shell stage that is not blocked for ever gets
\* to a check of its context.  No command is assumed to end by itself.
Fairness ==
  /\ WF_vars(Return)
  /\ \A g \in Gaps : WF_vars(PipeStep(g))
  /\ \A i \in Stages : WF_vars(StageMust(i)) /\ SF_vars(ShellStops(i))

Spec == Init /\ [][Next]_vars /\ Fairness

-----------------------------------------------------------------------------
\* Types of execPipeline's state; only gaps with an open writer can hold a
\* blocked Write, only gaps with an open reader a blocked Read.
TypeOK ==
  /\ mode \in Modes
  /\ main \in {"waiting", "returned"}
  /\ pc \in [Stages -> StagePC]
  /\ code \in [Stages -> Statuses]
  /\ reading \subseteq readerOpen /\ readerOpen \subseteq Gaps
  /\ writing \subseteq writerOpen /\ writerOpen \subseteq Gaps
  /\ eof \subseteq Gaps /\ broken \subseteq Gaps /\ lost \subseteq Gaps
  /\ result \in [Stages -> Result]
  /\ ctxErr \in {"none"} \cup CtxErrors
  /\ parentErr \in {"none"} \cup CtxErrors
  /\ outcome \in Result

\* cancel() is private to the pipeline: execPipeline never answers
\* context.Canceled unless the caller's own context was cancelled.  When a
\* stage's error stopped the others, that error (or that of another stage) is
\* the answer, however the stages' ends and a cancellation interleave.
InternalCancelStaysInside ==
  main = "returned" /\ outcome.err \in CtxErrors => parentErr # "none"

\* A library error of any stage, first, middle or last, is never turned into a
\* plain status by pipefail, by ! or by an exit of another stage.
NoErrorSwallowed ==
  main = "returned" /\ (\E i \in Stages : result[i].err # "none")
    => outcome.err # "none" /\ outcome.status = 1

\* Output that a host process had written and that WaitDelay threw away is
\* never silent: the reader downstream sees a clean EOF, but the stage that
\* lost it does not report success.
LossIsReported ==
  \A g \in lost : result[g].status # 0

\* Stages never wait for each other in a circle: until all have ended, one is
\* not blocked on a pipe, or a blocked Read or Write can go on.
NoCircularWait ==
  (\E i \in Stages : pc[i] # "done") =>
    \/ \E i \in Stages : pc[i] # "done" /\ ~ Blocked(i)
    \/ \E g \in reading : g \in writing \/ g \notin writerOpen
    \/ \E g \in writing : g \notin readerOpen

\* The pipes do not look at the context, yet a cancelled pipeline returns even
\* if no command in it would ever have ended by itself.
CancelledPipelineReturns == ctxErr # "none" ~> main = "returned"

=============================================================================
