----------------------------- MODULE RunOutput -----------------------------
(***************************************************************************)
(* types.go: RunProgram together with the stream its goroutines write to.  *)
(* It composes RunLifecycle and Output: what ExceedOutput leaves open is   *)
(* done here by Writes, the program and the traps end only when none is    *)
(* under way (execPipeline waits for its stages), and every Run begins     *)
(* with a new outputLimiter.                                               *)
(***************************************************************************)
EXTENDS RunLifecycle, Sequences

CONSTANTS Writers, Sizes, Limit, Nobody

ASSUME StreamAssumption == Sizes \subseteq Nat /\ Limit \in Int /\ Nobody \notin Writers

VARIABLES sink, written, mutex, request, passed, settled, lost

outputVars == <<sink, written, mutex, request, passed, settled, lost>>
lifecycleVars == <<phase, ctx, budget, traps, inTrap, last, flow, answer, history>>
runVars == <<vars, outputVars>>

Stream == INSTANCE Output

RunInit == Init /\ Stream!Fresh

\* newOutputLimiter
NewLimiter ==
  /\ sink' = << >> /\ written' = 0 /\ mutex' = Nobody /\ passed' = 0
  /\ request' = [w \in Writers |-> << >>]
  /\ settled' = [bytes |-> 0, exceeded |-> FALSE] /\ lost' = FALSE

Begin == Start /\ NewLimiter

\* Mutant: execPipeline does not wait for its stages.
WriteAfterEnd ==
  /\ Stream!Step
  /\ UNCHANGED lifecycleVars

Write ==
  /\ phase \in Executing
  /\ Stream!Step
  /\ UNCHANGED lifecycleVars

Quiet == \A w \in Writers : request[w] = << >>

Meanwhile ==
  /\ \/ \E e \in CtxErrors : CtxDies(e)
     \/ \E name \in Signals : SetTrap(name)
     \/ \E s \in Statuses : RunCommand(s)
  /\ UNCHANGED outputVars

Advance ==
  /\ Quiet
  /\ \/ \E f \in Flow : ProgramEnds(f) \/ ExitTrapEnds(f)
     \/ SignalTrapStarts \/ NoSignalTrap \/ SignalTrapEnds
     \/ ExitTrapStarts \/ NoExitTrap
     \/ Finish
  /\ UNCHANGED outputVars

RunNext == Begin \/ Write \/ Meanwhile \/ Advance

RunSpec == RunInit /\ [][RunNext]_runVars

-----------------------------------------------------------------------------
\* The stream marks a loss only while script code runs, and nothing else
\* about the Run changes with it: what is proved of RunLifecycle holds here.
RefinesRunLifecycle == Spec

\* What Run returns is true of all its goroutines have done: a program that
\* was cancelled before it ended is answered with its cancellation, and nil
\* means that nothing was cancelled, that no byte is missing that a Write has
\* reported as written, and that $? is 0 for the next Run.
AnswerTellsTruth ==
  phase = "idle" =>
    /\ history.ctxAtEnd # "none" => answer = history.ctxAtEnd
    /\ answer = "nil" => ctx = "none" /\ ~ lost /\ last = 0

\* Between Runs the stream holds what LimitedSink allows, Run by Run.
RefinesSink == [][Stream!Sink!Next \/ NewLimiter]_<<Stream!Sink!vars>>

=============================================================================
