---------------------------- MODULE RunLifecycle ----------------------------
(***************************************************************************)
(* types.go: one Runner through any number of calls of RunProgram.  Each   *)
(* Run installs a fresh budget, executes the program, runs the INT or TERM *)
(* trap if its context is dead, runs the EXIT trap, and turns what the     *)
(* program did into the error it returns.  The caller's context can die at *)
(* any moment; the traps run with a context that cannot.                   *)
(***************************************************************************)
EXTENDS Integers

CONSTANTS
  Statuses   \* exit statuses of programs and traps

ASSUME StatusesAssumption == {0, 1} \subseteq Statuses /\ Statuses \subseteq 0..255

Signals == {"INT", "TERM", "EXIT"}
CtxErrors == {"canceled", "deadline"}

\* flowResult: "stray" is a return, break or continue that nothing caught.
Flow ==
  [status : Statuses, kind : {"none", "exit", "stray"}, err : {"none"}]
    \cup [status : {1}, kind : {"none"}, err : {"failed", "limit"} \cup CtxErrors]

Ok == [status |-> 0, kind |-> "none", err |-> "none"]

\* What Run returns: an ExitStatus, or one of the package's errors.
Answers == {"nil", "status", "failed", "limit", "syntax"} \cup CtxErrors

VARIABLES
  phase,      \* where RunProgram is; "idle" between Runs
  ctx,        \* ctx.Err() of the caller's context
  budget,     \* whether state.budget is this Run's
  traps,      \* the names in state.traps: they outlive the Run
  inTrap,     \* state.inTrap
  last,       \* state.last
  exceeded,   \* whether an outputLimiter has dropped bytes
  flow,       \* the flowResult RunProgram holds
  answer,     \* what the last Run returned
  history     \* this Run: the context when the program ended, the traps it
              \* wanted to be run, the traps that were run

vars == <<phase, ctx, budget, traps, inTrap, last, exceeded, flow, answer, history>>

\* Phases in which script code runs.
Executing == {"program", "signalTrap", "exitTrap"}
Phases == Executing \cup {"idle", "signals", "exit", "finish"}

SignalOf(e) == IF e = "deadline" THEN "TERM" ELSE "INT"

NoHistory == [ctxAtEnd |-> "none", wanted |-> {}, ran |-> {}]

-----------------------------------------------------------------------------
(* Plausible bugs, each in place of the definition it is named after.      *)

\* The trap leaves state.inTrap set.
SignalTrapEndsInTrap ==
  /\ phase = "signalTrap"
  /\ phase' = "exit"
  /\ UNCHANGED <<ctx, budget, traps, inTrap, last, exceeded, flow, answer, history>>

\* The budget of the Run stays installed.
FinishKeepsBudget ==
  /\ phase = "finish"
  /\ answer' = IF ctx # "none" THEN ctx ELSE IF exceeded THEN "limit" ELSE "nil"
  /\ phase' = "idle"
  /\ UNCHANGED <<ctx, budget, traps, inTrap, last, exceeded, flow, history>>

-----------------------------------------------------------------------------
Init ==
  /\ phase = "idle" /\ ctx = "none"
  /\ budget = FALSE /\ inTrap = FALSE /\ exceeded = FALSE
  /\ traps = {} /\ last = 0
  /\ flow = Ok /\ answer = "nil"
  /\ history = NoHistory

\* A context may be dead already when Run is called.
Start ==
  /\ phase = "idle"
  /\ phase' = "program"
  /\ ctx' \in {"none"} \cup CtxErrors
  /\ budget' = TRUE
  /\ exceeded' = FALSE
  /\ history' = NoHistory
  /\ UNCHANGED <<traps, inTrap, last, flow, answer>>

CtxDies(e) ==
  /\ phase # "idle" /\ ctx = "none"
  /\ ctx' = e
  /\ UNCHANGED <<phase, budget, traps, inTrap, last, exceeded, flow, answer, history>>

\* The script sets or removes a trap, runs a command, writes too much.
SetTrap(name) ==
  /\ phase \in Executing
  /\ traps' \in {traps \cup {name}, traps \ {name}}
  /\ UNCHANGED <<phase, ctx, budget, inTrap, last, exceeded, flow, answer, history>>

RunCommand(s) ==
  /\ phase \in Executing
  /\ last' = s
  /\ UNCHANGED <<phase, ctx, budget, traps, inTrap, exceeded, flow, answer, history>>

ExceedOutput ==
  /\ phase \in Executing
  /\ exceeded' = TRUE
  /\ UNCHANGED <<phase, ctx, budget, traps, inTrap, last, flow, answer, history>>

\* execNode fails with the context's error only if the context is dead.
ProgramEnds(f) ==
  /\ phase = "program"
  /\ f.err \in CtxErrors => f.err = ctx
  /\ flow' = f
  /\ phase' = "signals"
  /\ history' = [history EXCEPT !.ctxAtEnd = ctx,
                  !.wanted = IF ctx = "none" THEN {} ELSE traps \cap {SignalOf(ctx)}]
  /\ UNCHANGED <<ctx, budget, traps, inTrap, last, exceeded, answer>>

\* runTrap for the signal that stands for the dead context.
SignalTrapStarts ==
  /\ phase = "signals"
  /\ ctx # "none" /\ SignalOf(ctx) \in traps /\ ~ inTrap
  /\ phase' = "signalTrap"
  /\ inTrap' = TRUE
  /\ history' = [history EXCEPT !.ran = @ \cup {SignalOf(ctx)}]
  /\ UNCHANGED <<ctx, budget, traps, last, exceeded, flow, answer>>

NoSignalTrap ==
  /\ phase = "signals"
  /\ ctx = "none" \/ SignalOf(ctx) \notin traps \/ inTrap
  /\ phase' = "exit"
  /\ UNCHANGED <<ctx, budget, traps, inTrap, last, exceeded, flow, answer, history>>

\* Its result is not used, whatever it is.
SignalTrapEnds ==
  /\ phase = "signalTrap"
  /\ phase' = "exit"
  /\ inTrap' = FALSE
  /\ UNCHANGED <<ctx, budget, traps, last, exceeded, flow, answer, history>>

ExitTrapStarts ==
  /\ phase = "exit" /\ "EXIT" \in traps /\ ~ inTrap
  /\ phase' = "exitTrap"
  /\ inTrap' = TRUE
  /\ history' = [history EXCEPT !.ran = @ \cup {"EXIT"}, !.wanted = @ \cup {"EXIT"}]
  /\ UNCHANGED <<ctx, budget, traps, last, exceeded, flow, answer>>

NoExitTrap ==
  /\ phase = "exit" /\ ("EXIT" \notin traps \/ inTrap)
  /\ phase' = "finish"
  /\ history' = [history EXCEPT !.wanted = @ \cup (traps \cap {"EXIT"})]
  /\ UNCHANGED <<ctx, budget, traps, inTrap, last, exceeded, flow, answer>>

\* An error or an exit of the EXIT trap replaces what the program did.  The
\* trap's own context cannot be dead.
ExitTrapEnds(f) ==
  /\ phase = "exitTrap"
  /\ f.err \notin CtxErrors
  /\ flow' = IF f.err # "none" \/ f.kind = "exit" THEN f ELSE flow
  /\ phase' = "finish"
  /\ inTrap' = FALSE
  /\ UNCHANGED <<ctx, budget, traps, last, exceeded, answer, history>>

\* finishFlow
FlowAnswer(f) ==
  IF f.kind = "stray" THEN "syntax"
  ELSE IF f.err # "none" /\ f.kind # "exit" THEN f.err
  ELSE IF f.status # 0 THEN "status" ELSE "nil"

FinishLast(f) == IF f.kind = "stray" THEN last ELSE f.status

Finish ==
  /\ phase = "finish"
  /\ answer' = IF ctx # "none" THEN ctx
               ELSE IF exceeded THEN "limit" ELSE FlowAnswer(flow)
  /\ last' = IF ctx # "none" \/ exceeded THEN last ELSE FinishLast(flow)
  /\ phase' = "idle"
  /\ budget' = FALSE
  /\ UNCHANGED <<ctx, traps, inTrap, exceeded, flow, history>>

Next ==
  \/ Start
  \/ \E e \in CtxErrors : CtxDies(e)
  \/ \E name \in Signals : SetTrap(name)
  \/ \E s \in Statuses : RunCommand(s)
  \/ ExceedOutput
  \/ \E f \in Flow : ProgramEnds(f) \/ ExitTrapEnds(f)
  \/ SignalTrapStarts \/ NoSignalTrap \/ SignalTrapEnds
  \/ ExitTrapStarts \/ NoExitTrap
  \/ Finish

Spec == Init /\ [][Next]_vars

-----------------------------------------------------------------------------
\* Types of RunProgram's state.  Between Runs neither the budget of a Run nor
\* the mark of a running trap is left behind, however the Run ended: the next
\* Run's traps would not run, and a Snapshot would keep the old counters.
TypeOK ==
  /\ phase \in Phases /\ ctx \in {"none"} \cup CtxErrors
  /\ budget \in BOOLEAN /\ inTrap \in BOOLEAN /\ exceeded \in BOOLEAN
  /\ traps \subseteq Signals /\ last \in Statuses
  /\ flow \in Flow /\ answer \in Answers
  /\ phase = "idle" => ~ budget /\ ~ inTrap

\* A Run that returns has run the traps that were set when it needed them:
\* EXIT in any case, also after an INT or TERM trap and after a cancellation;
\* INT or TERM if the context was dead when the program ended.  And it has run
\* no trap for a signal that its error does not tell the caller about.
TrapsMatchAnswer ==
  phase = "idle" =>
    /\ history.wanted \subseteq history.ran
    /\ "INT" \in history.ran => answer = "canceled"
    /\ "TERM" \in history.ran => answer = "deadline"

\* A program that was cancelled before it ended never counts as finished, even
\* if it ends with exit 0 or its EXIT trap does.
CancelledNeverSucceeds ==
  phase = "idle" /\ history.ctxAtEnd # "none" => answer = history.ctxAtEnd

\* nil means: not cancelled, no output dropped by MaxOutputBytes, and $? is 0
\* for the next Run.
SuccessMeansSuccess ==
  phase = "idle" /\ answer = "nil" => ctx = "none" /\ ~ exceeded /\ last = 0

=============================================================================
