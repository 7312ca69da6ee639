-------------------------- MODULE RunOutputProofs --------------------------
(***************************************************************************)
(* A Run and its output, for any set of statuses, any number of            *)
(* goroutines, any Writes and any limit: first the invariants of           *)
(* RunLifecycle, then the stream, which implements LimitedSink, then what  *)
(* both make together.                                                     *)
(***************************************************************************)
EXTENDS RunOutput, SequenceTheorems, TLAPS

Ended == {"signals", "signalTrap", "exit", "exitTrap", "finish"}

\* What the history may hold, and the mark of a running trap.
Marks ==
  /\ history \in [ctxAtEnd : {"none"} \cup CtxErrors, wanted : SUBSET Signals,
                  ran : SUBSET Signals]
  /\ phase \notin {"signalTrap", "exitTrap"} => ~ inTrap

\* A context stays dead, with the error it had when the program ended.
StaysDead ==
  phase \in Ended \cup {"idle"} /\ history.ctxAtEnd # "none" => ctx = history.ctxAtEnd

\* No trap before the program ends; then the wanted trap is still set.
TrapsWanted ==
  /\ phase \in {"program", "signals"} => history.ran = {}
  /\ phase = "program" => history.wanted = {} /\ history.ctxAtEnd = "none"
  /\ phase = "signals" =>
       \A name \in history.wanted :
         name \in traps /\ history.ctxAtEnd # "none" /\ name = SignalOf(history.ctxAtEnd)
  /\ phase \in {"signalTrap", "exit", "exitTrap", "finish", "idle"} =>
       history.wanted \subseteq history.ran

\* A signal's trap has run only under the context error it stands for.
TrapsRan ==
  /\ "INT" \in history.ran => ctx = "canceled"
  /\ "TERM" \in history.ran => ctx = "deadline"

\* What Run answered agrees with what it left.
Answered ==
  phase = "idle" =>
    /\ ctx # "none" => answer = ctx
    /\ answer = "nil" => ctx = "none" /\ ~ exceeded /\ last = 0

IInv == TypeOK /\ Marks /\ StaysDead /\ TrapsWanted /\ TrapsRan /\ Answered

-----------------------------------------------------------------------------
\* The invariant holds in a new Runner.
LEMMA InitInv == Init => IInv
<1> SUFFICES ASSUME Init PROVE IInv
  OBVIOUS
<1>1. Ok \in Flow /\ 0 \in Statuses
  BY StatusesAssumption DEF Ok, Flow
<1>2. NoHistory.ctxAtEnd = "none" /\ NoHistory.wanted = {} /\ NoHistory.ran = {}
  BY DEF NoHistory
<1>3. TypeOK
  BY <1>1 DEF Init, TypeOK, Answers, Phases, Signals
<1>4. Marks
  BY DEF Init, Marks, NoHistory, Signals
<1>5. StaysDead /\ TrapsWanted /\ TrapsRan /\ Answered
  BY <1>2 DEF Init, StaysDead, TrapsWanted, TrapsRan, Answered
<1> QED
  BY <1>3, <1>4, <1>5 DEF IInv

\* RunProgram begins with a fresh budget and no history.
LEMMA StartInv == IInv /\ Start => IInv'
<1> SUFFICES ASSUME IInv, Start PROVE IInv'
  OBVIOUS
<1>1. history'.ctxAtEnd = "none" /\ history'.wanted = {} /\ history'.ran = {}
  BY DEF Start, NoHistory
<1>2. TypeOK'
  BY DEF Start, IInv, TypeOK, Phases, Executing
<1>3. Marks'
  BY DEF Start, IInv, TypeOK, Marks, NoHistory, Signals
<1>4. StaysDead' /\ TrapsWanted' /\ TrapsRan' /\ Answered'
  BY <1>1 DEF Start, StaysDead, TrapsWanted, TrapsRan, Answered, Ended
<1> QED
  BY <1>2, <1>3, <1>4 DEF IInv

\* The caller's context may die at any moment.
LEMMA CtxDiesInv == ASSUME NEW e \in CtxErrors, IInv, CtxDies(e) PROVE IInv'
  BY DEF CtxDies, IInv, TypeOK, Marks, StaysDead, TrapsWanted, TrapsRan, Answered,
      Phases, Executing, Signals, CtxErrors, Ended

\* What the script does in the program and in traps.
LEMMA ScriptInv ==
  ASSUME IInv,
         (\E name \in Signals : SetTrap(name)) \/ (\E s \in Statuses : RunCommand(s))
           \/ ExceedOutput
  PROVE  IInv'
<1>1. phase \in Executing /\ UNCHANGED <<phase, ctx, budget, inTrap, flow, answer, history>>
  BY DEF SetTrap, RunCommand, ExceedOutput
<1>2. traps' \subseteq Signals /\ last' \in Statuses /\ exceeded' \in BOOLEAN
  BY DEF IInv, TypeOK, SetTrap, RunCommand, ExceedOutput
<1>3. TypeOK'
  BY <1>1, <1>2 DEF IInv, TypeOK
<1>4. Marks' /\ StaysDead' /\ TrapsWanted' /\ TrapsRan' /\ Answered'
  BY <1>1 DEF IInv, Marks, StaysDead, TrapsWanted, TrapsRan, Answered, Executing
<1> QED
  BY <1>3, <1>4 DEF IInv

\* The program ends: now it is known which trap is wanted.
LEMMA ProgramEndsInv == ASSUME NEW f \in Flow, IInv, ProgramEnds(f) PROVE IInv'
<1>1. history' = [history EXCEPT !.ctxAtEnd = ctx,
                   !.wanted = IF ctx = "none" THEN {} ELSE traps \cap {SignalOf(ctx)}]
  BY DEF ProgramEnds
<1>2. /\ history'.ctxAtEnd = ctx /\ history'.ran = {}
      /\ history'.wanted = IF ctx = "none" THEN {} ELSE traps \cap {SignalOf(ctx)}
  BY <1>1 DEF ProgramEnds, IInv, Marks, TrapsWanted
<1>3. Marks'
  BY <1>1 DEF ProgramEnds, IInv, TypeOK, Marks, Signals
<1>4. TypeOK' /\ StaysDead' /\ TrapsRan' /\ Answered'
  BY <1>2 DEF ProgramEnds, IInv, TypeOK, StaysDead, TrapsRan, Answered, Marks,
      Phases, Executing, Signals, CtxErrors
<1>5. TrapsWanted'
  BY <1>2 DEF ProgramEnds, TrapsWanted
<1> QED
  BY <1>3, <1>4, <1>5 DEF IInv

\* INT or TERM: the trap of the dead context runs, if it is set.
LEMMA SignalTrapInv ==
  ASSUME IInv, SignalTrapStarts \/ NoSignalTrap \/ SignalTrapEnds
  PROVE  IInv'
<1>1. CASE SignalTrapStarts
  <2>1. /\ history'.ctxAtEnd = history.ctxAtEnd /\ history'.wanted = history.wanted
        /\ history'.ran = {SignalOf(ctx)} /\ Marks'
    BY <1>1 DEF SignalTrapStarts, IInv, TypeOK, Marks, TrapsWanted, SignalOf, Signals, CtxErrors
  <2>2. TypeOK' /\ StaysDead' /\ Answered'
    BY <1>1, <2>1 DEF SignalTrapStarts, IInv, TypeOK, StaysDead, Answered, Phases, Executing,
        Ended
  <2>3. TrapsWanted'
    BY <1>1, <2>1 DEF SignalTrapStarts, IInv, StaysDead, TrapsWanted, Ended
  <2>4. TrapsRan'
    BY <1>1, <2>1 DEF SignalTrapStarts, IInv, TypeOK, TrapsRan, SignalOf, CtxErrors
  <2> QED
    BY <2>1, <2>2, <2>3, <2>4 DEF IInv
<1>2. CASE NoSignalTrap
  <2>1. history.wanted \subseteq history.ran
    BY <1>2 DEF NoSignalTrap, IInv, Marks, StaysDead, TrapsWanted, Ended
  <2> QED
    BY <1>2, <2>1 DEF NoSignalTrap, IInv, TypeOK, Marks, StaysDead, TrapsWanted, TrapsRan,
        Answered, Phases, Executing, Ended
<1>3. CASE SignalTrapEnds
  BY <1>3 DEF SignalTrapEnds, IInv, TypeOK, Marks, StaysDead, TrapsWanted, TrapsRan,
      Answered, Phases, Executing, Ended
<1> QED
  BY <1>1, <1>2, <1>3

\* EXIT: its trap runs in any case.
LEMMA ExitTrapInv ==
  ASSUME IInv, ExitTrapStarts \/ NoExitTrap \/ \E f \in Flow : ExitTrapEnds(f)
  PROVE  IInv'
<1>1. CASE ExitTrapStarts
  <2>1. /\ history'.ctxAtEnd = history.ctxAtEnd
        /\ history'.wanted = history.wanted \cup {"EXIT"}
        /\ history'.ran = history.ran \cup {"EXIT"} /\ Marks'
    BY <1>1 DEF ExitTrapStarts, IInv, Marks, Signals
  <2> QED
    BY <1>1, <2>1 DEF ExitTrapStarts, IInv, TypeOK, StaysDead, TrapsWanted, TrapsRan,
        Answered, Phases, Executing, Ended
<1>2. CASE NoExitTrap
  <2>1. /\ history'.ctxAtEnd = history.ctxAtEnd /\ history'.wanted = history.wanted
        /\ history'.ran = history.ran /\ Marks'
    BY <1>2 DEF NoExitTrap, IInv, Marks, Signals
  <2> QED
    BY <1>2, <2>1 DEF NoExitTrap, IInv, TypeOK, StaysDead, TrapsWanted, TrapsRan,
        Answered, Phases, Executing, Ended
<1>3. ASSUME NEW f \in Flow, ExitTrapEnds(f) PROVE IInv'
  BY <1>3 DEF ExitTrapEnds, IInv, TypeOK, Marks, StaysDead, TrapsWanted, TrapsRan,
      Answered, Phases, Executing, Ended
<1> QED
  BY <1>1, <1>2, <1>3

\* RunProgram and finishFlow turn the flow into the error that Run returns.
LEMMA FinishInv == IInv /\ Finish => IInv'
<1> SUFFICES ASSUME IInv, Finish PROVE IInv'
  OBVIOUS
<1>1. /\ flow.status \in Statuses
      /\ flow.err \in {"none", "failed", "limit"} \cup CtxErrors
  BY StatusesAssumption DEF IInv, TypeOK, Flow
<1>2. last \in Statuses
  BY DEF IInv, TypeOK
<1>3. FlowAnswer(flow) \in Answers
  BY <1>1 DEF FlowAnswer, Answers
<1>4. FlowAnswer(flow) = "nil" => flow.kind # "stray" /\ flow.status = 0
  BY <1>1 DEF FlowAnswer, CtxErrors
<1>5. FinishLast(flow) \in Statuses
  BY <1>1, <1>2 DEF FinishLast
<1>6. TypeOK' /\ Answered'
  BY <1>3, <1>4, <1>5 DEF Finish, IInv, TypeOK, Marks, Answered, FinishLast, Answers, Phases, CtxErrors
<1>7. Marks' /\ StaysDead' /\ TrapsWanted' /\ TrapsRan'
  BY DEF Finish, IInv, Marks, StaysDead, TrapsWanted, TrapsRan, Ended
<1> QED
  BY <1>6, <1>7 DEF IInv

-----------------------------------------------------------------------------
\* Every step keeps the invariant.
LEMMA NextInv == IInv /\ [Next]_vars => IInv'
<1> SUFFICES ASSUME IInv, [Next]_vars PROVE IInv'
  OBVIOUS
<1>1. CASE Start
  BY <1>1, StartInv
<1>2. CASE \E e \in CtxErrors : CtxDies(e)
  BY <1>2, CtxDiesInv
<1>3. CASE (\E name \in Signals : SetTrap(name)) \/ (\E s \in Statuses : RunCommand(s))
             \/ ExceedOutput
  BY <1>3, ScriptInv
<1>4. CASE \E f \in Flow : ProgramEnds(f)
  BY <1>4, ProgramEndsInv
<1>5. CASE SignalTrapStarts \/ NoSignalTrap \/ SignalTrapEnds
  BY <1>5, SignalTrapInv
<1>6. CASE ExitTrapStarts \/ NoExitTrap \/ \E f \in Flow : ExitTrapEnds(f)
  BY <1>6, ExitTrapInv
<1>7. CASE Finish
  BY <1>7, FinishInv
<1>8. CASE UNCHANGED vars
  BY <1>8 DEF vars, IInv, TypeOK, Marks, StaysDead, TrapsWanted, TrapsRan, Answered
<1> QED
  BY <1>1, <1>2, <1>3, <1>4, <1>5, <1>6, <1>7, <1>8 DEF Next

\* The inductive invariant holds throughout any number of Runs.
THEOREM Invariance == Spec => []IInv
  BY InitInv, NextInv, PTL DEF Spec

\* Nothing of a Run, neither its budget nor the mark of a trap, is left for the
\* next one.
THEOREM TypeCorrect == Spec => []TypeOK
<1>1. IInv => TypeOK
  BY DEF IInv
<1> QED
  BY Invariance, <1>1, PTL

\* Traps run when they must, and only for what the caller is told.
THEOREM TrapsAgree == Spec => []TrapsMatchAnswer
<1>1. IInv => TrapsMatchAnswer
  BY DEF IInv, TypeOK, TrapsMatchAnswer, TrapsWanted, TrapsRan, Answered
<1> QED
  BY Invariance, <1>1, PTL

\* A cancelled program is answered with its cancellation.
THEOREM CancellationReported == Spec => []CancelledNeverSucceeds
<1>1. IInv => CancelledNeverSucceeds
  BY DEF IInv, CancelledNeverSucceeds, StaysDead, Answered
<1> QED
  BY Invariance, <1>1, PTL

\* nil is returned only by a Run that did all it was asked to do.
THEOREM SuccessIsTrue == Spec => []SuccessMeansSuccess
<1>1. IInv => SuccessMeansSuccess
  BY DEF IInv, SuccessMeansSuccess, Answered
<1> QED
  BY Invariance, <1>1, PTL

-----------------------------------------------------------------------------
(* The stream, which is Output's.                                          *)

\* Nobody is not a goroutine; a limit may be negative.
Sensible == Sizes \subseteq Nat /\ Limit \in Int /\ Nobody \notin Writers

StreamTypes ==
  /\ sink \in Seq(Writers) /\ written \in Nat /\ exceeded \in BOOLEAN
  /\ mutex \in Writers \cup {Nobody} /\ passed \in Nat
  /\ \A w \in Writers : request[w] = << >> \/ \E n \in Sizes : request[w] = <<n>>
  /\ DOMAIN request = Writers
  /\ settled = [bytes |-> settled.bytes, exceeded |-> settled.exceeded]
  /\ settled.bytes \in 0..Len(sink) /\ settled.exceeded \in BOOLEAN

\* What is counted under the lock, and what has passed since it was taken.
Counted == Limit > 0 => written = settled.bytes /\ written <= Limit
Free == mutex = Nobody => settled = Stream!Seen
Held ==
  \A w \in Writers : mutex = w =>
    /\ request[w] # << >>
    /\ Len(sink) = settled.bytes + passed
    /\ passed <= Stream!Passing(Stream!Asked(w))
    /\ \A i \in (settled.bytes + 1)..Len(sink) : sink[i] = w
    /\ exceeded = (settled.exceeded \/ Stream!Passing(Stream!Asked(w)) < Stream!Asked(w))

\* A loss is known to Err.
LossSeen == lost => settled.exceeded

StreamInv == StreamTypes /\ Counted /\ Free /\ Held /\ LossSeen

-----------------------------------------------------------------------------
\* A prefix of a sequence and the same bytes behind it.
LEMMA PrefixAndRun ==
  ASSUME NEW S, NEW s \in Seq(S), NEW m \in 0..Len(s), NEW w \in S,
         \A i \in (m + 1)..Len(s) : s[i] = w
  PROVE  SubSeq(s, 1, Len(s)) = SubSeq(s, 1, m) \o [i \in 1..(Len(s) - m) |-> w]
<1> DEFINE k == Len(s) - m
           run == [i \in 1..k |-> w]
           prefix == SubSeq(s, 1, m)
<1>1. k \in Nat /\ Len(s) \in Nat /\ m \in Nat /\ m + k = Len(s)
  BY LenProperties
<1>2. run \in Seq(S) /\ Len(run) = k /\ \A i \in 1..k : run[i] = w
  BY <1>1
<1>3. \A i \in 1..m : s[i] \in S
  BY <1>1, ElementOfSeq
<1>4. /\ prefix \in Seq(S) /\ Len(prefix) = m
      /\ \A i \in 1..m : prefix[i] = s[i]
  BY <1>1, <1>3, SubSeqProperties
<1> HIDE DEF k, run, prefix
<1>5. /\ prefix \o run \in Seq(S) /\ Len(prefix \o run) = m + k
      /\ \A i \in 1..(m + k) : (prefix \o run)[i] = IF i <= m THEN prefix[i] ELSE run[i - m]
  <2>1. /\ prefix \o run \in Seq(S) /\ Len(prefix \o run) = Len(prefix) + Len(run)
        /\ \A i \in 1..(Len(prefix) + Len(run)) :
             (prefix \o run)[i] = IF i <= Len(prefix) THEN prefix[i] ELSE run[i - Len(prefix)]
    BY <1>2, <1>4, ConcatProperties, Zenon
  <2> QED
    BY <2>1, <1>2, <1>4, Zenon
<1>6. \A i \in 1..Len(s) : s[i] = (prefix \o run)[i]
  <2> SUFFICES ASSUME NEW i \in 1..Len(s) PROVE s[i] = (prefix \o run)[i]
    OBVIOUS
  <2>1. CASE i <= m
    <3>1. i \in 1..m /\ i \in 1..(m + k)
      BY <2>1, <1>1
    <3> QED
      BY <3>1, <2>1, <1>4, <1>5
  <2>2. CASE i > m
    <3>1. i - m \in 1..k /\ i \in (m + 1)..Len(s)
      BY <2>2, <1>1
    <3> QED
      BY <3>1, <2>2, <1>1, <1>2, <1>5
  <2>3. i <= m \/ i > m
    BY <1>1
  <2> QED
    BY <2>1, <2>2, <2>3, Zenon
<1>7. s = prefix \o run
  BY <1>1, <1>5, <1>6, SeqEqual
<1> QED
  BY <1>7, SubSeqFull DEF prefix, run, k

\* What passes of a Write is at most what was asked for.
LEMMA PassingBounds ==
  ASSUME Sensible, NEW n \in Nat, written \in Nat
  PROVE  Stream!Passing(n) \in 0..n
  BY DEF Sensible, Stream!Passing

\* While nobody holds the lock, or within the limit, LimitedSink would let the
\* same number pass.
LEMMA SameAllowed ==
  ASSUME Sensible, StreamInv, NEW n \in Nat
  PROVE  Stream!Sink!Allowed(n) = Stream!Passing(n)
<1>1. Len(SubSeq(sink, 1, settled.bytes)) = settled.bytes
  <2>1. \A i \in 1..settled.bytes : sink[i] \in Writers
    BY ElementOfSeq, LenProperties DEF StreamInv, StreamTypes
  <2>2. settled.bytes \in Nat
    BY LenProperties DEF StreamInv, StreamTypes
  <2> QED
    BY <2>1, <2>2, SubSeqProperties
<1> QED
  BY <1>1 DEF Sensible, StreamInv, StreamTypes, Counted, Stream!Passing, Stream!Sink!Allowed,
      Stream!Sink!Room

-----------------------------------------------------------------------------
LEMMA StreamFreshInv == Sensible /\ Stream!Fresh => StreamInv
<1> SUFFICES ASSUME Sensible, Stream!Fresh PROVE StreamInv
  OBVIOUS
<1>1. sink \in Seq(Writers) /\ Len(sink) = 0
  BY EmptySeq DEF Stream!Fresh
<1>2. settled = [bytes |-> 0, exceeded |-> FALSE] /\ settled.bytes = 0 /\ settled.exceeded = FALSE
  BY DEF Stream!Fresh
<1>3. StreamTypes
  <2>1. settled = [bytes |-> settled.bytes, exceeded |-> settled.exceeded]
    BY <1>2
  <2>2. settled.bytes \in 0..Len(sink)
    BY <1>1, <1>2
  <2>3. DOMAIN request = Writers /\ \A w \in Writers : request[w] = << >>
    BY DEF Stream!Fresh
  <2> QED
    BY <1>1, <1>2, <2>1, <2>2, <2>3 DEF Stream!Fresh, StreamTypes
<1>4. Free
  BY <1>1, <1>2 DEF Stream!Fresh, Free, Stream!Seen
<1>5. Counted /\ Held /\ LossSeen
  BY <1>2 DEF Sensible, Stream!Fresh, Counted, Held, LossSeen
<1> QED
  BY <1>3, <1>4, <1>5 DEF StreamInv

LEMMA CallInv ==
  ASSUME Sensible, StreamInv, NEW w \in Writers, NEW n \in Sizes, Stream!Call(w, n)
  PROVE  StreamInv'
<1>1. /\ request[w] = << >> /\ request' = [request EXCEPT ![w] = <<n>>]
      /\ UNCHANGED <<sink, written, exceeded, mutex, passed, settled, lost>>
  BY DEF Stream!Call
<1>2. \A v \in Writers : v # w => request'[v] = request[v]
  BY <1>1 DEF StreamInv, StreamTypes
<1>3. request'[w] = <<n>> /\ DOMAIN request' = Writers
  BY <1>1 DEF StreamInv, StreamTypes
<1>4. StreamTypes'
  BY <1>1, <1>2, <1>3 DEF StreamInv, StreamTypes
<1>5. Held'
  <2> SUFFICES ASSUME NEW v \in Writers, mutex' = v
               PROVE  /\ request'[v] # << >>
                      /\ Len(sink') = settled'.bytes + passed'
                      /\ passed' <= Stream!Passing(Stream!Asked(v))'
                      /\ \A i \in (settled'.bytes + 1)..Len(sink') : sink'[i] = v
                      /\ exceeded' = (settled'.exceeded
                                        \/ Stream!Passing(Stream!Asked(v))' < Stream!Asked(v)')
    BY DEF Held
  <2>1. request[v] # << >> /\ v # w
    BY <1>1 DEF StreamInv, Held
  <2>2. /\ Stream!Asked(v)' = Stream!Asked(v)
        /\ Stream!Passing(Stream!Asked(v))' = Stream!Passing(Stream!Asked(v))
    BY <2>1, <1>1, <1>2 DEF Stream!Asked, Stream!Passing
  <2> QED
    BY <2>1, <2>2, <1>1, <1>2 DEF StreamInv, Held
<1> QED
  BY <1>1, <1>4, <1>5 DEF StreamInv, Counted, Free, LossSeen, Stream!Seen

LEMMA LockInv ==
  ASSUME Sensible, StreamInv, NEW w \in Writers, Stream!Lock(w)
  PROVE  StreamInv'
<1>1. /\ request[w] # << >> /\ mutex = Nobody /\ mutex' = w /\ passed' = 0
      /\ exceeded' = (exceeded \/ Stream!Passing(Stream!Asked(w)) < Stream!Asked(w))
      /\ UNCHANGED <<sink, written, request, settled, lost>>
  BY DEF Stream!Lock
<1>2. settled.bytes = Len(sink) /\ settled.exceeded = exceeded
  BY <1>1 DEF StreamInv, Free, Stream!Seen
<1>3. Stream!Asked(w) \in Nat
  BY <1>1 DEF StreamInv, StreamTypes, Stream!Asked, Sensible
<1>4. Stream!Passing(Stream!Asked(w)) \in 0..Stream!Asked(w)
  BY <1>3, PassingBounds DEF StreamInv, StreamTypes
<1>5. StreamTypes'
  BY <1>1 DEF StreamInv, StreamTypes
<1>6. Held'
  BY <1>1, <1>2, <1>4, LenProperties DEF StreamInv, StreamTypes, Held, Stream!Asked, Stream!Passing
<1> QED
  BY <1>1, <1>5, <1>6 DEF StreamInv, Counted, Free, LossSeen, Sensible

LEMMA PassInv ==
  ASSUME Sensible, StreamInv, NEW w \in Writers, Stream!Pass(w)
  PROVE  StreamInv'
<1>1. /\ mutex = w /\ passed < Stream!Passing(Stream!Asked(w))
      /\ sink' = Append(sink, w) /\ passed' = passed + 1
      /\ UNCHANGED <<written, exceeded, mutex, request, settled, lost>>
  BY DEF Stream!Pass
<1>2. /\ sink' \in Seq(Writers) /\ Len(sink') = Len(sink) + 1
      /\ sink'[Len(sink) + 1] = w
      /\ \A i \in 1..Len(sink) : sink'[i] = sink[i]
  BY <1>1, AppendProperties DEF StreamInv, StreamTypes
<1>3. /\ Len(sink) \in Nat /\ settled.bytes \in 0..Len(sink) /\ passed \in Nat
  BY LenProperties DEF StreamInv, StreamTypes
<1>4. /\ request[w] # << >> /\ Len(sink) = settled.bytes + passed
      /\ \A i \in (settled.bytes + 1)..Len(sink) : sink[i] = w
      /\ exceeded = (settled.exceeded \/ Stream!Passing(Stream!Asked(w)) < Stream!Asked(w))
  BY <1>1 DEF StreamInv, Held
<1>5. /\ Stream!Asked(w)' = Stream!Asked(w)
      /\ Stream!Passing(Stream!Asked(w))' = Stream!Passing(Stream!Asked(w))
      /\ Stream!Passing(Stream!Asked(w)) \in Nat
  <2>1. Stream!Asked(w) \in Nat
    BY <1>4 DEF StreamInv, StreamTypes, Stream!Asked, Sensible
  <2> QED
    BY <2>1, <1>1, PassingBounds DEF StreamInv, StreamTypes, Stream!Asked, Stream!Passing
<1>6. StreamTypes'
  BY <1>1, <1>2, <1>3 DEF StreamInv, StreamTypes
<1>7. \A i \in (settled'.bytes + 1)..Len(sink') : sink'[i] = w
  <2> SUFFICES ASSUME NEW i \in (settled.bytes + 1)..(Len(sink) + 1) PROVE sink'[i] = w
    BY <1>1, <1>2
  <2>1. CASE i = Len(sink) + 1
    BY <2>1, <1>2
  <2>2. CASE i # Len(sink) + 1
    <3>1. i \in 1..Len(sink) /\ i \in (settled.bytes + 1)..Len(sink)
      BY <2>2, <1>3
    <3> QED
      BY <3>1, <1>2, <1>4
  <2> QED
    BY <2>1, <2>2
<1>8. Held'
  BY <1>1, <1>2, <1>3, <1>4, <1>5, <1>7 DEF Held
<1> QED
  BY <1>1, <1>6, <1>8 DEF StreamInv, StreamTypes, Counted, Free, LossSeen, Sensible

\* A Write that ends, whether it has passed all it may or not.
LEMMA UnlockInv ==
  ASSUME Sensible, StreamInv, NEW w \in Writers, Stream!Return(w) \/ Stream!Fail(w)
  PROVE  StreamInv'
<1>1. /\ mutex = w /\ passed <= Stream!Passing(Stream!Asked(w))
      /\ written' = IF Limit <= 0 THEN written ELSE written + passed
      /\ mutex' = Nobody
      /\ request' = [request EXCEPT ![w] = << >>]
      /\ settled' = Stream!Seen
      /\ UNCHANGED <<sink, exceeded, passed>>
  BY DEF Stream!Return, Stream!Fail, Stream!Unlock, StreamInv, Held
<1>2. /\ request[w] # << >> /\ Len(sink) = settled.bytes + passed
      /\ exceeded = (settled.exceeded \/ Stream!Passing(Stream!Asked(w)) < Stream!Asked(w))
  BY <1>1 DEF StreamInv, Held
<1>3. Len(sink) \in Nat /\ settled.bytes \in Nat /\ passed \in Nat
  BY LenProperties DEF StreamInv, StreamTypes
<1>4. settled'.bytes = Len(sink) /\ settled'.exceeded = exceeded
  BY <1>1 DEF Stream!Seen
<1>5. StreamTypes'
  <2>1. \A v \in Writers : request'[v] = << >> \/ request'[v] = request[v]
    BY <1>1 DEF StreamInv, StreamTypes
  <2>2. DOMAIN request' = Writers
    BY <1>1 DEF StreamInv, StreamTypes
  <2>3. settled' = [bytes |-> settled'.bytes, exceeded |-> settled'.exceeded]
    BY <1>1, <1>4 DEF Stream!Seen
  <2>4. written' \in Nat
    BY <1>1, <1>3 DEF StreamInv, StreamTypes
  <2> QED
    BY <1>1, <1>3, <1>4, <2>1, <2>2, <2>3, <2>4 DEF StreamInv, StreamTypes
<1>6. Counted'
  <2> SUFFICES ASSUME Limit > 0 PROVE written' = settled'.bytes /\ written' <= Limit
    BY DEF Counted
  <2>1. Stream!Asked(w) \in Nat
    BY <1>2 DEF StreamInv, StreamTypes, Stream!Asked, Sensible
  <2> QED
    BY <2>1, <1>1, <1>2, <1>3, <1>4 DEF StreamInv, StreamTypes, Counted, Stream!Passing, Sensible
<1>7. LossSeen'
  <2>1. CASE Stream!Return(w)
    BY <2>1, <1>2, <1>4 DEF Stream!Return, StreamInv, LossSeen
  <2>2. CASE Stream!Fail(w)
    BY <2>2, <1>2, <1>4 DEF Stream!Fail, StreamInv, LossSeen
  <2> QED
    BY <2>1, <2>2
<1> QED
  BY <1>1, <1>5, <1>6, <1>7 DEF StreamInv, Free, Held, Sensible, Stream!Seen

LEMMA StreamStepInv == Sensible /\ StreamInv /\ Stream!Step => StreamInv'
  BY CallInv, LockInv, PassInv, UnlockInv DEF Stream!Step

LEMMA StreamStutterInv == StreamInv /\ UNCHANGED Stream!vars => StreamInv'
  BY DEF Stream!vars, StreamInv, StreamTypes, Counted, Free, Held, LossSeen, Stream!Seen,
      Stream!Asked, Stream!Passing

-----------------------------------------------------------------------------
\* A Write arrives when its goroutine gives the lock back.
LEMMA UnlockWrites ==
  ASSUME Sensible, StreamInv, NEW w \in Writers, Stream!Return(w) \/ Stream!Fail(w)
  PROVE  Stream!Sink!Next
<1>1. /\ mutex = w /\ settled' = Stream!Seen /\ UNCHANGED <<sink, exceeded>>
      /\ request[w] # << >>
  BY DEF Stream!Return, Stream!Fail, Stream!Unlock, StreamInv, Held
<1>2. /\ Len(sink) = settled.bytes + passed
      /\ passed <= Stream!Passing(Stream!Asked(w))
      /\ \A i \in (settled.bytes + 1)..Len(sink) : sink[i] = w
  BY <1>1 DEF StreamInv, Held
<1>3. exceeded = (settled.exceeded \/ Stream!Passing(Stream!Asked(w)) < Stream!Asked(w))
  BY <1>1 DEF StreamInv, Held
<1>4. Stream!Asked(w) \in Sizes /\ Stream!Asked(w) \in Nat
  BY <1>1 DEF StreamInv, StreamTypes, Stream!Asked, Sensible
<1>5. Stream!Passing(Stream!Asked(w)) \in 0..Stream!Asked(w)
  BY <1>4, PassingBounds DEF StreamInv, StreamTypes
<1>6. Stream!Sink!Allowed(Stream!Asked(w)) = Stream!Passing(Stream!Asked(w))
  BY <1>4, SameAllowed
<1>7. sink \in Seq(Writers) /\ settled.bytes \in 0..Len(sink) /\ passed \in Nat
  BY DEF StreamInv, StreamTypes
<1>8. Len(sink) \in Nat /\ Len(sink) - settled.bytes = passed
  BY <1>2, <1>7, LenProperties
<1>9. settled'.bytes = Len(sink) /\ settled'.exceeded = exceeded
  BY <1>1 DEF Stream!Seen
<1>10. SubSeq(sink, 1, settled.bytes)' = SubSeq(sink, 1, settled.bytes) \o [i \in 1..passed |-> w]
  <2>1. ASSUME NEW s \in Seq(Writers), NEW m \in 0..Len(s),
               \A i \in (m + 1)..Len(s) : s[i] = w
        PROVE  SubSeq(s, 1, Len(s)) = SubSeq(s, 1, m) \o [i \in 1..(Len(s) - m) |-> w]
    BY <2>1, PrefixAndRun
  <2>2. \A i \in (settled.bytes + 1)..Len(sink) : sink[i] = w
    BY <1>2
  <2>3. SubSeq(sink, 1, Len(sink))
          = SubSeq(sink, 1, settled.bytes) \o [i \in 1..(Len(sink) - settled.bytes) |-> w]
    BY <2>1, <2>2, <1>7, Zenon
  <2> QED
    BY <2>3, <1>1, <1>8, <1>9, Zenon
<1>11. passed \in 0..Stream!Asked(w) /\ passed \in 0..Stream!Sink!Allowed(Stream!Asked(w))
  BY <1>2, <1>4, <1>5, <1>6, <1>7
<1>12. settled'.exceeded
         = (settled.exceeded \/ Stream!Sink!Allowed(Stream!Asked(w)) < Stream!Asked(w))
  BY <1>3, <1>6, <1>9, Zenon
<1>13. Stream!Sink!Write(w, Stream!Asked(w), passed)
  BY <1>10, <1>11, <1>12, Zenon DEF Stream!Sink!Write
<1> QED
  BY <1>4, <1>11, <1>13 DEF Stream!Sink!Next

\* What passes before that is not yet seen.
LEMMA OthersStutter ==
  ASSUME Sensible, StreamInv, NEW w \in Writers,
         (\E n \in Sizes : Stream!Call(w, n)) \/ Stream!Lock(w) \/ Stream!Pass(w)
  PROVE  UNCHANGED Stream!Sink!vars
<1>1. settled' = settled
  BY DEF Stream!Call, Stream!Lock, Stream!Pass
<1>2. SubSeq(sink, 1, settled.bytes)' = SubSeq(sink, 1, settled.bytes)
  <2>1. CASE sink' = sink
    BY <2>1, <1>1
  <2>2. CASE Stream!Pass(w)
    <3>1. sink' = Append(sink, w) /\ sink \in Seq(Writers)
      BY <2>2 DEF Stream!Pass, StreamInv, StreamTypes
    <3>2. /\ sink' \in Seq(Writers) /\ Len(sink') = Len(sink) + 1
          /\ \A i \in 1..Len(sink) : sink'[i] = sink[i]
      BY <3>1, AppendProperties
    <3>3. settled.bytes \in Nat /\ settled.bytes <= Len(sink) /\ Len(sink) \in Nat
      BY LenProperties DEF StreamInv, StreamTypes
    <3>4. \A i \in 1..settled.bytes : i \in 1..Len(sink) /\ sink[i] \in Writers /\ sink'[i] = sink[i]
      BY <3>1, <3>2, <3>3, ElementOfSeq
    <3> DEFINE before == SubSeq(sink, 1, settled.bytes)
               after == SubSeq(sink', 1, settled.bytes)
    <3>5. /\ before \in Seq(Writers) /\ Len(before) = settled.bytes
          /\ \A i \in 1..settled.bytes : before[i] = sink[i]
      BY <3>3, <3>4, SubSeqProperties
    <3>6. /\ after \in Seq(Writers) /\ Len(after) = settled.bytes
          /\ \A i \in 1..settled.bytes : after[i] = sink'[i]
      BY <3>3, <3>4, SubSeqProperties
    <3> HIDE DEF before, after
    <3>7. before = after
      BY <3>4, <3>5, <3>6, SeqEqual
    <3> QED
      BY <3>7, <1>1 DEF before, after
  <2> QED
    BY <2>1, <2>2 DEF Stream!Call, Stream!Lock
<1> QED
  BY <1>1, <1>2 DEF Stream!Sink!vars

LEMMA StepRefines ==
  Sensible /\ StreamInv /\ Stream!Step => Stream!Sink!Next \/ UNCHANGED Stream!Sink!vars
  BY UnlockWrites, OthersStutter DEF Stream!Step

LEMMA StreamSensible == Sensible
  BY StreamAssumption DEF Sensible

\* The stream with a lock implements the one that takes a Write at a time.
THEOREM StreamImplementsSink == Stream!Spec => Stream!RefinesSink
<1>1. Stream!Fresh => StreamInv /\ Stream!Sink!Init
  <2>1. Stream!Fresh => StreamInv
    BY StreamSensible, StreamFreshInv
  <2>2. Stream!Fresh => Stream!Sink!Init
    BY SubSeqEmpty DEF Stream!Fresh, Stream!Sink!Init
  <2> QED
    BY <2>1, <2>2
<1>2. StreamInv /\ [Stream!Step]_Stream!vars => StreamInv'
  BY StreamSensible, StreamStepInv, StreamStutterInv
<1>3. StreamInv /\ [Stream!Step]_Stream!vars => [Stream!Sink!Next]_Stream!Sink!vars
  BY StreamSensible, StepRefines DEF Stream!vars, Stream!Sink!vars
<1> QED
  BY <1>1, <1>2, <1>3, PTL DEF Stream!Spec, Stream!RefinesSink, Stream!Sink!Spec

\* No Write is cut short without Err saying so.
THEOREM LossIsSeen == Stream!Spec => [](lost => exceeded)
<1>1. StreamInv => (lost => exceeded)
  BY DEF StreamInv, StreamTypes, Free, Held, LossSeen, Stream!Seen
<1>2. Stream!Fresh => StreamInv
  BY StreamSensible, StreamFreshInv
<1>3. StreamInv /\ [Stream!Step]_Stream!vars => StreamInv'
  BY StreamSensible, StreamStepInv, StreamStutterInv
<1> QED
  BY <1>1, <1>2, <1>3, PTL DEF Stream!Spec

-----------------------------------------------------------------------------
(* The Run with its stream.                                                *)

\* The steps of the Run that leave the stream alone are RunLifecycle's.
LEMMA AloneNext == Meanwhile \/ Advance => Next
  BY DEF Meanwhile, Advance, Next

\* A Write shows as a mark, or not at all.
LEMMA WriteNext ==
  ASSUME IInv, StreamInv, Write
  PROVE  ExceedOutput \/ UNCHANGED vars
<1>1. phase \in Executing /\ UNCHANGED lifecycleVars
  BY DEF Write
<1>2. exceeded' = exceeded \/ exceeded' = TRUE
  <2>1. PICK w \in Writers :
          \/ \E n \in Sizes : Stream!Call(w, n)
          \/ Stream!Lock(w) \/ Stream!Pass(w) \/ Stream!Return(w) \/ Stream!Fail(w)
    BY DEF Write, Stream!Step
  <2>2. CASE Stream!Lock(w)
    <3>1. exceeded' = (exceeded \/ Stream!Passing(Stream!Asked(w)) < Stream!Asked(w))
      BY <2>2 DEF Stream!Lock
    <3>2. exceeded \in BOOLEAN
      BY DEF IInv, TypeOK
    <3> QED
      BY <3>1, <3>2, Zenon
  <2>3. CASE ~ Stream!Lock(w)
    BY <2>1, <2>3 DEF Stream!Call, Stream!Pass, Stream!Return, Stream!Fail, Stream!Unlock
  <2> QED
    BY <2>2, <2>3
<1>3. CASE exceeded' = exceeded
  BY <1>1, <1>3 DEF lifecycleVars, vars
<1>4. CASE exceeded' = TRUE
  BY <1>1, <1>4 DEF lifecycleVars, ExceedOutput
<1> QED
  BY <1>2, <1>3, <1>4

LEMMA RunStep == IInv /\ StreamInv /\ [RunNext]_runVars => [Next]_vars
<1> SUFFICES ASSUME IInv, StreamInv, [RunNext]_runVars PROVE [Next]_vars
  OBVIOUS
<1>1. CASE Begin
  BY <1>1 DEF Begin, Next
<1>2. CASE Write
  BY <1>2, WriteNext DEF Next
<1>3. CASE Meanwhile \/ Advance
  BY <1>3, AloneNext
<1>4. CASE UNCHANGED runVars
  BY <1>4 DEF runVars
<1> QED
  BY <1>1, <1>2, <1>3, <1>4 DEF RunNext

\* A Run that begins has a new stream, which has lost nothing.
LEMMA FreshStream == Stream!Fresh' => StreamInv'
<1>1. Stream!Fresh => StreamInv
  BY StreamSensible, StreamFreshInv
<1> QED
  BY <1>1, PTL

LEMMA BeginStream == Begin => StreamInv'
<1> SUFFICES ASSUME Begin PROVE StreamInv'
  OBVIOUS
<1>1. exceeded' = FALSE /\ NewLimiter
  BY DEF Begin, Start
<1>2. Stream!Fresh'
  BY <1>1 DEF NewLimiter, Stream!Fresh
<1> QED
  BY <1>2, FreshStream

LEMMA StreamStep == StreamInv /\ [RunNext]_runVars => StreamInv'
<1> SUFFICES ASSUME StreamInv, [RunNext]_runVars PROVE StreamInv'
  OBVIOUS
<1>1. CASE Begin
  BY <1>1, BeginStream
<1>2. CASE Write
  BY <1>2, StreamSensible, StreamStepInv DEF Write
<1>3. CASE UNCHANGED <<outputVars, exceeded>>
  BY <1>3, StreamStutterInv DEF outputVars, Stream!vars
<1>4. Meanwhile \/ Advance \/ UNCHANGED runVars => UNCHANGED <<outputVars, exceeded>>
  BY DEF Meanwhile, Advance, runVars, vars, CtxDies, SetTrap, RunCommand, ProgramEnds,
      ExitTrapEnds, SignalTrapStarts, NoSignalTrap, SignalTrapEnds, ExitTrapStarts, NoExitTrap,
      Finish
<1> QED
  BY <1>1, <1>2, <1>3, <1>4 DEF RunNext

-----------------------------------------------------------------------------
\* Both invariants hold of the composition.
THEOREM RunInvariance == RunSpec => [](IInv /\ StreamInv)
<1>1. RunInit => IInv /\ StreamInv
  BY InitInv, StreamSensible, StreamFreshInv DEF RunInit
<1>2. IInv /\ StreamInv /\ [RunNext]_runVars => (IInv /\ StreamInv)'
  BY RunStep, StreamStep, NextInv
<1> QED
  BY <1>1, <1>2, PTL DEF RunSpec

\* What is proved of RunLifecycle holds of the Run with its goroutines.
THEOREM LifecycleRefined == RunSpec => RefinesRunLifecycle
<1>1. RunInit => Init
  BY DEF RunInit
<1> QED
  BY <1>1, RunInvariance, RunStep, PTL DEF RunSpec, RefinesRunLifecycle, Spec

\* Run by Run the stream lets through what LimitedSink lets through.
THEOREM StreamRefined == RunSpec => RefinesSink
<1>1. StreamInv /\ [RunNext]_runVars
        => [Stream!Sink!Next \/ NewLimiter]_<<Stream!Sink!vars>>
  <2> SUFFICES ASSUME StreamInv, [RunNext]_runVars
               PROVE  Stream!Sink!Next \/ NewLimiter \/ UNCHANGED Stream!Sink!vars
    OBVIOUS
  <2>1. CASE Begin
    BY <2>1 DEF Begin
  <2>2. CASE Write
    <3>1. Stream!Sink!Next \/ UNCHANGED Stream!Sink!vars
      BY <2>2, StreamSensible, StepRefines DEF Write
    <3> QED
      BY <3>1 DEF Stream!Sink!vars
  <2>3. CASE Meanwhile \/ Advance \/ UNCHANGED runVars
    BY <2>3 DEF Meanwhile, Advance, runVars, outputVars, Stream!Sink!vars
  <2> QED
    BY <2>1, <2>2, <2>3 DEF RunNext
<1> QED
  BY <1>1, RunInvariance, PTL DEF RunSpec, RefinesSink

\* The error that Run returns is true of what its goroutines have done.
THEOREM AnswerIsTrue == RunSpec => []AnswerTellsTruth
<1>1. IInv => /\ phase = "idle" /\ history.ctxAtEnd # "none" => answer = history.ctxAtEnd
              /\ phase = "idle" /\ answer = "nil" => ctx = "none" /\ ~ exceeded /\ last = 0
  BY DEF IInv, StaysDead, Answered
<1>2. StreamInv => (lost => exceeded)
  <2> SUFFICES ASSUME StreamInv, lost PROVE exceeded
    OBVIOUS
  <2> QED
    BY DEF StreamInv, StreamTypes, Free, Held,
        LossSeen, Stream!Seen
<1>3. IInv /\ StreamInv => AnswerTellsTruth
  BY <1>1, <1>2 DEF AnswerTellsTruth
<1> QED
  BY <1>3, RunInvariance, PTL

=============================================================================
