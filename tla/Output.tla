------------------------------- MODULE Output -------------------------------
(***************************************************************************)
(* limits.go: outputLimiter, the stream that all goroutines of a Run write *)
(* to.  A Write takes the lock, decides how much may pass, hands that to   *)
(* the writer behind it, which takes its time and may fail half way, and   *)
(* counts what has passed.                                                 *)
(***************************************************************************)
EXTENDS Integers, Sequences

CONSTANTS
  Writers,   \* the goroutines that write
  Sizes,     \* bound: how many bytes a Write has
  Limit,     \* outputLimiter.limit; zero or a negative number disables it
  Nobody     \* not a goroutine

VARIABLES
  sink,      \* the bytes the writer behind has got, each as who it is from
  written,   \* outputLimiter.written
  exceeded,  \* outputLimiter.exceeded
  mutex,     \* who holds outputLimiter.mu
  request,   \* the Write each goroutine is in: no or one number of bytes
  passed,    \* how many bytes of the holder's Write have passed
  settled,   \* history: what Err would have seen when mu was last free
  lost       \* history: a Write has reported more bytes than it passed

vars == <<sink, written, exceeded, mutex, request, passed, settled, lost>>

\* How many of n bytes may pass.
Passing(n) ==
  IF Limit <= 0 THEN n
  ELSE IF Limit - written <= 0 THEN 0
  ELSE IF n > Limit - written THEN Limit - written ELSE n

Asked(w) == request[w][1]
Seen == [bytes |-> Len(sink), exceeded |-> exceeded]

-----------------------------------------------------------------------------
(* Plausible bugs, each in place of the action it is named after.          *)

\* The lock is not waited for.
LockAnyway(w) ==
  /\ request[w] # << >> /\ mutex # w
  /\ mutex' = w
  /\ passed' = 0
  /\ exceeded' = (exceeded \/ Passing(Asked(w)) < Asked(w))
  /\ UNCHANGED <<sink, written, request, settled, lost>>

\* Only a Write that is dropped altogether is marked.
LockMarksDropped(w) ==
  /\ request[w] # << >> /\ mutex = Nobody
  /\ mutex' = w
  /\ passed' = 0
  /\ exceeded' = (exceeded \/ (Passing(Asked(w)) = 0 /\ Asked(w) > 0))
  /\ UNCHANGED <<sink, written, request, settled, lost>>

-----------------------------------------------------------------------------
Fresh ==
  /\ sink = << >> /\ written = 0 /\ exceeded = FALSE
  /\ mutex = Nobody /\ passed = 0
  /\ request = [w \in Writers |-> << >>]
  /\ settled = [bytes |-> 0, exceeded |-> FALSE] /\ lost = FALSE

Call(w, n) ==
  /\ request[w] = << >>
  /\ request' = [request EXCEPT ![w] = <<n>>]
  /\ UNCHANGED <<sink, written, exceeded, mutex, passed, settled, lost>>

\* outputLimiter.Write up to the call of the writer behind.
Lock(w) ==
  /\ request[w] # << >> /\ mutex = Nobody
  /\ mutex' = w
  /\ passed' = 0
  /\ exceeded' = (exceeded \/ Passing(Asked(w)) < Asked(w))
  /\ UNCHANGED <<sink, written, request, settled, lost>>

Pass(w) ==
  /\ mutex = w /\ passed < Passing(Asked(w))
  /\ sink' = Append(sink, w)
  /\ passed' = passed + 1
  /\ UNCHANGED <<written, exceeded, mutex, request, settled, lost>>

Unlock(w) ==
  /\ written' = IF Limit <= 0 THEN written ELSE written + passed
  /\ mutex' = Nobody
  /\ request' = [request EXCEPT ![w] = << >>]
  /\ settled' = Seen
  /\ UNCHANGED <<sink, exceeded, passed>>

\* The Write reports all bytes as written, also those it has cut off.
Return(w) ==
  /\ mutex = w /\ passed = Passing(Asked(w))
  /\ lost' = (lost \/ passed < Asked(w))
  /\ Unlock(w)

\* The writer behind fails, and its error is returned.
Fail(w) ==
  /\ mutex = w /\ passed < Passing(Asked(w))
  /\ UNCHANGED lost
  /\ Unlock(w)

Step ==
  \E w \in Writers :
    \/ \E n \in Sizes : Call(w, n)
    \/ Lock(w) \/ Pass(w) \/ Return(w) \/ Fail(w)

Spec == Fresh /\ [][Step]_vars

-----------------------------------------------------------------------------
\* What the stream has got when nobody holds the lock is what LimitedSink
\* allows: whole Writes one after another, cut off at MaxOutputBytes and not
\* before it, and Err reports the cut.
Sink == INSTANCE LimitedSink WITH
  sink <- SubSeq(sink, 1, settled.bytes), exceeded <- settled.exceeded

RefinesSink == Sink!Spec

=============================================================================
