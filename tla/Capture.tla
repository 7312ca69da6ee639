------------------------------- MODULE Capture -------------------------------
(***************************************************************************)
(* expand.go: commandSubstitution and its limitedBuffer, which has no      *)
(* lock.  Several goroutines write to it if standard error is sent there,  *)
(* too: in x=$(f 2>&1), where f is a pipeline, each stage has the buffer   *)
(* as its standard error and the last one also as its standard output.     *)
(***************************************************************************)
EXTENDS Integers, Sequences

CONSTANTS
  Writers,  \* the goroutines that write to the buffer
  Sizes,    \* bound: how many bytes a Write has
  Limit     \* Config.MaxCommandSubstitutionBytes, not negative

VARIABLES
  buffer,    \* limitedBuffer.builder: its bytes, each as who it is from
  exceeded,  \* limitedBuffer.exceeded
  step,      \* where each goroutine is in limitedBuffer.Write
  count,     \* how many bytes of its Write are appended
  base,      \* the builder each goroutine appends to, as it has read it
  answer     \* whether $( ) is still open, or what it has returned

vars == <<buffer, exceeded, step, count, base, answer>>

Init ==
  /\ buffer = << >> /\ exceeded = FALSE
  /\ step = [w \in Writers |-> "idle"]
  /\ count = [w \in Writers |-> 0]
  /\ base = [w \in Writers |-> << >>]
  /\ answer = "open"

Remaining == Limit - Len(buffer)

\* limitedBuffer.Write up to builder.Write
Measure(w, n) ==
  /\ answer = "open" /\ step[w] = "idle"
  /\ exceeded' = (exceeded \/ n > Remaining)
  /\ IF Remaining <= 0
     THEN UNCHANGED <<step, count>>
     ELSE /\ step' = [step EXCEPT ![w] = "measured"]
          /\ count' = [count EXCEPT ![w] = IF n > Remaining THEN Remaining ELSE n]
  /\ UNCHANGED <<buffer, base, answer>>

\* strings.Builder: append reads the slice and stores a longer one; of two at
\* once the last one wins.
Load(w) ==
  /\ step[w] = "measured"
  /\ step' = [step EXCEPT ![w] = "loaded"]
  /\ base' = [base EXCEPT ![w] = buffer]
  /\ UNCHANGED <<buffer, exceeded, count, answer>>

Store(w) ==
  /\ step[w] = "loaded"
  /\ step' = [step EXCEPT ![w] = "idle"]
  /\ buffer' = base[w] \o [i \in 1..count[w] |-> w]
  /\ UNCHANGED <<exceeded, count, base, answer>>

\* commandSubstitution after execNode, which has waited for all stages.
Answer ==
  /\ answer = "open" /\ \A w \in Writers : step[w] = "idle"
  /\ answer' = IF exceeded THEN "exceeds" ELSE "captured"
  /\ UNCHANGED <<buffer, exceeded, step, count, base>>

Next ==
  \/ \E w \in Writers : (\E n \in Sizes : Measure(w, n)) \/ Load(w) \/ Store(w)
  \/ Answer

Spec == Init /\ [][Next]_vars

-----------------------------------------------------------------------------
\* "MaxCommandSubstitutionBytes limits the captured stdout of each $(...)"
\* (types.go:77): a value that $( ) returns is not longer than the limit.
CapturedWithinLimit ==
  answer = "captured" => Len(buffer) <= Limit

=============================================================================
