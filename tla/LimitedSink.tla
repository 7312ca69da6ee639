---------------------------- MODULE LimitedSink ----------------------------
(***************************************************************************)
(* What MaxOutputBytes promises of a stream, without saying how: one Write *)
(* at a time arrives, whole or up to the limit, and exceeded tells whether *)
(* anything was cut off.  Module Output is the implementation with a lock. *)
(***************************************************************************)
EXTENDS Integers, Sequences

CONSTANTS
  Writers,   \* the goroutines that write
  Sizes,     \* how many bytes a Write may have
  Limit      \* the limit; zero or a negative number disables it

VARIABLES
  sink,      \* the bytes that have arrived, each as the goroutine it is from
  exceeded   \* whether bytes were cut off

vars == <<sink, exceeded>>

Room == Limit - Len(sink)
Allowed(n) == IF Limit <= 0 \/ n <= Room THEN n ELSE Room

Init == sink = << >> /\ exceeded = FALSE

\* A Write of w of which k bytes arrive; if k is less than what is allowed the
\* writer behind the stream has failed.
Write(w, n, k) ==
  /\ k \in 0..Allowed(n)
  /\ sink' = sink \o [i \in 1..k |-> w]
  /\ exceeded' = (exceeded \/ Allowed(n) < n)

Next == \E w \in Writers, n \in Sizes : \E k \in 0..n : Write(w, n, k)

Spec == Init /\ [][Next]_vars

=============================================================================
