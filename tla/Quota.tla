------------------------------- MODULE Quota -------------------------------
(***************************************************************************)
(* What the Max* fields of Config promise to the embedder of one Run,      *)
(* without saying how the promise is kept: at most MaxOpenFiles files are  *)
(* reserved at once, and at most Limit[r] units of a consumable resource r *)
(* are ever granted.  A negative limit disables the bound.  Module Budget  *)
(* is the implementation with atomic counters.                             *)
(***************************************************************************)
EXTENDS Integers, FiniteSets

CONSTANTS
  Holders,       \* what can hold an open-file slot
  Resources,     \* the consumable resources: commands, loop iterations, ...
  Limit,         \* the configured bound of each consumable resource
  Batch,         \* units one request of a resource may ask for
  MaxOpenFiles   \* the configured bound on open files

VARIABLES
  holding,       \* the set of holders of an open-file slot
  granted        \* units granted so far, by resource

vars == <<holding, granted>>

Init ==
  /\ holding = {}
  /\ granted = [r \in Resources |-> 0]

Take(h) ==
  /\ h \notin holding
  /\ MaxOpenFiles >= 0 => Cardinality(holding) < MaxOpenFiles
  /\ holding' = holding \cup {h}
  /\ UNCHANGED granted

Give(h) ==
  /\ h \in holding
  /\ holding' = holding \ {h}
  /\ UNCHANGED granted

Grant(r, n) ==
  /\ Limit[r] >= 0 => granted[r] + n <= Limit[r]
  /\ granted' = [granted EXCEPT ![r] = @ + n]
  /\ UNCHANGED holding

Next ==
  \/ \E h \in Holders : Take(h) \/ Give(h)
  \/ \E r \in Resources : \E n \in Batch[r] : Grant(r, n)

Spec == Init /\ [][Next]_vars

=============================================================================
