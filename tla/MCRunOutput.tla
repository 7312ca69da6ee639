---------------------------- MODULE MCRunOutput ----------------------------
(* Two goroutines that write one or two bytes at a time to a stream that is *)
(* limited to two.                                                          *)
EXTENDS RunOutput, TLC

Symmetry == Permutations(Writers)

=============================================================================
