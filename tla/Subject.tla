------------------------------ MODULE Subject ------------------------------
(***************************************************************************)
(* The pure algorithms of the shell have no state of their own: subject is *)
(* the input of one of them, chosen by Init and kept.                      *)
(***************************************************************************)
EXTENDS Integers

VARIABLE subject

Next == UNCHANGED subject
=============================================================================
