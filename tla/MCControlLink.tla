---------------------------- MODULE MCControlLink ----------------------------
(***************************************************************************)
(* ControlLink on small instances.                                         *)
(***************************************************************************)
EXTENDS ControlLink, TLC

\* The REST threads are interchangeable.
Symmetry == Permutations(Session)
=============================================================================
