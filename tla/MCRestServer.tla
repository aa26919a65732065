---------------------------- MODULE MCRestServer ----------------------------
(***************************************************************************)
(* RestServer on small instances.                                          *)
(***************************************************************************)
EXTENDS RestServer, TLC

\* The session threads are interchangeable, and so are the clients.
Symmetry == Permutations(Session) \cup Permutations(Client)
=============================================================================
