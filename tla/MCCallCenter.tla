---------------------------- MODULE MCCallCenter ----------------------------
(***************************************************************************)
(* CallCenter on small instances.                                          *)
(***************************************************************************)
EXTENDS CallCenter, TLC

\* Threads, nodes and channels of one kind are interchangeable.  Dns are not
\* permuted: they are few, and the empty one is a member like any other.
Symmetry == Permutations(Session) \cup Permutations(Caller)
            \cup Permutations(Node) \cup Permutations(Channel)
=============================================================================
