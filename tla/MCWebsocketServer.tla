-------------------------- MODULE MCWebsocketServer --------------------------
(***************************************************************************)
(* WebsocketServer on small instances.                                     *)
(***************************************************************************)
EXTENDS WebsocketServer, TLC

\* Threads and connections are interchangeable.
Symmetry == Permutations(Session) \cup Permutations(Conn)
=============================================================================
