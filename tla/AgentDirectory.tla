--------------------------- MODULE AgentDirectory ---------------------------
(***************************************************************************)
(* What the agent endpoints promise their clients: a table of dns with the *)
(* status of each, on which every request takes effect at once, at some    *)
(* moment between its arrival and its answer, and a hangup makes its agent *)
(* Ready.  Nothing locks the list that implements the table, so the        *)
(* promise has two limits, and both are stated here as steps:              *)
(*   Overlap  two requests for one dn, a login and a login or a logout,    *)
(*            leave the entry of that dn unknown for good;                 *)
(*   Break    undefined behaviour leaves the whole table unknown for good, *)
(*            with or without the answer to one of the requests.           *)
(***************************************************************************)
CONSTANTS Session, Dn, None, Ops

VARIABLES
  dir,      \* the status of each dn, "absent" if it is not logged in
  pending   \* the request each session serves

dirVars == <<dir, pending>>

NoRequest == [op |-> "none", dn |-> None]

\* The entry of a dn when a request has been served.
Served(status, op) ==
  IF status = "unknown" \/ op = "makecall" THEN status
  ELSE CASE op = "login" -> "Ready"
         [] op = "logout" -> "absent"
         [] op \in {"ready", "notReady", "leave"} ->
              IF status = "absent" THEN "absent"
              ELSE IF op = "ready" THEN "Ready" ELSE op

DirInit ==
  /\ dir = [d \in Dn |-> "absent"]
  /\ pending = [s \in Session |-> NoRequest]

Arrive(s) ==
  /\ pending[s] = NoRequest
  /\ \E op \in Ops, d \in Dn : pending' = [pending EXCEPT ![s] = [op |-> op, dn |-> d]]
  /\ UNCHANGED dir

Serve(s) ==
  /\ pending[s] # NoRequest
  /\ dir' = [dir EXCEPT ![pending[s].dn] = Served(@, pending[s].op)]
  /\ pending' = [pending EXCEPT ![s] = NoRequest]

HungUp(d) ==
  /\ dir[d] \notin {"absent", "unknown"}
  /\ dir' = [dir EXCEPT ![d] = "Ready"]
  /\ UNCHANGED pending

Overlap(s, t) ==
  /\ s # t
  /\ pending[s] # NoRequest /\ pending[s].dn = pending[t].dn
  /\ pending[s].op \in {"login", "logout"} /\ pending[t].op = "login"
  /\ dir' = [dir EXCEPT ![pending[s].dn] = "unknown"]
  /\ pending' = [pending EXCEPT ![s] = NoRequest]

Break ==
  /\ dir' = [d \in Dn |-> "unknown"]
  /\ \/ UNCHANGED pending
     \/ \E s \in Session : pending' = [pending EXCEPT ![s] = NoRequest]

DirNext ==
  \/ \E s \in Session : Arrive(s) \/ Serve(s)
  \/ \E s, t \in Session : Overlap(s, t)
  \/ \E d \in Dn : HungUp(d)
  \/ Break

DirSpec == DirInit /\ [][DirNext]_dirVars
=============================================================================
