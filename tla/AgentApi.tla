------------------------------ MODULE AgentApi ------------------------------
(***************************************************************************)
(* The endpoints of the REST server that use the agent list: POST          *)
(* /agent/login, logout, ready, notReady, leave and /call/makecall (what   *)
(* it receives before its reply is in CallCenter).  Every request runs in  *)
(* a thread of its own (CRestfulServer::runner); a member of Session is    *)
(* such a thread, used again for a later request once it has answered.  A  *)
(* request whose body does not parse is refused before the list is touched *)
(* and is left out, and so are the response texts and the agent's name.    *)
(* Of the printing of the list that ends a login or a logout, only the     *)
(* data race it can be part of is kept (CallCenter).                       *)
(***************************************************************************)
EXTENDS AgentList

CONSTANT Ops  \* the endpoints the clients use

AllOps == {"login", "logout", "ready", "notReady", "leave", "makecall"}
ASSUME OpsAssumption == Ops \subseteq AllOps

VARIABLES
  req,    \* the request each session thread serves, and where it is in it
  raced   \* history: the dns for which a login overlapped a second login,
          \* or a logout, so that neither saw what the other did

apiVars == <<req, raced>>

Idle == [pc |-> "idle", op |-> "login", dn |-> None]
Request == {Idle} \cup [pc : {"find", "push", "found", "setReady", "calling"},
                        op : AllOps, dn : Dn]

Goto(s, label) == req' = [req EXCEPT ![s].pc = label]
Answered(s) == req' = [req EXCEPT ![s] = Idle]

\* The request is read and parseAgent() accepts it.
Receive(s) ==
  /\ req[s].pc = "idle"
  /\ \E op \in Ops, d \in Dn :
       req' = [req EXCEPT ![s] = [pc |-> "find", op |-> op, dn |-> d]]
  /\ UNCHANGED <<raced, listVars>>

\* find_if over the list, one node a step, by dn.
Lookup(s) ==
  /\ req[s].pc = "find"
  /\ \E y \in Node : /\ Leads(cur[s], y)
                     /\ MoveTo(s, y)
                     /\ IF agent[y].dn = req[s].dn
                        THEN Goto(s, "found") ELSE UNCHANGED req
  /\ UNCHANGED <<proc, m_listAgent, agent, held, overtaken, raced>>

\* Mutant of NotFound: the search stops one node early.
NotFoundEarly(s) ==
  /\ req[s].pc = "find"
  /\ Leads(cur[s], None) \/ \E y \in Node : Leads(cur[s], y) /\ Leads(y, None)
  /\ MoveTo(s, Begin)
  /\ IF req[s].op = "login" THEN Goto(s, "push") ELSE Answered(s)
  /\ UNCHANGED <<proc, m_listAgent, agent, held, overtaken, raced>>

\* it == end(): login goes on to push_back, the others answer "Dn Not Found".
NotFound(s) ==
  /\ req[s].pc = "find"
  /\ Leads(cur[s], None)
  /\ MoveTo(s, Begin)
  /\ IF req[s].op = "login" THEN Goto(s, "push") ELSE Answered(s)
  /\ UNCHANGED <<proc, m_listAgent, agent, held, overtaken, raced>>

\* push_back of the new agent.
Login(s) ==
  /\ req[s].pc = "push"
  /\ \E n \in Fresh : PushBack(s, n, req[s].dn)
  /\ raced' = IF \E t \in Session \ {s} :
                   req[t].pc = "push" /\ req[t].dn = req[s].dn
              THEN raced \cup {req[s].dn} ELSE raced
  /\ Answered(s)

\* Login of a dn already listed: p = *it; p->setPolling(false) ...
Relogin(s) ==
  /\ req[s].pc = "found" /\ req[s].op = "login"
  /\ cur[s] \in Listed
  /\ held' = [held EXCEPT ![s] = cur[s]]
  /\ agent' = [agent EXCEPT ![cur[s]].polling = FALSE]
  /\ MoveTo(s, Begin)
  /\ Goto(s, "setReady")
  /\ Overtake(s, "given")
  /\ UNCHANGED <<proc, m_listAgent, raced>>

\* Mutant of ReloginReady: the status is not set.
ReloginUnchanged(s) ==
  /\ req[s].pc = "setReady"
  /\ held' = [held EXCEPT ![s] = None]
  /\ Answered(s)
  /\ UNCHANGED <<proc, m_listAgent, agent, cur, overtaken, raced>>

\* ... p->setAgentStatus(Ready), through p, whether or not still listed.
ReloginReady(s) ==
  /\ req[s].pc = "setReady"
  /\ agent' = IF Kept(s, held[s])
              THEN [agent EXCEPT ![held[s]].status = "Ready"]
              ELSE [agent EXCEPT ![held[s]] = Blank]
  /\ held' = [held EXCEPT ![s] = None]
  /\ Answered(s)
  /\ Overtake(s, "given")
  /\ UNCHANGED <<proc, m_listAgent, cur, raced>>

Logout(s) ==
  /\ req[s].pc = "found" /\ req[s].op = "logout"
  /\ cur[s] \in Listed
  /\ Erase(s)
  /\ raced' = IF \E t \in Session : held[t] = cur[s]
              THEN raced \cup {req[s].dn} ELSE raced
  /\ Answered(s)

\* Mutant of StatusOf: leave copied from notReady.
StatusCopied(op) == IF op = "ready" THEN "Ready" ELSE "notReady"

StatusOf(op) == CASE op = "ready" -> "Ready"
                  [] op = "notReady" -> "notReady"
                  [] op = "leave" -> "leave"

SetStatus(s) ==
  /\ req[s].pc = "found" /\ req[s].op \in {"ready", "notReady", "leave"}
  /\ cur[s] \in Listed
  /\ agent' = [agent EXCEPT ![cur[s]].status = StatusOf(req[s].op)]
  /\ MoveTo(s, Begin)
  /\ Answered(s)
  /\ Overtake(s, IF req[s].op = "ready" THEN "given" ELSE "taken")
  /\ UNCHANGED <<proc, m_listAgent, held, raced>>

\* makecall() with the agent found: its uuid is read, and "api uuid_answer
\* <uuid>" sent over the control connection.
Makecall(s) ==
  /\ req[s].pc = "found" /\ req[s].op = "makecall"
  /\ cur[s] \in Listed
  /\ MoveTo(s, Begin)
  /\ Goto(s, "calling")
  /\ UNCHANGED <<proc, m_listAgent, agent, held, overtaken, raced>>

\* FreeSWITCH replies, or the connection is lost.
Replied(s) ==
  /\ req[s].pc = "calling"
  /\ Answered(s)
  /\ UNCHANGED <<raced, listVars>>

\* A step of the code of session thread s.
SessionStep(s) ==
  \/ Lookup(s) \/ NotFound(s) \/ Login(s) \/ Relogin(s) \/ ReloginReady(s)
  \/ Logout(s) \/ SetStatus(s) \/ Makecall(s)
  \/ Stray(s) /\ UNCHANGED apiVars

ApiInit ==
  /\ req = [s \in Session |-> Idle]
  /\ raced = {}

ApiTypeOK ==
  /\ req \in [Session -> Request]
  /\ raced \subseteq Dn
=============================================================================
