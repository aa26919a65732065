----------------------------- MODULE CallCenter -----------------------------
(***************************************************************************)
(* The call service: REST sessions, ACD threads and the event thread over  *)
(* the shared agent list.  No lock orders their steps.                     *)
(***************************************************************************)
EXTENDS AgentApi, AcdCall, EventThread

vars == <<listVars, apiVars, acdVars, evtVars>>

Init == ListInit /\ ApiInit /\ AcdInit /\ EventInit

Alive == proc # "dead"

\* esl_send_recv() of a makecall receives an event before the reply.
TakesEvent == (\E s \in Session : req[s].pc = "calling") /\ Diverted

\* What the threads are about to do to the list and to the strings of Agents.
Relinks(s) ==
  \/ req[s].pc = "push"
  \/ req[s].pc = "found" /\ req[s].op = "logout"
Renames(s, n) == req[s].pc = "found" /\ req[s].op = "login" /\ cur[s] = n
PrintsNames(s) ==
  \/ Relinks(s)
  \/ req[s].pc = "setReady"
  \/ req[s].pc = "find" /\ req[s].op = "logout" /\ Leads(cur[s], None)
WritesUuid(n) == evt.pc = "found" /\ cur[Listener] = n
ReadsUuid(n) ==
  \/ \E s \in Session : req[s].pc = "found" /\ req[s].op = "makecall" /\ cur[s] = n
  \/ \E c \in Caller : acd[c] = "choose" /\ Leads(cur[c], n)

\* Two of them do it at once: links are lost, a string is read or freed while
\* it is being replaced.
DataRace ==
  /\ \/ \E s, t \in Session : s # t /\ Relinks(s) /\ Relinks(t)
     \/ \E s, t \in Session, n \in Listed :
          s # t /\ Renames(s, n) /\ (Renames(t, n) \/ PrintsNames(t))
     \/ \E n \in Listed : WritesUuid(n) /\ ReadsUuid(n)
  /\ proc' \in {"undefined", "dead"}
  /\ UNCHANGED <<m_listAgent, agent, cur, held, overtaken, apiVars, acdVars, evtVars>>

Api(s) == (Receive(s) \/ SessionStep(s) \/ Replied(s)) /\ UNCHANGED <<acdVars, evtVars>>
Acd(c) == CallerStep(c) /\ UNCHANGED <<apiVars, evtVars>>
Events == (EventStep \/ FreeSwitch \/ TakesEvent) /\ UNCHANGED <<apiVars, acdVars>>

Next ==
  /\ Alive
  /\ \/ \E s \in Session : Api(s)
     \/ \E c \in Caller : Acd(c)
     \/ Events
     \/ DataRace

Spec == Init /\ [][Next]_vars

\* Every thread keeps running; clients, callers and FreeSWITCH, which has to
\* answer a makecall, need not.
Fairness ==
  /\ \A s \in Session :
       WF_vars(Alive /\ SessionStep(s) /\ UNCHANGED <<acdVars, evtVars>>)
  /\ \A c \in Caller :
       WF_vars(Alive /\ (Answer(c) \/ Poll(c) \/ PollStep(c))
                     /\ UNCHANGED <<apiVars, evtVars>>)
  /\ WF_vars(Alive /\ EventStep /\ UNCHANGED <<apiVars, acdVars>>)

FairSpec == Spec /\ Fairness
-----------------------------------------------------------------------------
TypeOK == ListTypeOK /\ ApiTypeOK /\ AcdTypeOK /\ EventTypeOK

Sound == proc = "sound"

\* At most one entry of the list has a given dn, unless two logins of that
\* dn both searched the list before either pushed (CRestfulServer.cpp:126-139).
UniqueDn ==
  Sound => \A i, j \in DOMAIN m_listAgent :
             /\ agent[m_listAgent[i]].dn = agent[m_listAgent[j]].dn
             /\ agent[m_listAgent[i]].dn \notin raced
             => i = j

\* Why UniqueDn holds, as an inductive invariant.  A search that has got to
\* place i has met the dn it looks for at none of the places up to i, and
\* since push_back only adds behind it, a login about to push knows that its
\* dn is on the list nowhere.
NodesDistinct ==
  \A i, j \in DOMAIN m_listAgent : m_listAgent[i] = m_listAgent[j] => i = j

SearchesStartAtBegin ==
  \A s \in Session :
    req[s].pc \in {"idle", "push", "setReady", "calling"} => cur[s] = Begin

CursorsOnList ==
  \A s \in Session : cur[s] \in Listed \cup {Begin, Dangling}

SearchedSoFar ==
  Sound => \A s \in Session : \A i, j \in DOMAIN m_listAgent :
             req[s].pc = "find" /\ cur[s] = m_listAgent[i] /\ j <= i
             => agent[m_listAgent[j]].dn # req[s].dn

PushIsNew ==
  Sound => \A s \in Session :
             req[s].pc = "push" /\ req[s].dn \notin raced
             => \A i \in DOMAIN m_listAgent : agent[m_listAgent[i]].dn # req[s].dn

\* The walks of concurrent searches and the pushes that follow them add up to
\* one entry a dn (CRestfulServer.cpp:126-139).
UniqueDnInductive ==
  /\ NodesDistinct
  /\ SearchesStartAtBegin
  /\ CursorsOnList
  /\ SearchedSoFar
  /\ PushIsNew
  /\ UniqueDn

\* A uuid an agent shows is of a channel whose hangup the event thread has
\* not finished with: no stale uuid outlives its call, unless a makecall
\* received the hangup in the event thread's place
\* (CallService.cpp:152, 233-292).
UuidIsLive ==
  Sound => \A n \in Listed, k \in Channel :
             agent[n].uuid = k =>
               \/ channel[k] \in Dn \/ k \in strayed
               \/ evt.pc # "recv" /\ evt.ev.uuid = k
               \/ \E i \in DOMAIN events : /\ events[i].uuid = k
                                           /\ events[i].event_id = "HANGUP_COMPLETE"

\* While its channel is up, the uuid an agent shows is replaced or cleared only
\* by an event of another channel to the same dn.  The second is what happens
\* when the first of two calls to an agent ends (CallService.cpp:238, 285-286).
UuidKept ==
  [][\A n \in Node, k \in Channel :
       /\ agent[n].uuid = k /\ channel[k] \in Dn /\ agent'[n].uuid # k
       /\ n \in Listed /\ n \in Listed' /\ Sound'
       => /\ evt.pc = "found" /\ evt.ev.uuid # k
          /\ evt.ev.dest = agent[n].dn]_vars

\* Why UuidIsLive and UuidKept hold, as an inductive invariant.  A channel's
\* events go to one dn and reach the event thread in order, unless a makecall
\* receives them; the search for the dn finds the first agent that has it, and
\* as push_back adds behind it, the CREATE and the HANGUP_COMPLETE of a channel
\* find the same agent while it is listed.
EventOf(e, kind, k, d) == e.event_id = kind /\ e.uuid = k /\ e.dest = d

\* What is still to come for channel k, after the i-th event: its hangup.
EndsAfter(i, k, d) ==
  \/ k \in strayed
  \/ channel[k] \in Dn /\ channel[k] = d
  \/ \E j \in DOMAIN events : j > i /\ EventOf(events[j], "HANGUP_COMPLETE", k, d)

InHand(kind, k, d) == evt.pc # "recv" /\ EventOf(evt.ev, kind, k, d)

CreatesEnd ==
  \A k \in Channel, d \in Dn :
    /\ InHand("CREATE", k, d) => EndsAfter(0, k, d)
    /\ \A i \in DOMAIN events :
         EventOf(events[i], "CREATE", k, d) => EndsAfter(i, k, d)

HangupsAreDown ==
  \A k \in Channel, d \in Dn :
    \/ InHand("HANGUP_COMPLETE", k, d)
    \/ \E i \in DOMAIN events : EventOf(events[i], "HANGUP_COMPLETE", k, d)
    => channel[k] = "down"

DestSearched ==
  /\ evt.pc = "recv" => cur[Listener] = Begin
  /\ evt.pc # "recv" => evt.ev \in Event
  /\ cur[Listener] \in Listed \cup {Begin, Dangling}
  /\ Sound => \A i, j \in DOMAIN m_listAgent :
       cur[Listener] = m_listAgent[i] =>
         /\ evt.pc = "find" /\ j <= i => agent[m_listAgent[j]].dn # evt.ev.dest
         /\ evt.pc = "found" => /\ agent[m_listAgent[i]].dn = evt.ev.dest
                                /\ j < i => agent[m_listAgent[j]].dn # evt.ev.dest

UuidsEnd ==
  Sound => \A i \in DOMAIN m_listAgent, k \in Channel :
    agent[m_listAgent[i]].uuid = k =>
      /\ \/ InHand("HANGUP_COMPLETE", k, agent[m_listAgent[i]].dn)
         \/ EndsAfter(0, k, agent[m_listAgent[i]].dn)
      /\ \A j \in DOMAIN m_listAgent :
           j < i => agent[m_listAgent[j]].dn # agent[m_listAgent[i]].dn

\* The hangup of a channel finds the agent that shows its uuid, if anyone
\* receives it (CallService.cpp:238-292).
EventInductive ==
  /\ NodesDistinct
  /\ CreatesEnd
  /\ HangupsAreDown
  /\ DestSearched
  /\ UuidsEnd

\* The promise to the REST clients.  Its table is the list, read by dn; it is
\* void once a thread is left at a freed node or behaviour was undefined.
Void == ~Sound \/ \E t \in Thread : cur[t] = Dangling

StatusIn(d) ==
  IF Void \/ d \in raced THEN "unknown"
  ELSE IF \E n \in Listed : agent[n].dn = d
       THEN agent[CHOOSE n \in Listed : agent[n].dn = d].status
       ELSE "absent"

Directory == INSTANCE AgentDirectory WITH
  dir <- [d \in Dn |-> StatusIn(d)],
  pending <- [s \in Session |-> IF req[s].pc = "idle" THEN [op |-> "none", dn |-> None]
                               ELSE [op |-> req[s].op, dn |-> req[s].dn]]

\* Every request of a REST client acts on the list as on that table: a dn is
\* refused as not found only while it is absent, and a status a client set
\* stays until a request or a hangup changes it
\* (CRestfulServer.cpp:115-247, CallService.cpp:281-291).
IsDirectory == Directory!DirSpec

\* What a call in get_available_agent() may rely on, as an inductive
\* invariant.  Every place its walk has passed failed the test, until another
\* thread makes an agent due or Ready; the agent it is at passed, until
\* another thread takes the turn or makes the agent not Ready.
Unavailable(n) == agent[n].polling \/ agent[n].status # "Ready"

PollAtRest(c) ==
  /\ acd[c] \in InPoll => overtaken[c] # {}
  /\ acd[c] \notin InPoll => cur[c] = Begin
  /\ cur[c] \in Listed \cup {Begin, Dangling}
  /\ held[c] # None => acd[c] = "bridge"

TestedSoFar(c) ==
  Sound /\ "given" \notin overtaken[c] =>
    \A i, j \in DOMAIN m_listAgent :
      cur[c] = m_listAgent[i] =>
        /\ acd[c] = "exhausted" /\ j <= i => agent[m_listAgent[j]].polling
        /\ acd[c] = "choose" /\ j <= i => Unavailable(m_listAgent[j])
        /\ acd[c] \in {"ready", "claim"} /\ j < i => Unavailable(m_listAgent[j])

StillDue(c) ==
  Sound /\ "taken" \notin overtaken[c] /\ cur[c] \in Listed =>
    /\ acd[c] \in {"ready", "claim"} => ~agent[cur[c]].polling
    /\ acd[c] = "claim" => agent[cur[c]].status = "Ready"

\* Each walk knows what it has tested, and a call holds an agent only between
\* claiming it and bridging to it (CallService.cpp:456-480, 381-441).
PollInductive ==
  /\ NodesDistinct
  /\ \A c \in Caller : PollAtRest(c) /\ TestedSoFar(c) /\ StillDue(c)

\* Turns are given back only when every agent has had its own, unless
\* another thread changed the list or a flag during the walk
\* (CallService.cpp:460-466).
ResetOnlyWhenExhausted ==
  [][\A c \in Caller :
       /\ acd[c] = "exhausted" /\ acd'[c] = "reset"
       /\ "given" \notin overtaken[c] /\ Sound
       => \A n \in Listed : agent[n].polling]_vars

\* get_available_agent() returns no agent only if none was both Ready and
\* due, unless another thread made one so behind the walk
\* (CallService.cpp:468-479).
NoAgentMissed ==
  [][\A c \in Caller :
       /\ acd[c] \in InPoll /\ acd'[c] = "recv"
       /\ "given" \notin overtaken[c] /\ Sound
       => \A n \in Listed : Unavailable(n)]_vars

\* The agent a caller claims is Ready and due, unless another thread changed
\* that behind the walk: took the turn first, or made the agent not Ready
\* (CallService.cpp:472-475).
ClaimIsDue ==
  [][\A c \in Caller :
       /\ acd[c] = "claim" /\ acd'[c] = "bridge"
       /\ "taken" \notin overtaken[c] /\ Sound
       => ~agent[cur[c]].polling /\ agent[cur[c]].status = "Ready"]_vars

\* A turn, once taken, comes back only when all are used up or the agent logs
\* in again: the call that took it has left its loop, and reset_agents() after
\* a failed bridge or a hangup has no agent (CallService.cpp:401, 416-441).
TurnsComeBack ==
  [][\A n \in Node :
       n \in Listed /\ n \in Listed' /\ agent[n].polling /\ ~agent'[n].polling
       => \/ \E c \in Caller : acd[c] = "reset" /\ cur'[c] = n
          \/ \E s \in Session : req[s].pc = "found" /\ cur[s] = n]_vars

\* Some agent is Ready, and none who is due is not.
Servable ==
  /\ \E n \in Listed : agent[n].status = "Ready"
  /\ \A n \in Listed : agent[n].polling \/ agent[n].status = "Ready"

NoNewCall ==
  \A c \in Caller : acd[c] # "dial" => acd'[c] # "dial"

\* A waiting call is bridged or gone in the end, if from some point on the
\* list is servable and no more calls come in to overtake it.  An agent who
\* is due but not Ready would hold everyone up: get_available_agent() then
\* neither resets nor finds one (CallService.cpp:456-480).  Callers being
\* interchangeable, the property is stated of one of them.
CallerServed ==
  LET c == CHOOSE c \in Caller : TRUE
  IN  []Sound /\ <>[]Servable /\ <>[][NoNewCall]_vars =>
         ((acd[c] = "recv") ~> (acd[c] \in {"bridged", "hungup"}))
=============================================================================
