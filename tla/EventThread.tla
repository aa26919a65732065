----------------------------- MODULE EventThread -----------------------------
(***************************************************************************)
(* eventThreadFun: follows the channel events of FreeSWITCH and keeps the  *)
(* uuid and the status of the agent a channel was created for.  FreeSWITCH *)
(* itself (Ring, HangUp) is the environment: it sends CHANNEL_CREATE and   *)
(* later CHANNEL_HANGUP_COMPLETE for a channel, in that order, over the    *)
(* one control connection.  The other events are only logged.              *)
(***************************************************************************)
EXTENDS AgentList

ASSUME DownAssumption == "down" \notin Dn \cup {None}

VARIABLES
  channel,  \* the dn a channel rings, None before and "down" after
  events,   \* sent by FreeSWITCH and not yet received
  evt,      \* what the event thread is doing
  strayed   \* history: the channels an event of which was received by
            \* another thread than the event thread

evtVars == <<channel, events, evt, strayed>>

Event == [event_id : {"CREATE", "HANGUP_COMPLETE"}, uuid : Channel, dest : Dn]
NoEvent == [event_id |-> "NONE", uuid |-> None, dest |-> None]
Waiting == [pc |-> "recv", ev |-> NoEvent]

Ring(k, d) ==
  /\ channel[k] = None
  /\ channel' = [channel EXCEPT ![k] = d]
  /\ events' = Append(events, [event_id |-> "CREATE", uuid |-> k, dest |-> d])
  /\ UNCHANGED <<evt, strayed, listVars>>

HangUp(k) ==
  /\ channel[k] \in Dn
  /\ channel' = [channel EXCEPT ![k] = "down"]
  /\ events' = Append(events, [event_id |-> "HANGUP_COMPLETE", uuid |-> k,
                               dest |-> channel[k]])
  /\ UNCHANGED <<evt, strayed, listVars>>

\* esl_recv_event_timed returns ESL_SUCCESS.
RecvEvent ==
  /\ evt.pc = "recv"
  /\ events # <<>>
  /\ evt' = [pc |-> "find", ev |-> Head(events)]
  /\ events' = Tail(events)
  /\ UNCHANGED <<channel, strayed, listVars>>

\* Mutant of FindDest: the agent found is the first on the list.
FindFirst ==
  /\ evt.pc = "find"
  /\ \E y \in Node : Leads(cur[Listener], y) /\ MoveTo(Listener, y)
  /\ evt' = [evt EXCEPT !.pc = "found"]
  /\ UNCHANGED <<proc, m_listAgent, agent, held, overtaken, channel, events,
                 strayed>>

\* One node of the search for the agent whose dn is the event's destination.
FindDest ==
  /\ evt.pc = "find"
  /\ \E y \in Node : /\ Leads(cur[Listener], y)
                     /\ MoveTo(Listener, y)
                     /\ IF agent[y].dn = evt.ev.dest
                        THEN evt' = [evt EXCEPT !.pc = "found"]
                        ELSE UNCHANGED evt
  /\ UNCHANGED <<proc, m_listAgent, agent, held, overtaken, channel, events,
                 strayed>>

NoDest ==
  /\ evt.pc = "find"
  /\ Leads(cur[Listener], None)
  /\ MoveTo(Listener, Begin)
  /\ evt' = Waiting
  /\ UNCHANGED <<proc, m_listAgent, agent, held, overtaken, channel, events,
                 strayed>>

\* CHANNEL_CREATE: (*it)->setUUID(uuid)
SetUuid ==
  /\ evt.pc = "found" /\ evt.ev.event_id = "CREATE"
  /\ cur[Listener] \in Listed
  /\ agent' = [agent EXCEPT ![cur[Listener]].uuid = evt.ev.uuid]
  /\ MoveTo(Listener, Begin)
  /\ evt' = Waiting
  /\ UNCHANGED <<proc, m_listAgent, held, overtaken, channel, events,
                 strayed>>

\* Mutant of HangupComplete: the uuid is kept.
HangupKeepsUuid ==
  /\ evt.pc = "found" /\ evt.ev.event_id = "HANGUP_COMPLETE"
  /\ cur[Listener] \in Listed
  /\ agent' = [agent EXCEPT ![cur[Listener]].status = "Ready"]
  /\ MoveTo(Listener, Begin)
  /\ Overtake(Listener, "given")
  /\ evt' = Waiting
  /\ UNCHANGED <<proc, m_listAgent, held, channel, events, strayed>>

\* CHANNEL_HANGUP_COMPLETE: setAgentStatus(Ready), setUUID("")
HangupComplete ==
  /\ evt.pc = "found" /\ evt.ev.event_id = "HANGUP_COMPLETE"
  /\ cur[Listener] \in Listed
  /\ agent' = [agent EXCEPT ![cur[Listener]].status = "Ready",
                            ![cur[Listener]].uuid = None]
  /\ MoveTo(Listener, Begin)
  /\ Overtake(Listener, "given")
  /\ evt' = Waiting
  /\ UNCHANGED <<proc, m_listAgent, held, channel, events, strayed>>

\* esl_send_recv() in a REST thread: an event that comes before the reply goes
\* to the queue of m_handle, a copy of the event thread's handle with the same
\* socket, and nobody reads it there.  Events may wait in front of it in the
\* queue of the event thread's own handle (ControlLink).
Diverted ==
  /\ \E i \in DOMAIN events :
       /\ events' = RemoveAt(events, i)
       /\ strayed' = strayed \cup {events[i].uuid}
  /\ UNCHANGED <<channel, evt, listVars>>

EventStep ==
  \/ RecvEvent \/ FindDest \/ NoDest \/ SetUuid \/ HangupComplete
  \/ Stray(Listener) /\ UNCHANGED evtVars

FreeSwitch == \E k \in Channel : HangUp(k) \/ \E d \in Dn : Ring(k, d)

EventInit ==
  /\ channel = [k \in Channel |-> None]
  /\ events = <<>>
  /\ evt = Waiting
  /\ strayed = {}

EventTypeOK ==
  /\ channel \in [Channel -> Dn \cup {None, "down"}]
  /\ events \in Seq(Event)
  /\ evt \in [pc : {"recv", "find", "found"}, ev : Event \cup {NoEvent}]
  /\ strayed \subseteq Channel
=============================================================================
