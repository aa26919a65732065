------------------------------ MODULE EventProofs ------------------------------
(***************************************************************************)
(* Proofs about the event thread, for any threads, nodes, dns and          *)
(* channels: EventInductive, and the two properties of uuids.              *)
(***************************************************************************)
EXTENDS AcdProofs

\* The events queued and in hand, and what they say of the channels.
Flow == CreatesEnd /\ HangupsAreDown

\* A step by which no event arrives: one may be done with.
NoEventArrives ==
  /\ UNCHANGED <<channel, events, strayed>>
  /\ evt'.pc # "recv" => evt.pc # "recv" /\ evt'.ev = evt.ev

LEMMA NoEventKeepsFlow ==
  ASSUME Flow, NoEventArrives
  PROVE  /\ Flow'
         /\ \A i, k, d : EndsAfter(i, k, d)' = EndsAfter(i, k, d)
<1>1. \A i, k, d : EndsAfter(i, k, d)' = EndsAfter(i, k, d)
  BY DEF EndsAfter, NoEventArrives
<1>2. \A kind, k, d : InHand(kind, k, d)' => InHand(kind, k, d)
  BY DEF InHand, NoEventArrives, EventOf
<1>3. CreatesEnd'
  BY <1>1, <1>2 DEF Flow, CreatesEnd, NoEventArrives, EndsAfter, InHand, EventOf
<1>4. HangupsAreDown'
  BY <1>2 DEF Flow, HangupsAreDown, NoEventArrives, InHand, EventOf
<1>5. QED
  BY <1>1, <1>3, <1>4 DEF Flow

\* The event thread receives the next event.
LEMMA RecvKeepsFlow ==
  ASSUME TypeOK, Flow, RecvEvent
  PROVE  /\ Flow'
         /\ \A k \in Channel : \A d :
              EndsAfter(0, k, d) =>
                EndsAfter(0, k, d)' \/ InHand("HANGUP_COMPLETE", k, d)'
<1>1. /\ events \in Seq(Event) /\ events' \in Seq(Event) /\ events # <<>>
      /\ Len(events') = Len(events) - 1
      /\ \A i \in 1..Len(events') : events'[i] = events[i + 1]
  BY HeadTailProperties DEF TypeOK, RecvEvent, EventTypeOK
<1>2. /\ evt'.pc = "find" /\ evt'.ev = events[1] /\ 1 \in DOMAIN events
      /\ UNCHANGED <<channel, strayed>>
  BY <1>1 DEF RecvEvent
<1>3. \A j \in DOMAIN events : j - 1 \in Nat /\ (j > 1 => j - 1 \in DOMAIN events'
                                                         /\ events'[j - 1] = events[j])
  BY <1>1
<1>4. \A i \in DOMAIN events' : i \in Nat /\ i + 1 \in DOMAIN events /\ events'[i] = events[i + 1]
  BY <1>1
<1>5. ASSUME NEW k \in Channel, NEW d, NEW i \in Nat, EndsAfter(i + 1, k, d)
      PROVE  EndsAfter(i, k, d)'
  <2>1. CASE k \in strayed \/ (channel[k] \in Dn /\ channel[k] = d)
    BY <1>2, <2>1 DEF EndsAfter
  <2>2. CASE \E j \in DOMAIN events :
               j > i + 1 /\ EventOf(events[j], "HANGUP_COMPLETE", k, d)
    <3>1. PICK j \in DOMAIN events :
            j > i + 1 /\ EventOf(events[j], "HANGUP_COMPLETE", k, d)
      BY <2>2
    <3>2. j > 1 /\ j - 1 > i
      BY <1>1, <3>1
    <3>3. QED
      BY <1>3, <3>1, <3>2 DEF EndsAfter, EventOf
  <2>3. QED
    BY <1>5, <2>1, <2>2 DEF EndsAfter
<1>6. ASSUME NEW k \in Channel, NEW d, EndsAfter(0, k, d)
      PROVE  EndsAfter(0, k, d)' \/ InHand("HANGUP_COMPLETE", k, d)'
  <2>1. CASE k \in strayed \/ (channel[k] \in Dn /\ channel[k] = d)
    BY <1>2, <2>1 DEF EndsAfter
  <2>2. CASE \E j \in DOMAIN events :
               j > 0 /\ EventOf(events[j], "HANGUP_COMPLETE", k, d)
    <3>1. PICK j \in DOMAIN events : EventOf(events[j], "HANGUP_COMPLETE", k, d)
      BY <2>2
    <3>2. CASE j = 1
      BY <1>2, <3>1, <3>2 DEF InHand, EventOf
    <3>3. CASE j > 1
      <4>1. j - 1 > 0
        BY <1>1, <3>3
      <4>2. QED
        BY <1>3, <3>1, <3>3, <4>1 DEF EndsAfter, EventOf
    <3>4. j = 1 \/ j > 1
      BY <1>1
    <3>5. QED
      BY <3>2, <3>3, <3>4
  <2>3. QED
    BY <1>6, <2>1, <2>2 DEF EndsAfter
<1>7. CreatesEnd'
  <2> SUFFICES ASSUME NEW k \in Channel, NEW d \in Dn
               PROVE  /\ InHand("CREATE", k, d)' => EndsAfter(0, k, d)'
                      /\ \A i \in DOMAIN events' :
                           EventOf(events'[i], "CREATE", k, d) => EndsAfter(i, k, d)'
    BY DEF CreatesEnd, InHand, EndsAfter, EventOf
  <2>1. ASSUME InHand("CREATE", k, d)'
        PROVE  EndsAfter(0, k, d)'
    <3>1. EndsAfter(1, k, d)
      BY <1>2, <2>1 DEF Flow, CreatesEnd, InHand, EventOf
    <3>2. QED
      BY <1>5, <3>1
  <2>2. ASSUME NEW i \in DOMAIN events', EventOf(events'[i], "CREATE", k, d)
        PROVE  EndsAfter(i, k, d)'
    <3>1. EndsAfter(i + 1, k, d)
      BY <1>4, <2>2 DEF Flow, CreatesEnd
    <3>2. QED
      BY <1>4, <1>5, <3>1
  <2>3. QED
    BY <2>1, <2>2
<1>8. HangupsAreDown'
  BY <1>2, <1>4 DEF Flow, HangupsAreDown, InHand, EventOf
<1>9. QED
  BY <1>6, <1>7, <1>8 DEF Flow

\* A makecall receives an event of the queue, and notes its channel.
LEMMA DivertedKeepsFlow ==
  ASSUME TypeOK, Flow, Diverted
  PROVE  /\ Flow'
         /\ \A k \in Channel : \A d : EndsAfter(0, k, d) => EndsAfter(0, k, d)'
<1>1. PICK h \in DOMAIN events : /\ events' = RemoveAt(events, h)
                                 /\ strayed' = strayed \cup {events[h].uuid}
                                 /\ UNCHANGED <<channel, evt>>
  BY DEF Diverted
<1>2. /\ events \in Seq(Event) /\ events' \in Seq(Event) /\ h \in 1..Len(events)
      /\ Len(events') = Len(events) - 1
      /\ \A j \in 1..Len(events') :
           events'[j] = IF j < h THEN events[j] ELSE events[j + 1]
  <2>1. events \in Seq(Event) /\ h \in 1..Len(events)
    BY DEF TypeOK, EventTypeOK
  <2>2. QED
    BY <1>1, <2>1, RemoveAtProperties
<1>3. ASSUME NEW i \in DOMAIN events'
      PROVE  /\ i \in Nat
             /\ \E l \in DOMAIN events : /\ l = IF i < h THEN i ELSE i + 1
                                         /\ events'[i] = events[l]
  BY <1>2
<1>4. ASSUME NEW k \in Channel, NEW d, NEW i \in Nat, NEW l \in Nat,
             l = IF i < h THEN i ELSE i + 1, EndsAfter(l, k, d)
      PROVE  EndsAfter(i, k, d)'
  <2>1. CASE k \in strayed \/ (channel[k] \in Dn /\ channel[k] = d)
    BY <1>1, <2>1 DEF EndsAfter
  <2>2. CASE \E j \in DOMAIN events :
               j > l /\ EventOf(events[j], "HANGUP_COMPLETE", k, d)
    <3>1. PICK j \in DOMAIN events :
            j > l /\ EventOf(events[j], "HANGUP_COMPLETE", k, d)
      BY <2>2
    <3>2. j \in 1..Len(events)
      BY <1>2
    <3>3. CASE j = h
      BY <1>1, <3>1, <3>3 DEF EndsAfter, EventOf
    <3>4. CASE j < h
      <4>1. i < h
        BY <1>2, <1>4, <3>1, <3>2, <3>4
      <4>2. j \in 1..Len(events') /\ j > i
        BY <1>2, <1>4, <3>1, <3>2, <3>4, <4>1
      <4>3. j \in DOMAIN events' /\ events'[j] = events[j]
        BY <1>2, <3>4, <4>2
      <4>4. QED
        BY <3>1, <4>2, <4>3 DEF EndsAfter, EventOf
    <3>5. CASE j > h
      <4>1. j - 1 \in 1..Len(events') /\ ~(j - 1 < h) /\ (j - 1) + 1 = j /\ j - 1 > i
        BY <1>2, <1>4, <3>1, <3>2, <3>5
      <4>2. j - 1 \in DOMAIN events' /\ events'[j - 1] = events[j]
        BY <1>2, <4>1
      <4>3. QED
        BY <3>1, <4>1, <4>2 DEF EndsAfter, EventOf
    <3>6. QED
      BY <1>2, <3>2, <3>3, <3>4, <3>5
  <2>3. QED
    BY <1>4, <2>1, <2>2 DEF EndsAfter
<1>5. ASSUME NEW k \in Channel, NEW d, EndsAfter(0, k, d)
      PROVE  EndsAfter(0, k, d)'
  <2>1. 0 = IF 0 < h THEN 0 ELSE 0 + 1
    BY <1>2
  <2>2. QED
    BY <1>4, <1>5, <2>1
<1>6. CreatesEnd'
  <2> SUFFICES ASSUME NEW k \in Channel, NEW d \in Dn
               PROVE  /\ InHand("CREATE", k, d)' => EndsAfter(0, k, d)'
                      /\ \A i \in DOMAIN events' :
                           EventOf(events'[i], "CREATE", k, d) => EndsAfter(i, k, d)'
    BY DEF CreatesEnd, InHand, EndsAfter, EventOf
  <2>1. InHand("CREATE", k, d)' => EndsAfter(0, k, d)'
    BY <1>1, <1>5 DEF Flow, CreatesEnd, InHand
  <2>2. ASSUME NEW i \in DOMAIN events', EventOf(events'[i], "CREATE", k, d)
        PROVE  EndsAfter(i, k, d)'
    <3>1. PICK l \in DOMAIN events : /\ l = IF i < h THEN i ELSE i + 1
                                     /\ events'[i] = events[l]
      BY <1>3
    <3>2. EndsAfter(l, k, d)
      BY <2>2, <3>1 DEF Flow, CreatesEnd
    <3>3. i \in Nat /\ l \in Nat
      BY <1>2, <1>3
    <3>4. QED
      BY <1>4, <3>1, <3>2, <3>3
  <2>3. QED
    BY <2>1, <2>2
<1>7. HangupsAreDown'
  BY <1>1, <1>3 DEF Flow, HangupsAreDown, InHand, EventOf
<1>8. QED
  BY <1>5, <1>6, <1>7 DEF Flow

\* FreeSWITCH sends an event: behind the CREATE of a channel its hangup is
\* still to come, and the hangup comes when it goes down.
LEMMA FreeSwitchKeepsFlow ==
  ASSUME TypeOK, Flow, FreeSwitch
  PROVE  /\ Flow'
         /\ \A k \in Channel : \A d : EndsAfter(0, k, d) => EndsAfter(0, k, d)'
<1>0. PICK last \in Nat : last = Len(events) + 1
  BY DEF TypeOK, EventTypeOK
<1>1. PICK k0 \in Channel, d0 \in Dn :
        /\ \/ /\ channel[k0] = None
              /\ channel' = [channel EXCEPT ![k0] = d0]
              /\ events' = Append(events, [event_id |-> "CREATE", uuid |-> k0, dest |-> d0])
           \/ /\ channel[k0] = d0
              /\ channel' = [channel EXCEPT ![k0] = "down"]
              /\ events' = Append(events, [event_id |-> "HANGUP_COMPLETE", uuid |-> k0,
                                           dest |-> d0])
        /\ UNCHANGED <<evt, strayed>>
  BY DEF FreeSwitch, Ring, HangUp
<1>2. /\ events \in Seq(Event) /\ channel \in [Channel -> Dn \cup {None, "down"}]
      /\ DOMAIN events' = DOMAIN events \cup {last}
      /\ \A i \in DOMAIN events : i \in Nat /\ i < last /\ events'[i] = events[i]
      /\ \/ channel[k0] = None /\ channel'[k0] = d0 /\ EventOf(events'[last], "CREATE", k0, d0)
         \/ /\ channel[k0] = d0 /\ channel'[k0] = "down"
            /\ EventOf(events'[last], "HANGUP_COMPLETE", k0, d0)
      /\ \A k \in Channel \ {k0} : channel'[k] = channel[k]
  <2>1. events \in Seq(Event) /\ channel \in [Channel -> Dn \cup {None, "down"}]
    BY DEF TypeOK, EventTypeOK
  <2>2. PICK e \in Event : events' = Append(events, e) /\ e.uuid = k0 /\ e.dest = d0
                           /\ \/ channel[k0] = None /\ e.event_id = "CREATE"
                                 /\ channel' = [channel EXCEPT ![k0] = d0]
                              \/ channel[k0] = d0 /\ e.event_id = "HANGUP_COMPLETE"
                                 /\ channel' = [channel EXCEPT ![k0] = "down"]
    BY <1>1 DEF Event
  <2>3. /\ DOMAIN events' = DOMAIN events \cup {last}
        /\ \A i \in DOMAIN events : i \in Nat /\ i < last /\ events'[i] = events[i]
        /\ events'[last] = e
    BY <1>0, <2>1, <2>2, AppendProperties
  <2>4. QED
    BY <2>1, <2>2, <2>3 DEF EventOf
<1>3. ASSUME NEW k \in Channel, NEW d, NEW i \in Nat, i < last, EndsAfter(i, k, d)
      PROVE  EndsAfter(i, k, d)'
  <2>1. CASE k \in strayed
    BY <1>1, <2>1 DEF EndsAfter
  <2>2. CASE channel[k] \in Dn /\ channel[k] = d
    <3>1. CASE k # k0 \/ channel'[k0] = d
      BY <1>2, <2>2, <3>1 DEF EndsAfter
    <3>2. CASE k = k0 /\ channel'[k0] # d
      <4>1. d = d0 /\ EventOf(events'[last], "HANGUP_COMPLETE", k, d)
        BY <1>2, <2>2, <3>2, NameAssumption
      <4>2. QED
        BY <1>2, <1>3, <4>1 DEF EndsAfter, EventOf
    <3>3. QED
      BY <3>1, <3>2
  <2>3. CASE \E j \in DOMAIN events :
               j > i /\ EventOf(events[j], "HANGUP_COMPLETE", k, d)
    BY <1>2, <2>3 DEF EndsAfter, EventOf
  <2>4. QED
    BY <1>3, <2>1, <2>2, <2>3 DEF EndsAfter
<1>4. CreatesEnd'
  <2> SUFFICES ASSUME NEW k \in Channel, NEW d \in Dn
               PROVE  /\ InHand("CREATE", k, d)' => EndsAfter(0, k, d)'
                      /\ \A i \in DOMAIN events' :
                           EventOf(events'[i], "CREATE", k, d) => EndsAfter(i, k, d)'
    BY DEF CreatesEnd, InHand, EndsAfter, EventOf
  <2>1. 0 \in Nat /\ 0 < last
    BY <1>0 DEF TypeOK, EventTypeOK
  <2>2. InHand("CREATE", k, d)' => EndsAfter(0, k, d)'
    BY <1>1, <1>3, <2>1 DEF Flow, CreatesEnd, InHand
  <2>3. ASSUME NEW i \in DOMAIN events, EventOf(events'[i], "CREATE", k, d)
        PROVE  EndsAfter(i, k, d)'
    BY <1>2, <1>3, <2>3 DEF Flow, CreatesEnd
  <2>4. ASSUME EventOf(events'[last], "CREATE", k, d)
        PROVE  EndsAfter(last, k, d)'
    <3>1. channel'[k] = d
      BY <1>2, <2>4 DEF EventOf
    <3>2. QED
      BY <3>1 DEF EndsAfter
  <2>5. QED
    BY <1>2, <2>2, <2>3, <2>4
<1>5. HangupsAreDown'
  <2> SUFFICES ASSUME NEW k \in Channel, NEW d \in Dn,
                      \/ InHand("HANGUP_COMPLETE", k, d)'
                      \/ \E i \in DOMAIN events' :
                           EventOf(events'[i], "HANGUP_COMPLETE", k, d)
               PROVE  channel'[k] = "down"
    BY DEF HangupsAreDown, InHand, EventOf
  <2>1. CASE channel[k] = "down"
    BY <1>2, <2>1, DownAssumption
  <2>2. CASE EventOf(events'[last], "HANGUP_COMPLETE", k, d)
    BY <1>2, <2>2 DEF EventOf
  <2>3. CASE \/ InHand("HANGUP_COMPLETE", k, d)'
             \/ \E i \in DOMAIN events : EventOf(events'[i], "HANGUP_COMPLETE", k, d)
    <3>1. channel[k] = "down"
      BY <1>1, <1>2, <2>3 DEF Flow, HangupsAreDown, InHand
    <3>2. QED
      BY <2>1, <3>1
  <2>4. QED
    BY <1>2, <2>2, <2>3
<1>6. 0 \in Nat /\ 0 < last
  BY <1>0 DEF TypeOK, EventTypeOK
<1>7. QED
  BY <1>3, <1>4, <1>5, <1>6 DEF Flow

-----------------------------------------------------------------------------
\* What the agents show of the events.
Shown == DestSearched /\ UuidsEnd

\* What was to come for a channel is still to come.
StillEnds == \A k \in Channel : \A d : EndsAfter(0, k, d) => EndsAfter(0, k, d)'

\* A step that neither relinks the list nor is the event thread's.
QuietStep ==
  /\ m_listAgent' = m_listAgent
  /\ cur'[Listener] = cur[Listener]
  /\ evt' = evt
  /\ Sound' => Sound
  /\ \A n \in Listed : agent'[n].dn = agent[n].dn /\ agent'[n].uuid = agent[n].uuid

LEMMA QuietKeepsShown ==
  ASSUME Shown, QuietStep, StillEnds
  PROVE  Shown'
<1> USE DEF QuietStep
<1>1. \A i \in DOMAIN m_listAgent :
        /\ agent'[m_listAgent[i]].dn = agent[m_listAgent[i]].dn
        /\ agent'[m_listAgent[i]].uuid = agent[m_listAgent[i]].uuid
  BY DEF Listed, ToSet
<1>2. DestSearched'
  BY <1>1 DEF Shown, DestSearched, Listed
<1>3. UuidsEnd'
  BY <1>1 DEF Shown, UuidsEnd, StillEnds, InHand, EventOf
<1>4. QED
  BY <1>2, <1>3 DEF Shown

LEMMA CallersAreQuiet ==
  ASSUME TypeOK, PollInductive, NEW c \in Caller, CallerStep(c), UNCHANGED evtVars
  PROVE  QuietStep
<1> USE DEF QuietStep, evtVars, TypeOK, ListTypeOK, Sound
<1>0. c \in Thread /\ c # Listener /\ Listener \in Thread /\ \A n \in Listed : n \in Node
  BY ThreadAssumption, ListedAreNodes DEF Thread
<1>1. CASE agent' = agent
  BY <1>0, <1>1
  DEF CallerStep, PollStep, Answer, ChannelEvent, Disconnect, Poll, TestExhausted,
      Exhausted, Reset, ResetDone, TestPolling, TestReady, Claim, NoneAvailable,
      Bridge, NextCall, Stray, MoveTo, listVars
<1>2. CASE Reset(c)
  <2>1. PICK y \in Node : MoveTo(c, y) /\ agent' = [agent EXCEPT ![y].polling = FALSE]
    BY <1>2 DEF Reset
  <2>2. \A n \in Node : agent'[n].dn = agent[n].dn /\ agent'[n].uuid = agent[n].uuid
    BY <2>1 DEF Agent
  <2>3. QED
    BY <1>0, <1>2, <2>1, <2>2 DEF Reset, MoveTo
<1>3. CASE Claim(c)
  <2>1. \A n \in Node : agent'[n].dn = agent[n].dn /\ agent'[n].uuid = agent[n].uuid
    BY <1>3 DEF Claim, Agent
  <2>2. QED
    BY <1>0, <1>3, <2>1 DEF Claim, MoveTo
<1>4. CASE Bridge(c)
  <2>1. \A n \in Listed : agent'[n] = agent[n]
    BY <1>0, <1>4 DEF Bridge, Kept
  <2>2. QED
    BY <1>4, <2>1 DEF Bridge
<1>5. CASE ChannelEvent(c)
  <2>1. agent' = agent
    BY <1>5 DEF ChannelEvent, ResetAgents, PollInductive, PollAtRest
  <2>2. QED
    BY <1>1, <2>1
<1>6. QED
  BY <1>1, <1>2, <1>3, <1>4, <1>5
  DEF CallerStep, PollStep, Answer, Disconnect, Poll, TestExhausted, Exhausted,
      ResetDone, TestPolling, TestReady, NoneAvailable, NextCall, Stray, listVars

LEMMA SessionsAreQuiet ==
  ASSUME TypeOK, NEW s \in Session, evt' = evt,
         \/ Receive(s) \/ Lookup(s) \/ NotFound(s) \/ Relogin(s) \/ ReloginReady(s)
         \/ SetStatus(s) \/ Makecall(s) \/ Replied(s) \/ Stray(s)
  PROVE  QuietStep
<1> USE DEF QuietStep, TypeOK, ListTypeOK, Sound
<1>0. s \in Thread /\ s # Listener /\ Listener \in Thread /\ \A n \in Listed : n \in Node
  BY ThreadAssumption, ListedAreNodes DEF Thread
<1>1. CASE \/ Receive(s) \/ Lookup(s) \/ NotFound(s) \/ Makecall(s) \/ Replied(s)
          \/ Stray(s)
  BY <1>0, <1>1 DEF Receive, Lookup, NotFound, Makecall, Replied, Stray, MoveTo, listVars
<1>2. CASE Relogin(s)
  <2>1. \A n \in Node : agent'[n].dn = agent[n].dn /\ agent'[n].uuid = agent[n].uuid
    BY <1>2 DEF Relogin, Agent
  <2>2. QED
    BY <1>0, <1>2, <2>1 DEF Relogin, MoveTo
<1>3. CASE ReloginReady(s)
  <2>1. \A n \in Listed : agent'[n].dn = agent[n].dn /\ agent'[n].uuid = agent[n].uuid
    BY <1>0, <1>3 DEF ReloginReady, Kept, Agent
  <2>2. QED
    BY <1>3, <2>1 DEF ReloginReady
<1>4. CASE SetStatus(s)
  <2>1. agent' = [agent EXCEPT ![cur[s]].status = StatusOf(req[s].op)]
    BY <1>4 DEF SetStatus
  <2>2. \A n \in Node : agent'[n].dn = agent[n].dn /\ agent'[n].uuid = agent[n].uuid
    BY <2>1 DEF Agent
  <2>3. QED
    BY <1>0, <1>4, <2>2 DEF SetStatus, MoveTo
<1>5. QED
  BY <1>1, <1>2, <1>3, <1>4

\* push_back adds behind the search, and behind the agents that show a uuid.
LEMMA PushBackKeepsShown ==
  ASSUME TypeOK, Shown, NEW s \in Session, NEW n \in Fresh, NEW d \in Dn,
         PushBack(s, n, d), UNCHANGED evtVars
  PROVE  Shown'
<1> USE DEF Shown, evtVars
<1>1. n \in Node /\ n \notin Listed
  BY DEF Fresh
<1>2. /\ cur' = cur /\ Sound' = Sound
      /\ m_listAgent' = Append(m_listAgent, n)
      /\ agent' = [agent EXCEPT ![n] = NewAgent(d)]
  BY DEF PushBack, Sound
<1>3. PICK last \in Nat :
        /\ DOMAIN m_listAgent' = DOMAIN m_listAgent \cup {last}
        /\ m_listAgent'[last] = n /\ last \notin DOMAIN m_listAgent
        /\ \A i \in DOMAIN m_listAgent : i \in Nat /\ i < last /\ ~(last < i)
                                         /\ ~(last <= i)
                                         /\ m_listAgent'[i] = m_listAgent[i]
  <2>1. m_listAgent \in Seq(Node)
    BY DEF TypeOK, ListTypeOK
  <2>2. /\ DOMAIN m_listAgent' = 1..(Len(m_listAgent) + 1)
        /\ m_listAgent'[Len(m_listAgent) + 1] = n
        /\ \A i \in DOMAIN m_listAgent : m_listAgent'[i] = m_listAgent[i]
        /\ Len(m_listAgent) + 1 \in Nat
    BY <1>1, <1>2, <2>1, AppendProperties
  <2>3. QED
    BY <2>1, <2>2
<1>4. \A i \in DOMAIN m_listAgent :
        m_listAgent[i] \in Listed /\ agent'[m_listAgent[i]] = agent[m_listAgent[i]]
  BY <1>1, <1>2 DEF TypeOK, ListTypeOK, Listed, ToSet
<1>5. cur[Listener] \in Listed \cup {Begin, Dangling} /\ cur[Listener] # n
      /\ Listed \subseteq Listed'
  BY <1>1, <1>3, NodeAssumption DEF DestSearched, Listed, ToSet
<1>6. DestSearched'
  <2> SUFFICES ASSUME Sound, NEW i \in DOMAIN m_listAgent', NEW j \in DOMAIN m_listAgent',
                      cur[Listener] = m_listAgent'[i]
               PROVE  /\ evt.pc = "find" /\ j <= i
                         => agent'[m_listAgent'[j]].dn # evt.ev.dest
                      /\ evt.pc = "found" =>
                           /\ agent'[m_listAgent'[i]].dn = evt.ev.dest
                           /\ j < i => agent'[m_listAgent'[j]].dn # evt.ev.dest
    BY <1>2, <1>5 DEF DestSearched
  <2>1. i \in DOMAIN m_listAgent
    BY <1>3, <1>5
  <2>2. CASE j \in DOMAIN m_listAgent
    BY <1>3, <1>4, <2>1, <2>2 DEF DestSearched
  <2>3. CASE j = last
    BY <1>3, <1>4, <2>1, <2>3 DEF DestSearched
  <2>4. QED
    BY <1>3, <2>2, <2>3
<1>7. UuidsEnd'
  <2> SUFFICES ASSUME Sound, NEW i \in DOMAIN m_listAgent', NEW k \in Channel,
                      agent'[m_listAgent'[i]].uuid = k
               PROVE  /\ \/ InHand("HANGUP_COMPLETE", k, agent'[m_listAgent'[i]].dn)
                         \/ EndsAfter(0, k, agent'[m_listAgent'[i]].dn)
                      /\ \A j \in DOMAIN m_listAgent' :
                           j < i => agent'[m_listAgent'[j]].dn # agent'[m_listAgent'[i]].dn
    BY <1>2 DEF UuidsEnd, InHand, EndsAfter, EventOf
  <2>1. i # last
    BY <1>1, <1>2, <1>3, NameAssumption DEF NewAgent, Blank, TypeOK, ListTypeOK
  <2>2. i \in DOMAIN m_listAgent
    BY <1>3, <2>1
  <2>3. QED
    BY <1>3, <1>4, <2>2 DEF UuidsEnd
<1>8. QED
  BY <1>6, <1>7

LEMMA EraseKeepsShown ==
  ASSUME TypeOK, NodesDistinct, Shown, NEW s \in Session, Erase(s), UNCHANGED evtVars
  PROVE  Shown'
<1> USE DEF Shown, evtVars
<1>1. s \in Thread /\ Listener \in Thread /\ s # Listener /\ ListTypeOK
  BY ThreadAssumption DEF Thread, TypeOK
<1>2. PICK f \in [DOMAIN m_listAgent' -> DOMAIN m_listAgent] :
        /\ \A i \in DOMAIN m_listAgent' :
             m_listAgent'[i] = m_listAgent[f[i]] /\ m_listAgent'[i] # cur[s]
        /\ \A i, j \in DOMAIN m_listAgent' : i < j => f[i] < f[j]
  BY <1>1, ErasedPlaces
<1>3. /\ cur'[Listener] = IF cur[Listener] = cur[s] THEN Dangling ELSE cur[Listener]
      /\ Sound' = Sound
  <2>1. cur' = [u \in Thread |-> IF u = s THEN Begin
                                 ELSE IF cur[u] = cur[s] THEN Dangling ELSE cur[u]]
    BY DEF Erase
  <2>2. QED
    BY <1>1, <2>1 DEF Erase, Sound
<1>4. /\ \A i \in DOMAIN m_listAgent' : m_listAgent'[i] \in Node
      /\ \A i \in DOMAIN m_listAgent' : i \in Nat /\ f[i] \in Nat /\ f[i] \in DOMAIN m_listAgent
      /\ cur[s] \in Node
  <2>1. m_listAgent \in Seq(Node) /\ m_listAgent' \in Seq(Node)
    BY <1>1, EraseType DEF ListTypeOK
  <2>2. cur[s] \in Node
    BY <2>1 DEF Erase
  <2>3. QED
    BY <2>1, <2>2
<1>5. \A i \in DOMAIN m_listAgent' : agent'[m_listAgent'[i]] = agent[m_listAgent[f[i]]]
  BY <1>1, <1>2, <1>4 DEF Erase, ListTypeOK
<1>6. \A i, j \in DOMAIN m_listAgent' : j <= i => f[j] <= f[i]
  <2> SUFFICES ASSUME NEW i \in DOMAIN m_listAgent', NEW j \in DOMAIN m_listAgent', j <= i
               PROVE  f[j] <= f[i]
    OBVIOUS
  <2>1. CASE j = i
    BY <1>4, <2>1
  <2>2. CASE j < i
    <3>1. f[j] < f[i]
      BY <1>2, <2>2
    <3>2. QED
      BY <1>4, <3>1
  <2>3. QED
    BY <1>4, <2>1, <2>2
<1>7. DestSearched'
  <2>1. cur'[Listener] \in Listed' \cup {Begin, Dangling}
    <3> SUFFICES ASSUME cur'[Listener] \notin {Begin, Dangling}
                 PROVE  cur'[Listener] \in Listed'
      OBVIOUS
    <3>1. cur'[Listener] = cur[Listener] /\ cur[Listener] # cur[s]
      BY <1>3
    <3>2. PICK i \in DOMAIN m_listAgent : m_listAgent[i] = cur[Listener]
      BY <3>1 DEF DestSearched, Listed, ToSet
    <3>3. \E j \in DOMAIN m_listAgent' : m_listAgent'[j] = m_listAgent[i]
      BY <1>1, <3>1, <3>2, ErasedOnlyOne
    <3>4. QED
      BY <3>1, <3>2, <3>3 DEF Listed, ToSet
  <2>2. evt.pc = "recv" => cur'[Listener] = Begin
    BY <1>3, <1>4, NodeAssumption DEF DestSearched
  <2>3. ASSUME Sound, NEW i \in DOMAIN m_listAgent', NEW j \in DOMAIN m_listAgent',
               cur'[Listener] = m_listAgent'[i]
        PROVE  /\ evt.pc = "find" /\ j <= i => agent'[m_listAgent'[j]].dn # evt.ev.dest
               /\ evt.pc = "found" =>
                    /\ agent'[m_listAgent'[i]].dn = evt.ev.dest
                    /\ j < i => agent'[m_listAgent'[j]].dn # evt.ev.dest
    <3>1. cur[Listener] = m_listAgent[f[i]]
      BY <1>2, <1>3, <1>4, <2>3, NodeAssumption
    <3>2. (j <= i => f[j] <= f[i]) /\ (j < i => f[j] < f[i])
      BY <1>2, <1>6
    <3>3. QED
      BY <1>4, <1>5, <2>3, <3>1, <3>2 DEF DestSearched
  <2>4. QED
    BY <1>3, <2>1, <2>2, <2>3 DEF DestSearched
<1>8. UuidsEnd'
  <2> SUFFICES ASSUME Sound, NEW i \in DOMAIN m_listAgent', NEW k \in Channel,
                      agent'[m_listAgent'[i]].uuid = k
               PROVE  /\ \/ InHand("HANGUP_COMPLETE", k, agent'[m_listAgent'[i]].dn)
                         \/ EndsAfter(0, k, agent'[m_listAgent'[i]].dn)
                      /\ \A j \in DOMAIN m_listAgent' :
                           j < i => agent'[m_listAgent'[j]].dn # agent'[m_listAgent'[i]].dn
    BY <1>3 DEF UuidsEnd, InHand, EndsAfter, EventOf
  <2>1. QED
    BY <1>2, <1>4, <1>5 DEF UuidsEnd
<1>9. QED
  BY <1>7, <1>8

-----------------------------------------------------------------------------
\* The event thread's own steps.

\* One node of the search for the event's dn.
LEMMA FindKeepsShown ==
  ASSUME TypeOK, NodesDistinct, Shown, FindDest, StillEnds
  PROVE  Shown'
<1> USE DEF Shown
<1>0. Listener \in Thread /\ m_listAgent \in Seq(Node)
  BY DEF Thread, TypeOK, ListTypeOK
<1>1. PICK y \in Node : /\ Leads(cur[Listener], y)
                        /\ MoveTo(Listener, y)
                        /\ IF agent[y].dn = evt.ev.dest
                           THEN evt' = [evt EXCEPT !.pc = "found"]
                           ELSE UNCHANGED evt
  BY DEF FindDest
<1>2. /\ cur'[Listener] = y /\ y \in Listed /\ evt.pc = "find" /\ evt.ev \in Event
      /\ UNCHANGED <<proc, m_listAgent, agent>>
  BY <1>0, <1>1, LeadsIntoList, NodeAssumption
  DEF FindDest, MoveTo, TypeOK, ListTypeOK, DestSearched
<1>3. /\ evt'.ev = evt.ev
      /\ evt'.pc = IF agent[y].dn = evt.ev.dest THEN "found" ELSE "find"
  BY <1>1, <1>2 DEF TypeOK, EventTypeOK
<1>4. DestSearched'
  <2> SUFFICES ASSUME Sound, NEW i \in DOMAIN m_listAgent, NEW j \in DOMAIN m_listAgent,
                      y = m_listAgent[i]
               PROVE  /\ evt'.pc = "find" /\ j <= i
                         => agent[m_listAgent[j]].dn # evt.ev.dest
                      /\ evt'.pc = "found" =>
                           /\ agent[m_listAgent[i]].dn = evt.ev.dest
                           /\ j < i => agent[m_listAgent[j]].dn # evt.ev.dest
    BY <1>2, <1>3 DEF DestSearched, Sound, Listed
  <2>1. j < i => agent[m_listAgent[j]].dn # evt.ev.dest
    BY <1>0, <1>1, <1>2, WalkOn DEF DestSearched
  <2>2. j <= i => j < i \/ j = i
    BY <1>0
  <2>3. QED
    BY <1>3, <2>1, <2>2
<1>5. UuidsEnd'
  <2>1. \A kind, k, d : InHand(kind, k, d) => InHand(kind, k, d)'
    BY <1>3 DEF InHand, EventOf
  <2>2. QED
    BY <1>2, <2>1 DEF UuidsEnd, StillEnds, Sound
<1>6. QED
  BY <1>4, <1>5

\* The search that finds no agent with the dn: no agent shows the channel.
LEMMA NoDestKeepsShown ==
  ASSUME TypeOK, Shown, NoDest, StillEnds
  PROVE  Shown'
<1> USE DEF Shown
<1>0. Listener \in Thread /\ m_listAgent \in Seq(Node)
  BY DEF Thread, TypeOK, ListTypeOK
<1>1. /\ cur'[Listener] = Begin /\ evt'.pc = "recv" /\ evt.pc = "find"
      /\ UNCHANGED <<proc, m_listAgent, agent>> /\ Leads(cur[Listener], None)
  BY <1>0 DEF NoDest, MoveTo, Waiting, TypeOK, ListTypeOK
<1>2. DestSearched'
  BY <1>0, <1>1, BeginIsNoPlace DEF DestSearched
<1>3. ASSUME Sound, NEW j \in DOMAIN m_listAgent
      PROVE  agent[m_listAgent[j]].dn # evt.ev.dest
  BY <1>0, <1>1, <1>3, WalkEnds DEF DestSearched
<1>4. UuidsEnd'
  BY <1>1, <1>3 DEF UuidsEnd, StillEnds, Sound, InHand, EventOf
<1>5. QED
  BY <1>2, <1>4

\* The two handlers write to the first agent that has the event's dn.
LEMMA HandlersKeepShown ==
  ASSUME TypeOK, NodesDistinct, Flow, Shown, SetUuid \/ HangupComplete, StillEnds
  PROVE  Shown'
<1> USE DEF Shown
<1>0. Listener \in Thread /\ m_listAgent \in Seq(Node)
  BY DEF Thread, TypeOK, ListTypeOK
<1>1. /\ cur'[Listener] = Begin /\ evt'.pc = "recv" /\ evt.pc = "found"
      /\ UNCHANGED <<proc, m_listAgent, events, channel, strayed>>
      /\ evt.ev \in Event
  BY <1>0 DEF SetUuid, HangupComplete, MoveTo, Waiting, TypeOK, ListTypeOK, DestSearched
<1>2. PICK p \in DOMAIN m_listAgent : m_listAgent[p] = cur[Listener]
  BY DEF SetUuid, HangupComplete, Listed, ToSet
<1>3. /\ cur[Listener] \in Node
      /\ \A i \in DOMAIN m_listAgent :
           /\ m_listAgent[i] \in Node
           /\ agent'[m_listAgent[i]].dn = agent[m_listAgent[i]].dn
           /\ i # p => agent'[m_listAgent[i]].uuid = agent[m_listAgent[i]].uuid
      /\ agent'[m_listAgent[p]].uuid = IF SetUuid THEN evt.ev.uuid ELSE None
  <2>1. \A i \in DOMAIN m_listAgent :
          m_listAgent[i] \in Node /\ (i # p => m_listAgent[i] # cur[Listener])
    BY <1>0, <1>2 DEF NodesDistinct
  <2>2. CASE SetUuid
    <3>1. agent' = [agent EXCEPT ![cur[Listener]].uuid = evt.ev.uuid]
      BY <2>2 DEF SetUuid
    <3>2. QED
      BY <1>2, <2>1, <2>2, <3>1 DEF TypeOK, ListTypeOK, Agent
  <2>3. CASE HangupComplete /\ ~SetUuid
    <3>1. agent' = [agent EXCEPT ![cur[Listener]].status = "Ready",
                                 ![cur[Listener]].uuid = None]
      BY <2>3 DEF HangupComplete
    <3>2. QED
      BY <1>2, <2>1, <2>3, <3>1 DEF TypeOK, ListTypeOK, Agent
  <2>4. QED
    BY <2>2, <2>3
<1>4. DestSearched'
  BY <1>0, <1>1, BeginIsNoPlace DEF DestSearched
<1>5. UuidsEnd'
  <2> SUFFICES ASSUME Sound, NEW i \in DOMAIN m_listAgent, NEW k \in Channel,
                      agent'[m_listAgent[i]].uuid = k
               PROVE  /\ EndsAfter(0, k, agent[m_listAgent[i]].dn)
                      /\ \A j \in DOMAIN m_listAgent :
                           j < i => agent[m_listAgent[j]].dn # agent[m_listAgent[i]].dn
    BY <1>1, <1>3 DEF UuidsEnd, StillEnds, Sound
  <2>1. /\ agent[m_listAgent[p]].dn = evt.ev.dest
        /\ \A j \in DOMAIN m_listAgent : j < p => agent[m_listAgent[j]].dn # evt.ev.dest
    BY <1>1, <1>2 DEF DestSearched
  <2>2. CASE i = p
    <3>1. SetUuid /\ k = evt.ev.uuid
      BY <1>3, <2>2, NameAssumption
    <3>2. InHand("CREATE", k, evt.ev.dest) /\ evt.ev.dest \in Dn
      BY <1>1, <3>1 DEF SetUuid, InHand, EventOf, Event
    <3>3. QED
      BY <2>1, <2>2, <3>2 DEF Flow, CreatesEnd
  <2>3. CASE i # p
    <3>1. agent[m_listAgent[i]].uuid = k
      BY <1>3, <2>3
    <3>2. \A j \in DOMAIN m_listAgent :
            j < i => agent[m_listAgent[j]].dn # agent[m_listAgent[i]].dn
      BY <3>1 DEF UuidsEnd
    <3>3. i < p \/ p < i
      BY <1>0, <2>3
    <3>4. ~InHand("HANGUP_COMPLETE", k, agent[m_listAgent[i]].dn)
      BY <2>1, <3>2, <3>3 DEF InHand, EventOf
    <3>5. QED
      BY <3>1, <3>2, <3>4 DEF UuidsEnd
  <2>4. QED
    BY <2>2, <2>3
<1>6. QED
  BY <1>4, <1>5

\* An event is received: the search for its dn has yet to begin.
LEMMA RecvKeepsShown ==
  ASSUME TypeOK, Flow, Shown, RecvEvent
  PROVE  Shown'
<1> USE DEF Shown
<1>1. /\ evt.pc = "recv" /\ evt'.pc = "find" /\ evt'.ev \in Event
      /\ UNCHANGED <<proc, m_listAgent, agent, cur>>
  BY HeadTailProperties DEF RecvEvent, listVars, TypeOK, EventTypeOK
<1>2. DestSearched'
  BY <1>1, BeginIsNoPlace DEF DestSearched, Listed, TypeOK, ListTypeOK
<1>3. UuidsEnd'
  <2> SUFFICES ASSUME Sound, NEW i \in DOMAIN m_listAgent, NEW k \in Channel,
                      agent[m_listAgent[i]].uuid = k
               PROVE  /\ \/ InHand("HANGUP_COMPLETE", k, agent[m_listAgent[i]].dn)'
                         \/ EndsAfter(0, k, agent[m_listAgent[i]].dn)'
                      /\ \A j \in DOMAIN m_listAgent :
                           j < i => agent[m_listAgent[j]].dn # agent[m_listAgent[i]].dn
    BY <1>1 DEF UuidsEnd, Sound, InHand, EndsAfter, EventOf
  <2>1. EndsAfter(0, k, agent[m_listAgent[i]].dn)
    BY <1>1 DEF UuidsEnd, InHand
  <2>2. \/ InHand("HANGUP_COMPLETE", k, agent[m_listAgent[i]].dn)'
        \/ EndsAfter(0, k, agent[m_listAgent[i]].dn)'
    BY <1>1, <2>1, RecvKeepsFlow DEF InHand, EndsAfter, EventOf
  <2>3. QED
    BY <2>2 DEF UuidsEnd
<1>4. QED
  BY <1>2, <1>3

LEMMA StrayKeepsShown ==
  ASSUME TypeOK, Shown, Stray(Listener), UNCHANGED evtVars
  PROVE  Shown'
<1>1. ~Sound' /\ cur'[Listener] \in Listed \cup {Begin, Dangling}
      /\ m_listAgent' = m_listAgent /\ evt' = evt
  BY DEF Stray, MoveTo, Sound, Thread, TypeOK, ListTypeOK, evtVars
<1>2. evt.pc # "recv"
  BY NodeAssumption DEF Stray, Shown, DestSearched
<1>3. QED
  BY <1>1, <1>2 DEF Shown, DestSearched, UuidsEnd, Listed

-----------------------------------------------------------------------------
\* A step that leaves the events alone leaves what they say alone.
LEMMA SameEvents ==
  ASSUME Flow, UNCHANGED evtVars
  PROVE  Flow' /\ StillEnds
BY NoEventKeepsFlow DEF NoEventArrives, evtVars, StillEnds

LEMMA EventInductiveStep ==
  /\ TypeOK /\ UniqueDnInductive /\ PollInductive /\ EventInductive /\ [Next]_vars
  => EventInductive'
<1> SUFFICES ASSUME TypeOK, UniqueDnInductive, PollInductive, EventInductive, [Next]_vars
             PROVE  EventInductive'
  OBVIOUS
<1>1. NodesDistinct' /\ NodesDistinct /\ Flow /\ Shown
  BY UniqueDnStep DEF UniqueDnInductive, EventInductive, Flow, Shown
<1> SUFFICES Flow' /\ Shown'
  BY <1>1 DEF EventInductive, Flow, Shown
<1>2. ASSUME NEW s \in Session, Api(s)
      PROVE  Flow' /\ Shown'
  <2>1. Flow' /\ StillEnds
    BY <1>1, <1>2, SameEvents DEF Api
  <2>2. CASE Login(s) /\ UNCHANGED evtVars
    <3>1. req[s].dn \in Dn
      BY <2>2, RequestTypes DEF Login, TypeOK
    <3>2. QED
      BY <1>1, <2>1, <2>2, <3>1, PushBackKeepsShown DEF Login
  <2>3. CASE Logout(s) /\ UNCHANGED evtVars
    BY <1>1, <2>1, <2>3, EraseKeepsShown DEF Logout
  <2>4. CASE /\ evt' = evt
             /\ \/ Receive(s) \/ Lookup(s) \/ NotFound(s) \/ Relogin(s)
                \/ ReloginReady(s) \/ SetStatus(s) \/ Makecall(s) \/ Replied(s)
                \/ Stray(s)
    BY <1>1, <2>1, <2>4, SessionsAreQuiet, QuietKeepsShown
  <2>5. QED
    BY <1>2, <2>2, <2>3, <2>4 DEF Api, SessionStep, evtVars
<1>3. CASE Diverted
  <2>1. Flow' /\ StillEnds
    BY <1>1, <1>3, DivertedKeepsFlow DEF StillEnds
  <2>2. QuietStep
    BY <1>3 DEF Diverted, listVars, QuietStep, Sound
  <2>3. QED
    BY <1>1, <2>1, <2>2, QuietKeepsShown
<1>4. ASSUME NEW c \in Caller, Acd(c)
      PROVE  Flow' /\ Shown'
  BY <1>1, <1>4, SameEvents, CallersAreQuiet, QuietKeepsShown DEF Acd
<1>5. CASE FreeSwitch
  <2>1. Flow' /\ StillEnds
    BY <1>1, <1>5, FreeSwitchKeepsFlow DEF StillEnds
  <2>2. QuietStep
    BY <1>5 DEF FreeSwitch, Ring, HangUp, listVars, QuietStep, Sound
  <2>3. QED
    BY <1>1, <2>1, <2>2, QuietKeepsShown
<1>6. CASE RecvEvent
  BY <1>1, <1>6, RecvKeepsFlow, RecvKeepsShown
<1>7. CASE FindDest \/ NoDest \/ SetUuid \/ HangupComplete
  <2>1. NoEventArrives
    <3>1. CASE FindDest
      BY <3>1 DEF FindDest, NoEventArrives, TypeOK, EventTypeOK
    <3>2. CASE NoDest \/ SetUuid \/ HangupComplete
      BY <3>2 DEF NoDest, SetUuid, HangupComplete, NoEventArrives, Waiting
    <3>3. QED
      BY <1>7, <3>1, <3>2
  <2>2. Flow' /\ StillEnds
    BY <1>1, <2>1, NoEventKeepsFlow DEF StillEnds
  <2>3. QED
    BY <1>1, <1>7, <2>2, FindKeepsShown, NoDestKeepsShown, HandlersKeepShown
<1>8. CASE Stray(Listener) /\ UNCHANGED evtVars
  BY <1>1, <1>8, SameEvents, StrayKeepsShown
<1>9. CASE DataRace \/ UNCHANGED vars
  <2>1. UNCHANGED evtVars /\ QuietStep
    BY <1>9 DEF DataRace, vars, listVars, evtVars, QuietStep, Sound
  <2>2. QED
    BY <1>1, <2>1, SameEvents, QuietKeepsShown
<1>10. QED
  BY <1>2, <1>3, <1>4, <1>5, <1>6, <1>7, <1>8, <1>9 DEF Next, Events, EventStep, TakesEvent

\* The event thread's search and the order of the events keep what agents show
\* together with what is still to come, for any number of channels, sessions
\* and makecalls (CallService.cpp:233-292).
THEOREM EventInductiveHolds == Spec => []EventInductive
<1>1. Init => EventInductive
  BY DEF Init, ListInit, EventInit, EventInductive, NodesDistinct, CreatesEnd,
         HangupsAreDown, DestSearched, UuidsEnd, InHand, EventOf, Waiting, Thread
<1>2. QED
  BY <1>1, EventInductiveStep, TypeCorrect, UniqueDnInductiveHolds, PollInductiveHolds,
     PTL DEF Spec

\* An agent never keeps the uuid of a call that is over, unless a makecall took
\* the hangup (CallService.cpp:152, 233-292).
THEOREM UuidsAreLive == Spec => []UuidIsLive
<1>1. EventInductive => UuidIsLive
  <2> SUFFICES ASSUME EventInductive, Sound, NEW n \in Listed, NEW k \in Channel,
                      agent[n].uuid = k
               PROVE  \/ channel[k] \in Dn \/ k \in strayed
                      \/ evt.pc # "recv" /\ evt.ev.uuid = k
                      \/ \E i \in DOMAIN events :
                           /\ events[i].uuid = k
                           /\ events[i].event_id = "HANGUP_COMPLETE"
    BY DEF UuidIsLive
  <2>1. PICK i \in DOMAIN m_listAgent : m_listAgent[i] = n
    BY DEF Listed, ToSet
  <2>2. InHand("HANGUP_COMPLETE", k, agent[n].dn) \/ EndsAfter(0, k, agent[n].dn)
    BY <2>1 DEF EventInductive, UuidsEnd
  <2>3. QED
    BY <2>2 DEF InHand, EndsAfter, EventOf
<1>2. QED
  BY <1>1, EventInductiveHolds, PTL

\* Which steps replace or clear a uuid.
LEMMA UuidKeptStep ==
  ASSUME TypeOK, PollInductive, EventInductive, Next,
         NEW n \in Node, NEW k \in Channel, agent[n].uuid = k, channel[k] \in Dn,
         agent'[n].uuid # k, n \in Listed, n \in Listed', Sound'
  PROVE  evt.pc = "found" /\ evt.ev.uuid # k /\ evt.ev.dest = agent[n].dn
<1> USE DEF TypeOK
<1>1. ~QuietStep
  BY DEF QuietStep
<1>2. ASSUME NEW s \in Session, Api(s)
      PROVE  FALSE
  <2>1. CASE Login(s)
    <3>1. PICK m \in Fresh : agent' = [agent EXCEPT ![m] = NewAgent(req[s].dn)]
      BY <2>1 DEF Login, PushBack
    <3>2. m # n
      BY DEF Fresh
    <3>3. QED
      BY <3>1, <3>2 DEF ListTypeOK
  <2>2. CASE Logout(s)
    <3>1. s \in Thread /\ Erase(s)
      BY <2>2 DEF Logout, Thread
    <3>2. n # cur[s]
      BY <3>1, ErasedPlaces DEF EventInductive, Listed, ToSet
    <3>3. QED
      BY <3>1, <3>2 DEF Erase, ListTypeOK
  <2>3. QED
    BY <1>1, <1>2, <2>1, <2>2, SessionsAreQuiet DEF Api, SessionStep, evtVars
<1>3. ASSUME NEW c \in Caller, Acd(c)
      PROVE  FALSE
  BY <1>1, <1>3, CallersAreQuiet DEF Acd
<1>4. CASE Events
  <2>1. SetUuid \/ HangupComplete
    BY <1>4 DEF Events, EventStep, FreeSwitch, TakesEvent, Diverted, RecvEvent, FindDest,
                NoDest, Stray, HangUp, Ring, listVars
  <2>2. evt.pc = "found" /\ evt.ev \in Event /\ cur[Listener] \in Listed /\ Sound
    BY <2>1 DEF SetUuid, HangupComplete, EventInductive, DestSearched, Sound
  <2>3. cur[Listener] = n
    BY <2>1 DEF SetUuid, HangupComplete, ListTypeOK, Agent
  <2>4. PICK p \in DOMAIN m_listAgent : m_listAgent[p] = n
    BY DEF Listed, ToSet
  <2>5. evt.ev.dest = agent[n].dn
    BY <2>2, <2>3, <2>4 DEF EventInductive, DestSearched
  <2>6. evt.ev.uuid # k
    <3>1. CASE SetUuid
      BY <2>3, <3>1 DEF SetUuid, ListTypeOK, Agent
    <3>2. CASE HangupComplete
      <4>1. InHand("HANGUP_COMPLETE", evt.ev.uuid, evt.ev.dest)
        BY <3>2 DEF HangupComplete, InHand, EventOf
      <4>2. channel[evt.ev.uuid] = "down"
        BY <2>2, <4>1 DEF EventInductive, HangupsAreDown, Event
      <4>3. QED
        BY <4>2, DownAssumption
    <3>3. QED
      BY <2>1, <3>1, <3>2
  <2>7. QED
    BY <2>2, <2>5, <2>6
<1>5. QED
  BY <1>2, <1>3, <1>4 DEF Next, DataRace

\* While its channel is up, the uuid of an agent is changed by events of the
\* agent's own other calls only (CallService.cpp:238, 285-286).
THEOREM UuidsAreKept == Spec => UuidKept
<1>1. TypeOK /\ PollInductive /\ EventInductive /\ [Next]_vars =>
        [\A n \in Node, k \in Channel :
           /\ agent[n].uuid = k /\ channel[k] \in Dn /\ agent'[n].uuid # k
           /\ n \in Listed /\ n \in Listed' /\ Sound'
           => /\ evt.pc = "found" /\ evt.ev.uuid # k
              /\ evt.ev.dest = agent[n].dn]_vars
  BY UuidKeptStep
<1>2. QED
  BY <1>1, TypeCorrect, PollInductiveHolds, EventInductiveHolds, PTL DEF Spec, UuidKept
=============================================================================
