-------------------------- MODULE CallCenterProofs --------------------------
(***************************************************************************)
(* Proofs about CallCenter, for any threads, nodes, dns and channels.      *)
(***************************************************************************)
EXTENDS CallCenter, SequenceTheorems, TLAPS

\* erase() takes one node out and moves the later ones up by one place.
LEMMA RemoveAtProperties ==
  ASSUME NEW S, NEW s \in Seq(S), NEW i \in 1..Len(s)
  PROVE  /\ RemoveAt(s, i) \in Seq(S)
         /\ Len(RemoveAt(s, i)) = Len(s) - 1
         /\ \A j \in 1..(Len(s) - 1) :
              RemoveAt(s, i)[j] = IF j < i THEN s[j] ELSE s[j + 1]
<1> DEFINE a == SubSeq(s, 1, i - 1)
           b == SubSeq(s, i + 1, Len(s))
<1>1. a \in Seq(S) /\ Len(a) = i - 1 /\ \A j \in 1..(i - 1) : a[j] = s[j]
  BY SubSeqProperties
<1>2. /\ b \in Seq(S) /\ Len(b) = Len(s) - i
      /\ \A j \in 1..(Len(s) - i) : b[j] = s[i + j]
  BY SubSeqProperties
<1>3. RemoveAt(s, i) = a \o b
  BY DEF RemoveAt
<1>4. /\ a \o b \in Seq(S)
      /\ Len(a \o b) = Len(a) + Len(b)
      /\ \A j \in 1..(Len(a) + Len(b)) :
           (a \o b)[j] = IF j <= Len(a) THEN a[j] ELSE b[j - Len(a)]
  BY <1>1, <1>2, ConcatProperties
<1> HIDE DEF a, b
<1>5. QED
  BY <1>1, <1>2, <1>3, <1>4

\* A cursor is only ever led to a node of the list or to its end.
LEMMA LeadsIntoList ==
  ASSUME m_listAgent \in Seq(Node), NEW x, NEW y, Leads(x, y)
  PROVE  y \in Listed \cup {None}
BY DEF Leads, Listed, ToSet

LEMMA ListedAreNodes ==
  ASSUME m_listAgent \in Seq(Node)
  PROVE  Listed \subseteq Node
BY DEF Listed, ToSet

\* The constructor's values and the login handler's make well-typed agents.
LEMMA AgentTypes ==
  /\ Blank \in Agent
  /\ \A d \in Dn : NewAgent(d) \in Agent
BY DEF Blank, NewAgent, Agent, AgentStatus_t

\* Setting a field of one Agent leaves all of them well typed.
LEMMA FieldTypes ==
  ASSUME agent \in [Node -> Agent], NEW n
  PROVE  /\ \A b \in BOOLEAN : [agent EXCEPT ![n].polling = b] \in [Node -> Agent]
         /\ \A st \in AgentStatus_t :
              [agent EXCEPT ![n].status = st] \in [Node -> Agent]
         /\ \A u \in Channel \cup {None} :
              [agent EXCEPT ![n].uuid = u] \in [Node -> Agent]
         /\ \A st \in AgentStatus_t, u \in Channel \cup {None} :
              [agent EXCEPT ![n].status = st, ![n].uuid = u] \in [Node -> Agent]
<1>1. \A b \in BOOLEAN : [agent EXCEPT ![n].polling = b] \in [Node -> Agent]
  BY DEF Agent
<1>2. \A st \in AgentStatus_t :
        [agent EXCEPT ![n].status = st] \in [Node -> Agent]
  BY DEF Agent
<1>3. \A u \in Channel \cup {None} :
        [agent EXCEPT ![n].uuid = u] \in [Node -> Agent]
  BY DEF Agent
<1>4. ASSUME NEW st \in AgentStatus_t, NEW u \in Channel \cup {None}
      PROVE  [agent EXCEPT ![n].status = st, ![n].uuid = u] \in [Node -> Agent]
  BY <1>4 DEF Agent
<1>5. QED
  BY <1>1, <1>2, <1>3, <1>4

LEMMA OvertakeType ==
  ASSUME ListTypeOK, NEW t \in Thread, NEW how \in {"given", "taken"},
         Overtake(t, how)
  PROVE  overtaken' \in [Caller -> SUBSET {"inside", "given", "taken"}]
BY DEF Overtake, ListTypeOK

-----------------------------------------------------------------------------
LEMMA StrayType ==
  ASSUME ListTypeOK, NEW t \in Thread, Stray(t)
  PROVE  ListTypeOK'
BY ListedAreNodes DEF Stray, MoveTo, ListTypeOK

LEMMA EraseType ==
  ASSUME ListTypeOK, NEW t \in Thread, Erase(t)
  PROVE  ListTypeOK'
<1>1. m_listAgent' \in Seq(Node)
  BY RemoveAtProperties DEF Erase, ListTypeOK
<1>2. agent' \in [Node -> Agent]
  BY AgentTypes DEF Erase, ListTypeOK
<1>3. cur' \in [Thread -> Node \cup {Begin, Dangling}]
  BY DEF Erase, ListTypeOK
<1>4. QED
  BY <1>1, <1>2, <1>3 DEF Erase, ListTypeOK

LEMMA PushBackType ==
  ASSUME ListTypeOK, NEW s \in Session, NEW n \in Fresh, NEW d \in Dn,
         PushBack(s, n, d)
  PROVE  ListTypeOK'
<1>1. n \in Node
  BY DEF Fresh
<1>2. agent' \in [Node -> Agent] /\ m_listAgent' \in Seq(Node)
  BY <1>1, AgentTypes DEF PushBack, ListTypeOK
<1>3. QED
  BY <1>2 DEF PushBack, Overtake, ListTypeOK

-----------------------------------------------------------------------------
\* The request of a session stays a request.
LEMMA RequestTypes ==
  ASSUME ApiTypeOK, NEW s \in Session
  PROVE  /\ Answered(s) => req' \in [Session -> Request]
         /\ \A l \in {"find", "push", "found", "setReady", "calling"} :
              req[s].pc # "idle" /\ Goto(s, l) => req' \in [Session -> Request]
         /\ \A op \in AllOps, d \in Dn :
              req' = [req EXCEPT ![s] = [pc |-> "find", op |-> op, dn |-> d]]
              => req' \in [Session -> Request]
         /\ req[s].pc # "idle" => req[s].dn \in Dn
BY DEF ApiTypeOK, Answered, Goto, Request, Idle

\* A status handler stores one of the statuses there are.
LEMMA StatusOfType ==
  \A op \in {"ready", "notReady", "leave"} : StatusOf(op) \in AgentStatus_t
BY DEF StatusOf, AgentStatus_t

LEMMA ApiType ==
  ASSUME ListTypeOK, ApiTypeOK, NEW s \in Session,
         Receive(s) \/ SessionStep(s) \/ Replied(s)
  PROVE  ListTypeOK' /\ ApiTypeOK'
<1> USE RequestTypes
<1> s \in Thread
  BY DEF Thread
<1>1. CASE Receive(s)
  BY <1>1, OpsAssumption DEF Receive, listVars, ListTypeOK, ApiTypeOK
<1>2. CASE Lookup(s)
  <2>1. ListTypeOK'
    BY <1>2 DEF Lookup, MoveTo, ListTypeOK
  <2>2. ApiTypeOK'
    BY <1>2 DEF Lookup, ApiTypeOK
  <2>3. QED
    BY <2>1, <2>2
<1>3. CASE NotFound(s)
  <2>1. ListTypeOK'
    BY <1>3 DEF NotFound, MoveTo, ListTypeOK
  <2>2. ApiTypeOK'
    BY <1>3 DEF NotFound, ApiTypeOK
  <2>3. QED
    BY <2>1, <2>2
<1>4. CASE Login(s)
  <2>1. ListTypeOK'
    BY <1>4, PushBackType DEF Login
  <2>2. ApiTypeOK'
    BY <1>4 DEF Login, ApiTypeOK
  <2>3. QED
    BY <2>1, <2>2
<1>5. CASE Relogin(s)
  <2>1. ListTypeOK'
    <3>1. agent' \in [Node -> Agent]
      BY <1>5, FieldTypes DEF Relogin, ListTypeOK
    <3>2. overtaken' \in [Caller -> SUBSET {"inside", "given", "taken"}]
      BY <1>5, OvertakeType DEF Relogin
    <3>3. QED
      BY <1>5, <3>1, <3>2, ListedAreNodes DEF Relogin, MoveTo, ListTypeOK
  <2>2. ApiTypeOK'
    BY <1>5 DEF Relogin, ApiTypeOK
  <2>3. QED
    BY <2>1, <2>2
<1>6. CASE ReloginReady(s)
  <2>1. ListTypeOK'
    <3>1. agent' \in [Node -> Agent]
      <4>1. "Ready" \in AgentStatus_t
        BY DEF AgentStatus_t
      <4>2. [agent EXCEPT ![held[s]].status = "Ready"] \in [Node -> Agent]
        BY <4>1, FieldTypes DEF ListTypeOK
      <4>3. [agent EXCEPT ![held[s]] = Blank] \in [Node -> Agent]
        BY AgentTypes DEF ListTypeOK
      <4>4. QED
        BY <1>6, <4>2, <4>3 DEF ReloginReady
    <3>2. overtaken' \in [Caller -> SUBSET {"inside", "given", "taken"}]
      BY <1>6, OvertakeType DEF ReloginReady
    <3>3. QED
      BY <1>6, <3>1, <3>2 DEF ReloginReady, ListTypeOK
  <2>2. ApiTypeOK'
    BY <1>6 DEF ReloginReady, ApiTypeOK
  <2>3. QED
    BY <2>1, <2>2
<1>7. CASE Logout(s)
  <2>1. ListTypeOK'
    BY <1>7, EraseType DEF Logout
  <2>2. ApiTypeOK'
    BY <1>7 DEF Logout, ApiTypeOK
  <2>3. QED
    BY <2>1, <2>2
<1>8. CASE SetStatus(s)
  <2>1. ListTypeOK'
    <3>1. cur[s] \in Node /\ StatusOf(req[s].op) \in AgentStatus_t
      BY <1>8, ListedAreNodes, StatusOfType DEF SetStatus, ListTypeOK
    <3>2. agent' \in [Node -> Agent]
      BY <1>8, <3>1, FieldTypes DEF SetStatus, ListTypeOK
    <3>3. cur' \in [Thread -> Node \cup {Begin, Dangling}]
      BY <1>8 DEF SetStatus, MoveTo, ListTypeOK
    <3>4. overtaken' \in [Caller -> SUBSET {"inside", "given", "taken"}]
      BY <1>8, OvertakeType DEF SetStatus
    <3>5. QED
      BY <1>8, <3>2, <3>3, <3>4 DEF SetStatus, ListTypeOK
  <2>2. ApiTypeOK'
    BY <1>8 DEF SetStatus, ApiTypeOK
  <2>3. QED
    BY <2>1, <2>2
<1>9. CASE Stray(s) /\ UNCHANGED apiVars
  BY <1>9, StrayType DEF apiVars, ApiTypeOK
<1>10. CASE Makecall(s)
  <2>1. ListTypeOK'
    BY <1>10 DEF Makecall, MoveTo, ListTypeOK
  <2>2. ApiTypeOK'
    BY <1>10 DEF Makecall, ApiTypeOK
  <2>3. QED
    BY <2>1, <2>2
<1>11. CASE Replied(s)
  BY <1>11 DEF Replied, listVars, ListTypeOK, ApiTypeOK
<1>12. QED
  BY <1>1, <1>2, <1>3, <1>4, <1>5, <1>6, <1>7, <1>8, <1>9, <1>10, <1>11 DEF SessionStep

-----------------------------------------------------------------------------
LEMMA AcdType ==
  ASSUME ListTypeOK, AcdTypeOK, NEW c \in Caller, CallerStep(c)
  PROVE  ListTypeOK' /\ AcdTypeOK'
<1> USE DEF AcdTypeOK, AcdPc, InPoll, Jump
<1> c \in Thread
  BY DEF Thread
<1>1. CASE Answer(c)
  BY <1>1 DEF Answer, listVars, ListTypeOK
<1>2. CASE ChannelEvent(c)
  <2>1. ListTypeOK'
    <3>1. agent' \in [Node -> Agent]
      <4>1. [agent EXCEPT ![held[c]].polling = FALSE] \in [Node -> Agent]
        BY FieldTypes DEF ListTypeOK
      <4>2. QED
        BY <1>2, <4>1 DEF ChannelEvent, ResetAgents, ListTypeOK
    <3>2. held' \in [Thread -> Node \cup {None}]
      BY <1>2 DEF ChannelEvent, ListTypeOK
    <3>3. QED
      BY <1>2, <3>1, <3>2 DEF ChannelEvent, ListTypeOK
  <2>2. QED
    BY <1>2, <2>1 DEF ChannelEvent
<1>3. CASE Disconnect(c)
  BY <1>3 DEF Disconnect, ListTypeOK
<1>4. CASE Poll(c)
  BY <1>4 DEF Poll, ListTypeOK
<1>5. CASE TestExhausted(c)
  BY <1>5 DEF TestExhausted, MoveTo, ListTypeOK
<1>6. CASE Exhausted(c)
  BY <1>6 DEF Exhausted, MoveTo, ListTypeOK
<1>7. CASE Reset(c)
  <2>1. agent' \in [Node -> Agent]
    <3>1. PICK y \in Node : agent' = [agent EXCEPT ![y].polling = FALSE]
      BY <1>7 DEF Reset
    <3>2. QED
      BY <3>1, FieldTypes DEF ListTypeOK
  <2>2. overtaken' \in [Caller -> SUBSET {"inside", "given", "taken"}]
    BY <1>7, OvertakeType DEF Reset
  <2>3. QED
    BY <1>7, <2>1, <2>2 DEF Reset, MoveTo, ListTypeOK
<1>8. CASE ResetDone(c)
  BY <1>8 DEF ResetDone, MoveTo, ListTypeOK
<1>9. CASE TestPolling(c)
  BY <1>9 DEF TestPolling, MoveTo, ListTypeOK
<1>10. CASE TestReady(c)
  BY <1>10 DEF TestReady, listVars, ListTypeOK
<1>11. CASE Claim(c)
  <2>1. ListTypeOK'
    <3>1. agent' \in [Node -> Agent]
      BY <1>11, FieldTypes DEF Claim, ListTypeOK
    <3>2. overtaken' \in [Caller -> SUBSET {"inside", "given", "taken"}]
      BY <1>11, OvertakeType DEF Claim
    <3>3. QED
      BY <1>11, <3>1, <3>2, ListedAreNodes DEF Claim, MoveTo, ListTypeOK
  <2>2. QED
    BY <1>11, <2>1 DEF Claim
<1>12. CASE NoneAvailable(c)
  BY <1>12 DEF NoneAvailable, MoveTo, ListTypeOK
<1>13. CASE Bridge(c)
  <2>1. [agent EXCEPT ![held[c]] = Blank] \in [Node -> Agent]
    BY AgentTypes DEF ListTypeOK
  <2>2. agent' \in [Node -> Agent]
    BY <1>13, <2>1 DEF Bridge, ListTypeOK
  <2>3. QED
    BY <1>13, <2>2 DEF Bridge, ListTypeOK
<1>14. CASE Stray(c) /\ UNCHANGED acd
  BY <1>14, StrayType
<1>15. CASE NextCall(c)
  BY <1>15 DEF NextCall, listVars, ListTypeOK
<1>16. QED
  BY <1>1, <1>2, <1>3, <1>4, <1>5, <1>6, <1>7, <1>8, <1>9, <1>10, <1>11,
     <1>12, <1>13, <1>14, <1>15
  DEF CallerStep, PollStep

-----------------------------------------------------------------------------
LEMMA EventType ==
  ASSUME ListTypeOK, EventTypeOK, EventStep \/ FreeSwitch \/ Diverted
  PROVE  ListTypeOK' /\ EventTypeOK'
<1> USE DEF EventTypeOK, Event, NoEvent, Waiting
<1> Listener \in Thread
  BY DEF Thread
<1>1. CASE RecvEvent
  <2>1. Head(events) \in Event /\ Tail(events) \in Seq(Event)
    BY <1>1, HeadTailProperties DEF RecvEvent
  <2>2. evt' \in [pc : {"recv", "find", "found"}, ev : Event \cup {NoEvent}]
    BY <1>1, <2>1 DEF RecvEvent
  <2>3. QED
    BY <1>1, <2>1, <2>2 DEF RecvEvent, listVars, ListTypeOK
<1>2. CASE FindDest
  <2>1. evt' \in [pc : {"recv", "find", "found"}, ev : Event \cup {NoEvent}]
    BY <1>2 DEF FindDest
  <2>2. cur' \in [Thread -> Node \cup {Begin, Dangling}]
    BY <1>2 DEF FindDest, MoveTo, ListTypeOK
  <2>3. QED
    BY <1>2, <2>1, <2>2 DEF FindDest, ListTypeOK
<1>3. CASE NoDest
  BY <1>3 DEF NoDest, MoveTo, ListTypeOK
<1>4. CASE SetUuid
  <2>1. evt.ev.uuid \in Channel
    BY <1>4 DEF SetUuid
  <2>2. agent' \in [Node -> Agent]
    BY <1>4, <2>1, FieldTypes DEF SetUuid, ListTypeOK
  <2>3. QED
    BY <1>4, <2>2 DEF SetUuid, MoveTo, ListTypeOK
<1>5. CASE HangupComplete
  <2>1. agent' \in [Node -> Agent]
    <3>1. "Ready" \in AgentStatus_t /\ None \in Channel \cup {None}
      BY DEF AgentStatus_t
    <3>2. QED
      BY <1>5, <3>1, FieldTypes DEF HangupComplete, ListTypeOK
  <2>2. overtaken' \in [Caller -> SUBSET {"inside", "given", "taken"}]
    BY <1>5, OvertakeType DEF HangupComplete
  <2>3. QED
    BY <1>5, <2>1, <2>2 DEF HangupComplete, MoveTo, ListTypeOK
<1>6. CASE Stray(Listener) /\ UNCHANGED evtVars
  BY <1>6, StrayType DEF evtVars
<1>7. ASSUME NEW k \in Channel, HangUp(k)
      PROVE  ListTypeOK' /\ EventTypeOK'
  BY <1>7 DEF HangUp, listVars, ListTypeOK
<1>8. ASSUME NEW k \in Channel, NEW d \in Dn, Ring(k, d)
      PROVE  ListTypeOK' /\ EventTypeOK'
  BY <1>8 DEF Ring, listVars, ListTypeOK
<1>9. CASE Diverted
  <2>1. PICK i \in DOMAIN events : /\ events' = RemoveAt(events, i)
                                  /\ strayed' = strayed \cup {events[i].uuid}
    BY <1>9 DEF Diverted
  <2>2. i \in 1..Len(events) /\ events[i].uuid \in Channel
    <3>1. events \in Seq(Event)
      BY DEF EventTypeOK
    <3>2. i \in 1..Len(events)
      BY <3>1
    <3>3. events[i] \in Event
      <4> HIDE DEF Event, NoEvent, Waiting
      <4> QED
        BY <3>1, <3>2
    <3>4. QED
      BY <3>2, <3>3
  <2>3. events' \in Seq(Event)
    BY <2>1, <2>2, RemoveAtProperties
  <2>4. QED
    BY <1>9, <2>1, <2>2, <2>3 DEF Diverted, listVars, ListTypeOK
<1>10. QED
  BY <1>1, <1>2, <1>3, <1>4, <1>5, <1>6, <1>7, <1>8, <1>9 DEF EventStep, FreeSwitch

LEMMA TypeStep == TypeOK /\ [Next]_vars => TypeOK'
<1> SUFFICES ASSUME TypeOK, [Next]_vars
             PROVE  TypeOK'
  OBVIOUS
<1>1. ASSUME NEW s \in Session, Api(s)
      PROVE  TypeOK'
  BY <1>1, ApiType DEF Api, TypeOK, acdVars, evtVars, AcdTypeOK, EventTypeOK
<1>2. ASSUME NEW c \in Caller, Acd(c)
      PROVE  TypeOK'
  BY <1>2, AcdType DEF Acd, TypeOK, apiVars, evtVars, ApiTypeOK, EventTypeOK
<1>3. CASE Events
  BY <1>3, EventType DEF Events, TakesEvent, TypeOK, apiVars, acdVars, ApiTypeOK, AcdTypeOK
<1>4. CASE DataRace
  BY <1>4 DEF DataRace, apiVars, acdVars, evtVars, TypeOK, ListTypeOK,
              ApiTypeOK, AcdTypeOK, EventTypeOK
<1>5. CASE UNCHANGED vars
  BY <1>5 DEF vars, listVars, apiVars, acdVars, evtVars, TypeOK, ListTypeOK,
              ApiTypeOK, AcdTypeOK, EventTypeOK
<1>6. QED
  BY <1>1, <1>2, <1>3, <1>4, <1>5 DEF Next

\* Every variable keeps its type, whatever the interleaving: in particular no
\* thread's cursor or shared_ptr ever leads outside the nodes and sentinels
\* (CRestfulServer.cpp:115-247, CallService.cpp:174-317, 354-480).
THEOREM TypeCorrect == Spec => []TypeOK
<1>1. Init => TypeOK
  BY AgentTypes
  DEF Init, ListInit, ApiInit, AcdInit, EventInit, TypeOK, ListTypeOK, ApiTypeOK,
      AcdTypeOK, EventTypeOK, AcdPc, Request, Waiting, NoEvent
<1>2. QED
  BY <1>1, TypeStep, PTL DEF Spec

-----------------------------------------------------------------------------
\* The conjuncts of UniqueDnInductive depend on the list, on the dns of the
\* agents on it, and on the sessions' requests and cursors.
SameDirectory ==
  /\ m_listAgent' = m_listAgent
  /\ \A i \in DOMAIN m_listAgent : agent'[m_listAgent[i]].dn = agent[m_listAgent[i]].dn
  /\ UNCHANGED <<req, raced>>
  /\ \A s \in Session : cur'[s] = cur[s]
  /\ Sound' => Sound

LEMMA SameDirectoryKeepsUniqueDn ==
  ASSUME UniqueDnInductive, SameDirectory
  PROVE  UniqueDnInductive'
<1> USE DEF UniqueDnInductive, SameDirectory
<1>1. NodesDistinct'
  BY DEF NodesDistinct
<1>2. SearchesStartAtBegin'
  BY DEF SearchesStartAtBegin
<1>3. CursorsOnList'
  BY DEF CursorsOnList, Listed
<1>4. SearchedSoFar'
  BY DEF SearchedSoFar
<1>5. PushIsNew'
  BY DEF PushIsNew
<1>6. UniqueDn'
  BY DEF UniqueDn
<1>7. QED
  BY <1>1, <1>2, <1>3, <1>4, <1>5, <1>6

\* No step of an ACD thread moves a session's cursor, relinks the list or
\* renames an agent on it.
LEMMA AcdKeepsDirectory ==
  ASSUME ListTypeOK, NEW c \in Caller, CallerStep(c), UNCHANGED <<req, raced>>
  PROVE  SameDirectory
<1> USE DEF SameDirectory, MoveTo, ListTypeOK, Sound
<1>0. c \in Thread /\ c \notin Session /\ Session \subseteq Thread
  BY ThreadAssumption DEF Thread
<1>1. \A i \in DOMAIN m_listAgent : m_listAgent[i] \in Listed /\ m_listAgent[i] \in Node
  BY DEF Listed, ToSet
<1>2. CASE Answer(c)
  BY <1>2 DEF Answer, listVars
<1>3. CASE ChannelEvent(c)
  BY <1>0, <1>1, <1>3 DEF ChannelEvent, ResetAgents, Agent
<1>4. CASE Disconnect(c)
  BY <1>4 DEF Disconnect
<1>5. CASE Poll(c)
  BY <1>5 DEF Poll
<1>6. CASE TestExhausted(c)
  BY <1>0, <1>6 DEF TestExhausted
<1>7. CASE Exhausted(c)
  BY <1>0, <1>7 DEF Exhausted
<1>8. CASE Reset(c)
  <2>1. PICK y \in Node : /\ agent' = [agent EXCEPT ![y].polling = FALSE]
                          /\ cur' = [cur EXCEPT ![c] = y]
    BY <1>8 DEF Reset
  <2>2. \A n \in Node : agent'[n].dn = agent[n].dn
    BY <2>1 DEF Agent
  <2>3. QED
    BY <1>0, <1>1, <1>8, <2>1, <2>2 DEF Reset
<1>9. CASE ResetDone(c)
  BY <1>0, <1>9 DEF ResetDone
<1>10. CASE TestPolling(c)
  BY <1>0, <1>10 DEF TestPolling
<1>11. CASE TestReady(c)
  BY <1>11 DEF TestReady, listVars
<1>12. CASE Claim(c)
  BY <1>0, <1>1, <1>12 DEF Claim, Agent
<1>13. CASE NoneAvailable(c)
  BY <1>0, <1>13 DEF NoneAvailable
<1>14. CASE Bridge(c)
  BY <1>0, <1>1, <1>14 DEF Bridge, Kept
<1>15. CASE Stray(c) /\ UNCHANGED acd
  BY <1>0, <1>15 DEF Stray
<1>16. CASE NextCall(c)
  BY <1>16 DEF NextCall, listVars
<1>17. QED
  BY <1>2, <1>3, <1>4, <1>5, <1>6, <1>7, <1>8, <1>9, <1>10, <1>11, <1>12,
     <1>13, <1>14, <1>15, <1>16
  DEF CallerStep, PollStep

\* Nor does a step of the event thread, or of FreeSWITCH.
LEMMA EventsKeepDirectory ==
  ASSUME ListTypeOK, EventStep \/ FreeSwitch \/ Diverted, UNCHANGED <<req, raced>>
  PROVE  SameDirectory
<1> USE DEF SameDirectory, MoveTo, ListTypeOK, Sound
<1>0. Listener \in Thread /\ Listener \notin Session /\ Session \subseteq Thread
  BY ThreadAssumption DEF Thread
<1>1. \A i \in DOMAIN m_listAgent : m_listAgent[i] \in Node
  BY DEF Listed, ToSet
<1>2. CASE RecvEvent
  BY <1>2 DEF RecvEvent, listVars
<1>3. CASE FindDest
  BY <1>0, <1>3 DEF FindDest
<1>4. CASE NoDest
  BY <1>0, <1>4 DEF NoDest
<1>5. CASE SetUuid
  BY <1>0, <1>1, <1>5 DEF SetUuid, Agent
<1>6. CASE HangupComplete
  <2>1. \A n \in Node : agent'[n].dn = agent[n].dn
    BY <1>6 DEF HangupComplete, Agent
  <2>2. QED
    BY <1>0, <1>1, <1>6, <2>1 DEF HangupComplete
<1>7. CASE Stray(Listener) /\ UNCHANGED evtVars
  BY <1>0, <1>7 DEF Stray
<1>8. CASE FreeSwitch
  BY <1>8 DEF FreeSwitch, HangUp, Ring, listVars
<1>9. CASE Diverted
  BY <1>9 DEF Diverted, listVars
<1>10. QED
  BY <1>2, <1>3, <1>4, <1>5, <1>6, <1>7, <1>8, <1>9 DEF EventStep

-----------------------------------------------------------------------------
\* Where a node was before erase(): every place of the new list shows a node
\* of the old one, and the order of places is the old one's.
LEMMA ErasedPlaces ==
  ASSUME ListTypeOK, NodesDistinct, NEW t \in Thread, Erase(t)
  PROVE  \E f \in [DOMAIN m_listAgent' -> DOMAIN m_listAgent] :
           /\ \A i \in DOMAIN m_listAgent' :
                /\ m_listAgent'[i] = m_listAgent[f[i]]
                /\ m_listAgent'[i] # cur[t]
           /\ \A i, j \in DOMAIN m_listAgent' : i < j => f[i] < f[j]
<1>1. PICK k \in DOMAIN m_listAgent :
        m_listAgent[k] = cur[t] /\ m_listAgent' = RemoveAt(m_listAgent, k)
  BY DEF Erase
<1>2. m_listAgent \in Seq(Node) /\ k \in 1..Len(m_listAgent)
  BY <1>1 DEF ListTypeOK
<1>3. /\ m_listAgent' \in Seq(Node)
      /\ Len(m_listAgent') = Len(m_listAgent) - 1
      /\ \A j \in 1..(Len(m_listAgent) - 1) :
           m_listAgent'[j] = IF j < k THEN m_listAgent[j] ELSE m_listAgent[j + 1]
  BY <1>1, <1>2, RemoveAtProperties
<1> DEFINE f == [i \in DOMAIN m_listAgent' |-> IF i < k THEN i ELSE i + 1]
<1>4. f \in [DOMAIN m_listAgent' -> DOMAIN m_listAgent]
  BY <1>2, <1>3
<1>5. \A i \in DOMAIN m_listAgent' : m_listAgent'[i] = m_listAgent[f[i]] /\ f[i] # k
  BY <1>2, <1>3
<1>6. \A i \in DOMAIN m_listAgent' : m_listAgent'[i] # cur[t]
  BY <1>1, <1>4, <1>5 DEF NodesDistinct
<1>7. \A i, j \in DOMAIN m_listAgent' : i < j => f[i] < f[j]
  BY <1>2, <1>3
<1>8. QED
  BY <1>4, <1>5, <1>6, <1>7

\* erase() takes no other node off the list.
LEMMA ErasedOnlyOne ==
  ASSUME ListTypeOK, NEW t \in Thread, Erase(t),
         NEW i \in DOMAIN m_listAgent, m_listAgent[i] # cur[t]
  PROVE  \E j \in DOMAIN m_listAgent' : m_listAgent'[j] = m_listAgent[i]
<1>1. PICK k \in DOMAIN m_listAgent :
        m_listAgent[k] = cur[t] /\ m_listAgent' = RemoveAt(m_listAgent, k)
  BY DEF Erase
<1>2. m_listAgent \in Seq(Node) /\ k \in 1..Len(m_listAgent) /\ i \in 1..Len(m_listAgent)
  BY <1>1 DEF ListTypeOK
<1>3. /\ m_listAgent' \in Seq(Node)
      /\ Len(m_listAgent') = Len(m_listAgent) - 1
      /\ \A j \in 1..(Len(m_listAgent) - 1) :
           m_listAgent'[j] = IF j < k THEN m_listAgent[j] ELSE m_listAgent[j + 1]
  BY <1>1, <1>2, RemoveAtProperties
<1>4. CASE i < k
  BY <1>2, <1>3, <1>4
<1>5. CASE i > k
  <2>1. i - 1 \in DOMAIN m_listAgent' /\ m_listAgent'[i - 1] = m_listAgent[i]
    BY <1>2, <1>3, <1>5
  <2>2. QED
    BY <2>1
<1>6. QED
  BY <1>1, <1>2, <1>4, <1>5

\* logout: what was true of the old list stays true of the shorter one.
LEMMA EraseKeepsUniqueDn ==
  ASSUME ListTypeOK, UniqueDnInductive, NEW s \in Session, Erase(s), Answered(s),
         ApiTypeOK, raced \subseteq raced'
  PROVE  UniqueDnInductive'
<1> USE DEF UniqueDnInductive
<1>0. s \in Thread /\ Session \subseteq Thread
  BY DEF Thread
<1>1. PICK f \in [DOMAIN m_listAgent' -> DOMAIN m_listAgent] :
        /\ \A i \in DOMAIN m_listAgent' :
             m_listAgent'[i] = m_listAgent[f[i]] /\ m_listAgent'[i] # cur[s]
        /\ \A i, j \in DOMAIN m_listAgent' : i < j => f[i] < f[j]
  BY <1>0, ErasedPlaces
<1>2. \A i \in DOMAIN m_listAgent' :
        agent'[m_listAgent'[i]].dn = agent[m_listAgent[f[i]]].dn
  <2>1. \A i \in DOMAIN m_listAgent : m_listAgent[i] \in Node
    BY DEF ListTypeOK
  <2>2. QED
    BY <1>1, <2>1 DEF Erase, ListTypeOK
<1>3. \A i \in DOMAIN m_listAgent' :
        i \in Nat /\ f[i] \in Nat /\ f[i] \in DOMAIN m_listAgent
  <2>1. m_listAgent \in Seq(Node) /\ m_listAgent' \in Seq(Node)
    BY <1>0, EraseType DEF ListTypeOK
  <2>2. DOMAIN m_listAgent' \subseteq Nat /\ DOMAIN m_listAgent \subseteq Nat
    BY <2>1
  <2>3. QED
    BY <2>2
<1>4. /\ req'[s].pc = "idle"
      /\ \A t \in Session \ {s} : req'[t] = req[t]
  BY DEF Answered, Idle, ApiTypeOK
<1>5. /\ cur'[s] = Begin
      /\ \A t \in Session \ {s} : cur'[t] = IF cur[t] = cur[s] THEN Dangling ELSE cur[t]
  <2>1. cur' = [u \in Thread |-> IF u = s THEN Begin
                                 ELSE IF cur[u] = cur[s] THEN Dangling ELSE cur[u]]
    BY DEF Erase
  <2>2. QED
    BY <1>0, <2>1
<1>6. Sound' = Sound
  BY DEF Erase, Sound
<1>7. cur[s] \in Node /\ \A i \in DOMAIN m_listAgent' : m_listAgent'[i] \in Node
  BY <1>1 DEF Erase, ListTypeOK
<1>8. NodesDistinct'
  BY <1>1, <1>3 DEF NodesDistinct
<1>9. SearchesStartAtBegin'
  BY <1>4, <1>5, <1>7, NodeAssumption DEF SearchesStartAtBegin
<1>10. SearchedSoFar'
  <2> SUFFICES ASSUME Sound, NEW t \in Session,
                      NEW i \in DOMAIN m_listAgent', NEW j \in DOMAIN m_listAgent',
                      req'[t].pc = "find", cur'[t] = m_listAgent'[i], j <= i
               PROVE  agent'[m_listAgent'[j]].dn # req'[t].dn
    BY <1>6 DEF SearchedSoFar
  <2>1. t # s /\ req'[t] = req[t] /\ cur'[t] = cur[t]
    BY <1>4, <1>5, <1>7, NodeAssumption
  <2>2. cur[t] = m_listAgent[f[i]]
    BY <1>1, <2>1
  <2>3. f[j] <= f[i]
    <3>1. CASE j = i
      BY <1>3, <3>1
    <3>2. CASE j # i
      <4>1. j < i
        BY <1>3, <3>2
      <4>2. f[j] < f[i]
        BY <1>1, <4>1
      <4>3. QED
        BY <1>3, <4>2
    <3>3. QED
      BY <3>1, <3>2
  <2>4. f[i] \in DOMAIN m_listAgent /\ f[j] \in DOMAIN m_listAgent
    BY <1>3
  <2>5. agent[m_listAgent[f[j]]].dn # req[t].dn
    BY <2>1, <2>2, <2>3, <2>4 DEF SearchedSoFar
  <2>6. QED
    BY <1>2, <2>1, <2>5
<1>11. PushIsNew'
  BY <1>1, <1>2, <1>4, <1>6 DEF PushIsNew
<1>12. UniqueDn'
  <2> SUFFICES ASSUME Sound,
                      NEW i \in DOMAIN m_listAgent', NEW j \in DOMAIN m_listAgent',
                      agent'[m_listAgent'[i]].dn = agent'[m_listAgent'[j]].dn,
                      agent'[m_listAgent'[i]].dn \notin raced'
               PROVE  i = j
    BY <1>6 DEF UniqueDn
  <2>1. f[i] = f[j]
    BY <1>2 DEF UniqueDn
  <2>2. QED
    BY <1>1, <1>3, <2>1
<1>13. CursorsOnList'
  <2> SUFFICES ASSUME NEW t \in Session, cur'[t] \notin {Begin, Dangling}
               PROVE  cur'[t] \in Listed'
    BY DEF CursorsOnList
  <2>1. cur'[t] = cur[t] /\ cur[t] # cur[s]
    BY <1>5
  <2>2. PICK i \in DOMAIN m_listAgent : m_listAgent[i] = cur[t]
    BY <2>1 DEF CursorsOnList, Listed, ToSet
  <2>3. \E j \in DOMAIN m_listAgent' : m_listAgent'[j] = m_listAgent[i]
    BY <1>0, <2>1, <2>2, ErasedOnlyOne
  <2>4. QED
    BY <2>1, <2>2, <2>3 DEF Listed, ToSet
<1>14. QED
  BY <1>8, <1>9, <1>10, <1>11, <1>12, <1>13

\* login: the new agent goes to the end, behind every search, and its dn is
\* new to the list unless another login of it was about to push as well.
LEMMA PushBackKeepsUniqueDn ==
  ASSUME ListTypeOK, ApiTypeOK, UniqueDnInductive, NEW s \in Session,
         req[s].pc = "push", NEW n \in Fresh, PushBack(s, n, req[s].dn),
         Answered(s),
         raced' = IF \E t \in Session \ {s} :
                       req[t].pc = "push" /\ req[t].dn = req[s].dn
                  THEN raced \cup {req[s].dn} ELSE raced
  PROVE  UniqueDnInductive'
<1> USE DEF UniqueDnInductive
<1> DEFINE last == Len(m_listAgent) + 1
<1>1. n \in Node /\ \A i \in DOMAIN m_listAgent : m_listAgent[i] # n
  BY DEF Fresh, Listed, ToSet
<1>2. /\ m_listAgent \in Seq(Node)
      /\ DOMAIN m_listAgent' = 1..last
      /\ \A i \in DOMAIN m_listAgent : m_listAgent'[i] = m_listAgent[i]
      /\ m_listAgent'[last] = n
      /\ last \notin DOMAIN m_listAgent
      /\ DOMAIN m_listAgent' = DOMAIN m_listAgent \cup {last}
  BY <1>1 DEF PushBack, ListTypeOK
<1>3. /\ \A i \in DOMAIN m_listAgent :
           agent'[m_listAgent'[i]].dn = agent[m_listAgent[i]].dn
      /\ agent'[m_listAgent'[last]].dn = req[s].dn
  BY <1>1, <1>2 DEF PushBack, ListTypeOK, NewAgent, Blank
<1>4. /\ req'[s].pc = "idle"
      /\ \A t \in Session \ {s} : req'[t] = req[t]
  BY DEF Answered, Idle, ApiTypeOK
<1>5. Sound' = Sound /\ cur' = cur /\ raced \subseteq raced'
  BY DEF PushBack, Sound
<1>6. \A i \in DOMAIN m_listAgent : m_listAgent[i] \in Node
  BY DEF ListTypeOK
<1> HIDE DEF last
<1>7. NodesDistinct'
  BY <1>1, <1>2 DEF NodesDistinct
<1>8. SearchesStartAtBegin'
  BY <1>4, <1>5 DEF SearchesStartAtBegin
<1>9. SearchedSoFar'
  <2> SUFFICES ASSUME Sound, NEW t \in Session,
                      NEW i \in DOMAIN m_listAgent', NEW j \in DOMAIN m_listAgent',
                      req'[t].pc = "find", cur'[t] = m_listAgent'[i], j <= i
               PROVE  agent'[m_listAgent'[j]].dn # req'[t].dn
    BY <1>5 DEF SearchedSoFar
  <2>1. t # s /\ req[t].pc = "find" /\ req'[t] = req[t]
    BY <1>4
  <2>2. CASE i \in DOMAIN m_listAgent
    <3>1. j \in DOMAIN m_listAgent
      BY <1>2, <2>2
    <3>2. QED
      BY <1>2, <1>3, <1>5, <2>1, <2>2, <3>1 DEF SearchedSoFar
  <2>3. CASE i = last
    <3>1. cur[t] # n
      BY <1>1, NodeAssumption DEF CursorsOnList, Listed, ToSet
    <3>2. QED
      BY <1>2, <1>5, <2>3, <3>1
  <2>4. QED
    BY <1>2, <2>2, <2>3
<1>10. PushIsNew'
  <2> SUFFICES ASSUME Sound, NEW t \in Session, NEW i \in DOMAIN m_listAgent',
                      req'[t].pc = "push", req'[t].dn \notin raced'
               PROVE  agent'[m_listAgent'[i]].dn # req'[t].dn
    BY <1>5 DEF PushIsNew
  <2>1. t # s /\ req'[t] = req[t] /\ req[t].dn \notin raced
    BY <1>4, <1>5
  <2>2. CASE i \in DOMAIN m_listAgent
    BY <1>3, <2>1, <2>2 DEF PushIsNew
  <2>3. CASE i = last
    BY <1>3, <2>1, <2>3
  <2>4. QED
    BY <1>2, <2>2, <2>3
<1>11. UniqueDn'
  <2>1. ASSUME Sound, req[s].dn \notin raced
        PROVE  \A i \in DOMAIN m_listAgent : agent[m_listAgent[i]].dn # req[s].dn
    BY <2>1 DEF PushIsNew
  <2>2. QED
    BY <1>2, <1>3, <1>5, <2>1 DEF UniqueDn
<1>12. CursorsOnList'
  BY <1>2, <1>5 DEF CursorsOnList, Listed, ToSet
<1>13. QED
  BY <1>7, <1>8, <1>9, <1>10, <1>11, <1>12

-----------------------------------------------------------------------------
\* A step of session s that leaves the list, the dns on it and the other
\* sessions alone: only what s itself now knows has to be shown.
OwnStep(s) ==
  /\ m_listAgent' = m_listAgent
  /\ \A i \in DOMAIN m_listAgent : agent'[m_listAgent[i]].dn = agent[m_listAgent[i]].dn
  /\ raced \subseteq raced'
  /\ \A t \in Session \ {s} : cur'[t] = cur[t] /\ req'[t] = req[t]
  /\ Sound' => Sound

OwnGoal(s) ==
  /\ req'[s].pc \in {"idle", "push", "setReady", "calling"} => cur'[s] = Begin
  /\ cur'[s] \in Listed \cup {Begin, Dangling}
  /\ Sound' => \A i, j \in DOMAIN m_listAgent :
       req'[s].pc = "find" /\ cur'[s] = m_listAgent[i] /\ j <= i
       => agent[m_listAgent[j]].dn # req'[s].dn
  /\ Sound' /\ req'[s].pc = "push" =>
       \A i \in DOMAIN m_listAgent : agent[m_listAgent[i]].dn # req'[s].dn

LEMMA OwnStepKeepsUniqueDn ==
  ASSUME UniqueDnInductive, NEW s \in Session, OwnStep(s), OwnGoal(s)
  PROVE  UniqueDnInductive'
<1> USE DEF UniqueDnInductive, OwnStep, OwnGoal
<1>1. NodesDistinct'
  BY DEF NodesDistinct
<1>2. SearchesStartAtBegin'
  BY DEF SearchesStartAtBegin
<1>3. CursorsOnList'
  BY DEF CursorsOnList, Listed
<1>4. SearchedSoFar'
  BY DEF SearchedSoFar
<1>5. PushIsNew'
  BY DEF PushIsNew
<1>6. UniqueDn'
  BY DEF UniqueDn
<1>7. QED
  BY <1>1, <1>2, <1>3, <1>4, <1>5, <1>6

\* The request of one session changes, the others' do not.
LEMMA OwnRequest ==
  ASSUME ApiTypeOK, NEW s \in Session
  PROVE  /\ Answered(s) => /\ req'[s].pc = "idle"
                           /\ \A t \in Session \ {s} : req'[t] = req[t]
         /\ \A l : Goto(s, l) => /\ req'[s].pc = l /\ req'[s].dn = req[s].dn
                                 /\ \A t \in Session \ {s} : req'[t] = req[t]
BY DEF ApiTypeOK, Answered, Idle, Goto, Request

LEMMA OwnCursor ==
  ASSUME ListTypeOK, NEW s \in Session, NEW y, MoveTo(s, y)
  PROVE  cur'[s] = y /\ \A t \in Session \ {s} : cur'[t] = cur[t]
BY DEF MoveTo, ListTypeOK, Thread

LEMMA StrayKeepsUniqueDn ==
  ASSUME ListTypeOK, UniqueDnInductive, NEW s \in Session, Stray(s), UNCHANGED apiVars
  PROVE  UniqueDnInductive'
<1>1. \A t \in Session \ {s} : cur'[t] = cur[t]
  BY OwnCursor DEF Stray
<1>2. req[s].pc \notin {"idle", "push", "setReady", "calling"}
  BY NodeAssumption DEF Stray, UniqueDnInductive, SearchesStartAtBegin
<1>3. cur'[s] \in Listed \cup {Begin, Dangling}
  BY OwnCursor DEF Stray
<1>4. OwnStep(s)
  BY <1>1 DEF Stray, OwnStep, apiVars, Sound
<1>5. OwnGoal(s)
  BY <1>2, <1>3 DEF Stray, OwnGoal, apiVars, Sound
<1>6. QED
  BY <1>4, <1>5, OwnStepKeepsUniqueDn

\* One node of a search: the places up to it are now known not to match.
LEMMA LookupKeepsUniqueDn ==
  ASSUME ListTypeOK, ApiTypeOK, UniqueDnInductive, NEW s \in Session, Lookup(s)
  PROVE  UniqueDnInductive'
<1>1. PICK y \in Node : /\ Leads(cur[s], y)
                        /\ MoveTo(s, y)
                        /\ IF agent[y].dn = req[s].dn
                           THEN Goto(s, "found") ELSE UNCHANGED req
  BY DEF Lookup
<1>2. cur'[s] = y /\ \A t \in Session \ {s} : cur'[t] = cur[t]
  BY <1>1, OwnCursor
<1>3. y \in Listed
  BY <1>1, LeadsIntoList, NodeAssumption DEF ListTypeOK
<1>4. OwnStep(s)
  BY <1>1, <1>2, OwnRequest DEF Lookup, OwnStep, Sound
<1>5. ASSUME Sound, agent[y].dn # req[s].dn,
             NEW i \in DOMAIN m_listAgent, NEW j \in DOMAIN m_listAgent,
             y = m_listAgent[i], j <= i
      PROVE  agent[m_listAgent[j]].dn # req[s].dn
  <2>0. m_listAgent \in Seq(Node) /\ i \in Nat /\ j \in 1..Len(m_listAgent)
    BY DEF ListTypeOK
  <2>1. CASE j = i
    BY <1>5, <2>1
  <2>2. CASE j # i /\ cur[s] = Begin
    <3>1. \A k \in DOMAIN m_listAgent : m_listAgent[k] # Begin
      BY <2>0, NodeAssumption
    <3>2. y = m_listAgent[1] /\ 1 \in DOMAIN m_listAgent
      BY <1>1, <2>0, <2>2, <3>1 DEF Leads
    <3>3. i = 1
      BY <1>5, <3>2 DEF UniqueDnInductive, NodesDistinct
    <3>4. QED
      BY <1>5, <2>0, <2>2, <3>3
  <2>3. CASE j # i /\ cur[s] # Begin
    <3>1. PICK k \in DOMAIN m_listAgent :
            /\ m_listAgent[k] = cur[s]
            /\ y = IF k = Len(m_listAgent) THEN None ELSE m_listAgent[k + 1]
      BY <1>1, <2>3 DEF Leads
    <3>2. k # Len(m_listAgent) /\ y = m_listAgent[k + 1]
      BY <3>1, NodeAssumption
    <3>3. k + 1 \in DOMAIN m_listAgent /\ k \in Nat
      BY <2>0, <3>1, <3>2
    <3>4. i = k + 1
      BY <1>5, <3>2, <3>3 DEF UniqueDnInductive, NodesDistinct
    <3>5. j <= k
      BY <1>5, <2>0, <2>3, <3>3, <3>4
    <3>6. QED
      BY <1>5, <3>1, <3>5 DEF Lookup, UniqueDnInductive, SearchedSoFar
  <2>4. QED
    BY <2>1, <2>2, <2>3
<1>6. OwnGoal(s)
  <2>1. CASE agent[y].dn = req[s].dn
    BY <1>1, <1>2, <1>3, <2>1, OwnRequest DEF OwnGoal
  <2>2. CASE agent[y].dn # req[s].dn
    BY <1>1, <1>2, <1>3, <1>5, <2>2 DEF OwnGoal, Lookup, Sound
  <2>3. QED
    BY <2>1, <2>2
<1>7. QED
  BY <1>4, <1>6, OwnStepKeepsUniqueDn

\* A search that reaches the end has met its dn nowhere on the list.
LEMMA NotFoundKeepsUniqueDn ==
  ASSUME ListTypeOK, ApiTypeOK, UniqueDnInductive, NEW s \in Session, NotFound(s)
  PROVE  UniqueDnInductive'
<1>1. req[s].pc = "find" /\ Leads(cur[s], None) /\ MoveTo(s, Begin)
  BY DEF NotFound
<1>2. cur'[s] = Begin /\ \A t \in Session \ {s} : cur'[t] = cur[t]
  BY <1>1, OwnCursor
<1>3. ASSUME Sound, NEW j \in DOMAIN m_listAgent
      PROVE  agent[m_listAgent[j]].dn # req[s].dn
  <2>0. m_listAgent \in Seq(Node) /\ j \in 1..Len(m_listAgent)
    BY DEF ListTypeOK
  <2>1. cur[s] # Begin
    <3>1. m_listAgent # <<>> /\ m_listAgent[1] \in Node
      BY <2>0
    <3>2. \A k \in DOMAIN m_listAgent : m_listAgent[k] # Begin
      BY <2>0, NodeAssumption
    <3>3. QED
      BY <1>1, <3>1, <3>2, NodeAssumption DEF Leads
  <2>2. PICK k \in DOMAIN m_listAgent :
          /\ m_listAgent[k] = cur[s]
          /\ None = IF k = Len(m_listAgent) THEN None ELSE m_listAgent[k + 1]
    BY <1>1, <2>1 DEF Leads
  <2>3. k = Len(m_listAgent)
    <3>1. ASSUME k # Len(m_listAgent)
          PROVE  m_listAgent[k + 1] \in Node
      BY <2>0, <2>2, <3>1
    <3>2. QED
      BY <2>2, <3>1, NodeAssumption
  <2>4. QED
    BY <1>1, <1>3, <2>0, <2>2, <2>3 DEF UniqueDnInductive, SearchedSoFar
<1>4. \/ Goto(s, "push")
      \/ Answered(s)
  BY DEF NotFound
<1>5. OwnStep(s)
  BY <1>2, <1>4, OwnRequest DEF NotFound, OwnStep, Sound
<1>6. OwnGoal(s)
  BY <1>2, <1>3, <1>4, OwnRequest DEF NotFound, OwnGoal, Sound
<1>7. QED
  BY <1>5, <1>6, OwnStepKeepsUniqueDn

\* The steps that end a search and at most write fields of Agents.
LEMMA WriteKeepsUniqueDn ==
  ASSUME ListTypeOK, ApiTypeOK, UniqueDnInductive, NEW s \in Session,
         Relogin(s) \/ ReloginReady(s) \/ SetStatus(s) \/ Makecall(s) \/ Replied(s)
  PROVE  UniqueDnInductive'
<1>0. s \in Thread /\ \A i \in DOMAIN m_listAgent :
                         m_listAgent[i] \in Node /\ m_listAgent[i] \in Listed
  BY DEF Thread, ListTypeOK, Listed, ToSet
<1>1. \A n \in Listed : agent'[n].dn = agent[n].dn
  <2>0. \A n \in Listed : n \in Node
    BY <1>0 DEF Listed, ToSet
  <2>1. CASE Relogin(s)
    BY <2>0, <2>1 DEF Relogin, ListTypeOK, Agent
  <2>2. CASE ReloginReady(s)
    BY <2>0, <2>2 DEF ReloginReady, Kept, ListTypeOK, Agent
  <2>3. CASE SetStatus(s)
    BY <2>0, <2>3 DEF SetStatus, ListTypeOK, Agent
  <2>4. CASE Makecall(s) \/ Replied(s)
    BY <2>4 DEF Makecall, Replied, listVars
  <2>5. QED
    BY <2>1, <2>2, <2>3, <2>4
<1>2. /\ cur'[s] = Begin /\ \A t \in Session \ {s} : cur'[t] = cur[t]
      /\ req'[s].pc \in {"idle", "setReady", "calling"}
      /\ \A t \in Session \ {s} : req'[t] = req[t]
  <2>1. CASE ReloginReady(s) \/ Replied(s)
    BY <2>1, OwnRequest DEF ReloginReady, Replied, listVars, UniqueDnInductive,
                            SearchesStartAtBegin
  <2>2. CASE Relogin(s) \/ SetStatus(s) \/ Makecall(s)
    BY <2>2, OwnCursor, OwnRequest DEF Relogin, SetStatus, Makecall
  <2>3. QED
    BY <2>1, <2>2
<1>3. OwnStep(s)
  BY <1>0, <1>1, <1>2
  DEF Relogin, ReloginReady, SetStatus, Makecall, Replied, listVars, OwnStep, Sound
<1>4. OwnGoal(s)
  BY <1>2 DEF OwnGoal
<1>5. QED
  BY <1>3, <1>4, OwnStepKeepsUniqueDn

LEMMA SessionKeepsUniqueDn ==
  ASSUME ListTypeOK, ApiTypeOK, UniqueDnInductive, NEW s \in Session,
         Receive(s) \/ SessionStep(s) \/ Replied(s)
  PROVE  UniqueDnInductive'
<1>0. s \in Thread
  BY DEF Thread
<1>1. CASE Receive(s)
  <2>1. cur' = cur /\ cur[s] = Begin
    BY <1>1 DEF Receive, listVars, UniqueDnInductive, SearchesStartAtBegin
  <2>2. req'[s].pc = "find" /\ \A t \in Session \ {s} : req'[t] = req[t]
    BY <1>1 DEF Receive, ApiTypeOK
  <2>3. OwnStep(s)
    BY <1>1, <2>1, <2>2 DEF Receive, listVars, OwnStep, Sound
  <2>4. \A i \in DOMAIN m_listAgent : m_listAgent[i] # Begin
    BY NodeAssumption DEF ListTypeOK
  <2>5. OwnGoal(s)
    BY <2>1, <2>2, <2>4 DEF OwnGoal
  <2>6. QED
    BY <2>3, <2>5, OwnStepKeepsUniqueDn
<1>2. CASE Login(s)
  BY <1>2, PushBackKeepsUniqueDn DEF Login
<1>3. CASE Logout(s)
  BY <1>3, EraseKeepsUniqueDn DEF Logout
<1>4. CASE Stray(s) /\ UNCHANGED apiVars
  BY <1>4, StrayKeepsUniqueDn
<1>5. QED
  BY <1>1, <1>2, <1>3, <1>4, LookupKeepsUniqueDn, NotFoundKeepsUniqueDn,
     WriteKeepsUniqueDn DEF SessionStep

LEMMA UniqueDnStep ==
  TypeOK /\ UniqueDnInductive /\ [Next]_vars => UniqueDnInductive'
<1> SUFFICES ASSUME TypeOK, UniqueDnInductive, [Next]_vars
             PROVE  UniqueDnInductive'
  OBVIOUS
<1> USE DEF TypeOK
<1>1. ASSUME NEW s \in Session, Api(s)
      PROVE  UniqueDnInductive'
  BY <1>1, SessionKeepsUniqueDn DEF Api
<1>2. ASSUME NEW c \in Caller, Acd(c)
      PROVE  UniqueDnInductive'
  BY <1>2, AcdKeepsDirectory, SameDirectoryKeepsUniqueDn DEF Acd, apiVars
<1>3. CASE Events
  BY <1>3, EventsKeepDirectory, SameDirectoryKeepsUniqueDn DEF Events, TakesEvent, apiVars
<1>4. CASE DataRace
  BY <1>4, SameDirectoryKeepsUniqueDn
  DEF DataRace, apiVars, SameDirectory, Sound
<1>5. CASE UNCHANGED vars
  BY <1>5, SameDirectoryKeepsUniqueDn
  DEF vars, listVars, apiVars, SameDirectory, Sound
<1>6. QED
  BY <1>1, <1>2, <1>3, <1>4, <1>5 DEF Next

\* What every search has seen so far, and what a login about to push may rely
\* on, holds at all times for any number of sessions (CRestfulServer.cpp:126-139).
THEOREM UniqueDnInductiveHolds == Spec => []UniqueDnInductive
<1>1. Init => UniqueDnInductive
  BY DEF Init, ListInit, ApiInit, UniqueDnInductive, NodesDistinct,
         SearchesStartAtBegin, CursorsOnList, SearchedSoFar, PushIsNew, UniqueDn,
         Thread, Idle
<1>2. QED
  BY <1>1, UniqueDnStep, TypeCorrect, PTL DEF Spec

\* Searching the list and then pushing without a lock still gives every dn at
\* most one entry, for any number of sessions, as long as no two logins of the
\* dn, or a login and a logout of it, overlapped (CRestfulServer.cpp:126-139).
THEOREM UniqueDnHolds == Spec => []UniqueDn
<1>1. UniqueDnInductive => UniqueDn
  BY DEF UniqueDnInductive
<1>2. QED
  BY <1>1, UniqueDnInductiveHolds, PTL
=============================================================================
