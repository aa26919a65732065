------------------------------- MODULE AcdProofs -------------------------------
(***************************************************************************)
(* Proofs about the ACD's decisions, for any threads, nodes, dns and       *)
(* channels: PollInductive and the action properties it implies.           *)
(***************************************************************************)
EXTENDS CallCenterProofs

\* What PollInductive says of one call.
PollOf(c) == PollAtRest(c) /\ TestedSoFar(c) /\ StillDue(c)

\* The thread of call c does nothing in the step.
Stands(c) ==
  /\ acd'[c] = acd[c] /\ held'[c] = held[c]
  /\ overtaken[c] # {} =>
       overtaken'[c] # {} /\ overtaken[c] \subseteq overtaken'[c]

\* The step makes no agent of S due or Ready, unless call c takes notice.
NoneGiven(c, S) ==
  overtaken[c] = {} \/ "given" \in overtaken'[c]
  \/ \A n \in S : /\ agent[n].polling => agent'[n].polling
                  /\ agent'[n].status = "Ready" => agent[n].status = "Ready"

\* Nor does it take a turn, or make an agent of S not Ready.
NoneTaken(c, S) ==
  overtaken[c] = {} \/ "taken" \in overtaken'[c]
  \/ \A n \in S : /\ agent'[n].polling => agent[n].polling
                  /\ agent[n].status = "Ready" => agent'[n].status = "Ready"

\* A step of another thread that does not relink the list.
Undisturbed(c) ==
  /\ Stands(c)
  /\ m_listAgent' = m_listAgent
  /\ cur'[c] = cur[c]
  /\ Sound' => Sound
  /\ Sound' => NoneGiven(c, Listed) /\ NoneTaken(c, Listed)

LEMMA UndisturbedKeepsPoll ==
  ASSUME ListTypeOK, NEW c \in Caller, PollOf(c), Undisturbed(c)
  PROVE  PollOf(c)'
<1> USE DEF Undisturbed, Stands
<1>0. \A i \in DOMAIN m_listAgent : m_listAgent[i] \in Listed
  BY DEF Listed, ToSet
<1>1. Listed' = Listed
  BY DEF Listed
<1>2. PollAtRest(c)'
  BY <1>1 DEF PollOf, PollAtRest
<1>3. TestedSoFar(c)'
  <2> SUFFICES ASSUME Sound', "given" \notin overtaken'[c],
                      NEW i \in DOMAIN m_listAgent, NEW j \in DOMAIN m_listAgent,
                      cur[c] = m_listAgent[i], acd[c] \in InPoll
               PROVE  /\ acd[c] = "exhausted" /\ j <= i => agent'[m_listAgent[j]].polling
                      /\ acd[c] = "choose" /\ j <= i => Unavailable(m_listAgent[j])'
                      /\ acd[c] \in {"ready", "claim"} /\ j < i
                         => Unavailable(m_listAgent[j])'
    BY DEF TestedSoFar, InPoll
  <2>1. overtaken[c] # {} /\ "given" \notin overtaken[c] /\ Sound
    BY DEF PollOf, PollAtRest
  <2>2. /\ agent[m_listAgent[j]].polling => agent'[m_listAgent[j]].polling
        /\ agent'[m_listAgent[j]].status = "Ready" => agent[m_listAgent[j]].status = "Ready"
    BY <1>0, <2>1 DEF NoneGiven
  <2>3. QED
    BY <2>1, <2>2 DEF PollOf, TestedSoFar, Unavailable
<1>4. StillDue(c)'
  <2> SUFFICES ASSUME Sound', "taken" \notin overtaken'[c], cur[c] \in Listed,
                      acd[c] \in {"ready", "claim"}
               PROVE  /\ ~agent'[cur[c]].polling
                      /\ acd[c] = "claim" => agent'[cur[c]].status = "Ready"
    BY <1>1 DEF StillDue
  <2>1. overtaken[c] # {} /\ "taken" \notin overtaken[c] /\ Sound
    BY DEF PollOf, PollAtRest, InPoll
  <2>2. QED
    BY <2>1 DEF PollOf, StillDue, NoneTaken
<1>5. QED
  BY <1>2, <1>3, <1>4 DEF PollOf

\* What Overtake leaves behind.
LEMMA OvertakeTold ==
  ASSUME ListTypeOK, NEW c \in Caller, NEW t \in Thread, NEW how, Overtake(t, how)
  PROVE  /\ overtaken[c] = {} => overtaken'[c] = {}
         /\ overtaken[c] # {} =>
              overtaken'[c] # {} /\ overtaken[c] \subseteq overtaken'[c]
         /\ t # c /\ overtaken[c] # {} => how \in overtaken'[c]
         /\ t = c => overtaken'[c] = overtaken[c]
BY DEF Overtake

-----------------------------------------------------------------------------
\* Steps of other threads.

\* A session's step on the list as it is: only the status and the turn of the
\* agent it found change, and every call inside get_available_agent() is told.
LEMMA SessionUndisturbed ==
  ASSUME ListTypeOK, ApiTypeOK, NEW c \in Caller, NEW s \in Session,
         UNCHANGED acdVars,
         \/ Receive(s) \/ Lookup(s) \/ NotFound(s) \/ Relogin(s) \/ ReloginReady(s)
         \/ SetStatus(s) \/ Makecall(s) \/ Replied(s) \/ Stray(s)
  PROVE  Undisturbed(c)
<1> USE DEF Undisturbed, Stands, acdVars
<1>0. /\ s \in Thread /\ c \in Thread /\ s # c
      /\ \A n \in Listed : n \in Node
  BY ThreadAssumption, ListedAreNodes DEF Thread, ListTypeOK
<1>1. CASE Receive(s) \/ Replied(s)
  BY <1>1 DEF Receive, Replied, listVars, Sound, NoneGiven, NoneTaken
<1>2. CASE Lookup(s)
  BY <1>0, <1>2 DEF Lookup, MoveTo, ListTypeOK, Sound, NoneGiven, NoneTaken
<1>3. CASE NotFound(s)
  BY <1>0, <1>3 DEF NotFound, MoveTo, ListTypeOK, Sound, NoneGiven, NoneTaken
<1>4. CASE Relogin(s)
  <2>1. Overtake(s, "given") /\ agent' = [agent EXCEPT ![cur[s]].polling = FALSE]
    BY <1>4 DEF Relogin
  <2>2. \A n \in Node : /\ agent'[n].polling => agent[n].polling
                        /\ agent'[n].status = agent[n].status
    BY <2>1 DEF ListTypeOK, Agent
  <2>3. NoneGiven(c, Listed) /\ NoneTaken(c, Listed)
    BY <1>0, <2>1, <2>2, OvertakeTold DEF NoneGiven, NoneTaken
  <2>4. QED
    BY <1>0, <1>4, <2>1, <2>3, OvertakeTold DEF Relogin, MoveTo, ListTypeOK, Sound
<1>5. CASE ReloginReady(s)
  <2>1. Overtake(s, "given")
    BY <1>5 DEF ReloginReady
  <2>2. \A n \in Listed : /\ agent'[n].polling => agent[n].polling
                          /\ agent[n].status = "Ready" => agent'[n].status = "Ready"
    BY <1>0, <1>5 DEF ReloginReady, Kept, ListTypeOK, Agent
  <2>3. NoneGiven(c, Listed) /\ NoneTaken(c, Listed)
    BY <1>0, <2>1, <2>2, OvertakeTold DEF NoneGiven, NoneTaken
  <2>4. QED
    BY <1>0, <1>5, <2>1, <2>3, OvertakeTold DEF ReloginReady, ListTypeOK, Sound
<1>6. CASE SetStatus(s)
  <2>1. /\ Overtake(s, IF req[s].op = "ready" THEN "given" ELSE "taken")
        /\ agent' = [agent EXCEPT ![cur[s]].status = StatusOf(req[s].op)]
    BY <1>6 DEF SetStatus
  <2>2. \A n \in Node : agent'[n].polling = agent[n].polling
    BY <2>1 DEF ListTypeOK, Agent
  <2>3. CASE req[s].op = "ready"
    <3>1. \A n \in Node : agent[n].status = "Ready" => agent'[n].status = "Ready"
      BY <2>1, <2>3 DEF ListTypeOK, Agent, StatusOf
    <3>2. NoneGiven(c, Listed) /\ NoneTaken(c, Listed)
      BY <1>0, <2>1, <2>2, <2>3, <3>1, OvertakeTold DEF NoneGiven, NoneTaken
    <3>3. QED
      BY <1>0, <1>6, <2>1, <3>2, OvertakeTold DEF SetStatus, MoveTo, ListTypeOK, Sound
  <2>4. CASE req[s].op \in {"notReady", "leave"}
    <3>1. \A n \in Node : agent'[n].status = "Ready" => agent[n].status = "Ready"
      BY <2>1, <2>4 DEF ListTypeOK, Agent, StatusOf
    <3>2. NoneGiven(c, Listed) /\ NoneTaken(c, Listed)
      BY <1>0, <2>1, <2>2, <2>4, <3>1, OvertakeTold DEF NoneGiven, NoneTaken
    <3>3. QED
      BY <1>0, <1>6, <2>1, <3>2, OvertakeTold DEF SetStatus, MoveTo, ListTypeOK, Sound
  <2>5. QED
    BY <1>6, <2>3, <2>4 DEF SetStatus
<1>7. CASE Makecall(s)
  BY <1>0, <1>7 DEF Makecall, MoveTo, ListTypeOK, Sound, NoneGiven, NoneTaken
<1>8. CASE Stray(s)
  BY <1>0, <1>8 DEF Stray, MoveTo, ListTypeOK, Sound
<1>9. QED
  BY <1>1, <1>2, <1>3, <1>4, <1>5, <1>6, <1>7, <1>8

\* So is a step of the event thread: a hangup makes its agent Ready.
LEMMA EventsUndisturbed ==
  ASSUME ListTypeOK, NEW c \in Caller, UNCHANGED acdVars,
         EventStep \/ FreeSwitch \/ Diverted
  PROVE  Undisturbed(c)
<1> USE DEF Undisturbed, Stands, acdVars
<1>0. /\ Listener \in Thread /\ c \in Thread /\ Listener # c
      /\ \A n \in Listed : n \in Node
  BY ThreadAssumption, ListedAreNodes DEF Thread, ListTypeOK
<1>1. CASE RecvEvent
  BY <1>1 DEF RecvEvent, listVars, Sound, NoneGiven, NoneTaken
<1>2. CASE FindDest
  BY <1>0, <1>2 DEF FindDest, MoveTo, ListTypeOK, Sound, NoneGiven, NoneTaken
<1>3. CASE NoDest
  BY <1>0, <1>3 DEF NoDest, MoveTo, ListTypeOK, Sound, NoneGiven, NoneTaken
<1>4. CASE SetUuid
  <2>1. \A n \in Node : /\ agent'[n].polling = agent[n].polling
                        /\ agent'[n].status = agent[n].status
    BY <1>4 DEF SetUuid, ListTypeOK, Agent
  <2>2. QED
    BY <1>0, <1>4, <2>1 DEF SetUuid, MoveTo, ListTypeOK, Sound, NoneGiven, NoneTaken
<1>5. CASE HangupComplete
  <2>1. Overtake(Listener, "given")
    BY <1>5 DEF HangupComplete
  <2>2. \A n \in Node : /\ agent'[n].polling = agent[n].polling
                        /\ agent[n].status = "Ready" => agent'[n].status = "Ready"
    BY <1>5 DEF HangupComplete, ListTypeOK, Agent
  <2>3. NoneGiven(c, Listed) /\ NoneTaken(c, Listed)
    BY <1>0, <2>1, <2>2, OvertakeTold DEF NoneGiven, NoneTaken
  <2>4. QED
    BY <1>0, <1>5, <2>1, <2>3, OvertakeTold DEF HangupComplete, MoveTo, ListTypeOK, Sound
<1>6. CASE Stray(Listener)
  BY <1>0, <1>6 DEF Stray, MoveTo, ListTypeOK, Sound
<1>7. CASE FreeSwitch \/ Diverted
  BY <1>7 DEF FreeSwitch, Diverted, HangUp, Ring, listVars, Sound, NoneGiven, NoneTaken
<1>8. QED
  BY <1>1, <1>2, <1>3, <1>4, <1>5, <1>6, <1>7 DEF EventStep

\* And a step of another call.  It takes turns where it claims an agent and
\* gives them back where it resets the list, nowhere else: outside "bridge" it
\* holds no agent.
LEMMA CallersUndisturbed ==
  ASSUME ListTypeOK, AcdTypeOK, NEW c \in Caller, NEW d \in Caller \ {c},
         PollAtRest(d), CallerStep(d)
  PROVE  Undisturbed(c)
<1> USE DEF Undisturbed, Stands, Jump
<1>0. /\ d \in Thread /\ c \in Thread /\ d # c
      /\ \A n \in Listed : n \in Node
  BY ListedAreNodes DEF Thread, ListTypeOK
<1>1. CASE Answer(d) \/ NextCall(d) \/ TestReady(d)
  BY <1>0, <1>1 DEF Answer, NextCall, TestReady, listVars, AcdTypeOK, Sound, NoneGiven, NoneTaken
<1>2. CASE ChannelEvent(d)
  <2>1. agent' = agent
    BY <1>2 DEF ChannelEvent, ResetAgents, PollAtRest
  <2>2. QED
    BY <1>0, <1>2, <2>1
    DEF ChannelEvent, ListTypeOK, AcdTypeOK, Sound, NoneGiven, NoneTaken
<1>3. CASE Disconnect(d)
  BY <1>0, <1>3 DEF Disconnect, ListTypeOK, AcdTypeOK, Sound, NoneGiven, NoneTaken
<1>4. CASE Poll(d)
  BY <1>0, <1>4 DEF Poll, ListTypeOK, AcdTypeOK, Sound, NoneGiven, NoneTaken
<1>5. CASE TestExhausted(d) \/ TestPolling(d)
  BY <1>0, <1>5
  DEF TestExhausted, TestPolling, MoveTo, ListTypeOK, AcdTypeOK, Sound, NoneGiven, NoneTaken
<1>6. CASE Exhausted(d) \/ ResetDone(d) \/ NoneAvailable(d)
  <2>1. /\ UNCHANGED <<proc, m_listAgent, agent, held>>
        /\ cur'[c] = cur[c] /\ acd'[c] = acd[c]
    BY <1>0, <1>6 DEF Exhausted, ResetDone, NoneAvailable, MoveTo, ListTypeOK, AcdTypeOK
  <2>2. overtaken'[c] = overtaken[c]
    BY <1>0, <1>6 DEF Exhausted, ResetDone, NoneAvailable, ListTypeOK
  <2>3. QED
    BY <2>1, <2>2 DEF Sound, NoneGiven, NoneTaken
<1>7. CASE Reset(d)
  <2>1. PICK y \in Node : /\ MoveTo(d, y)
                          /\ agent' = [agent EXCEPT ![y].polling = FALSE]
                          /\ Overtake(d, "given")
    BY <1>7 DEF Reset
  <2>2. \A n \in Node : /\ agent'[n].polling => agent[n].polling
                        /\ agent'[n].status = agent[n].status
    BY <2>1 DEF ListTypeOK, Agent
  <2>3. NoneGiven(c, Listed) /\ NoneTaken(c, Listed)
    BY <1>0, <2>1, <2>2, OvertakeTold DEF NoneGiven, NoneTaken
  <2>4. QED
    BY <1>0, <1>7, <2>1, <2>3, OvertakeTold DEF Reset, MoveTo, ListTypeOK, Sound
<1>8. CASE Claim(d)
  <2>1. Overtake(d, "taken")
    BY <1>8 DEF Claim
  <2>2. \A n \in Node : /\ agent[n].polling => agent'[n].polling
                        /\ agent'[n].status = agent[n].status
    BY <1>8 DEF Claim, ListTypeOK, Agent
  <2>3. NoneGiven(c, Listed) /\ NoneTaken(c, Listed)
    BY <1>0, <2>1, <2>2, OvertakeTold DEF NoneGiven, NoneTaken
  <2>4. QED
    BY <1>0, <1>8, <2>1, <2>3, OvertakeTold DEF Claim, MoveTo, ListTypeOK, AcdTypeOK, Sound
<1>9. CASE Bridge(d)
  <2>1. \A n \in Listed : agent'[n] = agent[n]
    BY <1>0, <1>9 DEF Bridge, Kept, ListTypeOK
  <2>2. QED
    BY <1>0, <1>9, <2>1 DEF Bridge, ListTypeOK, AcdTypeOK, Sound, NoneGiven, NoneTaken
<1>10. CASE Stray(d) /\ UNCHANGED acd
  BY <1>0, <1>10 DEF Stray, MoveTo, ListTypeOK, Sound
<1>11. QED
  BY <1>1, <1>2, <1>3, <1>4, <1>5, <1>6, <1>7, <1>8, <1>9, <1>10
  DEF CallerStep, PollStep

-----------------------------------------------------------------------------
\* push_back adds an agent behind every walk, and tells every call.
LEMMA PushBackKeepsPoll ==
  ASSUME ListTypeOK, NEW c \in Caller, NEW s \in Session, NEW n \in Fresh,
         NEW d \in Dn, PushBack(s, n, d), UNCHANGED acdVars, PollOf(c)
  PROVE  PollOf(c)'
<1> USE DEF acdVars, PollOf
<1>1. /\ n \in Node /\ n \notin Listed
      /\ s \in Thread /\ c \in Thread /\ s # c
  BY ThreadAssumption DEF Fresh, Thread
<1>2. /\ cur' = cur /\ held' = held /\ Sound' = Sound /\ Overtake(s, "given")
      /\ m_listAgent' = Append(m_listAgent, n)
      /\ agent' = [agent EXCEPT ![n] = NewAgent(d)]
  BY DEF PushBack, Sound
<1>3. Listed' = Listed \cup {n}
  <2>1. /\ m_listAgent \in Seq(Node)
        /\ Len(m_listAgent') = Len(m_listAgent) + 1
        /\ \A i \in 1..Len(m_listAgent) : m_listAgent'[i] = m_listAgent[i]
        /\ m_listAgent'[Len(m_listAgent) + 1] = n
        /\ DOMAIN m_listAgent' = 1..(Len(m_listAgent) + 1)
    BY <1>1, <1>2 DEF ListTypeOK
  <2>2. QED
    BY <2>1 DEF Listed, ToSet
<1>4. \A m \in Listed : m \in Node /\ agent'[m] = agent[m]
  BY <1>1, <1>2, ListedAreNodes DEF ListTypeOK
<1>5. cur[c] \in Listed \cup {Begin, Dangling} /\ cur[c] # n
  BY <1>1, NodeAssumption DEF PollAtRest
<1>6. PollAtRest(c)'
  BY <1>1, <1>2, <1>3, OvertakeTold DEF PollAtRest
<1>7. TestedSoFar(c)'
  BY <1>1, <1>2, OvertakeTold DEF TestedSoFar, PollAtRest, InPoll
<1>8. StillDue(c)'
  <2>1. \/ acd[c] \notin {"ready", "claim"}
        \/ "taken" \notin overtaken'[c] => "taken" \notin overtaken[c]
    BY <1>1, <1>2, OvertakeTold DEF PollAtRest, InPoll
  <2>2. QED
    BY <1>2, <1>3, <1>4, <1>5, <2>1 DEF StillDue
<1>9. QED
  BY <1>6, <1>7, <1>8

\* erase() makes the walk of a call at the erased agent dangle, and leaves the
\* others what they had passed.
LEMMA EraseKeepsPoll ==
  ASSUME ListTypeOK, NodesDistinct, NEW c \in Caller, NEW s \in Session, Erase(s),
         UNCHANGED acdVars, PollOf(c)
  PROVE  PollOf(c)'
<1> USE DEF acdVars, PollOf
<1>1. s \in Thread /\ c \in Thread /\ s # c
  BY ThreadAssumption DEF Thread
<1>2. PICK f \in [DOMAIN m_listAgent' -> DOMAIN m_listAgent] :
        /\ \A i \in DOMAIN m_listAgent' :
             m_listAgent'[i] = m_listAgent[f[i]] /\ m_listAgent'[i] # cur[s]
        /\ \A i, j \in DOMAIN m_listAgent' : i < j => f[i] < f[j]
  BY <1>1, ErasedPlaces
<1>3. /\ cur'[c] = IF cur[c] = cur[s] THEN Dangling ELSE cur[c]
      /\ held' = held /\ overtaken' = overtaken /\ Sound' = Sound
  <2>1. cur' = [u \in Thread |-> IF u = s THEN Begin
                                 ELSE IF cur[u] = cur[s] THEN Dangling ELSE cur[u]]
    BY DEF Erase
  <2>2. QED
    BY <1>1, <2>1 DEF Erase, Sound
<1>4. /\ \A i \in DOMAIN m_listAgent' : m_listAgent'[i] \in Node
      /\ \A i \in DOMAIN m_listAgent' : i \in Nat /\ f[i] \in Nat /\ f[i] \in DOMAIN m_listAgent
      /\ cur[s] \in Node
  <2>1. m_listAgent \in Seq(Node) /\ m_listAgent' \in Seq(Node)
    BY <1>1, EraseType DEF ListTypeOK
  <2>2. cur[s] \in Node
    BY <2>1 DEF Erase
  <2>3. QED
    BY <2>1, <2>2
<1>5. \A n \in Node : n # cur[s] => agent'[n] = agent[n]
  BY DEF Erase, ListTypeOK
<1>6. PollAtRest(c)'
  <2>1. cur'[c] \in Listed' \cup {Begin, Dangling}
    <3> SUFFICES ASSUME cur'[c] \notin {Begin, Dangling}
                 PROVE  cur'[c] \in Listed'
      OBVIOUS
    <3>1. cur'[c] = cur[c] /\ cur[c] # cur[s]
      BY <1>3
    <3>2. PICK i \in DOMAIN m_listAgent : m_listAgent[i] = cur[c]
      BY <3>1 DEF PollAtRest, Listed, ToSet
    <3>3. \E j \in DOMAIN m_listAgent' : m_listAgent'[j] = m_listAgent[i]
      BY <1>1, <3>1, <3>2, ErasedOnlyOne
    <3>4. QED
      BY <3>1, <3>2, <3>3 DEF Listed, ToSet
  <2>2. acd[c] \notin InPoll => cur'[c] = Begin
    BY <1>3, <1>4, NodeAssumption DEF PollAtRest
  <2>3. QED
    BY <1>3, <2>1, <2>2 DEF PollAtRest
<1>7. TestedSoFar(c)'
  <2> SUFFICES ASSUME Sound, "given" \notin overtaken[c],
                      NEW i \in DOMAIN m_listAgent', NEW j \in DOMAIN m_listAgent',
                      cur'[c] = m_listAgent'[i]
               PROVE  /\ acd[c] = "exhausted" /\ j <= i => agent'[m_listAgent'[j]].polling
                      /\ acd[c] = "choose" /\ j <= i => Unavailable(m_listAgent[j])'
                      /\ acd[c] \in {"ready", "claim"} /\ j < i
                         => Unavailable(m_listAgent[j])'
    BY <1>3 DEF TestedSoFar
  <2>1. cur[c] = m_listAgent[f[i]]
    BY <1>2, <1>3, <1>4, NodeAssumption
  <2>2. j < i => f[j] < f[i]
    BY <1>2
  <2>3. j <= i => f[j] <= f[i]
    <3>1. j = i => f[j] <= f[i]
      BY <1>4
    <3>2. f[j] < f[i] => f[j] <= f[i]
      BY <1>4
    <3>3. j <= i => j < i \/ j = i
      BY <1>4
    <3>4. QED
      BY <2>2, <3>1, <3>2, <3>3
  <2>4. /\ agent'[m_listAgent'[j]] = agent[m_listAgent[f[j]]]
        /\ f[i] \in DOMAIN m_listAgent /\ f[j] \in DOMAIN m_listAgent
    BY <1>2, <1>4, <1>5
  <2>5. /\ acd[c] = "exhausted" /\ j <= i => agent[m_listAgent[f[j]]].polling
        /\ acd[c] = "choose" /\ j <= i => Unavailable(m_listAgent[f[j]])
        /\ acd[c] \in {"ready", "claim"} /\ j < i => Unavailable(m_listAgent[f[j]])
    BY <2>1, <2>2, <2>3, <2>4 DEF TestedSoFar
  <2>6. QED
    BY <2>4, <2>5 DEF Unavailable
<1>8. StillDue(c)'
  <2> SUFFICES ASSUME Sound, "taken" \notin overtaken[c], cur'[c] \in Listed'
               PROVE  /\ acd[c] \in {"ready", "claim"} => ~agent'[cur'[c]].polling
                      /\ acd[c] = "claim" => agent'[cur'[c]].status = "Ready"
    BY <1>3 DEF StillDue
  <2>1. PICK i \in DOMAIN m_listAgent' : cur'[c] = m_listAgent'[i]
    BY DEF Listed, ToSet
  <2>2. cur'[c] = cur[c] /\ cur[c] = m_listAgent[f[i]] /\ cur[c] # cur[s] /\ cur[c] \in Node
    BY <1>2, <1>3, <1>4, <2>1, NodeAssumption
  <2>3. cur[c] \in Listed /\ agent'[cur'[c]] = agent[cur[c]]
    BY <1>2, <1>4, <1>5, <2>2 DEF Listed, ToSet
  <2>4. QED
    BY <2>2, <2>3 DEF StillDue
<1>9. QED
  BY <1>6, <1>7, <1>8

-----------------------------------------------------------------------------
\* The call's own steps.

\* One step of a walk: the places before the new one are those passed so far.
LEMMA WalkOn ==
  ASSUME m_listAgent \in Seq(Node), NodesDistinct, NEW x, NEW y \in Node, Leads(x, y),
         NEW i \in DOMAIN m_listAgent, y = m_listAgent[i],
         NEW j \in DOMAIN m_listAgent, j < i
  PROVE  \E k \in DOMAIN m_listAgent : m_listAgent[k] = x /\ j <= k
<1>1. i \in 1..Len(m_listAgent) /\ j \in 1..Len(m_listAgent)
  OBVIOUS
<1>2. m_listAgent # <<>> /\ 1 \in DOMAIN m_listAgent
  BY <1>1
<1>3. ~(y = m_listAgent[1])
  BY <1>1, <1>2 DEF NodesDistinct
<1>4. PICK k \in DOMAIN m_listAgent :
        /\ m_listAgent[k] = x
        /\ y = IF k = Len(m_listAgent) THEN None ELSE m_listAgent[k + 1]
  BY <1>2, <1>3 DEF Leads
<1>5. k # Len(m_listAgent) /\ y = m_listAgent[k + 1]
  BY <1>4, NodeAssumption
<1>6. k \in Nat /\ k + 1 \in DOMAIN m_listAgent
  BY <1>4, <1>5
<1>7. i = k + 1
  BY <1>5, <1>6 DEF NodesDistinct
<1>8. QED
  BY <1>1, <1>4, <1>6, <1>7

\* A walk that has come to the end has passed every place.
LEMMA WalkEnds ==
  ASSUME m_listAgent \in Seq(Node), NEW x, Leads(x, None),
         NEW j \in DOMAIN m_listAgent
  PROVE  \E k \in DOMAIN m_listAgent : m_listAgent[k] = x /\ j <= k
<1>1. j \in 1..Len(m_listAgent)
  OBVIOUS
<1>2. m_listAgent # <<>> /\ m_listAgent[1] \in Node
  BY <1>1
<1>3. PICK k \in DOMAIN m_listAgent :
        /\ m_listAgent[k] = x
        /\ None = IF k = Len(m_listAgent) THEN None ELSE m_listAgent[k + 1]
  BY <1>2, NodeAssumption DEF Leads
<1>4. k = Len(m_listAgent)
  <2>1. ASSUME k # Len(m_listAgent)
        PROVE  m_listAgent[k + 1] \in Node
    BY <1>3, <2>1
  <2>2. QED
    BY <1>3, <2>1, NodeAssumption
<1>5. QED
  BY <1>1, <1>3, <1>4

LEMMA BeginIsNoPlace ==
  ASSUME m_listAgent \in Seq(Node)
  PROVE  Begin \notin Listed /\ \A i \in DOMAIN m_listAgent : m_listAgent[i] # Begin
BY NodeAssumption DEF Listed, ToSet

\* A step that leaves the call's cursor at Begin leaves it nothing to know.
LEMMA AtBegin ==
  ASSUME ListTypeOK, NEW c \in Caller, m_listAgent' = m_listAgent, cur'[c] = Begin,
         acd'[c] \in InPoll => overtaken'[c] # {},
         held'[c] # None => acd'[c] = "bridge"
  PROVE  PollOf(c)'
<1>1. Begin \notin Listed' /\ \A i \in DOMAIN m_listAgent' : m_listAgent'[i] # Begin
  BY BeginIsNoPlace DEF ListTypeOK, Listed
<1>2. PollAtRest(c)'
  BY DEF PollAtRest
<1>3. TestedSoFar(c)'
  BY <1>1 DEF TestedSoFar
<1>4. StillDue(c)'
  BY <1>1 DEF StillDue
<1>5. QED
  BY <1>2, <1>3, <1>4 DEF PollOf

\* The two walks: a place is passed when its agent fails the test.
LEMMA WalksKeepPoll ==
  ASSUME ListTypeOK, AcdTypeOK, NodesDistinct, NEW c \in Caller, PollOf(c),
         TestExhausted(c) \/ TestPolling(c)
  PROVE  PollOf(c)'
<1> USE DEF PollOf, Jump
<1>1. PICK y \in Node :
        /\ Leads(cur[c], y)
        /\ \/ MoveTo(c, y) /\ acd' = acd /\ agent[y].polling
           \/ MoveTo(c, Begin) /\ Jump(c, "choose") /\ acd[c] = "exhausted"
           \/ MoveTo(c, y) /\ acd[c] = "choose" /\ Jump(c, "ready") /\ ~agent[y].polling
  BY DEF TestExhausted, TestPolling
<1>2. /\ UNCHANGED <<proc, m_listAgent, agent, held, overtaken>>
      /\ acd[c] \in {"exhausted", "choose"} /\ overtaken[c] # {} /\ held[c] = None
  BY DEF TestExhausted, TestPolling, PollAtRest, InPoll
<1>3. m_listAgent \in Seq(Node) /\ c \in Thread /\ y \in Listed
  BY <1>1, LeadsIntoList, NodeAssumption DEF ListTypeOK, Thread
<1>4. CASE MoveTo(c, Begin) /\ Jump(c, "choose")
  <2>1. cur'[c] = Begin /\ acd'[c] = "choose"
    BY <1>3, <1>4 DEF MoveTo, ListTypeOK, AcdTypeOK
  <2>2. QED
    BY <1>2, <2>1, AtBegin
<1>5. CASE /\ MoveTo(c, y)
           /\ \/ acd' = acd /\ agent[y].polling
              \/ acd[c] = "choose" /\ Jump(c, "ready") /\ ~agent[y].polling
  <2>1. cur'[c] = y
    BY <1>3, <1>5 DEF MoveTo, ListTypeOK
  <2>2. \/ acd'[c] = acd[c] /\ agent[y].polling
        \/ acd[c] = "choose" /\ acd'[c] = "ready" /\ ~agent[y].polling
    BY <1>5 DEF AcdTypeOK
  <2>3. PollAtRest(c)'
    BY <1>2, <1>3, <2>1, <2>2 DEF PollAtRest, InPoll, Listed
  <2>4. TestedSoFar(c)'
    <3> SUFFICES ASSUME Sound, "given" \notin overtaken[c],
                        NEW i \in DOMAIN m_listAgent, NEW j \in DOMAIN m_listAgent,
                        y = m_listAgent[i]
                 PROVE  /\ acd'[c] = "exhausted" /\ j <= i => agent[m_listAgent[j]].polling
                        /\ acd'[c] = "choose" /\ j <= i => Unavailable(m_listAgent[j])
                        /\ acd'[c] \in {"ready", "claim"} /\ j < i
                           => Unavailable(m_listAgent[j])
      BY <1>2, <2>1 DEF TestedSoFar, Unavailable, Sound
    <3>1. j < i => /\ acd[c] = "exhausted" => agent[m_listAgent[j]].polling
                   /\ acd[c] = "choose" => Unavailable(m_listAgent[j])
      BY <1>1, <1>3, WalkOn DEF TestedSoFar
    <3>2. j = i => m_listAgent[j] = y
      OBVIOUS
    <3>3. j <= i => j < i \/ j = i
      BY <1>3
    <3>4. QED
      BY <1>2, <2>2, <3>1, <3>2, <3>3 DEF Unavailable
  <2>5. StillDue(c)'
    BY <1>2, <2>1, <2>2 DEF StillDue, Sound, Listed
  <2>6. QED
    BY <2>3, <2>4, <2>5
<1>6. QED
  BY <1>1, <1>4, <1>5

\* The second half of the test.
LEMMA ReadyKeepsPoll ==
  ASSUME ListTypeOK, AcdTypeOK, NEW c \in Caller, PollOf(c), TestReady(c)
  PROVE  PollOf(c)'
<1> USE DEF PollOf
<1>1. /\ UNCHANGED listVars /\ acd[c] = "ready" /\ cur[c] \in Listed
      /\ acd'[c] = IF agent[cur[c]].status = "Ready" THEN "claim" ELSE "choose"
  BY DEF TestReady, Jump, AcdTypeOK
<1>2. PollAtRest(c)'
  BY <1>1 DEF PollAtRest, InPoll, listVars, Listed
<1>3. TestedSoFar(c)'
  <2> SUFFICES ASSUME Sound, "given" \notin overtaken[c],
                      NEW i \in DOMAIN m_listAgent, NEW j \in DOMAIN m_listAgent,
                      cur[c] = m_listAgent[i]
               PROVE  /\ acd'[c] = "choose" /\ j <= i => Unavailable(m_listAgent[j])
                      /\ acd'[c] = "claim" /\ j < i => Unavailable(m_listAgent[j])
    BY <1>1 DEF TestedSoFar, Unavailable, Sound, listVars
  <2>1. j < i => Unavailable(m_listAgent[j])
    BY <1>1 DEF TestedSoFar
  <2>2. j <= i => j < i \/ j = i
    BY DEF ListTypeOK
  <2>3. QED
    BY <1>1, <2>1, <2>2 DEF Unavailable
<1>4. StillDue(c)'
  BY <1>1 DEF StillDue, Sound, listVars, Listed
<1>5. QED
  BY <1>2, <1>3, <1>4

LEMMA OwnStepKeepsPoll ==
  ASSUME ListTypeOK, AcdTypeOK, NodesDistinct, NEW c \in Caller, PollOf(c),
         CallerStep(c)
  PROVE  PollOf(c)'
<1>0. c \in Thread
  BY DEF Thread
<1>1. CASE TestExhausted(c) \/ TestPolling(c)
  BY <1>1, WalksKeepPoll
<1>2. CASE TestReady(c)
  BY <1>2, ReadyKeepsPoll
<1>3. CASE Reset(c)
  <2>1. PICK y \in Node : MoveTo(c, y) /\ Leads(cur[c], y)
    BY <1>3 DEF Reset
  <2>2. /\ cur'[c] = y /\ y \in Listed /\ m_listAgent' = m_listAgent
        /\ acd'[c] = "reset" /\ held'[c] = held[c] /\ acd[c] = "reset"
    BY <1>0, <1>3, <2>1, LeadsIntoList, NodeAssumption DEF Reset, MoveTo, ListTypeOK
  <2>3. overtaken'[c] = overtaken[c]
    BY <1>0, <1>3, OvertakeTold DEF Reset
  <2>4. QED
    BY <2>2, <2>3 DEF PollOf, PollAtRest, TestedSoFar, StillDue, InPoll, Listed
<1>4. CASE Stray(c) /\ UNCHANGED acd
  <2>1. acd[c] \in InPoll /\ ~Sound' /\ m_listAgent' = m_listAgent
    BY <1>4, NodeAssumption DEF Stray, PollOf, PollAtRest, Sound
  <2>2. cur'[c] \in Listed \cup {Begin, Dangling}
    BY <1>0, <1>4 DEF Stray, MoveTo, ListTypeOK
  <2>3. QED
    BY <1>4, <2>1, <2>2
    DEF Stray, PollOf, PollAtRest, TestedSoFar, StillDue, Listed
<1>5. CASE Exhausted(c) \/ ResetDone(c)
  BY <1>0, <1>5, AtBegin
  DEF Exhausted, ResetDone, MoveTo, Jump, ListTypeOK, AcdTypeOK, PollOf, PollAtRest, InPoll
<1>6. CASE NoneAvailable(c) \/ Claim(c)
  <2>1. cur'[c] = Begin /\ m_listAgent' = m_listAgent
    BY <1>0, <1>6 DEF NoneAvailable, Claim, MoveTo, ListTypeOK
  <2>2. acd'[c] \in {"recv", "bridge"} /\ (acd'[c] = "recv" => held'[c] = None)
    BY <1>6 DEF NoneAvailable, Claim, Jump, AcdTypeOK, PollOf, PollAtRest, InPoll
  <2>3. QED
    BY <2>1, <2>2, AtBegin DEF InPoll
<1>7. CASE Answer(c) \/ NextCall(c) \/ Poll(c)
  <2>1. cur'[c] = Begin /\ m_listAgent' = m_listAgent /\ held'[c] = None
    BY <1>7 DEF Answer, NextCall, Poll, listVars, PollOf, PollAtRest, InPoll
  <2>2. acd'[c] \in {"recv", "dial", "exhausted"}
    BY <1>7 DEF Answer, NextCall, Poll, Jump, AcdTypeOK
  <2>3. acd'[c] = "exhausted" => overtaken'[c] # {}
    BY <1>7, <2>2 DEF Answer, NextCall, Poll, Jump, AcdTypeOK, ListTypeOK
  <2>4. QED
    BY <2>1, <2>2, <2>3, AtBegin DEF InPoll
<1>8. CASE ChannelEvent(c) \/ Disconnect(c) \/ Bridge(c)
  <2>1. cur'[c] = Begin /\ m_listAgent' = m_listAgent
    BY <1>8 DEF ChannelEvent, Disconnect, Bridge, PollOf, PollAtRest, InPoll
  <2>2. acd'[c] \in {"recv", "hungup", "bridged"} /\ held'[c] = None
    BY <1>0, <1>8
    DEF ChannelEvent, Disconnect, Bridge, Jump, ListTypeOK, AcdTypeOK, PollOf, PollAtRest
  <2>3. QED
    BY <2>1, <2>2, AtBegin DEF InPoll
<1>9. QED
  BY <1>1, <1>2, <1>3, <1>4, <1>5, <1>6, <1>7, <1>8 DEF CallerStep, PollStep

-----------------------------------------------------------------------------
LEMMA SessionKeepsPoll ==
  ASSUME TypeOK, NodesDistinct, NEW c \in Caller, PollOf(c), NEW s \in Session, Api(s)
  PROVE  PollOf(c)'
<1> USE DEF TypeOK
<1>1. CASE Login(s) /\ UNCHANGED acdVars
  <2>1. req[s].dn \in Dn
    BY <1>1, RequestTypes DEF Login
  <2>2. QED
    BY <1>1, <2>1, PushBackKeepsPoll DEF Login
<1>2. CASE Logout(s) /\ UNCHANGED acdVars
  BY <1>2, EraseKeepsPoll DEF Logout
<1>3. CASE /\ UNCHANGED acdVars
           /\ \/ Receive(s) \/ Lookup(s) \/ NotFound(s) \/ Relogin(s)
              \/ ReloginReady(s) \/ SetStatus(s) \/ Makecall(s) \/ Replied(s)
              \/ Stray(s)
  BY <1>3, SessionUndisturbed, UndisturbedKeepsPoll
<1>4. QED
  BY <1>1, <1>2, <1>3 DEF Api, SessionStep

LEMMA PollInductiveStep ==
  TypeOK /\ UniqueDnInductive /\ PollInductive /\ [Next]_vars => PollInductive'
<1> SUFFICES ASSUME TypeOK, UniqueDnInductive, PollInductive, [Next]_vars
             PROVE  PollInductive'
  OBVIOUS
<1>1. NodesDistinct'
  BY UniqueDnStep DEF UniqueDnInductive
<1> SUFFICES ASSUME NEW c \in Caller
             PROVE  PollOf(c)'
  BY <1>1 DEF PollInductive, PollOf
<1>2. PollOf(c) /\ ListTypeOK /\ AcdTypeOK /\ NodesDistinct
  BY DEF PollInductive, PollOf, TypeOK
<1>3. ASSUME NEW s \in Session, Api(s)
      PROVE  PollOf(c)'
  BY <1>2, <1>3, SessionKeepsPoll
<1>4. CASE Acd(c)
  BY <1>2, <1>4, OwnStepKeepsPoll DEF Acd
<1>5. ASSUME NEW d \in Caller \ {c}, Acd(d)
      PROVE  PollOf(c)'
  BY <1>2, <1>5, CallersUndisturbed, UndisturbedKeepsPoll DEF Acd, PollInductive
<1>6. CASE Events
  BY <1>2, <1>6, EventsUndisturbed, UndisturbedKeepsPoll DEF Events, TakesEvent
<1>7. CASE DataRace \/ UNCHANGED vars
  <2>1. Undisturbed(c)
    BY <1>7 DEF DataRace, vars, listVars, acdVars, Undisturbed, Stands, Sound,
                NoneGiven, NoneTaken
  <2>2. QED
    BY <1>2, <2>1, UndisturbedKeepsPoll
<1>8. QED
  BY <1>3, <1>4, <1>5, <1>6, <1>7 DEF Next

\* What the walks of get_available_agent() have tested stays so, or the call
\* has been overtaken, for any number of calls and sessions
\* (CallService.cpp:456-480).
THEOREM PollInductiveHolds == Spec => []PollInductive
<1>1. Init => PollInductive
  BY DEF Init, ListInit, AcdInit, PollInductive, NodesDistinct, PollAtRest, TestedSoFar,
         StillDue, Thread, InPoll
<1>2. QED
  BY <1>1, PollInductiveStep, TypeCorrect, UniqueDnInductiveHolds, PTL DEF Spec

-----------------------------------------------------------------------------
\* A step that moves a call is its own thread's.
LEMMA OwnMove ==
  ASSUME TypeOK, [Next]_vars, NEW c \in Caller, acd'[c] # acd[c]
  PROVE  CallerStep(c)
<1>1. acd' # acd
  BY DEF TypeOK, AcdTypeOK
<1>2. PICK d \in Caller : Acd(d)
  BY <1>1 DEF Next, Api, Events, DataRace, vars, acdVars
<1>3. \A e \in Caller \ {d} : acd'[e] = acd[e]
  BY <1>2 DEF Acd, CallerStep, PollStep, Answer, ChannelEvent, Disconnect, Poll,
     TestExhausted, Exhausted, Reset, ResetDone, TestPolling, TestReady, Claim,
     NoneAvailable, Bridge, NextCall, Jump, TypeOK, AcdTypeOK
<1>4. QED
  BY <1>2, <1>3 DEF Acd

\* What the step that leaves a pc for another must have been.
LEMMA Moves ==
  ASSUME TypeOK, NEW c \in Caller, CallerStep(c)
  PROVE  /\ acd[c] = "exhausted" /\ acd'[c] = "reset" => Exhausted(c)
         /\ acd[c] \in InPoll /\ acd'[c] = "recv" => NoneAvailable(c)
BY DEF CallerStep, PollStep, Answer, ChannelEvent, Disconnect, Poll,
       TestExhausted, Exhausted, Reset, ResetDone, TestPolling, TestReady, Claim,
       NoneAvailable, Bridge, NextCall, Jump, TypeOK, AcdTypeOK, InPoll

\* The list is reset only when every agent has had its turn, or another thread
\* gave one back behind the walk, for any number of threads
\* (CallService.cpp:460-466).
THEOREM ResetsWhenExhausted == Spec => ResetOnlyWhenExhausted
<1>1. ASSUME TypeOK, PollInductive, [Next]_vars, NEW c \in Caller, acd[c] = "exhausted",
             acd'[c] = "reset", "given" \notin overtaken[c], Sound, NEW n \in Listed
      PROVE  agent[n].polling
  <2>1. Exhausted(c)
    BY <1>1, OwnMove, Moves
  <2>2. PICK j \in DOMAIN m_listAgent : m_listAgent[j] = n
    BY DEF Listed, ToSet
  <2>3. \E k \in DOMAIN m_listAgent : m_listAgent[k] = cur[c] /\ j <= k
    BY <1>1, <2>1, WalkEnds DEF Exhausted, TypeOK, ListTypeOK
  <2>4. QED
    BY <1>1, <2>2, <2>3 DEF PollInductive, TestedSoFar
<1>2. TypeOK /\ PollInductive /\ [Next]_vars =>
        [\A c \in Caller :
           /\ acd[c] = "exhausted" /\ acd'[c] = "reset"
           /\ "given" \notin overtaken[c] /\ Sound
           => \A n \in Listed : agent[n].polling]_vars
  BY <1>1
<1>3. QED
  BY <1>2, TypeCorrect, PollInductiveHolds, PTL DEF Spec, ResetOnlyWhenExhausted

\* A call leaves get_available_agent() without an agent only if none was Ready
\* and due, or another thread made one so behind the walk
\* (CallService.cpp:468-479).
THEOREM NoAgentIsMissed == Spec => NoAgentMissed
<1>1. ASSUME TypeOK, PollInductive, [Next]_vars, NEW c \in Caller, acd[c] \in InPoll,
             acd'[c] = "recv", "given" \notin overtaken[c], Sound, NEW n \in Listed
      PROVE  Unavailable(n)
  <2>1. NoneAvailable(c)
    BY <1>1, OwnMove, Moves DEF InPoll
  <2>2. PICK j \in DOMAIN m_listAgent : m_listAgent[j] = n
    BY DEF Listed, ToSet
  <2>3. \E k \in DOMAIN m_listAgent : m_listAgent[k] = cur[c] /\ j <= k
    BY <1>1, <2>1, WalkEnds DEF NoneAvailable, TypeOK, ListTypeOK
  <2>4. QED
    BY <1>1, <2>1, <2>2, <2>3 DEF PollInductive, TestedSoFar, NoneAvailable
<1>2. TypeOK /\ PollInductive /\ [Next]_vars =>
        [\A c \in Caller :
           /\ acd[c] \in InPoll /\ acd'[c] = "recv"
           /\ "given" \notin overtaken[c] /\ Sound
           => \A n \in Listed : Unavailable(n)]_vars
  BY <1>1
<1>3. QED
  BY <1>2, TypeCorrect, PollInductiveHolds, PTL DEF Spec, NoAgentMissed

\* The agent a call claims is Ready and due, or another thread changed that
\* behind the walk (CallService.cpp:472-475).
THEOREM ClaimsAreDue == Spec => ClaimIsDue
<1>1. ASSUME TypeOK, PollInductive, [Next]_vars, NEW c \in Caller, acd[c] = "claim",
             acd'[c] = "bridge", "taken" \notin overtaken[c], Sound
      PROVE  ~agent[cur[c]].polling /\ agent[cur[c]].status = "Ready"
  <2>1. CallerStep(c)
    BY <1>1, OwnMove
  <2>2. Claim(c)
    BY <1>1, <2>1 DEF CallerStep, PollStep, Answer, ChannelEvent, Disconnect, Poll,
       TestExhausted, Exhausted, Reset, ResetDone, TestPolling, TestReady,
       NoneAvailable, Bridge, NextCall
  <2>3. QED
    BY <1>1, <2>2 DEF Claim, PollInductive, StillDue
<1>2. TypeOK /\ PollInductive /\ [Next]_vars =>
        [\A c \in Caller :
           /\ acd[c] = "claim" /\ acd'[c] = "bridge"
           /\ "taken" \notin overtaken[c] /\ Sound
           => ~agent[cur[c]].polling /\ agent[cur[c]].status = "Ready"]_vars
  BY <1>1
<1>3. QED
  BY <1>2, TypeCorrect, PollInductiveHolds, PTL DEF Spec, ClaimIsDue

-----------------------------------------------------------------------------
\* Which steps clear the flag of a listed agent.
LEMMA TurnsComeBackStep ==
  ASSUME TypeOK, PollInductive, Next, NEW n \in Node, n \in Listed, n \in Listed',
         agent[n].polling, ~agent'[n].polling
  PROVE  \/ \E c \in Caller : acd[c] = "reset" /\ cur'[c] = n
         \/ \E s \in Session : req[s].pc = "found" /\ cur[s] = n
<1> USE DEF TypeOK
<1>1. ASSUME NEW s \in Session, Api(s)
      PROVE  req[s].pc = "found" /\ cur[s] = n
  <2>1. CASE Relogin(s)
    BY <2>1 DEF Relogin, ListTypeOK, Agent
  <2>2. CASE ReloginReady(s)
    BY <2>2 DEF ReloginReady, Kept, ListTypeOK, Agent
  <2>3. CASE SetStatus(s)
    <3>1. agent' = [agent EXCEPT ![cur[s]].status = StatusOf(req[s].op)]
      BY <2>3 DEF SetStatus
    <3>2. QED
      BY <3>1 DEF ListTypeOK, Agent
  <2>4. CASE Login(s)
    <3>1. PICK m \in Fresh : agent' = [agent EXCEPT ![m] = NewAgent(req[s].dn)]
      BY <2>4 DEF Login, PushBack
    <3>2. m # n
      BY DEF Fresh
    <3>3. QED
      BY <3>1, <3>2 DEF ListTypeOK
  <2>5. CASE Logout(s)
    BY <2>5 DEF Logout, Erase, ListTypeOK
  <2>6. CASE agent' = agent
    BY <2>6
  <2>7. QED
    BY <1>1, <2>1, <2>2, <2>3, <2>4, <2>5, <2>6
    DEF Api, SessionStep, Receive, Lookup, NotFound, Makecall, Replied, Stray, listVars
<1>2. ASSUME NEW c \in Caller, Acd(c)
      PROVE  acd[c] = "reset" /\ cur'[c] = n
  <2>1. CASE Reset(c)
    <3>1. PICK y \in Node : MoveTo(c, y) /\ agent' = [agent EXCEPT ![y].polling = FALSE]
      BY <2>1 DEF Reset
    <3>2. y = n
      BY <3>1 DEF ListTypeOK
    <3>3. QED
      BY <2>1, <3>1, <3>2 DEF Reset, MoveTo, ListTypeOK, Thread
  <2>2. CASE Claim(c)
    BY <2>2 DEF Claim, ListTypeOK, Agent
  <2>3. CASE ChannelEvent(c)
    BY <2>3 DEF ChannelEvent, ResetAgents, PollInductive, PollAtRest
  <2>4. CASE Bridge(c)
    BY <2>4 DEF Bridge, Kept, ListTypeOK
  <2>5. CASE agent' = agent
    BY <2>5
  <2>6. QED
    BY <1>2, <2>1, <2>2, <2>3, <2>4, <2>5
    DEF Acd, CallerStep, PollStep, Answer, Disconnect, Poll, TestExhausted, Exhausted,
        ResetDone, TestPolling, TestReady, NoneAvailable, Stray, NextCall, listVars
<1>3. CASE Events
  <2>1. CASE SetUuid
    BY <2>1 DEF SetUuid, ListTypeOK, Agent
  <2>2. CASE HangupComplete
    BY <2>2 DEF HangupComplete, ListTypeOK, Agent
  <2>3. QED
    BY <1>3, <2>1, <2>2
    DEF Events, EventStep, FreeSwitch, TakesEvent, Diverted, RecvEvent, FindDest, NoDest,
        Stray, HangUp, Ring, listVars
<1>4. QED
  BY <1>1, <1>2, <1>3 DEF Next, DataRace

\* A turn comes back by a reset or a relogin only, for any number of calls: no
\* call that is still in its loop has an agent whose turn reset_agents() could
\* give back (CallService.cpp:401, 416-441).
THEOREM TurnsOnlyComeBack == Spec => TurnsComeBack
<1>1. TypeOK /\ PollInductive /\ [Next]_vars =>
        [\A n \in Node :
           n \in Listed /\ n \in Listed' /\ agent[n].polling /\ ~agent'[n].polling
           => \/ \E c \in Caller : acd[c] = "reset" /\ cur'[c] = n
              \/ \E s \in Session : req[s].pc = "found" /\ cur[s] = n]_vars
  BY TurnsComeBackStep
<1>2. QED
  BY <1>1, TypeCorrect, PollInductiveHolds, PTL DEF Spec, TurnsComeBack
=============================================================================
