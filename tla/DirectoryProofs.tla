---------------------------- MODULE DirectoryProofs ----------------------------
(***************************************************************************)
(* CallCenter implements AgentDirectory, for any threads, nodes, dns and   *)
(* channels: every step of the list acts on the table as one of its steps, *)
(* or leaves it alone.                                                     *)
(***************************************************************************)
EXTENDS EventProofs

\* What a session knows of the agent it found, or holds.  A relogin whose agent
\* has left the list overlapped with the logout that took it off.
FoundItsDn(s) ==
  /\ req[s].pc \in {"push", "setReady"} => req[s].op = "login"
  /\ req[s].pc = "calling" => req[s].op = "makecall"
  /\ held[s] # None <=> req[s].pc = "setReady"
  /\ Sound /\ req[s].pc = "found" /\ cur[s] \in Listed => agent[cur[s]].dn = req[s].dn
  /\ Sound /\ req[s].pc = "setReady" =>
       IF held[s] \in Listed THEN agent[held[s]].dn = req[s].dn
                             ELSE req[s].dn \in raced

StatusesKnown == Sound => \A n \in Listed : agent[n].status # "unknown"

DirectoryInductive == StatusesKnown /\ \A s \in Session : FoundItsDn(s)

-----------------------------------------------------------------------------
\* The table at a dn, without the CHOOSE.
Shows(d, st) ==
  IF Void \/ d \in raced THEN st = "unknown"
  ELSE \/ \E n \in Listed : agent[n].dn = d /\ st = agent[n].status
       \/ st = "absent" /\ \A n \in Listed : agent[n].dn # d

LEMMA ShowsStatus ==
  ASSUME NEW d
  PROVE  Shows(d, StatusIn(d))
<1>1. CASE \E n \in Listed : agent[n].dn = d
  <2> DEFINE x == CHOOSE n \in Listed : agent[n].dn = d
  <2>1. x \in Listed /\ agent[x].dn = d
    BY <1>1
  <2> HIDE DEF x
  <2>2. Void \/ d \in raced \/ StatusIn(d) = agent[x].status
    BY <1>1 DEF StatusIn, x
  <2>3. QED
    BY <2>1, <2>2 DEF Shows, StatusIn
<1>2. CASE ~ \E n \in Listed : agent[n].dn = d
  BY <1>2 DEF Shows, StatusIn
<1>3. QED
  BY <1>1, <1>2

\* With one entry a dn the table is a function of the list.
LEMMA StatusIs ==
  ASSUME UniqueDn, NEW d, NEW st, Shows(d, st)
  PROVE  StatusIn(d) = st
<1>1. CASE Void \/ d \in raced
  BY <1>1 DEF Shows, StatusIn
<1>2. CASE ~Void /\ d \notin raced /\ \E n \in Listed : agent[n].dn = d /\ st = agent[n].status
  <2>1. PICK n \in Listed : agent[n].dn = d /\ st = agent[n].status
    BY <1>2
  <2>2. PICK i \in DOMAIN m_listAgent : m_listAgent[i] = n
    BY DEF Listed, ToSet
  <2> DEFINE x == CHOOSE m \in Listed : agent[m].dn = d
  <2>3. x \in Listed /\ agent[x].dn = d
    BY <2>1
  <2> HIDE DEF x
  <2>4. PICK j \in DOMAIN m_listAgent : m_listAgent[j] = x
    BY <2>3 DEF Listed, ToSet
  <2>5. i = j
    BY <1>2, <2>1, <2>2, <2>3, <2>4 DEF UniqueDn, Void
  <2>6. QED
    BY <1>2, <2>1, <2>2, <2>4, <2>5 DEF StatusIn, x
<1>3. CASE ~Void /\ d \notin raced /\ st = "absent" /\ \A n \in Listed : agent[n].dn # d
  BY <1>3 DEF StatusIn
<1>4. QED
  BY <1>1, <1>2, <1>3 DEF Shows

\* The same in the next state.
LEMMA StatusIsNext ==
  ASSUME UniqueDn', NEW d, NEW st, Shows(d, st)'
  PROVE  StatusIn(d)' = st
<1>1. CASE Void' \/ d \in raced'
  BY <1>1 DEF Shows, StatusIn
<1>2. CASE /\ ~Void' /\ d \notin raced'
           /\ \E n \in Listed' : agent'[n].dn = d /\ st = agent'[n].status
  <2>1. PICK n \in Listed' : agent'[n].dn = d /\ st = agent'[n].status
    BY <1>2
  <2>2. PICK i \in DOMAIN m_listAgent' : m_listAgent'[i] = n
    BY DEF Listed, ToSet
  <2>3. PICK x : x = CHOOSE m \in Listed' : agent'[m].dn = d
    OBVIOUS
  <2>4. x \in Listed' /\ agent'[x].dn = d
    BY <2>1, <2>3
  <2>5. PICK j \in DOMAIN m_listAgent' : m_listAgent'[j] = x
    BY <2>4 DEF Listed, ToSet
  <2>6. i = j
    BY <1>2, <2>1, <2>2, <2>4, <2>5 DEF UniqueDn, Void
  <2>7. QED
    BY <1>2, <2>1, <2>2, <2>3, <2>5, <2>6 DEF StatusIn
<1>3. CASE ~Void' /\ d \notin raced' /\ st = "absent" /\ \A n \in Listed' : agent'[n].dn # d
  BY <1>3 DEF StatusIn
<1>4. QED
  BY <1>1, <1>2, <1>3 DEF Shows

\* An entry stays as it is when the agents with its dn do.
LEMMA EntryKept ==
  ASSUME UniqueDn', NEW d, ~Void, ~Void', d \in raced <=> d \in raced',
         \A n : n \in Listed /\ agent[n].dn = d <=> n \in Listed' /\ agent'[n].dn = d,
         \A n \in Listed : agent[n].dn = d => agent'[n].status = agent[n].status
  PROVE  StatusIn(d)' = StatusIn(d)
<1>1. PICK st : st = StatusIn(d)
  OBVIOUS
<1>2. Shows(d, st)
  BY <1>1, ShowsStatus
<1>3. Shows(d, st)'
  BY <1>2 DEF Shows
<1>4. QED
  BY <1>1, <1>3, StatusIsNext

-----------------------------------------------------------------------------
\* What a session's request is on the table.
PendingOf(s) == IF req[s].pc = "idle" THEN [op |-> "none", dn |-> None]
                ELSE [op |-> req[s].op, dn |-> req[s].dn]

Table == [d \in Dn |-> StatusIn(d)]
Requests == [s \in Session |-> PendingOf(s)]

SameTable == \A d \in Dn : StatusIn(d)' = StatusIn(d)

LEMMA PendingRequest ==
  ASSUME ApiTypeOK, NEW s \in Session, req[s].pc # "idle"
  PROVE  /\ PendingOf(s) = [op |-> req[s].op, dn |-> req[s].dn]
         /\ PendingOf(s) # [op |-> "none", dn |-> None]
         /\ req[s].dn \in Dn
<1>1. req[s].dn \in Dn /\ req[s].op \in AllOps
  BY DEF ApiTypeOK, Request, Idle
<1>2. PendingOf(s) = [op |-> req[s].op, dn |-> req[s].dn]
  BY DEF PendingOf
<1>3. PendingOf(s).op # "none"
  BY <1>1, <1>2 DEF AllOps
<1>4. QED
  BY <1>1, <1>2, <1>3

LEMMA AnsweredPending ==
  ASSUME ApiTypeOK, NEW s \in Session, Answered(s)
  PROVE  \A t \in Session : PendingOf(t)' = IF t = s THEN [op |-> "none", dn |-> None]
                                            ELSE PendingOf(t)
<1>1. \A t \in Session : req'[t] = IF t = s THEN Idle ELSE req[t]
  BY DEF Answered, ApiTypeOK
<1>2. QED
  BY <1>1 DEF PendingOf, Idle

LEMMA ServeStep ==
  ASSUME ApiTypeOK, NEW s \in Session, req[s].pc # "idle", Answered(s),
         \A d \in Dn : StatusIn(d)' = IF d = req[s].dn
                                      THEN Directory!Served(StatusIn(d), req[s].op)
                                      ELSE StatusIn(d)
  PROVE  Directory!DirNext
<1>1. \A t \in Session : PendingOf(t)' = IF t = s THEN [op |-> "none", dn |-> None]
                                            ELSE PendingOf(t)
  BY AnsweredPending
<1>2. /\ PendingOf(s) = [op |-> req[s].op, dn |-> req[s].dn]
      /\ PendingOf(s) # [op |-> "none", dn |-> None]
      /\ req[s].dn \in Dn
  BY PendingRequest
<1>3. Directory!Serve(s)
  BY <1>1, <1>2 DEF Directory!Serve, Directory!NoRequest, PendingOf
<1>4. QED
  BY <1>3 DEF Directory!DirNext

LEMMA StutterStep ==
  ASSUME SameTable, \A s \in Session : PendingOf(s)' = PendingOf(s)
  PROVE  UNCHANGED Directory!dirVars
BY DEF SameTable, PendingOf, Directory!dirVars

LEMMA ArriveStep ==
  ASSUME ApiTypeOK, NEW s \in Session, Receive(s), SameTable
  PROVE  Directory!DirNext
<1>1. PICK op \in Ops, d \in Dn :
        req' = [req EXCEPT ![s] = [pc |-> "find", op |-> op, dn |-> d]]
  BY DEF Receive
<1>2. PendingOf(s) = [op |-> "none", dn |-> None]
  BY DEF Receive, PendingOf
<1>3. \A t \in Session : PendingOf(t)' = IF t = s THEN [op |-> op, dn |-> d] ELSE PendingOf(t)
  <2>1. \A t \in Session : req'[t] = IF t = s THEN [pc |-> "find", op |-> op, dn |-> d] ELSE req[t]
    BY <1>1 DEF ApiTypeOK
  <2>2. QED
    BY <2>1 DEF PendingOf
<1>4. Directory!Arrive(s)
  BY <1>2, <1>3 DEF Directory!Arrive, Directory!NoRequest, PendingOf, SameTable
<1>5. QED
  BY <1>4 DEF Directory!DirNext

LEMMA OverlapStep ==
  ASSUME ApiTypeOK, NEW s \in Session, NEW t \in Session, s # t,
         req[s].pc # "idle", req[t].pc # "idle", req[s].dn = req[t].dn,
         req[s].op \in {"login", "logout"}, req[t].op = "login", Answered(s),
         \A d \in Dn : StatusIn(d)' = IF d = req[s].dn THEN "unknown" ELSE StatusIn(d)
  PROVE  Directory!DirNext
<1>1. \A u \in Session : PendingOf(u)' = IF u = s THEN [op |-> "none", dn |-> None]
                                            ELSE PendingOf(u)
  BY AnsweredPending
<1>2. /\ PendingOf(s) = [op |-> req[s].op, dn |-> req[s].dn]
      /\ PendingOf(s) # [op |-> "none", dn |-> None]
      /\ req[s].dn \in Dn
      /\ PendingOf(t) = [op |-> req[t].op, dn |-> req[t].dn]
  BY PendingRequest
<1>3. Directory!Overlap(s, t)
  BY <1>1, <1>2 DEF Directory!Overlap, Directory!NoRequest, PendingOf
<1>4. QED
  BY <1>3 DEF Directory!DirNext

LEMMA BreakStep ==
  ASSUME ApiTypeOK, Void',
         \/ \A s \in Session : PendingOf(s)' = PendingOf(s)
         \/ \E s \in Session : Answered(s)
  PROVE  Directory!DirNext
<1>1. \A d \in Dn : StatusIn(d)' = "unknown"
  BY DEF StatusIn
<1>2. CASE \A s \in Session : PendingOf(s)' = PendingOf(s)
  BY <1>1, <1>2 DEF Directory!DirNext, Directory!Break, PendingOf
<1>3. ASSUME NEW s \in Session, Answered(s)
      PROVE  Directory!Break
  <2>1. \A u \in Session : PendingOf(u)' = IF u = s THEN [op |-> "none", dn |-> None]
                                              ELSE PendingOf(u)
    BY <1>3, AnsweredPending
  <2>2. QED
    BY <1>1, <2>1 DEF Directory!Break, Directory!NoRequest, PendingOf
<1>4. QED
  BY <1>2, <1>3 DEF Directory!DirNext

LEMMA HungUpStep ==
  ASSUME NEW d \in Dn, StatusIn(d) \notin {"absent", "unknown"},
         \A e \in Dn : StatusIn(e)' = IF e = d THEN "Ready" ELSE StatusIn(e),
         \A s \in Session : PendingOf(s)' = PendingOf(s)
  PROVE  Directory!DirNext
<1>1. Directory!HungUp(d)
  BY DEF Directory!HungUp, PendingOf
<1>2. QED
  BY <1>1 DEF Directory!DirNext

-----------------------------------------------------------------------------
\* A step that leaves the list, and what the table shows of it, as they are.
Calm ==
  /\ UNCHANGED <<m_listAgent, raced>>
  /\ Sound' => Sound
  /\ \A n \in Listed : agent'[n].dn = agent[n].dn /\ agent'[n].status = agent[n].status

SessionsRest == \A s \in Session : cur'[s] = cur[s] /\ held'[s] = held[s]

LEMMA CallersAreCalm ==
  ASSUME TypeOK, PollInductive, NEW c \in Caller, CallerStep(c), UNCHANGED apiVars
  PROVE  Calm /\ SessionsRest
<1> USE DEF Calm, SessionsRest, apiVars, TypeOK, ListTypeOK, Sound
<1>0. /\ c \in Thread /\ c \notin Session /\ Session \subseteq Thread
      /\ \A n \in Listed : n \in Node
  BY ThreadAssumption, ListedAreNodes DEF Thread
<1>1. SessionsRest
  <2>1. \/ UNCHANGED <<cur, held>>
        \/ UNCHANGED held /\ \E y : MoveTo(c, y)
        \/ UNCHANGED cur /\ held' = [held EXCEPT ![c] = None]
        \/ held' = [held EXCEPT ![c] = cur[c]] /\ \E y : MoveTo(c, y)
    BY DEF CallerStep, PollStep, Answer, ChannelEvent, Disconnect, Poll, TestExhausted,
           Exhausted, Reset, ResetDone, TestPolling, TestReady, Claim, NoneAvailable,
           Bridge, NextCall, Stray, listVars
  <2>2. QED
    BY <1>0, <2>1 DEF MoveTo
<1>2. CASE agent' = agent
  BY <1>1, <1>2
  DEF CallerStep, PollStep, Answer, ChannelEvent, Disconnect, Poll, TestExhausted,
      Exhausted, Reset, ResetDone, TestPolling, TestReady, Claim, NoneAvailable,
      Bridge, NextCall, Stray, listVars
<1>3. CASE Reset(c)
  <2>1. PICK y \in Node : agent' = [agent EXCEPT ![y].polling = FALSE]
    BY <1>3 DEF Reset
  <2>2. \A n \in Node : agent'[n].dn = agent[n].dn /\ agent'[n].status = agent[n].status
    BY <2>1 DEF Agent
  <2>3. QED
    BY <1>0, <1>1, <1>3, <2>2 DEF Reset
<1>4. CASE Claim(c)
  <2>1. \A n \in Node : agent'[n].dn = agent[n].dn /\ agent'[n].status = agent[n].status
    BY <1>4 DEF Claim, Agent
  <2>2. QED
    BY <1>0, <1>1, <1>4, <2>1 DEF Claim
<1>5. CASE Bridge(c)
  <2>1. \A n \in Listed : agent'[n] = agent[n]
    BY <1>0, <1>5 DEF Bridge, Kept
  <2>2. QED
    BY <1>1, <1>5, <2>1 DEF Bridge
<1>6. CASE ChannelEvent(c)
  <2>1. agent' = agent
    BY <1>6 DEF ChannelEvent, ResetAgents, PollInductive, PollAtRest
  <2>2. QED
    BY <1>2, <2>1
<1>7. QED
  BY <1>2, <1>3, <1>4, <1>5, <1>6
  DEF CallerStep, PollStep, Answer, Disconnect, Poll, TestExhausted, Exhausted,
      ResetDone, TestPolling, TestReady, NoneAvailable, NextCall, Stray, listVars

LEMMA EventsAreCalm ==
  ASSUME TypeOK, EventStep \/ FreeSwitch \/ Diverted, UNCHANGED apiVars
  PROVE  /\ SessionsRest
         /\ Calm \/ HangupComplete
<1> USE DEF apiVars, TypeOK, ListTypeOK, Sound
<1>0. /\ Listener \in Thread /\ Listener \notin Session /\ Session \subseteq Thread
      /\ \A n \in Listed : n \in Node
  BY ThreadAssumption, ListedAreNodes DEF Thread
<1>1. SessionsRest
  <2>1. /\ UNCHANGED held
        /\ UNCHANGED cur \/ \E y : MoveTo(Listener, y)
    BY DEF EventStep, FreeSwitch, Diverted, RecvEvent, FindDest, NoDest, SetUuid,
           HangupComplete, Stray, Ring, HangUp, listVars
  <2>2. QED
    BY <1>0, <2>1 DEF MoveTo, SessionsRest
<1>2. ASSUME SetUuid
      PROVE  Calm
  <2>1. \A n \in Node : agent'[n].dn = agent[n].dn /\ agent'[n].status = agent[n].status
    BY <1>2 DEF SetUuid, Agent
  <2>2. QED
    BY <1>0, <1>2, <2>1 DEF SetUuid, Calm
<1>3. ASSUME RecvEvent \/ FindDest \/ NoDest \/ Stray(Listener)
      PROVE  Calm
  BY <1>3 DEF RecvEvent, FindDest, NoDest, Stray, listVars, Calm
<1>4. ASSUME FreeSwitch \/ Diverted
      PROVE  Calm
  <2>1. UNCHANGED listVars
    BY <1>4 DEF FreeSwitch, Diverted, Ring, HangUp
  <2>2. QED
    BY <2>1 DEF listVars, Calm
<1>5. QED
  BY <1>1, <1>2, <1>3, <1>4 DEF EventStep

LEMMA SessionsAreCalm ==
  ASSUME TypeOK, NEW s \in Session,
         \/ Receive(s) \/ Lookup(s) \/ NotFound(s) \/ Relogin(s) \/ Makecall(s)
         \/ Replied(s) \/ (Stray(s) /\ UNCHANGED apiVars)
  PROVE  Calm
<1> USE DEF TypeOK, ListTypeOK, Sound
<1>0. \A n \in Listed : n \in Node
  BY ListedAreNodes
<1>1. CASE \/ Receive(s) \/ Lookup(s) \/ NotFound(s) \/ Makecall(s) \/ Replied(s)
          \/ (Stray(s) /\ UNCHANGED apiVars)
  BY <1>1 DEF Receive, Lookup, NotFound, Makecall, Replied, Stray, listVars, apiVars, Calm
<1>2. CASE Relogin(s)
  <2>1. \A n \in Node : agent'[n].dn = agent[n].dn /\ agent'[n].status = agent[n].status
    BY <1>2 DEF Relogin, Agent
  <2>2. QED
    BY <1>0, <1>2, <2>1 DEF Relogin, Calm
<1>3. QED
  BY <1>1, <1>2

-----------------------------------------------------------------------------
\* A step of t that uses no dangling cursor, and leaves none.
Stepping(t) ==
  /\ UNCHANGED proc
  /\ \/ UNCHANGED cur
     \/ cur[t] # Dangling /\ \E y : y # Dangling /\ MoveTo(t, y)

LEMMA SteppingKeepsVoid ==
  ASSUME ListTypeOK, NEW t \in Thread, Stepping(t)
  PROVE  Void' <=> Void
<1>1. Sound' <=> Sound
  BY DEF Stepping, Sound
<1>2. \A u \in Thread : cur'[u] = Dangling <=> cur[u] = Dangling
  BY DEF Stepping, MoveTo, ListTypeOK
<1>3. QED
  BY <1>1, <1>2 DEF Void

LEMMA StrayKeepsVoid ==
  ASSUME NEW t \in Thread, Stray(t)
  PROVE  Void /\ Void'
BY DEF Stray, Void, Sound

LEMMA PlacesDoNotDangle ==
  ASSUME ListTypeOK
  PROVE  /\ Dangling \notin Node /\ Dangling \notin Listed
         /\ Begin # Dangling /\ None # Dangling
         /\ \A x, y : Leads(x, y) => x # Dangling
<1>1. Dangling \notin Node /\ Begin # Dangling /\ None # Dangling
  BY NodeAssumption
<1>2. \A i \in DOMAIN m_listAgent : m_listAgent[i] \in Node
  BY DEF ListTypeOK
<1>3. \A x, y : Leads(x, y) => x # Dangling
  BY <1>1, <1>2 DEF Leads
<1>4. Dangling \notin Listed
  BY <1>1, ListedAreNodes DEF ListTypeOK
<1>5. QED
  BY <1>1, <1>3, <1>4

LEMMA CallersStep ==
  ASSUME ListTypeOK, NEW c \in Caller, CallerStep(c)
  PROVE  Stepping(c) \/ Stray(c)
<1> USE PlacesDoNotDangle DEF Stepping
<1>1. CASE TestExhausted(c) \/ TestPolling(c) \/ Reset(c)
  BY <1>1 DEF TestExhausted, TestPolling, Reset
<1>2. CASE Exhausted(c) \/ ResetDone(c) \/ NoneAvailable(c)
  BY <1>2 DEF Exhausted, ResetDone, NoneAvailable
<1>3. CASE Claim(c)
  BY <1>3 DEF Claim
<1>4. CASE Answer(c) \/ NextCall(c) \/ TestReady(c)
  BY <1>4 DEF Answer, NextCall, TestReady, listVars
<1>5. CASE ChannelEvent(c) \/ Disconnect(c) \/ Poll(c) \/ Bridge(c)
  BY <1>5 DEF ChannelEvent, Disconnect, Poll, Bridge
<1>6. QED
  BY <1>1, <1>2, <1>3, <1>4, <1>5 DEF CallerStep, PollStep

LEMMA EventsStep ==
  ASSUME ListTypeOK, EventStep \/ FreeSwitch \/ Diverted
  PROVE  Stepping(Listener) \/ Stray(Listener)
<1> USE PlacesDoNotDangle DEF Stepping
<1>1. CASE FindDest \/ NoDest
  BY <1>1 DEF FindDest, NoDest
<1>2. CASE SetUuid \/ HangupComplete
  BY <1>2 DEF SetUuid, HangupComplete
<1>3. CASE RecvEvent \/ FreeSwitch \/ Diverted
  <2>1. UNCHANGED listVars
    BY <1>3 DEF RecvEvent, FreeSwitch, Diverted, Ring, HangUp
  <2>2. QED
    BY <2>1 DEF listVars
<1>4. QED
  BY <1>1, <1>2, <1>3 DEF EventStep

LEMMA SessionsStep ==
  ASSUME ListTypeOK, NEW s \in Session,
         \/ Receive(s) \/ Lookup(s) \/ NotFound(s) \/ Login(s) \/ Relogin(s)
         \/ ReloginReady(s) \/ SetStatus(s) \/ Makecall(s) \/ Replied(s)
  PROVE  Stepping(s)
<1> USE PlacesDoNotDangle DEF Stepping
<1>1. CASE Receive(s) \/ Login(s) \/ ReloginReady(s) \/ Replied(s)
  BY <1>1 DEF Receive, Replied, Login, PushBack, ReloginReady, listVars
<1>2. CASE Lookup(s) \/ NotFound(s)
  BY <1>2 DEF Lookup, NotFound
<1>3. CASE Relogin(s) \/ SetStatus(s) \/ Makecall(s)
  BY <1>3 DEF Relogin, SetStatus, Makecall
<1>4. QED
  BY <1>1, <1>2, <1>3

\* erase() keeps what is void so.
LEMMA EraseKeepsVoid ==
  ASSUME ListTypeOK, NEW s \in Session, Logout(s), Void
  PROVE  Void'
<1>1. CASE ~Sound
  BY <1>1 DEF Logout, Erase, Void, Sound
<1>2. ASSUME NEW t \in Thread, cur[t] = Dangling
      PROVE  Void'
  <2>1. t # s
    BY <1>2, PlacesDoNotDangle DEF Logout
  <2>2. cur'[t] = Dangling
    BY <1>2, <2>1 DEF Logout, Erase
  <2>3. QED
    BY <2>2 DEF Void
<1>3. QED
  BY <1>1, <1>2 DEF Void

-----------------------------------------------------------------------------
\* DirectoryInductive is inductive.

\* What session s knows is not disturbed by a step of another thread.
LEMMA OthersKeepFound ==
  ASSUME NEW s \in Session, FoundItsDn(s), Sound' => Sound,
         req'[s] = req[s], held'[s] = held[s], raced \subseteq raced',
         cur'[s] = cur[s] \/ cur'[s] \notin Listed',
         \A n \in {cur[s], held[s]} :
           n \in Listed' => n \in Listed /\ agent'[n].dn = agent[n].dn,
         Sound /\ req[s].pc = "setReady" /\ held[s] \in Listed \ Listed'
           => req[s].dn \in raced'
  PROVE  FoundItsDn(s)'
BY DEF FoundItsDn

LEMMA CalmKeepsDirectory ==
  ASSUME DirectoryInductive, SessionsRest, UNCHANGED req, UNCHANGED <<m_listAgent, raced>>,
         Sound' => Sound,
         \A n \in Listed : /\ agent'[n].dn = agent[n].dn
                           /\ agent'[n].status \in {agent[n].status, "Ready"}
  PROVE  DirectoryInductive'
<1>1. Listed' = Listed
  BY DEF Listed
<1>2. StatusesKnown'
  BY <1>1 DEF DirectoryInductive, StatusesKnown
<1>3. ASSUME NEW s \in Session
      PROVE  FoundItsDn(s)'
  BY <1>1, <1>3, OthersKeepFound DEF DirectoryInductive, SessionsRest
<1>4. QED
  BY <1>2, <1>3 DEF DirectoryInductive

\* The step of one session leaves the other sessions alone.
LEMMA SessionAlone ==
  ASSUME TypeOK, NEW s \in Session, NEW t \in Session \ {s},
         \/ Receive(s) \/ SessionStep(s) \/ Replied(s)
  PROVE  /\ req'[t] = req[t] /\ held'[t] = held[t]
         /\ cur'[t] = cur[t] \/ (Logout(s) /\ cur'[t] = Dangling)
<1> USE DEF TypeOK
<1>0. s \in Thread /\ t \in Thread /\ t # s
  BY DEF Thread
<1>1. req'[t] = req[t]
  <2>1. UNCHANGED req \/ \E r : req' = [req EXCEPT ![s] = r]
    BY DEF Receive, SessionStep, Lookup, NotFound, Login, Relogin, ReloginReady, Logout,
           SetStatus, Makecall, Replied, Goto, Answered, apiVars
  <2>2. QED
    BY <2>1 DEF ApiTypeOK
<1>2. held'[t] = held[t]
  <2>1. UNCHANGED held \/ \E n : held' = [held EXCEPT ![s] = n]
    BY DEF Receive, SessionStep, Lookup, NotFound, Login, PushBack, Relogin, ReloginReady,
           Logout, Erase, SetStatus, Makecall, Replied, Stray, listVars
  <2>2. QED
    BY <1>0, <2>1 DEF ListTypeOK
<1>3. CASE Logout(s)
  <2>1. cur'[t] \in {cur[t], Dangling}
    BY <1>0, <1>3 DEF Logout, Erase
  <2>2. QED
    BY <1>1, <1>2, <1>3, <2>1
<1>4. CASE ~Logout(s)
  <2>1. UNCHANGED cur \/ \E y : MoveTo(s, y)
    BY <1>4 DEF Receive, SessionStep, Lookup, NotFound, Login, PushBack, Relogin,
                ReloginReady, SetStatus, Makecall, Replied, Stray, listVars
  <2>2. cur'[t] = cur[t]
    BY <1>0, <2>1 DEF MoveTo, ListTypeOK
  <2>3. QED
    BY <1>1, <1>2, <2>2
<1>5. QED
  BY <1>3, <1>4

\* A session that holds and has found nothing.
LEMMA FoundNothing ==
  ASSUME NEW s \in Session, held'[s] = None,
         req'[s].pc \notin {"found", "setReady", "calling"},
         req'[s].pc = "push" => req'[s].op = "login"
  PROVE  FoundItsDn(s)'
BY DEF FoundItsDn

LEMMA OwnFound ==
  ASSUME TypeOK, DirectoryInductive, NEW s \in Session,
         Receive(s) \/ SessionStep(s) \/ Replied(s)
  PROVE  FoundItsDn(s)'
<1> USE DEF TypeOK
<1>0. s \in Thread /\ FoundItsDn(s) /\ \A n \in Listed : n \in Node /\ n # None
  BY NodeAssumption, ListedAreNodes DEF Thread, DirectoryInductive, ListTypeOK
<1>1. CASE Receive(s)
  <2>1. req'[s].pc = "find" /\ req[s].pc = "idle" /\ held' = held
    BY <1>1 DEF Receive, ApiTypeOK, listVars
  <2>2. held[s] = None
    BY <1>0, <2>1 DEF FoundItsDn
  <2>3. QED
    BY <2>1, <2>2, FoundNothing
<1>2. CASE Lookup(s)
  <2>1. PICK y \in Node : /\ Leads(cur[s], y) /\ MoveTo(s, y)
                          /\ IF agent[y].dn = req[s].dn
                             THEN Goto(s, "found") ELSE UNCHANGED req
    BY <1>2 DEF Lookup
  <2>2. cur'[s] = y
    BY <1>0, <2>1 DEF MoveTo, ListTypeOK
  <2>3. req[s].pc = "find" /\ UNCHANGED <<agent, held>>
    BY <1>2 DEF Lookup
  <2>4. held'[s] = None
    BY <1>0, <2>3 DEF FoundItsDn
  <2>5. CASE Goto(s, "found") /\ agent[y].dn = req[s].dn
    <3>1. req'[s].pc = "found" /\ req'[s].dn = req[s].dn
      BY <2>5, OwnRequest
    <3>2. QED
      BY <2>2, <2>3, <2>4, <2>5, <3>1 DEF FoundItsDn
  <2>6. CASE UNCHANGED req
    BY <2>3, <2>4, <2>6, FoundNothing
  <2>7. QED
    BY <2>1, <2>5, <2>6
<1>3. CASE NotFound(s)
  <2>1. req[s].pc = "find" /\ held' = held
    BY <1>3 DEF NotFound
  <2>2. held'[s] = None
    BY <1>0, <2>1 DEF FoundItsDn
  <2>3. \/ req'[s].pc = "push" /\ req'[s].op = "login"
        \/ req'[s].pc = "idle"
    BY <1>3 DEF NotFound, Goto, Answered, Idle, ApiTypeOK, Request
  <2>4. QED
    BY <2>2, <2>3, FoundNothing
<1>4. CASE Relogin(s)
  <2>1. /\ req[s].pc = "found" /\ req[s].op = "login" /\ cur[s] \in Listed
        /\ UNCHANGED m_listAgent /\ held' = [held EXCEPT ![s] = cur[s]]
        /\ agent' = [agent EXCEPT ![cur[s]].polling = FALSE] /\ Goto(s, "setReady")
        /\ UNCHANGED proc
    BY <1>4 DEF Relogin
  <2>2. held'[s] = cur[s] /\ cur[s] # None /\ cur[s] \in Listed'
    BY <1>0, <2>1 DEF ListTypeOK, Listed
  <2>3. req'[s].pc = "setReady" /\ req'[s].dn = req[s].dn /\ req'[s].op = "login"
    BY <2>1 DEF Goto, ApiTypeOK, Request, Idle
  <2>4. Sound => agent'[cur[s]].dn = req[s].dn
    <3>1. agent'[cur[s]].dn = agent[cur[s]].dn
      BY <1>0, <2>1 DEF ListTypeOK, Agent
    <3>2. QED
      BY <1>0, <2>1, <3>1 DEF FoundItsDn
  <2>5. QED
    BY <2>1, <2>2, <2>3, <2>4 DEF FoundItsDn, Sound
<1>5. CASE ReloginReady(s)
  <2>1. held'[s] = None /\ Answered(s)
    BY <1>0, <1>5 DEF ReloginReady, ListTypeOK
  <2>2. QED
    BY <2>1, OwnRequest, FoundNothing
<1>6. CASE Login(s) \/ Logout(s) \/ SetStatus(s) \/ Replied(s)
  <2>1. Answered(s) /\ held' = held /\ req[s].pc # "setReady"
    BY <1>6 DEF Login, PushBack, Logout, Erase, SetStatus, Replied, listVars
  <2>2. held'[s] = None
    BY <1>0, <2>1 DEF FoundItsDn
  <2>3. QED
    BY <2>1, <2>2, OwnRequest, FoundNothing
<1>7. CASE Makecall(s)
  <2>1. /\ req[s].pc = "found" /\ req[s].op = "makecall"
        /\ Goto(s, "calling") /\ held' = held
    BY <1>7 DEF Makecall
  <2>2. held'[s] = None
    BY <1>0, <2>1 DEF FoundItsDn
  <2>3. req'[s].pc = "calling" /\ req'[s].op = "makecall"
    BY <2>1 DEF Goto, ApiTypeOK, Request, Idle
  <2>4. QED
    BY <2>2, <2>3 DEF FoundItsDn
<1>8. CASE Stray(s) /\ UNCHANGED apiVars
  <2>1. ~Sound' /\ req' = req /\ held' = held
    BY <1>8 DEF Stray, Sound, apiVars
  <2>2. QED
    BY <1>0, <2>1 DEF FoundItsDn
<1>9. QED
  BY <1>1, <1>2, <1>3, <1>4, <1>5, <1>6, <1>7, <1>8 DEF SessionStep

\* The list after push_back and after erase(), as a set.
LEMMA ListedAfterPush ==
  ASSUME TypeOK, NEW s \in Session, NEW n \in Fresh, NEW d \in Dn, PushBack(s, n, d)
  PROVE  /\ Listed' = Listed \cup {n} /\ n \notin Listed
         /\ agent'[n] = NewAgent(d)
         /\ \A m \in Listed : agent'[m] = agent[m]
         /\ \A t \in Thread : held[t] # n
<1>1. n \in Node /\ n \notin Listed /\ \A t \in Thread : held[t] # n
  BY DEF Fresh
<1>2. m_listAgent \in Seq(Node) /\ m_listAgent' = Append(m_listAgent, n)
  BY DEF TypeOK, ListTypeOK, PushBack
<1>3. /\ DOMAIN m_listAgent' = DOMAIN m_listAgent \cup {Len(m_listAgent) + 1}
      /\ \A i \in DOMAIN m_listAgent : m_listAgent'[i] = m_listAgent[i]
      /\ m_listAgent'[Len(m_listAgent) + 1] = n
  BY <1>1, <1>2
<1>4. Listed' = Listed \cup {n}
  BY <1>3 DEF Listed, ToSet
<1>5. agent'[n] = NewAgent(d) /\ \A m \in Listed : agent'[m] = agent[m]
  BY <1>1, <1>2, ListedAreNodes DEF PushBack, TypeOK, ListTypeOK
<1>6. QED
  BY <1>1, <1>4, <1>5

LEMMA ListedAfterErase ==
  ASSUME TypeOK, NodesDistinct, NEW t \in Thread, Erase(t)
  PROVE  /\ Listed' = Listed \ {cur[t]}
         /\ \A n \in Listed' : agent'[n] = agent[n]
<1>1. ListTypeOK
  BY DEF TypeOK
<1>2. Listed' \subseteq Listed \ {cur[t]}
  <2>1. PICK f \in [DOMAIN m_listAgent' -> DOMAIN m_listAgent] :
          \A i \in DOMAIN m_listAgent' : /\ m_listAgent'[i] = m_listAgent[f[i]]
                                         /\ m_listAgent'[i] # cur[t]
    BY <1>1, ErasedPlaces
  <2>2. QED
    BY <2>1 DEF Listed, ToSet
<1>3. Listed \ {cur[t]} \subseteq Listed'
  <2>1. \A i \in DOMAIN m_listAgent : m_listAgent[i] # cur[t] =>
          \E j \in DOMAIN m_listAgent' : m_listAgent'[j] = m_listAgent[i]
    BY <1>1, ErasedOnlyOne
  <2>2. QED
    BY <2>1 DEF Listed, ToSet
<1>4. \A n \in Listed' : agent'[n] = agent[n]
  BY <1>1, <1>2, ListedAreNodes DEF Erase, ListTypeOK
<1>5. QED
  BY <1>2, <1>3, <1>4

\* Login, and logout, which knows of a relogin it overlaps.
LEMMA LoginKeepsDirectory ==
  ASSUME TypeOK, UniqueDnInductive, DirectoryInductive, NEW s \in Session, Login(s)
  PROVE  DirectoryInductive'
<1>0. s \in Thread /\ Session \subseteq Thread /\ req[s].dn \in Dn
  BY PendingRequest DEF Thread, Login, TypeOK
<1>1. PICK n \in Fresh : PushBack(s, n, req[s].dn)
  BY DEF Login
<1>2. /\ Listed' = Listed \cup {n} /\ n \notin Listed
      /\ agent'[n] = NewAgent(req[s].dn)
      /\ \A m \in Listed : agent'[m] = agent[m]
      /\ \A t \in Thread : held[t] # n
  BY <1>0, <1>1, ListedAfterPush
<1>3. Sound' = Sound /\ cur' = cur /\ held' = held /\ raced \subseteq raced'
  BY <1>1 DEF PushBack, Sound, Login
<1>4. StatusesKnown'
  BY <1>2, <1>3 DEF DirectoryInductive, StatusesKnown, NewAgent, Blank
<1>5. ASSUME NEW t \in Session \ {s}
      PROVE  FoundItsDn(t)'
  <2>1. req'[t] = req[t]
    BY <1>5, SessionAlone DEF SessionStep
  <2>2. cur[t] # n /\ held[t] # n
    <3>1. cur[t] \in Listed \cup {Begin, Dangling}
      BY DEF UniqueDnInductive, CursorsOnList
    <3>2. n \in Node
      BY DEF Fresh
    <3>3. QED
      BY <1>0, <1>2, <3>1, <3>2, NodeAssumption
  <2>3. FoundItsDn(t)
    BY DEF DirectoryInductive
  <2>4. QED
    BY <1>2, <1>3, <2>1, <2>2, <2>3, OthersKeepFound
<1>6. FoundItsDn(s)'
  BY OwnFound DEF SessionStep
<1>7. QED
  BY <1>4, <1>5, <1>6 DEF DirectoryInductive

LEMMA LogoutKeepsDirectory ==
  ASSUME TypeOK, NodesDistinct, DirectoryInductive, NEW s \in Session, Logout(s)
  PROVE  DirectoryInductive'
<1>0. s \in Thread /\ Session \subseteq Thread
  BY DEF Thread
<1>1. Erase(s) /\ req[s].pc = "found" /\ cur[s] \in Listed
  BY DEF Logout
<1>2. Listed' = Listed \ {cur[s]} /\ \A n \in Listed' : agent'[n] = agent[n]
  BY <1>0, <1>1, ListedAfterErase
<1>3. Sound' = Sound /\ held' = held /\ raced \subseteq raced'
  BY <1>1 DEF Erase, Sound, Logout
<1>4. StatusesKnown'
  BY <1>2, <1>3 DEF DirectoryInductive, StatusesKnown
<1>5. ASSUME NEW t \in Session \ {s}
      PROVE  FoundItsDn(t)'
  <2>1. /\ req'[t] = req[t]
        /\ cur'[t] = cur[t] \/ cur'[t] = Dangling
    BY <1>5, SessionAlone DEF SessionStep
  <2>2. Dangling \notin Listed'
    BY <1>2, PlacesDoNotDangle DEF TypeOK
  <2>3. FoundItsDn(t) /\ FoundItsDn(s)
    BY DEF DirectoryInductive
  <2>4. ASSUME Sound, req[t].pc = "setReady", held[t] \in Listed, held[t] \notin Listed'
        PROVE  req[t].dn \in raced'
    <3>1. held[t] = cur[s]
      BY <1>2, <2>4
    <3>2. req[t].dn = req[s].dn
      BY <1>1, <2>3, <2>4, <3>1 DEF FoundItsDn
    <3>3. QED
      BY <3>1, <3>2 DEF Logout
  <2>5. QED
    BY <1>2, <1>3, <2>1, <2>2, <2>3, <2>4, OthersKeepFound
<1>6. FoundItsDn(s)'
  BY OwnFound DEF SessionStep
<1>7. QED
  BY <1>4, <1>5, <1>6 DEF DirectoryInductive

\* The other steps of a session.
LEMMA StatusesStayKnown ==
  ASSUME TypeOK, DirectoryInductive, NEW s \in Session,
         ReloginReady(s) \/ SetStatus(s)
  PROVE  /\ UNCHANGED <<m_listAgent, raced>> /\ Sound' = Sound
         /\ \A n \in Listed : agent'[n].dn = agent[n].dn
         /\ StatusesKnown'
<1> USE DEF TypeOK, ListTypeOK, Sound
<1>0. (\A n \in Listed : n \in Node) /\ StatusesKnown
  BY ListedAreNodes DEF DirectoryInductive
<1>1. CASE ReloginReady(s)
  <2>1. \A n \in Listed : /\ agent'[n].dn = agent[n].dn
                          /\ agent'[n].status \in {agent[n].status, "Ready"}
    BY <1>0, <1>1 DEF ReloginReady, Kept, Agent
  <2>2. UNCHANGED <<proc, m_listAgent, raced>>
    BY <1>1 DEF ReloginReady
  <2>3. StatusesKnown'
    BY <1>0, <2>1, <2>2 DEF StatusesKnown, Listed
  <2>4. QED
    BY <2>1, <2>2, <2>3
<1>2. CASE SetStatus(s)
  <2>1. /\ agent' = [agent EXCEPT ![cur[s]].status = StatusOf(req[s].op)]
        /\ StatusOf(req[s].op) # "unknown"
        /\ UNCHANGED <<proc, m_listAgent, raced>>
    BY <1>2 DEF SetStatus, StatusOf
  <2>2. \A n \in Listed : /\ agent'[n].dn = agent[n].dn
                          /\ agent'[n].status \in {agent[n].status, StatusOf(req[s].op)}
    BY <1>0, <2>1 DEF Agent
  <2>3. StatusesKnown'
    BY <1>0, <2>1, <2>2 DEF StatusesKnown, Listed
  <2>4. QED
    BY <2>1, <2>2, <2>3
<1>3. QED
  BY <1>1, <1>2

LEMMA SessionKeepsDirectory ==
  ASSUME TypeOK, UniqueDnInductive, DirectoryInductive, NEW s \in Session,
         Receive(s) \/ SessionStep(s) \/ Replied(s)
  PROVE  DirectoryInductive'
<1>1. CASE Login(s)
  BY <1>1, LoginKeepsDirectory
<1>2. CASE Logout(s)
  BY <1>2, LogoutKeepsDirectory DEF UniqueDnInductive
<1>3. CASE ~Login(s) /\ ~Logout(s)
  <2>1. /\ UNCHANGED <<m_listAgent, raced>> /\ (Sound' => Sound)
        /\ \A n \in Listed : agent'[n].dn = agent[n].dn
        /\ StatusesKnown'
    <3>1. CASE ReloginReady(s) \/ SetStatus(s)
      BY <3>1, StatusesStayKnown
    <3>2. CASE ~(ReloginReady(s) \/ SetStatus(s))
      <4>1. Calm
        BY <1>3, <3>2, SessionsAreCalm DEF SessionStep
      <4>2. StatusesKnown'
        BY <4>1 DEF Calm, DirectoryInductive, StatusesKnown, Listed
      <4>3. QED
        BY <4>1, <4>2 DEF Calm
    <3>3. QED
      BY <3>1, <3>2
  <2>2. ASSUME NEW t \in Session \ {s}
        PROVE  FoundItsDn(t)'
    <3>1. req'[t] = req[t] /\ held'[t] = held[t] /\ cur'[t] = cur[t]
      BY <1>3, SessionAlone
    <3>2. Listed' = Listed
      BY <2>1 DEF Listed
    <3>3. QED
      BY <2>1, <3>1, <3>2, OthersKeepFound DEF DirectoryInductive
  <2>3. FoundItsDn(s)'
    BY OwnFound
  <2>4. QED
    BY <2>1, <2>2, <2>3 DEF DirectoryInductive
<1>4. QED
  BY <1>1, <1>2, <1>3

LEMMA DirectoryInductiveStep ==
  ASSUME TypeOK, UniqueDnInductive, PollInductive, DirectoryInductive, [Next]_vars
  PROVE  DirectoryInductive'
<1>1. ASSUME NEW s \in Session, Api(s)
      PROVE  DirectoryInductive'
  BY <1>1, SessionKeepsDirectory DEF Api
<1>2. ASSUME NEW c \in Caller, Acd(c)
      PROVE  DirectoryInductive'
  <2>1. Calm /\ SessionsRest /\ UNCHANGED apiVars
    BY <1>2, CallersAreCalm DEF Acd
  <2>2. QED
    BY <2>1, CalmKeepsDirectory DEF Calm, apiVars
<1>3. CASE Events
  <2>1. SessionsRest /\ UNCHANGED apiVars /\ (Calm \/ HangupComplete)
    BY <1>3, EventsAreCalm DEF Events, TakesEvent
  <2>2. CASE Calm
    BY <2>1, <2>2, CalmKeepsDirectory DEF Calm, apiVars
  <2>3. CASE HangupComplete
    <3>1. /\ UNCHANGED <<proc, m_listAgent>>
          /\ agent' = [agent EXCEPT ![cur[Listener]].status = "Ready",
                                    ![cur[Listener]].uuid = None]
      BY <2>3 DEF HangupComplete
    <3>2. \A n \in Listed : /\ agent'[n].dn = agent[n].dn
                            /\ agent'[n].status \in {agent[n].status, "Ready"}
      BY <3>1, ListedAreNodes DEF TypeOK, ListTypeOK, Agent
    <3>3. QED
      BY <2>1, <3>1, <3>2, CalmKeepsDirectory DEF apiVars, Sound
  <2>4. QED
    BY <2>1, <2>2, <2>3
<1>4. CASE DataRace \/ UNCHANGED vars
  <2>1. /\ UNCHANGED <<m_listAgent, agent, cur, held, req, raced>>
        /\ Sound' => Sound
    BY <1>4 DEF DataRace, apiVars, vars, listVars, Sound
  <2>2. QED
    BY <2>1, CalmKeepsDirectory DEF SessionsRest
<1>5. QED
  BY <1>1, <1>2, <1>3, <1>4 DEF Next

\* What a request has found, or holds, is the agent it is about, whatever the
\* other requests did to the list meanwhile (CRestfulServer.cpp:126-247).
THEOREM DirectoryInductiveHolds == Spec => []DirectoryInductive
<1>1. Init => DirectoryInductive
  BY DEF Init, ListInit, ApiInit, DirectoryInductive, StatusesKnown, FoundItsDn,
         Listed, ToSet, Idle, Thread
<1>2. TypeOK /\ UniqueDnInductive /\ PollInductive /\ DirectoryInductive /\ [Next]_vars
      => DirectoryInductive'
  BY DirectoryInductiveStep
<1>3. QED
  BY <1>1, <1>2, TypeCorrect, UniqueDnInductiveHolds, PollInductiveHolds, PTL DEF Spec

-----------------------------------------------------------------------------
\* Every step is a step of the directory, or leaves it alone.
Implements == Directory!DirNext \/ UNCHANGED Directory!dirVars

LEMMA CalmTable ==
  ASSUME UniqueDn', Calm, Void' <=> Void
  PROVE  SameTable
<1>1. Listed' = Listed /\ raced' = raced
  BY DEF Calm, Listed
<1>2. ASSUME NEW d \in Dn
      PROVE  StatusIn(d)' = StatusIn(d)
  <2>1. CASE Void
    BY <2>1 DEF StatusIn
  <2>2. CASE ~Void
    BY <1>1, <2>2, EntryKept DEF Calm
  <2>3. QED
    BY <2>1, <2>2
<1>3. QED
  BY <1>2 DEF SameTable

\* What the table may be asked of a session's step: a request arrives, is
\* answered, or goes on.
LEMMA RequestSteps ==
  ASSUME ApiTypeOK, NEW s \in Session, Receive(s) \/ SessionStep(s) \/ Replied(s)
  PROVE  \/ Receive(s)
         \/ Answered(s) /\ req[s].pc # "idle"
         \/ \A t \in Session : PendingOf(t)' = PendingOf(t)
<1>1. ASSUME NEW l \in {"push", "found", "setReady", "calling"}, Goto(s, l), req[s].pc # "idle"
      PROVE  \A t \in Session : PendingOf(t)' = PendingOf(t)
  <2>1. /\ req'[s].pc = l /\ req'[s].dn = req[s].dn /\ req'[s].op = req[s].op
        /\ \A t \in Session \ {s} : req'[t] = req[t]
    BY <1>1 DEF Goto, ApiTypeOK, Request, Idle
  <2>2. QED
    BY <1>1, <2>1 DEF PendingOf
<1>2. ASSUME UNCHANGED req
      PROVE  \A t \in Session : PendingOf(t)' = PendingOf(t)
  BY <1>2 DEF PendingOf
<1>3. CASE Lookup(s)
  BY <1>1, <1>2, <1>3 DEF Lookup
<1>4. CASE NotFound(s)
  BY <1>1, <1>4 DEF NotFound
<1>5. CASE Relogin(s) \/ Makecall(s)
  BY <1>1, <1>5 DEF Relogin, Makecall
<1>6. CASE Login(s) \/ ReloginReady(s) \/ Logout(s) \/ SetStatus(s) \/ Replied(s)
  BY <1>6 DEF Login, ReloginReady, Logout, SetStatus, Replied
<1>7. CASE Stray(s) /\ UNCHANGED apiVars
  BY <1>2, <1>7 DEF apiVars
<1>8. QED
  BY <1>3, <1>4, <1>5, <1>6, <1>7 DEF SessionStep

\* Where the table does not change a request may arrive or be answered, if the
\* answer is the one the table gives.
LEMMA SameTableStep ==
  ASSUME ApiTypeOK, NEW s \in Session, Receive(s) \/ SessionStep(s) \/ Replied(s),
         SameTable,
         Answered(s) /\ req[s].pc # "idle" =>
           Directory!Served(StatusIn(req[s].dn), req[s].op) = StatusIn(req[s].dn)
  PROVE  Implements
<1>1. CASE Receive(s)
  BY <1>1, ArriveStep DEF Implements
<1>2. CASE Answered(s) /\ req[s].pc # "idle"
  BY <1>2, ServeStep DEF Implements, SameTable
<1>3. CASE \A t \in Session : PendingOf(t)' = PendingOf(t)
  BY <1>3, StutterStep DEF Implements
<1>4. QED
  BY <1>1, <1>2, <1>3, RequestSteps

LEMMA VoidStep ==
  ASSUME TypeOK, Void, Void', [Next]_vars
  PROVE  Implements
<1>1. SameTable
  BY DEF SameTable, StatusIn
<1>2. ASSUME NEW s \in Session, Api(s)
      PROVE  Implements
  <2>1. \A op : Directory!Served(StatusIn(req[s].dn), op) = StatusIn(req[s].dn)
    BY DEF StatusIn, Directory!Served
  <2>2. QED
    BY <1>1, <1>2, <2>1, SameTableStep DEF Api, TypeOK
<1>3. ASSUME UNCHANGED apiVars
      PROVE  Implements
  BY <1>1, <1>3, StutterStep DEF Implements, apiVars, PendingOf
<1>4. QED
  BY <1>2, <1>3 DEF Next, Acd, Events, DataRace, vars

-----------------------------------------------------------------------------
\* The steps taken while the table is not void.

\* The status of an agent on the list is the status of its dn.
LEMMA ListedStatus ==
  ASSUME TypeOK, UniqueDn, StatusesKnown, ~Void, NEW n \in Listed,
         agent[n].dn \notin raced
  PROVE  /\ StatusIn(agent[n].dn) = agent[n].status
         /\ StatusIn(agent[n].dn) \notin {"absent", "unknown"}
<1>1. agent[n].status \in AgentStatus_t \ {"unknown"}
  BY ListedAreNodes DEF TypeOK, ListTypeOK, Agent, StatusesKnown, Void
<1>2. Shows(agent[n].dn, agent[n].status)
  BY DEF Shows
<1>3. StatusIn(agent[n].dn) = agent[n].status
  BY <1>2, StatusIs
<1>4. QED
  BY <1>1, <1>3 DEF AgentStatus_t

\* The search that ends has met its dn nowhere.
LEMMA NotFoundStep ==
  ASSUME TypeOK, UniqueDnInductive, ~Void, NEW s \in Session, NotFound(s), req[s].op # "login"
  PROVE  Directory!Served(StatusIn(req[s].dn), req[s].op) = StatusIn(req[s].dn)
<1>1. m_listAgent \in Seq(Node)
  BY DEF TypeOK, ListTypeOK
<1>2. \A i \in DOMAIN m_listAgent : agent[m_listAgent[i]].dn # req[s].dn
  <2>1. CASE m_listAgent = <<>>
    BY <2>1
  <2>2. CASE m_listAgent # <<>>
    <3>1. \A i \in DOMAIN m_listAgent : m_listAgent[i] # None
      BY <1>1, NodeAssumption
    <3>2. PICK i \in DOMAIN m_listAgent : m_listAgent[i] = cur[s] /\ i = Len(m_listAgent)
      BY <1>1, <2>2, <3>1 DEF NotFound, Leads
    <3>3. \A j \in DOMAIN m_listAgent : j <= i
      BY <1>1, <3>2
    <3>4. QED
      BY <3>2, <3>3 DEF NotFound, UniqueDnInductive, SearchedSoFar, Void
  <2>3. QED
    BY <2>1, <2>2
<1>3. \A n \in Listed : agent[n].dn # req[s].dn
  BY <1>2 DEF Listed, ToSet
<1>4. StatusIn(req[s].dn) \in {"absent", "unknown"}
  BY <1>3 DEF StatusIn
<1>5. req[s].op \in AllOps
  BY DEF NotFound, TypeOK, ApiTypeOK, Request, Idle
<1>6. QED
  BY <1>4, <1>5 DEF Directory!Served, AllOps

LEMMA CalmSessionStep ==
  ASSUME TypeOK, UniqueDnInductive, UniqueDn', DirectoryInductive, ~Void,
         NEW s \in Session,
         \/ Receive(s) \/ Lookup(s) \/ NotFound(s) \/ Relogin(s) \/ Makecall(s)
         \/ Replied(s)
  PROVE  Implements
<1>1. SameTable
  <2>1. Void' <=> Void
    BY SessionsStep, SteppingKeepsVoid DEF TypeOK, Thread
  <2>2. QED
    BY <2>1, SessionsAreCalm, CalmTable
<1>2. CASE NotFound(s)
  <2>1. CASE req[s].op = "login"
    <3>1. ~Answered(s)
      BY <1>2, <2>1 DEF NotFound, Goto, Answered, TypeOK, ApiTypeOK, Idle
    <3>2. QED
      BY <1>1, <1>2, <3>1, SameTableStep DEF SessionStep, TypeOK
  <2>2. QED
    BY <1>1, <1>2, <2>1, NotFoundStep, SameTableStep DEF SessionStep, TypeOK
<1>3. CASE Replied(s)
  <2>1. Directory!Served(StatusIn(req[s].dn), req[s].op) = StatusIn(req[s].dn)
    BY <1>3 DEF Replied, DirectoryInductive, FoundItsDn, Directory!Served
  <2>2. QED
    BY <1>1, <1>3, <2>1, SameTableStep DEF TypeOK
<1>4. CASE Receive(s)
  BY <1>1, <1>4, ArriveStep DEF Implements, TypeOK
<1>5. CASE Lookup(s) \/ Relogin(s) \/ Makecall(s)
  <2>1. ~Answered(s)
    BY <1>5 DEF Lookup, Relogin, Makecall, Goto, Answered, TypeOK, ApiTypeOK, Idle
  <2>2. QED
    BY <1>1, <1>5, <2>1, SameTableStep DEF SessionStep, TypeOK
<1>6. QED
  BY <1>2, <1>3, <1>4, <1>5

\* A handler that writes the status of its agent.
LEMMA SetStatusStep ==
  ASSUME TypeOK, UniqueDnInductive, UniqueDn', DirectoryInductive, ~Void,
         NEW s \in Session, SetStatus(s)
  PROVE  Implements
<1>0. /\ cur[s] \in Listed /\ req[s].pc = "found" /\ Answered(s)
      /\ req[s].op \in {"ready", "notReady", "leave"}
      /\ UNCHANGED <<m_listAgent, raced>>
      /\ agent' = [agent EXCEPT ![cur[s]].status = StatusOf(req[s].op)]
  BY DEF SetStatus
<1>1. PICK d, st : d \in Dn /\ d = req[s].dn /\ st = StatusOf(req[s].op)
  BY <1>0, PendingRequest DEF TypeOK
<1>2. ~Void'
  BY SessionsStep, SteppingKeepsVoid DEF TypeOK, Thread
<1>3. agent[cur[s]].dn = d
  BY <1>0, <1>1 DEF DirectoryInductive, FoundItsDn, Void
<1>4. /\ \A n \in Listed : agent'[n].dn = agent[n].dn
      /\ \A n \in Listed \ {cur[s]} : agent'[n].status = agent[n].status
      /\ agent'[cur[s]].status = st
      /\ Listed' = Listed
  BY <1>0, <1>1, ListedAreNodes DEF TypeOK, ListTypeOK, Agent, Listed
<1>5. ASSUME NEW e \in Dn, e # d
      PROVE  StatusIn(e)' = StatusIn(e)
  BY <1>0, <1>2, <1>3, <1>4, <1>5, EntryKept
<1>6. StatusIn(d)' = Directory!Served(StatusIn(d), req[s].op)
  <2>1. CASE d \in raced
    BY <1>0, <2>1 DEF StatusIn, Directory!Served
  <2>2. CASE d \notin raced
    <3>1. StatusIn(d) \notin {"absent", "unknown"}
      BY <1>0, <1>3, <2>2, ListedStatus DEF UniqueDnInductive, DirectoryInductive
    <3>2. Shows(d, st)'
      BY <1>0, <1>2, <1>3, <1>4, <2>2 DEF Shows
    <3>3. StatusIn(d)' = st
      BY <3>2, StatusIsNext
    <3>4. QED
      BY <1>0, <1>1, <3>1, <3>3 DEF StatusOf, Directory!Served
  <2>3. QED
    BY <2>1, <2>2
<1>7. QED
  BY <1>0, <1>1, <1>5, <1>6, ServeStep DEF Implements, TypeOK

\* The agent a relogin holds is the one of its dn, or has been logged out.
LEMMA ReloginReadyStep ==
  ASSUME TypeOK, UniqueDnInductive, UniqueDn', DirectoryInductive, ~Void,
         NEW s \in Session, ReloginReady(s)
  PROVE  Implements
<1>0. /\ req[s].pc = "setReady" /\ req[s].op = "login" /\ Answered(s)
      /\ UNCHANGED <<m_listAgent, raced>>
  BY DEF ReloginReady, DirectoryInductive, FoundItsDn
<1>1. PICK d \in Dn : d = req[s].dn
  BY <1>0, PendingRequest DEF TypeOK
<1>2. ~Void'
  BY SessionsStep, SteppingKeepsVoid DEF TypeOK, Thread
<1>3. IF held[s] \in Listed THEN agent[held[s]].dn = d ELSE d \in raced
  BY <1>0, <1>1 DEF DirectoryInductive, FoundItsDn, Void
<1>4. /\ \A n \in Listed : agent'[n].dn = agent[n].dn
      /\ \A n \in Listed \ {held[s]} : agent'[n].status = agent[n].status
      /\ held[s] \in Listed => agent'[held[s]].status = "Ready"
      /\ Listed' = Listed
  <2>1. \A n \in Listed : n \in Node
    BY ListedAreNodes DEF TypeOK, ListTypeOK
  <2>2. Listed' = Listed
    BY <1>0 DEF Listed
  <2>3. CASE agent' = [agent EXCEPT ![held[s]].status = "Ready"]
    BY <2>1, <2>2, <2>3 DEF TypeOK, ListTypeOK, Agent
  <2>4. CASE held[s] \notin Listed /\ agent' = [agent EXCEPT ![held[s]] = Blank]
    BY <2>1, <2>2, <2>4 DEF TypeOK, ListTypeOK
  <2>5. QED
    BY <2>3, <2>4 DEF ReloginReady, Kept
<1>5. ASSUME NEW e \in Dn, e # d
      PROVE  StatusIn(e)' = StatusIn(e)
  <2>1. \A n \in Listed : agent[n].dn = e => n # held[s]
    BY <1>3, <1>5
  <2>2. QED
    BY <1>0, <1>2, <1>4, <2>1, EntryKept
<1>6. StatusIn(d)' = Directory!Served(StatusIn(d), req[s].op)
  <2>1. CASE d \in raced
    BY <1>0, <2>1 DEF StatusIn, Directory!Served
  <2>2. CASE d \notin raced
    <3>1. held[s] \in Listed /\ agent[held[s]].dn = d
      BY <1>3, <2>2
    <3>2. StatusIn(d) \notin {"absent", "unknown"}
      BY <2>2, <3>1, ListedStatus DEF UniqueDnInductive, DirectoryInductive
    <3>3. Shows(d, "Ready")'
      BY <1>0, <1>2, <1>4, <2>2, <3>1 DEF Shows
    <3>4. StatusIn(d)' = "Ready"
      BY <3>3, StatusIsNext
    <3>5. QED
      BY <1>0, <3>2, <3>4 DEF Directory!Served
  <2>3. QED
    BY <2>1, <2>2
<1>7. QED
  BY <1>0, <1>1, <1>5, <1>6, ServeStep DEF Implements, TypeOK

\* push_back: the dn was absent, unless another login was as far.
LEMMA LoginStep ==
  ASSUME TypeOK, UniqueDnInductive, UniqueDn', DirectoryInductive, ~Void,
         NEW s \in Session, Login(s)
  PROVE  Implements
<1>0. req[s].pc = "push" /\ req[s].op = "login" /\ Answered(s) /\ s \in Thread
  BY DEF Login, DirectoryInductive, FoundItsDn, Thread
<1>1. PICK d \in Dn : d = req[s].dn
  BY <1>0, PendingRequest DEF TypeOK
<1>2. ~Void'
  BY SessionsStep, SteppingKeepsVoid DEF TypeOK, Thread
<1>3. PICK n \in Fresh : PushBack(s, n, d)
  BY <1>1 DEF Login
<1>4. /\ Listed' = Listed \cup {n} /\ n \notin Listed
      /\ agent'[n].dn = d /\ agent'[n].status = "Ready"
      /\ \A m \in Listed : agent'[m] = agent[m]
  <2>1. /\ Listed' = Listed \cup {n} /\ n \notin Listed
        /\ agent'[n] = NewAgent(d)
        /\ \A m \in Listed : agent'[m] = agent[m]
    BY <1>0, <1>3, ListedAfterPush
  <2>2. NewAgent(d).dn = d /\ NewAgent(d).status = "Ready"
    BY DEF NewAgent, Blank
  <2>3. QED
    BY <2>1, <2>2
<1>5. raced \subseteq raced' /\ raced' \subseteq raced \cup {d}
  BY <1>1 DEF Login
<1>6. ASSUME NEW e \in Dn, e # d
      PROVE  StatusIn(e)' = StatusIn(e)
  <2>1. \A m : m \in Listed /\ agent[m].dn = e <=> m \in Listed' /\ agent'[m].dn = e
    BY <1>4, <1>6
  <2>2. e \in raced <=> e \in raced'
    BY <1>5, <1>6
  <2>3. \A m \in Listed : agent[m].dn = e => agent'[m].status = agent[m].status
    BY <1>4
  <2>4. QED
    BY <1>2, <2>1, <2>2, <2>3, EntryKept
<1>7. CASE \E t \in Session \ {s} : req[t].pc = "push" /\ req[t].dn = d
  <2>1. PICK t \in Session \ {s} : req[t].pc = "push" /\ req[t].dn = d
    BY <1>7
  <2>2. req[t].op = "login"
    BY <2>1 DEF DirectoryInductive, FoundItsDn
  <2>3. d \in raced'
    BY <1>1, <1>7 DEF Login
  <2>4. StatusIn(d)' = "unknown"
    BY <2>3 DEF StatusIn
  <2>5. QED
    BY <1>0, <1>1, <1>6, <2>1, <2>2, <2>4, OverlapStep DEF Implements, TypeOK
<1>8. CASE ~\E t \in Session \ {s} : req[t].pc = "push" /\ req[t].dn = d
  <2>1. raced' = raced
    BY <1>1, <1>8 DEF Login
  <2>2. StatusIn(d)' = Directory!Served(StatusIn(d), req[s].op)
    <3>1. CASE d \in raced
      BY <1>0, <2>1, <3>1 DEF StatusIn, Directory!Served
    <3>2. CASE d \notin raced
      <4>1. \A m \in Listed : agent[m].dn # d
        <5>1. \A i \in DOMAIN m_listAgent : agent[m_listAgent[i]].dn # d
          BY <1>0, <1>1, <3>2 DEF UniqueDnInductive, PushIsNew, Void
        <5>2. QED
          BY <5>1 DEF Listed, ToSet
      <4>2. StatusIn(d) = "absent"
        BY <3>2, <4>1 DEF StatusIn
      <4>3. Shows(d, "Ready")'
        BY <1>2, <1>4, <2>1, <3>2 DEF Shows
      <4>4. StatusIn(d)' = "Ready"
        BY <4>3, StatusIsNext
      <4>5. QED
        BY <1>0, <4>2, <4>4 DEF Directory!Served
    <3>3. QED
      BY <3>1, <3>2
  <2>3. QED
    BY <1>0, <1>1, <1>6, <2>2, ServeStep DEF Implements, TypeOK
<1>9. QED
  BY <1>7, <1>8

\* erase(): the dn is absent, unless a relogin holds its agent; a cursor left
\* at the node breaks the table.
LEMMA LogoutStep ==
  ASSUME TypeOK, UniqueDnInductive, UniqueDn', DirectoryInductive, ~Void,
         NEW s \in Session, Logout(s)
  PROVE  Implements
<1>0. /\ req[s].pc = "found" /\ req[s].op = "logout" /\ cur[s] \in Listed
      /\ Erase(s) /\ Answered(s) /\ s \in Thread
  BY DEF Logout, Thread
<1>1. PICK d \in Dn : d = req[s].dn
  BY <1>0, PendingRequest DEF TypeOK
<1>2. agent[cur[s]].dn = d
  BY <1>0, <1>1 DEF DirectoryInductive, FoundItsDn, Void
<1>3. Listed' = Listed \ {cur[s]} /\ \A n \in Listed' : agent'[n] = agent[n]
  BY <1>0, ListedAfterErase DEF UniqueDnInductive
<1>4. raced \subseteq raced' /\ raced' \subseteq raced \cup {d}
  BY <1>1 DEF Logout
<1>5. CASE Void'
  BY <1>0, <1>5, BreakStep DEF Implements, TypeOK
<1>6. ASSUME ~Void', NEW e \in Dn, e # d
      PROVE  StatusIn(e)' = StatusIn(e)
  <2>1. \A n : n \in Listed /\ agent[n].dn = e <=> n \in Listed' /\ agent'[n].dn = e
    BY <1>2, <1>3, <1>6
  <2>2. e \in raced <=> e \in raced'
    BY <1>4, <1>6
  <2>3. \A n \in Listed : agent[n].dn = e => agent'[n].status = agent[n].status
    BY <1>2, <1>3, <1>6
  <2>4. QED
    BY <1>6, <2>1, <2>2, <2>3, EntryKept
<1>7. CASE ~Void' /\ \E t \in Session : held[t] = cur[s]
  <2>1. PICK t \in Session : held[t] = cur[s]
    BY <1>7
  <2>2. cur[s] # None
    BY <1>0, ListedAreNodes, NodeAssumption DEF TypeOK, ListTypeOK
  <2>3. req[t].pc = "setReady" /\ req[t].op = "login" /\ t # s
    BY <1>0, <2>1, <2>2 DEF DirectoryInductive, FoundItsDn
  <2>4. req[t].dn = d
    BY <1>0, <1>2, <2>1, <2>3 DEF DirectoryInductive, FoundItsDn, Void
  <2>5. d \in raced'
    BY <1>1, <1>7 DEF Logout
  <2>6. StatusIn(d)' = "unknown"
    BY <2>5 DEF StatusIn
  <2>7. QED
    BY <1>0, <1>1, <1>6, <1>7, <2>3, <2>4, <2>6, OverlapStep DEF Implements, TypeOK
<1>8. CASE ~Void' /\ ~\E t \in Session : held[t] = cur[s]
  <2>1. raced' = raced
    BY <1>8 DEF Logout
  <2>2. StatusIn(d)' = Directory!Served(StatusIn(d), req[s].op)
    <3>1. CASE d \in raced
      BY <1>0, <2>1, <3>1 DEF StatusIn, Directory!Served
    <3>2. CASE d \notin raced
      <4>1. StatusIn(d) # "unknown"
        BY <1>0, <1>2, <3>2, ListedStatus DEF UniqueDnInductive, DirectoryInductive
      <4>2. \A n \in Listed : agent[n].dn = d => n = cur[s]
        <5>1. PICK i \in DOMAIN m_listAgent : m_listAgent[i] = cur[s]
          BY <1>0 DEF Listed, ToSet
        <5>2. \A j \in DOMAIN m_listAgent : agent[m_listAgent[j]].dn = d => i = j
          BY <1>2, <3>2, <5>1 DEF UniqueDnInductive, UniqueDn, Void
        <5>3. QED
          BY <5>1, <5>2 DEF Listed, ToSet
      <4>3. \A n \in Listed' : agent'[n].dn # d
        BY <1>3, <4>2
      <4>4. Shows(d, "absent")'
        BY <1>8, <2>1, <3>2, <4>3 DEF Shows
      <4>5. StatusIn(d)' = "absent"
        BY <4>4, StatusIsNext
      <4>6. QED
        BY <1>0, <4>1, <4>5 DEF Directory!Served
    <3>3. QED
      BY <3>1, <3>2
  <2>3. QED
    BY <1>0, <1>1, <1>6, <1>8, <2>2, ServeStep DEF Implements, TypeOK
<1>9. QED
  BY <1>5, <1>7, <1>8

\* A hangup makes the agent of its dn Ready.
LEMMA HangupStep ==
  ASSUME TypeOK, UniqueDnInductive, UniqueDn', EventInductive, DirectoryInductive, ~Void,
         HangupComplete, UNCHANGED apiVars
  PROVE  Implements
<1>0. /\ evt.pc = "found" /\ cur[Listener] \in Listed
      /\ UNCHANGED <<m_listAgent, raced, req>>
      /\ agent' = [agent EXCEPT ![cur[Listener]].status = "Ready",
                                ![cur[Listener]].uuid = None]
  BY DEF HangupComplete, apiVars
<1>1. PICK d \in Dn : d = evt.ev.dest
  BY <1>0 DEF EventInductive, DestSearched, Event
<1>2. ~Void'
  <2>1. Stepping(Listener)
    <3>1. EventStep /\ ~Stray(Listener)
      BY <1>0, PlacesDoNotDangle DEF EventStep, Stray, TypeOK
    <3>2. QED
      BY <3>1, EventsStep DEF TypeOK
  <2>2. QED
    BY <2>1, SteppingKeepsVoid DEF TypeOK, Thread
<1>3. agent[cur[Listener]].dn = d
  <2>1. PICK i \in DOMAIN m_listAgent : m_listAgent[i] = cur[Listener]
    BY <1>0 DEF Listed, ToSet
  <2>2. QED
    BY <1>0, <1>1, <2>1 DEF EventInductive, DestSearched, Void
<1>4. /\ \A n \in Listed : agent'[n].dn = agent[n].dn
      /\ \A n \in Listed \ {cur[Listener]} : agent'[n].status = agent[n].status
      /\ agent'[cur[Listener]].status = "Ready"
      /\ Listed' = Listed
  BY <1>0, ListedAreNodes DEF TypeOK, ListTypeOK, Agent, Listed
<1>5. ASSUME NEW e \in Dn, e # d
      PROVE  StatusIn(e)' = StatusIn(e)
  BY <1>0, <1>2, <1>3, <1>4, <1>5, EntryKept
<1>6. \A s \in Session : PendingOf(s)' = PendingOf(s)
  BY <1>0 DEF PendingOf
<1>7. CASE d \in raced
  <2>1. StatusIn(d)' = StatusIn(d)
    BY <1>0, <1>7 DEF StatusIn
  <2>2. QED
    BY <1>5, <1>6, <2>1, StutterStep DEF Implements, SameTable
<1>8. CASE d \notin raced
  <2>1. StatusIn(d) \notin {"absent", "unknown"}
    BY <1>0, <1>3, <1>8, ListedStatus DEF UniqueDnInductive, DirectoryInductive
  <2>2. Shows(d, "Ready")'
    BY <1>0, <1>2, <1>3, <1>4, <1>8 DEF Shows
  <2>3. StatusIn(d)' = "Ready"
    BY <2>2, StatusIsNext
  <2>4. QED
    BY <1>5, <1>6, <2>1, <2>3, HungUpStep DEF Implements
<1>9. QED
  BY <1>7, <1>8

-----------------------------------------------------------------------------
LEMMA SoundStep ==
  ASSUME TypeOK, UniqueDnInductive, UniqueDn', PollInductive, EventInductive,
         DirectoryInductive, ~Void, [Next]_vars
  PROVE  Implements
<1>1. \A t \in Thread : ~Stray(t)
  BY StrayKeepsVoid
<1>2. ASSUME NEW s \in Session, Api(s)
      PROVE  Implements
  <2>1. ~Stray(s)
    BY <1>1 DEF Thread
  <2>2. QED
    BY <1>2, <2>1, CalmSessionStep, SetStatusStep, ReloginReadyStep, LoginStep, LogoutStep
    DEF Api, SessionStep
<1>3. ASSUME UNCHANGED apiVars, Calm, Void' <=> Void
      PROVE  Implements
  <2>1. SameTable
    BY <1>3, CalmTable
  <2>2. QED
    BY <1>3, <2>1, StutterStep DEF Implements, apiVars, PendingOf
<1>4. ASSUME NEW c \in Caller, Acd(c)
      PROVE  Implements
  <2>1. c \in Thread
    BY DEF Thread
  <2>2. Void' <=> Void
    BY <1>1, <1>4, <2>1, CallersStep, SteppingKeepsVoid DEF Acd, TypeOK
  <2>3. QED
    BY <1>3, <1>4, <2>2, CallersAreCalm DEF Acd
<1>5. CASE Events
  <2>1. Listener \in Thread
    BY DEF Thread
  <2>2. Void' <=> Void
    BY <1>1, <1>5, <2>1, EventsStep, SteppingKeepsVoid DEF Events, TakesEvent, TypeOK
  <2>3. UNCHANGED apiVars /\ (Calm \/ HangupComplete)
    BY <1>5, EventsAreCalm DEF Events, TakesEvent
  <2>4. QED
    BY <1>3, <2>2, <2>3, HangupStep
<1>6. CASE DataRace
  <2>1. Void' /\ UNCHANGED apiVars
    BY <1>6 DEF DataRace, Void, Sound
  <2>2. QED
    BY <2>1, BreakStep DEF Implements, apiVars, PendingOf, TypeOK
<1>7. CASE UNCHANGED vars
  <2>1. Calm /\ (Void' <=> Void) /\ UNCHANGED apiVars
    BY <1>7 DEF vars, listVars, apiVars, Calm, Void, Sound
  <2>2. QED
    BY <1>3, <2>1
<1>8. QED
  BY <1>2, <1>4, <1>5, <1>6, <1>7 DEF Next

LEMMA VoidStays ==
  ASSUME TypeOK, Void, [Next]_vars
  PROVE  Void'
<1> USE DEF TypeOK
<1>1. ASSUME NEW t \in Thread, Stepping(t) \/ Stray(t)
      PROVE  Void'
  BY <1>1, SteppingKeepsVoid, StrayKeepsVoid
<1>2. ASSUME NEW s \in Session, Api(s)
      PROVE  Void'
  <2>1. CASE Logout(s)
    BY <2>1, EraseKeepsVoid
  <2>2. CASE ~Logout(s)
    BY <1>1, <1>2, <2>2, SessionsStep DEF Api, SessionStep, Thread
  <2>3. QED
    BY <2>1, <2>2
<1>3. ASSUME NEW c \in Caller, Acd(c)
      PROVE  Void'
  BY <1>1, <1>3, CallersStep DEF Acd, Thread
<1>4. CASE Events
  BY <1>1, <1>4, EventsStep DEF Events, TakesEvent, Thread
<1>5. CASE DataRace \/ UNCHANGED vars
  BY <1>5 DEF DataRace, vars, listVars, Void, Sound
<1>6. QED
  BY <1>2, <1>3, <1>4, <1>5 DEF Next

\* The agent endpoints keep their promise, for any number of sessions, calls
\* and agents: each request acts on the list, at one moment between its arrival
\* and its answer, as on a table of dns, until two logins, or a login and a
\* logout, of one dn overlap or behaviour is undefined
\* (CRestfulServer.cpp:115-247, CallService.cpp:281-291).
THEOREM ImplementsDirectory == Spec => IsDirectory
<1>1. Init => Directory!DirInit
  <2> SUFFICES ASSUME Init
               PROVE  Directory!DirInit
    OBVIOUS
  <2>1. Listed = {} /\ raced = {} /\ ~Void
    BY NodeAssumption
    DEF Init, ListInit, ApiInit, Listed, ToSet, Void, Sound
  <2>2. \A d \in Dn : StatusIn(d) = "absent"
    BY <2>1 DEF StatusIn
  <2>3. \A s \in Session : req[s].pc = "idle"
    BY DEF Init, ApiInit, Idle
  <2>4. QED
    BY <2>2, <2>3 DEF Directory!DirInit, Directory!NoRequest
<1>2. /\ TypeOK /\ UniqueDnInductive /\ UniqueDnInductive' /\ PollInductive
      /\ EventInductive /\ DirectoryInductive /\ [Next]_vars
      => [Directory!DirNext]_(Directory!dirVars)
  <2> SUFFICES ASSUME TypeOK, UniqueDnInductive, UniqueDnInductive', PollInductive,
                      EventInductive, DirectoryInductive, [Next]_vars
               PROVE  Implements
    BY DEF Implements
  <2>1. UniqueDn'
    BY DEF UniqueDnInductive
  <2>2. CASE Void
    BY <2>2, VoidStays, VoidStep
  <2>3. CASE ~Void
    BY <2>1, <2>3, SoundStep
  <2>4. QED
    BY <2>2, <2>3
<1>3. QED
  BY <1>1, <1>2, TypeCorrect, UniqueDnInductiveHolds, PollInductiveHolds,
     EventInductiveHolds, DirectoryInductiveHolds, PTL
  DEF Spec, IsDirectory, Directory!DirSpec
=============================================================================
