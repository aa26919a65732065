--------------------------- MODULE RestServerProofs ---------------------------
(***************************************************************************)
(* Proofs about RestServer, for any clients, dns and session threads.      *)
(***************************************************************************)
EXTENDS RestServer, TLAPS

\* The table holds statuses, and an endpoint turns a status into a status.
LEMMA ServedTypes ==
  \A op \in AgentOps \cup {"makecall"}, status \in Statuses :
    /\ Served(status, op) \in Statuses
    /\ Served(status, op) = "unknown" <=> status = "unknown"
BY DEF Served, Statuses, AgentOps

\* A client concludes from an answer what the endpoint has done.
LEMMA ConclusionIsServed ==
  ASSUME NEW c, NEW r, NEW status \in Statuses \ {"unknown"},
         r.target \in AgentOps \cup {"makecall"},
         NEW res \in Results(r.target, status), Conclusion(c, r, res) # "unknown"
  PROVE  r.body.dn = c /\ Conclusion(c, r, res) = Served(status, r.target)
BY DEF Served, Statuses, AgentOps, Results, Conclusion

LEMMA ConclusionTypes ==
  ASSUME NEW c, NEW r, NEW res
  PROVE  Conclusion(c, r, res) \in Statuses
<1>1. CASE res = "dnNotFound" \/ res = "success"
  BY <1>1, ServedTypes DEF Statuses, Conclusion
<1>2. CASE res # "dnNotFound" /\ res # "success"
  BY <1>2 DEF Statuses, Conclusion
<1>3. QED
  BY <1>1, <1>2

LEMMA RequestTypes ==
  ASSUME NEW c \in Client, NEW r \in RequestsOf(c)
  PROVE  r \in RestRequest /\ r.body.dn \in {c, Empty}
<1> DEFINE named == {b \in [json : {"object"}, dn : {c, Empty}, other : BOOLEAN] :
                       b.dn = c => b.other}
           nameless == [json : {"broken", "noObject"}, dn : {Empty}, other : {FALSE}]
           bodies == nameless \cup named
<1>1. \A body \in bodies : body \in Body /\ body.dn \in {c, Empty}
  <2>1. \A body \in nameless : body \in Body /\ body.dn = Empty
    BY ClientAssumption DEF Body
  <2>2. \A body \in named : body \in Body /\ body.dn \in {c, Empty}
    BY ClientAssumption DEF Body
  <2>3. QED
    BY <2>1, <2>2
<1>2. NoBody \in bodies
  BY DEF NoBody
<1>3. r \in [target : Posts, body : bodies]
      \/ r \in [target : Simple \cup {"malformed"}, body : {NoBody}]
  BY DEF RequestsOf
<1> HIDE DEF bodies
<1>4. QED
  BY <1>1, <1>2, <1>3 DEF RestRequest, Target

LEMMA FreeType ==
  /\ Free.pc = "free"
  /\ Free \in Connection
BY ClientAssumption
DEF Free, Connection, Response, RestRequest, Body, NoBody, Target, Simple

LEMMA LostType ==
  ASSUME NEW k \in Connection
  PROVE  [k EXCEPT !.lost = TRUE] \in Connection
BY DEF Connection

LEMMA RespondType ==
  ASSUME conn \in [Session -> Connection], NEW s \in Session, NEW res \in Response,
         Respond(s, res)
  PROVE  conn' \in [Session -> Connection]
<1>1. [[conn[s] EXCEPT !.pc = "write"] EXCEPT !.res = res] \in Connection
  <2>1. [conn[s] EXCEPT !.pc = "write"] \in Connection
    BY DEF Connection
  <2>2. QED
    BY <2>1 DEF Connection
<1>2. conn' = [conn EXCEPT ![s] = [[conn[s] EXCEPT !.pc = "write"] EXCEPT !.res = res]]
  <2>1. conn' = [[conn EXCEPT ![s].pc = "write"] EXCEPT ![s].res = res]
    BY DEF Respond
  <2>2. QED
    BY <2>1
<1>3. QED
  BY <1>1, <1>2


-----------------------------------------------------------------------------
LEMMA ThreadType ==
  ASSUME RestTypeOK, NEW s \in Session, ThreadStep(s)
  PROVE  RestTypeOK'
<1> USE DEF RestTypeOK
<1>1. CASE ReadFails(s)
  BY <1>1, FreeType DEF ReadFails, dirVars
<1>10. CASE Aborts(s)
  BY <1>10 DEF Aborts, dirVars, clientVars
<1>11. CASE Calling(s)
  BY <1>11 DEF Calling, Connection, dirVars, clientVars
<1>2. CASE Accept(s)
  <2>1. conn[s].req.body.dn \in Dn
    BY DEF Connection, RestRequest, Body
  <2>2. conn' \in [Session -> Connection]
    BY <1>2 DEF Accept, Connection
  <2>3. QED
    BY <1>2, <2>1, <2>2 DEF Accept, clientVars
<1>3. CASE Call(s)
  BY <1>3, RespondType DEF Call, Response, dirVars, clientVars
<1>4. CASE Refuse(s)
  BY <1>4, RespondType DEF Refuse, Response, dirVars, clientVars
<1>5. CASE Answer(s)
  <2>1. SimpleResponse(conn[s].req.target) \in
          {"users", "badRequest", "empty", "notImplemented"}
    BY <1>5 DEF Answer, Simple, SimpleResponse
  <2>2. QED
    BY <1>5, <2>1, RespondType DEF Answer, Response, dirVars, clientVars
<1>6. CASE Perform(s)
  <2>0. pending[s] \in [op : Ops, dn : Dn]
    BY <1>6 DEF Perform, Serve, Overlap
  <2>1. conn' \in [Session -> Connection]
    <3>1. Results(pending[s].op, dir[pending[s].dn]) \subseteq Response
      BY <2>0, RestOpsAssumption DEF Results, Response, AgentOps
    <3>2. QED
      BY <1>6, <3>1, RespondType DEF Perform
  <2>2. dir' \in [Dn -> Statuses] /\ pending' \in [Session -> {NoRequest} \cup [op : Ops, dn : Dn]]
    <3>1. CASE Serve(s)
      <4>1. pending[s].op \in Ops /\ pending[s].dn \in Dn
        BY <2>0
      <4>2. Served(dir[pending[s].dn], pending[s].op) \in Statuses
        BY <4>1, ServedTypes, RestOpsAssumption
      <4>3. QED
        BY <3>1, <4>2 DEF Serve
    <3>2. ASSUME NEW t \in Session, Overlap(s, t)
          PROVE  /\ dir' \in [Dn -> Statuses]
                 /\ pending' \in [Session -> {NoRequest} \cup [op : Ops, dn : Dn]]
      BY <3>2 DEF Overlap, Statuses
    <3>3. QED
      BY <1>6, <3>1, <3>2 DEF Perform
  <2>3. late' \in [Client -> BOOLEAN] /\ hungUp' \in [Client -> BOOLEAN]
    BY <1>6 DEF Perform
  <2>4. QED
    BY <1>6, <2>1, <2>2, <2>3 DEF Perform
<1>7. CASE Write(s)
  BY <1>7, FreeType, ConclusionTypes DEF Write, dirVars
<1>8. CASE WriteFails(s)
  BY <1>8, FreeType DEF WriteFails, dirVars, clientVars
<1>9. QED
  BY <1>1, <1>2, <1>3, <1>4, <1>5, <1>6, <1>7, <1>8, <1>10, <1>11 DEF ThreadStep

LEMMA CallReturnsType ==
  ASSUME RestTypeOK, NEW s \in Session, CallReturns(s)
  PROVE  RestTypeOK'
<1> USE DEF RestTypeOK
<1>1. pending[s] \in [op : Ops, dn : Dn]
  BY DEF CallReturns, Serve
<1>2. Served(dir[pending[s].dn], pending[s].op) \in Statuses
  BY <1>1, ServedTypes, RestOpsAssumption
<1>3. conn' \in [Session -> Connection]
  BY RespondType DEF CallReturns, Response
<1>4. QED
  BY <1>2, <1>3 DEF CallReturns, Serve, clientVars

LEMMA RestTypeStep == RestTypeOK /\ [RestNext]_restVars => RestTypeOK'
<1> SUFFICES ASSUME RestTypeOK, [RestNext]_restVars
             PROVE  RestTypeOK'
  OBVIOUS
<1> USE DEF RestTypeOK
<1>1. ASSUME NEW c \in Client, NEW s \in Session, Send(c, s)
      PROVE  RestTypeOK'
  <2>1. PICK r \in RequestsOf(c) :
          conn' = [conn EXCEPT ![s] = [Free EXCEPT !.pc = "read", !.client = c, !.req = r]]
    BY <1>1 DEF Send
  <2>2. r \in RestRequest
    BY RequestTypes
  <2>3. conn' \in [Session -> Connection]
    BY <2>1, <2>2, FreeType DEF Connection
  <2>4. QED
    BY <1>1, <2>3 DEF Send, dirVars, Statuses
<1>2. ASSUME NEW c \in Client, GiveUp(c)
      PROVE  RestTypeOK'
  <2>1. conn' \in [Session -> Connection]
    <3>1. client[c] \in Session
      BY <1>2 DEF GiveUp
    <3>2. [conn[client[c]] EXCEPT !.lost = TRUE] \in Connection
      BY <3>1, LostType
    <3>3. conn' = [conn EXCEPT ![client[c]] = [conn[client[c]] EXCEPT !.lost = TRUE]]
      BY <1>2 DEF GiveUp
    <3>4. QED
      BY <3>2, <3>3
  <2>2. QED
    BY <1>2, <2>1 DEF GiveUp, dirVars
<1>3. ASSUME NEW s \in Session, ThreadStep(s)
      PROVE  RestTypeOK'
  BY <1>3, ThreadType
<1>4. ASSUME NEW d \in Dn, HangUp(d)
      PROVE  RestTypeOK'
  BY <1>4 DEF HangUp, HungUp, Statuses
<1>5. CASE UNCHANGED restVars
  BY <1>5 DEF restVars, dirVars, clientVars
<1>6. QED
  BY <1>1, <1>2, <1>3, <1>4, <1>5, CallReturnsType DEF RestNext

\* Every variable keeps its type: no request reaches the list with a dn or an
\* endpoint that is none (CRestfulServer.cpp:24-83, 113-283).
THEOREM RestTypeCorrect == RestSpec => []RestTypeOK
<1>1. RestInit => RestTypeOK
  BY FreeType DEF RestInit, DirInit, RestTypeOK, Statuses
<1>2. QED
  BY <1>1, RestTypeStep, PTL DEF RestSpec

-----------------------------------------------------------------------------
\* Sending, giving up, and the steps of a thread before and after its request
\* takes effect leave the table alone.
LEMMA SendKeeps ==
  ASSUME RestTypeOK, RestInductive, NEW c \in Client, NEW s \in Session, Send(c, s)
  PROVE  RestInductive'
<1> USE DEF RestTypeOK, RestInductive
<1>1. PICK r \in RequestsOf(c) :
        conn' = [conn EXCEPT ![s] = [Free EXCEPT !.pc = "read", !.client = c, !.req = r]]
  BY DEF Send
<1>2. /\ conn'[s].pc = "read" /\ conn'[s].client = c /\ ~conn'[s].lost
      /\ conn'[s].req.body.dn \in {c, Empty}
      /\ \A t \in Session \ {s} : conn'[t] = conn[t]
  BY <1>1, RequestTypes DEF Free
<1>3. \A b \in Client \ {c} : client'[b] = client[b] /\ told'[b] = told[b]
  BY DEF Send
<1>4. client'[c] = s /\ told'[c] = "unknown" /\ s # None
  BY NoneAssumption DEF Send
<1>5. /\ dir' = dir /\ pending' = pending
      /\ late' = late /\ hungUp' = hungUp /\ gaveUp' = gaveUp
  BY DEF Send, dirVars
<1>6. conn[s].pc = "free" /\ client[c] = None
  BY DEF Send
<1>7. WaitsForOne'
  <2>1. ASSUME NEW b \in Client, client'[b] # None
        PROVE  /\ told'[b] = "unknown"
               /\ conn'[client'[b]].client = b
               /\ conn'[client'[b]].pc # "free" /\ ~conn'[client'[b]].lost
    <3>1. CASE b = c
      BY <1>2, <1>4, <3>1
    <3>2. CASE b # c
      <4>1. client'[b] = client[b] /\ client[b] # s /\ client[b] \in Session
        BY <1>3, <1>6, <2>1, <3>2 DEF WaitsForOne
      <4>2. QED
        BY <1>2, <1>3, <2>1, <3>2, <4>1 DEF WaitsForOne
    <3>3. QED
      BY <3>1, <3>2
  <2>2. ASSUME NEW t \in Session, conn'[t].pc # "free"
        PROVE  /\ conn'[t].client \in Client
               /\ conn'[t].req.body.dn \in {conn'[t].client, Empty}
               /\ IF conn'[t].lost THEN conn'[t].client \in gaveUp'
                                   ELSE client'[conn'[t].client] = t
    <3>1. CASE t = s
      BY <1>2, <1>4, <3>1
    <3>2. CASE t # s
      <4>1. conn[t].lost \/ conn[t].client # c
        BY <1>2, <1>6, <2>2, <3>2, NoneAssumption DEF WaitsForOne
      <4>2. QED
        BY <1>2, <1>3, <1>5, <2>2, <3>2, <4>1 DEF WaitsForOne
    <3>3. QED
      BY <3>1, <3>2
  <2>3. QED
    BY <2>1, <2>2 DEF WaitsForOne
<1>8. ServesItsRequest'
  BY <1>2, <1>5, <1>6 DEF ServesItsRequest
<1>9. AnswerStillTrue'
  BY <1>2, <1>5 DEF AnswerStillTrue, StillHolds
<1>10. LastAnswerHolds' /\ UnknownOnlyAfterGivingUp'
  BY <1>3, <1>4, <1>5 DEF LastAnswerHolds, StillHolds, UnknownOnlyAfterGivingUp
<1>11. QED
  BY <1>7, <1>8, <1>9, <1>10

LEMMA GiveUpKeeps ==
  ASSUME RestTypeOK, RestInductive, NEW c \in Client, GiveUp(c)
  PROVE  RestInductive'
<1> USE DEF RestTypeOK, RestInductive
<1> DEFINE s == client[c]
<1>1. s \in Session /\ conn[s].client = c /\ conn[s].pc # "free" /\ ~conn[s].lost
  BY DEF GiveUp, WaitsForOne
<1>2. /\ conn'[s] = [conn[s] EXCEPT !.lost = TRUE]
      /\ \A t \in Session \ {s} : conn'[t] = conn[t]
  BY <1>1 DEF GiveUp
<1>3. /\ conn'[s].lost /\ conn'[s].client = c /\ conn'[s].pc = conn[s].pc
      /\ conn'[s].req = conn[s].req
  BY <1>1, <1>2 DEF Connection
<1>4. client'[c] = None /\ \A b \in Client \ {c} : client'[b] = client[b]
  BY DEF GiveUp
<1>5. /\ dir' = dir /\ pending' = pending
      /\ late' = late /\ hungUp' = hungUp /\ told' = told
  BY DEF GiveUp, dirVars
<1>6. gaveUp' = gaveUp \cup {c}
  BY DEF GiveUp
<1> HIDE DEF s
<1>7. WaitsForOne'
  <2>1. \A b \in Client \ {c} : client[b] # s
    BY <1>1, NoneAssumption DEF WaitsForOne
  <2>2. \A b \in Client : client'[b] # None =>
          /\ told'[b] = "unknown"
          /\ conn'[client'[b]].client = b
          /\ conn'[client'[b]].pc # "free" /\ ~conn'[client'[b]].lost
    BY <1>2, <1>4, <1>5, <2>1 DEF WaitsForOne
  <2>3. ASSUME NEW t \in Session, conn'[t].pc # "free"
        PROVE  /\ conn'[t].client \in Client
               /\ conn'[t].req.body.dn \in {conn'[t].client, Empty}
               /\ IF conn'[t].lost THEN conn'[t].client \in gaveUp'
                                   ELSE client'[conn'[t].client] = t
    <3>1. CASE t = s
      BY <1>1, <1>3, <1>6, <2>3, <3>1 DEF WaitsForOne
    <3>2. CASE t # s
      <4>1. conn[t].lost \/ conn[t].client # c
        BY <1>2, <2>3, <3>2 DEF WaitsForOne, s
      <4>2. QED
        BY <1>2, <1>4, <1>6, <2>3, <3>2, <4>1 DEF WaitsForOne
    <3>3. QED
      BY <3>1, <3>2
  <2>4. QED
    BY <2>2, <2>3 DEF WaitsForOne
<1>8. ServesItsRequest'
  <2>1. \A t \in Session : conn'[t].pc = conn[t].pc /\ conn'[t].req = conn[t].req
    BY <1>2, <1>3
  <2>2. QED
    BY <1>5, <2>1 DEF ServesItsRequest
<1>9. AnswerStillTrue'
  <2> SUFFICES ASSUME NEW t \in Session, conn'[t].pc = "write", ~conn'[t].lost,
                      NEW b, b = conn'[t].client, ~late'[b],
                      NEW status, status = Conclusion(b, conn'[t].req, conn'[t].res),
                      status # "unknown"
               PROVE  StillHolds(b, status)'
    BY DEF AnswerStillTrue
  <2>1. conn'[t] = conn[t]
    BY <1>2, <1>3
  <2>2. StillHolds(b, status)
    BY <1>5, <2>1 DEF AnswerStillTrue
  <2>3. QED
    BY <1>5, <2>2 DEF StillHolds
<1>10. LastAnswerHolds'
  <2>1. told[c] = "unknown"
    BY DEF GiveUp, WaitsForOne
  <2>2. QED
    BY <1>4, <1>5, <2>1 DEF LastAnswerHolds, StillHolds
<1>11. UnknownOnlyAfterGivingUp'
  BY <1>5, <1>6 DEF UnknownOnlyAfterGivingUp
<1>12. QED
  BY <1>7, <1>8, <1>9, <1>10, <1>11

\* A thread goes on with its request.
GoesOn(s) ==
  /\ conn[s].pc # "free" /\ conn'[s].pc # "free"
  /\ conn'[s].client = conn[s].client /\ conn'[s].lost = conn[s].lost
  /\ conn'[s].req = conn[s].req
  /\ \A t \in Session \ {s} : conn'[t] = conn[t]
  /\ UNCHANGED <<client, told, gaveUp>>

LEMMA GoesOnKeepsClients ==
  ASSUME RestTypeOK, WaitsForOne, NEW s \in Session, GoesOn(s)
  PROVE  WaitsForOne'
<1>1. \A t \in Session :
        /\ conn'[t].pc = "free" <=> conn[t].pc = "free"
        /\ conn'[t].client = conn[t].client /\ conn'[t].lost = conn[t].lost
        /\ conn'[t].req = conn[t].req
  BY DEF GoesOn
<1>2. \A c \in Client : client[c] # None => client[c] \in Session
  BY DEF RestTypeOK
<1>3. QED
  BY <1>1, <1>2 DEF GoesOn, WaitsForOne

LEMMA RespondGoesOn ==
  ASSUME RestTypeOK, NEW s \in Session, NEW res, Respond(s, res)
  PROVE  /\ conn'[s].pc = "write" /\ conn'[s].res = res
         /\ conn'[s].client = conn[s].client /\ conn'[s].lost = conn[s].lost
         /\ conn'[s].req = conn[s].req
         /\ \A t \in Session \ {s} : conn'[t] = conn[t]
BY DEF Respond, RestTypeOK, Connection

\* Reading the request, with an answer for those that do not use the list, and
\* waiting for FreeSWITCH.
LEMMA ReadKeeps ==
  ASSUME RestTypeOK, RestInductive, NEW s \in Session,
         Accept(s) \/ Call(s) \/ Refuse(s) \/ Answer(s) \/ Calling(s)
  PROVE  RestInductive'
<1> USE DEF RestInductive
<1>1. /\ conn[s].pc \in {"read", "serve"}
      /\ dir' = dir /\ late' = late /\ hungUp' = hungUp
      /\ UNCHANGED <<client, told, gaveUp>>
  BY DEF Accept, Call, Refuse, Answer, Calling, dirVars, clientVars
<1>2. /\ conn'[s].pc \in {"serve", "calling", "write"}
      /\ conn'[s].client = conn[s].client /\ conn'[s].lost = conn[s].lost
      /\ conn'[s].req = conn[s].req
      /\ \A t \in Session \ {s} : conn'[t] = conn[t]
  <2>1. CASE Accept(s) \/ Calling(s)
    BY <2>1 DEF Accept, Calling, RestTypeOK, Connection
  <2>2. CASE Call(s) \/ Refuse(s) \/ Answer(s)
    BY <2>2, RespondGoesOn DEF Call, Refuse, Answer
  <2>3. QED
    BY <2>1, <2>2
<1>3. WaitsForOne'
  BY <1>1, <1>2, GoesOnKeepsClients DEF GoesOn
<1>4. ServesItsRequest'
  <2>1. CASE Accept(s)
    <3>1. conn'[s].pc = "serve"
      BY <2>1 DEF Accept, RestTypeOK, Connection
    <3>2. pending' = [pending EXCEPT ![s] = [op |-> conn[s].req.target,
                                             dn |-> conn[s].req.body.dn]]
      BY <2>1 DEF Accept
    <3>3. QED
      BY <1>2, <3>1, <3>2 DEF ServesItsRequest, RestTypeOK
  <2>2. CASE Call(s) \/ Refuse(s) \/ Answer(s)
    <3>1. conn'[s].pc = "write" /\ conn[s].pc = "read" /\ pending' = pending
      BY <2>2, RespondGoesOn DEF Call, Refuse, Answer, dirVars
    <3>2. QED
      BY <1>2, <3>1 DEF ServesItsRequest
  <2>3. CASE Calling(s)
    <3>1. conn'[s].pc = "calling" /\ conn[s].pc = "serve" /\ pending' = pending
      BY <2>3 DEF Calling, RestTypeOK, Connection, dirVars
    <3>2. pending[s].op = "makecall"
      BY <2>3 DEF Calling
    <3>3. QED
      BY <1>2, <3>1, <3>2 DEF ServesItsRequest
  <2>4. QED
    BY <2>1, <2>2, <2>3
<1>5. conn'[s].pc = "write" =>
        Conclusion(conn'[s].client, conn'[s].req, conn'[s].res) = "unknown"
  <2>1. CASE Accept(s) \/ Calling(s)
    BY <2>1 DEF Accept, Calling, RestTypeOK, Connection
  <2>2. CASE Call(s) \/ Refuse(s)
    BY <2>2, RespondGoesOn DEF Call, Refuse, Conclusion
  <2>3. CASE Answer(s)
    <3>1. conn'[s].req.target \notin AgentOps
      BY <1>2, <2>3 DEF Answer, Simple, AgentOps
    <3>2. QED
      BY <3>1 DEF Conclusion
  <2>4. QED
    BY <2>1, <2>2, <2>3
<1>6. AnswerStillTrue'
  BY <1>1, <1>2, <1>5 DEF AnswerStillTrue, StillHolds
<1>7. LastAnswerHolds' /\ UnknownOnlyAfterGivingUp'
  BY <1>1 DEF LastAnswerHolds, StillHolds, UnknownOnlyAfterGivingUp
<1>8. QED
  BY <1>3, <1>4, <1>6, <1>7

\* The end of a thread: whoever waited for it has its answer, or sees that its
\* connection is closed.
LEMMA EndKeeps ==
  ASSUME RestTypeOK, RestInductive, NEW s \in Session,
         ReadFails(s) \/ Write(s) \/ WriteFails(s)
  PROVE  RestInductive'
<1> USE DEF RestInductive
<1> DEFINE c == conn[s].client
<1>1. /\ conn[s].pc \in {"read", "write"}
      /\ conn' = [conn EXCEPT ![s] = Free]
      /\ UNCHANGED <<dir, pending, late, hungUp, gaveUp>>
  BY DEF ReadFails, Write, WriteFails, dirVars, clientVars
<1>2. /\ conn'[s].pc = "free"
      /\ \A t \in Session \ {s} : conn'[t] = conn[t]
  BY <1>1, FreeType DEF RestTypeOK
<1>3. c \in Client
  BY <1>1 DEF WaitsForOne
<1>4. \/ conn[s].lost /\ UNCHANGED <<client, told>>
      \/ /\ conn[s].pc = "write" /\ ~conn[s].lost
         /\ client' = [client EXCEPT ![c] = None]
         /\ told' = [told EXCEPT ![c] = Conclusion(c, conn[s].req, conn[s].res)]
      \/ /\ conn[s].pc = "read" /\ ~conn[s].lost
         /\ client' = [client EXCEPT ![c] = None] /\ told' = told
  BY DEF ReadFails, Write, WriteFails, clientVars
<1>5. client'[c] # s /\ \A b \in Client \ {c} : client'[b] = client[b] /\ client[b] # s
  BY <1>3, <1>4, NoneAssumption DEF WaitsForOne, RestTypeOK
<1>6. \A b \in Client : client'[b] # None => client'[b] = client[b] /\ told'[b] = told[b]
  BY <1>3, <1>4 DEF RestTypeOK
<1> HIDE DEF c
<1>7. WaitsForOne'
  <2>1. ASSUME NEW b \in Client, client'[b] # None
        PROVE  /\ told'[b] = "unknown"
               /\ conn'[client'[b]].client = b
               /\ conn'[client'[b]].pc # "free" /\ ~conn'[client'[b]].lost
    <3>1. client[b] \in Session \ {s}
      BY <1>5, <1>6, <2>1 DEF RestTypeOK
    <3>2. QED
      BY <1>2, <1>6, <2>1, <3>1 DEF WaitsForOne
  <2>2. ASSUME NEW t \in Session, conn'[t].pc # "free"
        PROVE  /\ conn'[t].client \in Client
               /\ conn'[t].req.body.dn \in {conn'[t].client, Empty}
               /\ IF conn'[t].lost THEN conn'[t].client \in gaveUp'
                                   ELSE client'[conn'[t].client] = t
    <3>1. t # s /\ conn'[t] = conn[t]
      BY <1>2, <2>2
    <3>2. ~conn[t].lost /\ ~conn[s].lost => conn[t].client # c
      BY <1>1, <2>2, <3>1 DEF WaitsForOne, c
    <3>3. QED
      BY <1>1, <1>3, <1>4, <2>2, <3>1, <3>2 DEF WaitsForOne, RestTypeOK
  <2>3. QED
    BY <2>1, <2>2 DEF WaitsForOne
<1>8. ServesItsRequest'
  BY <1>1, <1>2 DEF ServesItsRequest
<1>9. AnswerStillTrue'
  BY <1>1, <1>2 DEF AnswerStillTrue, StillHolds
<1>10. LastAnswerHolds'
  <2> SUFFICES ASSUME NEW b \in Client, client'[b] = None, told'[b] # "unknown",
                      ~late[b]
               PROVE  StillHolds(b, told'[b])
    BY <1>1 DEF LastAnswerHolds, StillHolds
  <2>1. CASE b = c /\ ~conn[s].lost
    <3>1. told[c] = "unknown"
      BY <1>1, <1>3, <2>1, NoneAssumption DEF WaitsForOne, c
    <3>2. conn[s].pc = "write" /\ told'[c] = Conclusion(c, conn[s].req, conn[s].res)
      BY <1>3, <1>4, <2>1, <3>1 DEF RestTypeOK
    <3>3. QED
      BY <2>1, <3>2 DEF AnswerStillTrue, c
  <2>2. CASE b # c \/ conn[s].lost
    BY <1>4, <2>2 DEF LastAnswerHolds, RestTypeOK
  <2>3. QED
    BY <2>1, <2>2
<1>11. UnknownOnlyAfterGivingUp'
  BY <1>1 DEF UnknownOnlyAfterGivingUp
<1>12. QED
  BY <1>7, <1>8, <1>9, <1>10, <1>11

-----------------------------------------------------------------------------
\* What a request does to the table.  An entry becomes unknown only if another
\* request for it is being served.
LEMMA PerformEffect ==
  ASSUME RestTypeOK, RestInductive, NEW s \in Session, Perform(s)
  PROVE  LET r == conn[s].req
             d == r.body.dn
         IN  /\ pending[s] = [op |-> r.target, dn |-> d]
             /\ d \in Dn /\ r.target \in AgentOps \cup {"makecall"}
             /\ pending' = [pending EXCEPT ![s] = NoRequest]
             /\ \A b \in Dn \ {d} : dir'[b] = dir[b]
             /\ r.target = "makecall" => dir'[d] = dir[d]
             /\ \/ dir'[d] = Served(dir[d], r.target)
                \/ /\ dir'[d] = "unknown"
                   /\ \E t \in Session \ {s} :
                        /\ conn[t].pc \in {"serve", "calling"}
                        /\ conn[t].req.body.dn = d
<1> USE DEF RestTypeOK, RestInductive
<1> DEFINE r == conn[s].req
           d == r.body.dn
<1>1. pending[s] = [op |-> r.target, dn |-> d]
  BY DEF ServesItsRequest, Perform
<1>2. pending[s] # NoRequest
  BY DEF Perform, Serve, Overlap
<1>3. pending[s].op \in Ops /\ d \in Dn
  BY <1>1, <1>2
<1>4. r.target \in AgentOps \cup {"makecall"}
  BY <1>1, <1>3, RestOpsAssumption
<1>5. CASE Serve(s)
  <2>1. /\ dir' = [dir EXCEPT ![d] = Served(dir[d], r.target)]
        /\ pending' = [pending EXCEPT ![s] = NoRequest]
    BY <1>1, <1>5 DEF Serve
  <2>2. dir'[d] = Served(dir[d], r.target) /\ \A b \in Dn \ {d} : dir'[b] = dir[b]
    BY <1>3, <2>1
  <2>3. r.target = "makecall" => Served(dir[d], r.target) = dir[d]
    BY DEF Served
  <2>4. QED
    BY <1>1, <1>3, <1>4, <2>1, <2>2, <2>3
<1>6. ASSUME NEW t \in Session, Overlap(s, t)
      PROVE  /\ pending' = [pending EXCEPT ![s] = NoRequest]
             /\ \A b \in Dn \ {d} : dir'[b] = dir[b]
             /\ dir'[d] = "unknown" /\ r.target # "makecall"
             /\ t # s /\ conn[t].pc \in {"serve", "calling"}
             /\ conn[t].req.body.dn = d
  <2>1. t # s /\ pending[t].dn = d /\ pending[t].op = "login"
    BY <1>1, <1>6 DEF Overlap
  <2>2. conn[t].pc \in {"serve", "calling"}
    <3>1. CASE conn[t].pc \notin {"serve", "calling"}
      BY <2>1, <3>1 DEF ServesItsRequest, NoRequest
    <3>2. QED
      BY <3>1
  <2>3. conn[t].req.body.dn = d
    BY <2>1, <2>2 DEF ServesItsRequest
  <2>4. QED
    BY <1>1, <1>3, <1>6, <2>1, <2>2, <2>3 DEF Overlap
<1>7. QED
  BY <1>1, <1>3, <1>4, <1>5, <1>6 DEF Perform

LEMMA PerformKeeps ==
  ASSUME RestTypeOK, RestInductive, NEW s \in Session, Perform(s)
  PROVE  RestInductive'
<1> USE DEF RestInductive
<1> DEFINE r == conn[s].req
           d == r.body.dn
           c == conn[s].client
<1>1. /\ conn[s].pc = "serve" /\ UNCHANGED <<client, told, gaveUp>>
      /\ c \in Client /\ d \in {c, Empty}
      /\ IF conn[s].lost THEN c \in gaveUp ELSE client[c] = s
  BY DEF Perform, WaitsForOne
<1>2. /\ pending[s] = [op |-> r.target, dn |-> d]
      /\ d \in Dn /\ r.target \in AgentOps \cup {"makecall"}
      /\ pending' = [pending EXCEPT ![s] = NoRequest]
      /\ \A b \in Dn \ {d} : dir'[b] = dir[b]
      /\ r.target = "makecall" => dir'[d] = dir[d]
      /\ \/ dir'[d] = Served(dir[d], r.target)
         \/ /\ dir'[d] = "unknown"
            /\ \E t \in Session \ {s} :
                 conn[t].pc \in {"serve", "calling"} /\ conn[t].req.body.dn = d
  BY PerformEffect
<1>3. PICK res \in Results(r.target, dir[d]) : Respond(s, res)
  <2>1. \E res \in Results(pending[s].op, dir[pending[s].dn]) : Respond(s, res)
    BY DEF Perform
  <2>2. pending[s].op = r.target /\ pending[s].dn = d
    BY <1>2
  <2>3. QED
    BY <2>1, <2>2
<1>4. /\ conn'[s].pc = "write" /\ conn'[s].res = res
      /\ conn'[s].client = c /\ conn'[s].lost = conn[s].lost
      /\ conn'[s].req = r
      /\ \A t \in Session \ {s} : conn'[t] = conn[t]
  BY <1>3, RespondGoesOn
<1> DEFINE own == d = c /\ r.target \in AgentOps
<1>5. IF own THEN /\ late' = [late EXCEPT ![c] = conn[s].lost \/ dir'[c] = "unknown"]
                  /\ hungUp' = [hungUp EXCEPT ![c] = FALSE]
             ELSE late' = late /\ hungUp' = hungUp
  <2>1. pending[s].op = r.target /\ pending[s].dn = d
    BY <1>2
  <2>2. own <=> (pending[s].dn = c /\ pending[s].op \in AgentOps)
    BY <2>1
  <2>3. QED
    BY <2>2 DEF Perform
<1>6. /\ own => (late'[c] <=> conn[s].lost \/ dir'[c] = "unknown")
      /\ \A b \in Client : b # c \/ ~own =>
           (late'[b] <=> late[b]) /\ hungUp'[b] = hungUp[b]
  BY <1>1, <1>5 DEF RestTypeOK
<1>7. \A b \in Client : b # c \/ ~own => dir'[b] = dir[b]
  <2>1. r.target \notin AgentOps => r.target = "makecall"
    BY <1>2
  <2>2. QED
    BY <1>1, <1>2, <2>1, ClientAssumption
<1>8. dir[d] \in Statuses
  BY <1>2 DEF RestTypeOK
<1> HIDE DEF r, d, c, own
<1>9. WaitsForOne'
  BY <1>1, <1>4, GoesOnKeepsClients DEF GoesOn, c, r
<1>10. ServesItsRequest'
  BY <1>2, <1>4 DEF ServesItsRequest, RestTypeOK
<1>11. AnswerStillTrue'
  <2> SUFFICES ASSUME NEW t \in Session, conn'[t].pc = "write", ~conn'[t].lost,
                      NEW b, b = conn'[t].client, ~late'[b],
                      NEW status, status = Conclusion(b, conn'[t].req, conn'[t].res),
                      status # "unknown"
               PROVE  StillHolds(b, status)'
    BY DEF AnswerStillTrue
  <2>1. CASE t = s
    <3>1. b = c /\ status = Conclusion(c, r, res)
      BY <1>4, <2>1
    <3>2. own /\ d = c
      BY <3>1 DEF Conclusion, d, own
    <3>3. dir'[c] # "unknown"
      BY <1>6, <3>1, <3>2
    <3>4. dir'[c] = Served(dir[c], r.target) /\ dir[c] \in Statuses \ {"unknown"}
      BY <1>2, <1>8, <3>2, <3>3, ServedTypes
    <3>5. Conclusion(c, r, res) = Served(dir[c], r.target)
      BY <1>2, <1>3, <3>1, <3>2, <3>4, ConclusionIsServed
    <3>6. QED
      BY <3>1, <3>4, <3>5 DEF StillHolds
  <2>2. CASE t # s
    <3>1. conn'[t] = conn[t] /\ b \in Client /\ client[b] = t
      BY <1>4, <2>2 DEF WaitsForOne
    <3>2. CASE b = c /\ own
      <4>1. ~conn[s].lost
        BY <1>6, <3>2
      <4>2. QED
        BY <1>1, <2>2, <3>1, <3>2, <4>1
    <3>3. CASE b # c \/ ~own
      BY <1>6, <1>7, <3>1, <3>3 DEF AnswerStillTrue, StillHolds
    <3>4. QED
      BY <3>2, <3>3
  <2>3. QED
    BY <2>1, <2>2
<1>12. LastAnswerHolds'
  <2> SUFFICES ASSUME NEW b \in Client, client[b] = None, told[b] # "unknown",
                      ~late'[b]
               PROVE  StillHolds(b, told[b])'
    BY <1>1 DEF LastAnswerHolds, StillHolds
  <2>1. b # c \/ ~own
    BY <1>1, <1>6, NoneAssumption
  <2>2. QED
    BY <1>1, <1>6, <1>7, <2>1 DEF LastAnswerHolds, StillHolds
<1>13. UnknownOnlyAfterGivingUp'
  <2> SUFFICES ASSUME NEW b \in Client, dir'[b] = "unknown"
               PROVE  b \in gaveUp
    BY <1>1 DEF UnknownOnlyAfterGivingUp
  <2>1. CASE dir[b] = "unknown"
    BY <2>1 DEF UnknownOnlyAfterGivingUp
  <2>2. CASE dir[b] # "unknown"
    <3>1. b = c /\ d = c
      BY <1>7, <2>2 DEF own
    <3>2. PICK t \in Session \ {s} :
            conn[t].pc \in {"serve", "calling"} /\ conn[t].req.body.dn = c
      BY <1>2, <1>8, <2>2, <3>1, ServedTypes
    <3>3. conn[t].client = c
      BY <1>1, <3>2, ClientAssumption DEF WaitsForOne
    <3>4. QED
      BY <1>1, <3>1, <3>2, <3>3 DEF WaitsForOne
  <2>3. QED
    BY <2>1, <2>2
<1>14. QED
  BY <1>9, <1>10, <1>11, <1>12, <1>13

\* A makecall that has found its agent leaves the table alone.
LEMMA CallReturnsKeeps ==
  ASSUME RestTypeOK, RestInductive, NEW s \in Session, CallReturns(s)
  PROVE  RestInductive'
<1> USE DEF RestInductive
<1>1. /\ conn[s].pc = "calling" /\ conn[s].req.target = "makecall"
      /\ pending[s] = [op |-> "makecall", dn |-> conn[s].req.body.dn]
  BY DEF CallReturns, ServesItsRequest
<1>2. /\ dir' = [dir EXCEPT ![conn[s].req.body.dn] = Served(@, "makecall")]
      /\ pending' = [pending EXCEPT ![s] = NoRequest]
      /\ UNCHANGED clientVars
  BY <1>1 DEF CallReturns, Serve
<1>3. dir' = dir
  BY <1>2 DEF RestTypeOK, Served
<1>4. /\ conn'[s].pc = "write" /\ conn'[s].res = "empty"
      /\ conn'[s].client = conn[s].client /\ conn'[s].lost = conn[s].lost
      /\ conn'[s].req = conn[s].req
      /\ \A t \in Session \ {s} : conn'[t] = conn[t]
  BY RespondGoesOn DEF CallReturns
<1>5. WaitsForOne'
  BY <1>1, <1>2, <1>4, GoesOnKeepsClients DEF GoesOn, clientVars
<1>6. ServesItsRequest'
  BY <1>2, <1>4 DEF ServesItsRequest, RestTypeOK
<1>7. Conclusion(conn'[s].client, conn'[s].req, conn'[s].res) = "unknown"
  BY <1>4 DEF Conclusion
<1>8. AnswerStillTrue'
  BY <1>2, <1>3, <1>4, <1>7 DEF AnswerStillTrue, StillHolds, clientVars
<1>9. LastAnswerHolds' /\ UnknownOnlyAfterGivingUp'
  BY <1>2, <1>3
  DEF LastAnswerHolds, StillHolds, UnknownOnlyAfterGivingUp, clientVars
<1>10. QED
  BY <1>5, <1>6, <1>8, <1>9

\* A hangup makes an agent Ready that is on the list, whatever it was.
LEMMA HangUpKeeps ==
  ASSUME RestTypeOK, RestInductive, NEW d \in Dn, HangUp(d)
  PROVE  RestInductive'
<1> USE DEF RestInductive
<1>1. /\ dir[d] \notin {"absent", "unknown"}
      /\ dir' = [dir EXCEPT ![d] = "Ready"] /\ pending' = pending
      /\ hungUp' = IF d \in Client THEN [hungUp EXCEPT ![d] = TRUE] ELSE hungUp
      /\ UNCHANGED <<conn, client, told, late, gaveUp>>
  BY DEF HangUp, HungUp
<1>2. \A c \in Client, status \in Statuses :
        StillHolds(c, status) => StillHolds(c, status)'
  <2> SUFFICES ASSUME NEW c \in Client, NEW status \in Statuses,
                      StillHolds(c, status)
               PROVE  StillHolds(c, status)'
    OBVIOUS
  <2>1. CASE c = d
    <3>1. dir'[c] = "Ready" /\ hungUp'[c]
      BY <1>1, <2>1 DEF RestTypeOK
    <3>2. status # "absent"
      BY <1>1, <2>1 DEF StillHolds
    <3>3. QED
      BY <3>1, <3>2 DEF StillHolds
  <2>2. CASE c # d
    BY <1>1, <2>2 DEF StillHolds, RestTypeOK
  <2>3. QED
    BY <2>1, <2>2
<1>3. WaitsForOne' /\ ServesItsRequest'
  BY <1>1 DEF WaitsForOne, ServesItsRequest
<1>4. AnswerStillTrue'
  <2> SUFFICES ASSUME NEW s \in Session, NEW c, c = conn[s].client,
                      NEW status, status = Conclusion(c, conn[s].req, conn[s].res),
                      conn[s].pc = "write", ~conn[s].lost, status # "unknown", ~late[c]
               PROVE  StillHolds(c, status)'
    BY <1>1 DEF AnswerStillTrue
  <2>1. c \in Client /\ status \in Statuses
    BY ConclusionTypes DEF WaitsForOne
  <2>2. StillHolds(c, status)
    BY DEF AnswerStillTrue
  <2>3. QED
    BY <1>2, <2>1, <2>2
<1>5. LastAnswerHolds'
  <2> SUFFICES ASSUME NEW c \in Client, client[c] = None, told[c] # "unknown", ~late[c],
                      NEW status, status = told[c]
               PROVE  StillHolds(c, status)'
    BY <1>1 DEF LastAnswerHolds
  <2>1. status \in Statuses /\ StillHolds(c, status)
    BY DEF LastAnswerHolds, RestTypeOK
  <2>2. QED
    BY <1>2, <2>1
<1>6. UnknownOnlyAfterGivingUp'
  BY <1>1, ClientAssumption DEF UnknownOnlyAfterGivingUp, RestTypeOK
<1>7. QED
  BY <1>3, <1>4, <1>5, <1>6

\* The end of the process leaves everything else as it is.
LEMMA StutterKeeps ==
  ASSUME RestInductive, UNCHANGED <<dirVars, conn, clientVars>>
  PROVE  RestInductive'
BY DEF dirVars, clientVars, RestInductive, WaitsForOne, ServesItsRequest,
       AnswerStillTrue, LastAnswerHolds, StillHolds, UnknownOnlyAfterGivingUp

LEMMA RestInductiveStep ==
  RestTypeOK /\ RestInductive /\ [RestNext]_restVars => RestInductive'
<1> SUFFICES ASSUME RestTypeOK, RestInductive, [RestNext]_restVars
             PROVE  RestInductive'
  OBVIOUS
<1>1. ASSUME NEW s \in Session, ThreadStep(s)
      PROVE  RestInductive'
  <2>1. CASE Aborts(s)
    BY <2>1, StutterKeeps DEF Aborts
  <2>2. CASE ~Aborts(s)
    BY <1>1, <2>2, ReadKeeps, PerformKeeps, EndKeeps DEF ThreadStep
  <2>3. QED
    BY <2>1, <2>2
<1>2. CASE UNCHANGED restVars
  BY <1>2, StutterKeeps DEF restVars
<1>3. QED
  BY <1>1, <1>2, SendKeeps, GiveUpKeeps, HangUpKeeps, CallReturnsKeeps DEF RestNext

\* Threads, connections and clients stay in step, however many there are, and
\* what an answer on its way says stays true but for a given-up request and a
\* hangup (CRestfulServer.cpp:17-22, 115-239, 282-288, CallService.cpp:281-291).
THEOREM RestInductiveHolds == RestSpec => []RestInductive
<1>1. RestInit => RestInductive
  <2> SUFFICES ASSUME RestInit
               PROVE  RestInductive
    OBVIOUS
  <2>1. /\ \A s \in Session : conn[s].pc = "free" /\ pending[s] = NoRequest
        /\ \A c \in Client : client[c] = None /\ told[c] = "unknown"
        /\ \A c \in Client : dir[c] = "absent"
    BY ClientAssumption, FreeType DEF RestInit, DirInit
  <2>2. QED
    BY <2>1 DEF RestInductive, WaitsForOne, ServesItsRequest, AnswerStillTrue,
                LastAnswerHolds, UnknownOnlyAfterGivingUp
<1>2. QED
  BY <1>1, RestInductiveStep, RestTypeCorrect, PTL DEF RestSpec

\* A client that has its answer, and whose given-up requests have all taken
\* effect before, knows the status of its agent, unless a hangup has made it Ready
\* since (CRestfulServer.cpp:17-22, 115-239, 282-288, CallService.cpp:281-291).
THEOREM LastAnswerAlwaysHolds == RestSpec => []LastAnswerHolds
<1>1. RestInductive => LastAnswerHolds
  BY DEF RestInductive
<1>2. QED
  BY <1>1, RestInductiveHolds, PTL

\* No client that waits for each of its answers has its dn entered twice
\* (CRestfulServer.cpp:21, 126-139).
THEOREM UnknownNeedsGivingUp == RestSpec => []UnknownOnlyAfterGivingUp
<1>1. RestInductive => UnknownOnlyAfterGivingUp
  BY DEF RestInductive
<1>2. QED
  BY <1>1, RestInductiveHolds, PTL
=============================================================================
