----------------------------- MODULE RestServer -----------------------------
(***************************************************************************)
(* The REST server seen from its clients (CRestfulServer::runner,          *)
(* do_session, parseAgent, parseCalldata): one thread per connection reads *)
(* a request, looks at its method, target and body, serves it and writes   *)
(* the response, unless the client has gone.  A client that has waited too *)
(* long closes its connection and may send the request again over another; *)
(* the thread of the first one goes on.  A makecall may wait for           *)
(* FreeSWITCH for ever, and a body that is JSON but no object ends the     *)
(* process.  Requests arrive whole.                                        *)
(*                                                                         *)
(* The agent list is the table of AgentDirectory, which CallCenter shows   *)
(* it to be, hangups included.  Each client has a dn of its own, so what   *)
(* it is told can be compared with what the table says.  The runs are      *)
(* those without undefined behaviour, which is CallCenter's subject.       *)
(***************************************************************************)
EXTENDS AgentDirectory, Naturals

CONSTANTS
  Client,  \* the REST clients, each named by the dn it uses
  Empty    \* the empty dn

ASSUME ClientAssumption == Client \subseteq Dn /\ Empty \in Dn \ Client
ASSUME NoneAssumption == None \notin Session \cup Dn

AgentOps == {"login", "logout", "ready", "notReady", "leave"}
ASSUME RestOpsAssumption == Ops \subseteq AgentOps \cup {"makecall"}

VARIABLES
  up,      \* the process has not been ended
  conn,    \* the connection each session thread serves
  client,  \* the session thread each client waits for
  told,    \* history: the status of its dn each client may conclude from the
           \* last answer it got
  late,    \* history: a request the client has given up took effect after,
           \* or together with, the last one it was told about
  hungUp,  \* history: a hangup has made its agent Ready since the last of
           \* its requests took effect
  gaveUp   \* history: the clients that have given a request up

clientVars == <<client, told, late, hungUp, gaveUp>>
restVars == <<dirVars, up, conn, clientVars>>

\* A member that is missing or no string leaves the dn, or the other name
\* ("agent" or "callee"), empty.  What is no object is any other JSON value.
Body == [json : {"broken", "noObject", "object"}, dn : Dn, other : BOOLEAN]
NoBody == [json |-> "broken", dn |-> Empty, other |-> FALSE]

\* The simple ones are decided by method and target alone; a malformed request,
\* or one over the limits of the parser, has neither.
Posts == Ops \cup {"answer", "hangup"}
Simple == {"users", "unknown", "put", "unknownMethod"}
Target == Posts \cup Simple \cup {"malformed"}
RestRequest == [target : Target, body : Body]

\* (Beside a dn the other name makes no difference.)
RequestsOf(c) ==
  [target : Posts,
   body : [json : {"broken", "noObject"}, dn : {Empty}, other : {FALSE}]
          \cup {b \in [json : {"object"}, dn : {c, Empty}, other : BOOLEAN] :
                  b.dn = c => b.other}]
  \cup [target : Simple \cup {"malformed"}, body : {NoBody}]

Free == [pc |-> "free", client |-> None, lost |-> FALSE, res |-> "none",
         req |-> [target |-> "put", body |-> NoBody]]

\* The agent's name after parseAgent(), as the parts it is put together from.
AgentName(body) == IF body.other THEN <<"agent">> ELSE <<"9", body.dn>>

ParseAgent(body) ==
  body.json = "object" /\ ~(body.dn = Empty /\ AgentName(body) = <<>>)

ParseCalldata(body) ==
  body.json = "object" /\ ~(body.dn = Empty /\ ~body.other)

Accepts(r) == IF r.target = "makecall" THEN ParseCalldata(r.body)
                                       ELSE ParseAgent(r.body)

Respond(s, res) == conn' = [conn EXCEPT ![s].pc = "write", ![s].res = res]
-----------------------------------------------------------------------------
\* A client connects and sends a request; runner() starts a thread.
Send(c, s) ==
  /\ client[c] = None /\ conn[s].pc = "free"
  /\ \E r \in RequestsOf(c) :
       conn' = [conn EXCEPT ![s] = [Free EXCEPT !.pc = "read", !.client = c, !.req = r]]
  /\ client' = [client EXCEPT ![c] = s]
  /\ told' = [told EXCEPT ![c] = "unknown"]
  /\ UNCHANGED <<dirVars, up, late, hungUp, gaveUp>>

\* It waits no longer.
GiveUp(c) ==
  /\ client[c] # None
  /\ conn' = [conn EXCEPT ![client[c]].lost = TRUE]
  /\ client' = [client EXCEPT ![c] = None]
  /\ gaveUp' = gaveUp \cup {c}
  /\ UNCHANGED <<dirVars, up, told, late, hungUp>>

\* A call of the agent ends: the event thread makes it Ready.
HangUp(d) ==
  /\ HungUp(d)
  /\ hungUp' = IF d \in Client THEN [hungUp EXCEPT ![d] = TRUE] ELSE hungUp
  /\ UNCHANGED <<up, conn, client, told, late, gaveUp>>

\* http::read fails, because the client has gone or because of what it sent:
\* the thread ends without an answer, and so does the connection.
ReadFails(s) ==
  /\ conn[s].pc = "read" /\ (conn[s].lost \/ conn[s].req.target = "malformed")
  /\ conn' = [conn EXCEPT ![s] = Free]
  /\ client' = IF conn[s].lost THEN client
               ELSE [client EXCEPT ![conn[s].client] = None]
  /\ UNCHANGED <<dirVars, up, told, late, hungUp, gaveUp>>

\* HasMember() of what is no object: the assertion of the JSON library fails.
Aborts(s) ==
  LET r == conn[s].req
  IN  /\ conn[s].pc = "read" /\ r.target \in Posts /\ r.body.json = "noObject"
      /\ up' = FALSE
      /\ UNCHANGED <<dirVars, conn, clientVars>>

\* Mutants of Accept: any POST is taken for one that uses the list; the answer
\* goes out before the request is served.
AcceptAny(s) ==
  LET r == conn[s].req
  IN  /\ conn[s].pc = "read" /\ r.target \in Posts
      /\ pending' = [pending EXCEPT ![s] = [op |-> r.target, dn |-> r.body.dn]]
      /\ conn' = [conn EXCEPT ![s].pc = "serve"]
      /\ UNCHANGED <<dir, up, clientVars>>

AcceptAnswersFirst(s) ==
  LET r == conn[s].req
  IN  /\ conn[s].pc = "read" /\ r.target \in Ops /\ Accepts(r)
      /\ pending' = [pending EXCEPT ![s] = [op |-> r.target, dn |-> r.body.dn]]
      /\ client' = IF conn[s].lost THEN client
                   ELSE [client EXCEPT ![conn[s].client] = None]
      /\ conn' = [conn EXCEPT ![s].pc = "serve", ![s].lost = TRUE]
      /\ UNCHANGED <<dir, up, told, late, hungUp, gaveUp>>

\* The target is one that uses the list, and its body is accepted.
Accept(s) ==
  LET r == conn[s].req
  IN  /\ conn[s].pc = "read"
      /\ r.target \in Ops /\ Accepts(r)
      /\ pending' = [pending EXCEPT ![s] = [op |-> r.target, dn |-> r.body.dn]]
      /\ conn' = [conn EXCEPT ![s].pc = "serve"]
      /\ UNCHANGED <<dir, up, clientVars>>

\* answercall() and hangupcall() always return 0.
Call(s) ==
  LET r == conn[s].req
  IN  /\ conn[s].pc = "read"
      /\ r.target \in {"answer", "hangup"} /\ Accepts(r)
      /\ Respond(s, "empty")
      /\ UNCHANGED <<dirVars, up, clientVars>>

\* Mutant of Refuse: the response is set, and the request served all the same.
RefuseGoesOn(s) ==
  LET r == conn[s].req
  IN  /\ conn[s].pc = "read"
      /\ r.target \in Ops /\ ~Accepts(r)
      /\ Respond(s, "notAcceptable")
      /\ pending' = [pending EXCEPT ![s] = [op |-> r.target, dn |-> r.body.dn]]
      /\ UNCHANGED <<dir, up, clientVars>>

Refuse(s) ==
  LET r == conn[s].req
  IN  /\ conn[s].pc = "read"
      /\ r.target \in Posts /\ ~Accepts(r) /\ r.body.json # "noObject"
      /\ Respond(s, "notAcceptable")
      /\ UNCHANGED <<dirVars, up, clientVars>>

SimpleResponse(target) ==
  CASE target = "users" -> "users"
    [] target = "unknown" -> "badRequest"
    [] target = "put" -> "empty"
    [] target = "unknownMethod" -> "notImplemented"

Answer(s) ==
  LET r == conn[s].req
  IN  /\ conn[s].pc = "read" /\ r.target \in Simple
      /\ Respond(s, SimpleResponse(r.target))
      /\ UNCHANGED <<dirVars, up, clientVars>>

\* Mutant of Results: every endpoint answers as login does.
AlwaysSuccess(op, status) == {"success"}

\* The answer of an endpoint that found its dn with that status.  What
\* makecall() returns is not looked at.
Results(op, status) ==
  CASE op = "makecall" -> {"empty"}
    [] op = "login" -> {"success"}
    [] op \in {"logout", "ready", "notReady", "leave"} ->
         {res \in {"success", "dnNotFound"} :
            \/ status = "unknown"
            \/ status = "absent" <=> res = "dnNotFound"}

\* The search of the list and what follows it, between which another request
\* for the dn may come.
Perform(s) ==
  LET c == conn[s].client
      r == pending[s]
      own == r.dn = c /\ r.op \in AgentOps
  IN  /\ conn[s].pc = "serve"
      /\ r.op = "makecall" => dir[r.dn] \in {"absent", "unknown"}
      /\ Serve(s) \/ \E t \in Session : Overlap(s, t)
      /\ \E res \in Results(r.op, dir[r.dn]) : Respond(s, res)
      /\ late' = IF own THEN [late EXCEPT ![c] = conn[s].lost \/ dir'[c] = "unknown"]
                 ELSE late
      /\ hungUp' = IF own THEN [hungUp EXCEPT ![c] = FALSE] ELSE hungUp
      /\ UNCHANGED <<up, client, told, gaveUp>>

\* A makecall that finds its agent sends a command and waits for the reply ...
Calling(s) ==
  /\ conn[s].pc = "serve"
  /\ pending[s].op = "makecall" /\ dir[pending[s].dn] # "absent"
  /\ conn' = [conn EXCEPT ![s].pc = "calling"]
  /\ UNCHANGED <<dirVars, up, clientVars>>

\* ... which may never come.
CallReturns(s) ==
  /\ conn[s].pc = "calling"
  /\ Serve(s)
  /\ Respond(s, "empty")
  /\ UNCHANGED <<up, clientVars>>

\* What a client may conclude about its dn from the answer to a request.
Conclusion(c, r, res) ==
  IF r.target \notin AgentOps \/ r.body.dn # c THEN "unknown"
  ELSE CASE res = "dnNotFound" -> "absent"
         [] res = "success" -> Served("Ready", r.target)
         [] OTHER -> "unknown"

\* Mutant of Write: a request that is not served is not answered.
WriteServed(s) ==
  LET c == conn[s].client
  IN  /\ conn[s].pc = "write" /\ ~conn[s].lost
      /\ conn[s].res \in {"success", "users", "empty"}
      /\ client' = [client EXCEPT ![c] = None]
      /\ told' = [told EXCEPT ![c] = Conclusion(c, conn[s].req, conn[s].res)]
      /\ conn' = [conn EXCEPT ![s] = Free]
      /\ UNCHANGED <<dirVars, up, late, hungUp, gaveUp>>

\* http::write.
Write(s) ==
  LET c == conn[s].client
  IN  /\ conn[s].pc = "write" /\ ~conn[s].lost
      /\ client' = [client EXCEPT ![c] = None]
      /\ told' = [told EXCEPT ![c] = Conclusion(c, conn[s].req, conn[s].res)]
      /\ conn' = [conn EXCEPT ![s] = Free]
      /\ UNCHANGED <<dirVars, up, late, hungUp, gaveUp>>

\* The write throws; the exception is caught and printed.
WriteFails(s) ==
  /\ conn[s].pc = "write" /\ conn[s].lost
  /\ conn' = [conn EXCEPT ![s] = Free]
  /\ UNCHANGED <<dirVars, up, clientVars>>

ThreadStep(s) ==
  \/ ReadFails(s) \/ Aborts(s) \/ Accept(s) \/ Call(s) \/ Refuse(s) \/ Answer(s)
  \/ Perform(s) \/ Calling(s) \/ Write(s) \/ WriteFails(s)

RestInit ==
  /\ DirInit
  /\ up = TRUE
  /\ conn = [s \in Session |-> Free]
  /\ client = [c \in Client |-> None]
  /\ told = [c \in Client |-> "unknown"]
  /\ late = [c \in Client |-> FALSE]
  /\ hungUp = [c \in Client |-> FALSE]
  /\ gaveUp = {}

RestNext ==
  /\ up
  /\ \/ \E c \in Client, s \in Session : Send(c, s)
     \/ \E c \in Client : GiveUp(c)
     \/ \E d \in Dn : HangUp(d)
     \/ \E s \in Session : ThreadStep(s) \/ CallReturns(s)

RestSpec == RestInit /\ [][RestNext]_restVars

\* The threads keep running.  Clients, callers and FreeSWITCH need not.
RestFairSpec == RestSpec /\ \A s \in Session : WF_restVars(up /\ ThreadStep(s))
-----------------------------------------------------------------------------
Statuses == {"absent", "unknown", "Ready", "notReady", "leave"}

Response == {"none", "users", "badRequest", "notImplemented", "empty",
             "notAcceptable", "success", "dnNotFound"}

Connection == [pc : {"free", "read", "serve", "calling", "write"},
               client : Client \cup {None}, lost : BOOLEAN, req : RestRequest,
               res : Response]

RestTypeOK ==
  /\ dir \in [Dn -> Statuses]
  /\ pending \in [Session -> {NoRequest} \cup [op : Ops, dn : Dn]]
  /\ up \in BOOLEAN
  /\ conn \in [Session -> Connection]
  /\ client \in [Client -> Session \cup {None}]
  /\ told \in [Client -> Statuses]
  /\ late \in [Client -> BOOLEAN]
  /\ hungUp \in [Client -> BOOLEAN]
  /\ gaveUp \subseteq Client

\* The agent of c has that status, or had it until a hangup made it Ready.
StillHolds(c, status) ==
  \/ dir[c] = status
  \/ hungUp[c] /\ dir[c] = "Ready" /\ status # "absent"

\* What the last answer told a client about its agent is so, but for two things
\* nothing orders with it.  A request it had given up took effect later, because
\* the thread of that one goes on (CRestfulServer.cpp:17-22, 115-239, 282-288);
\* or a call of the agent ended, and the event thread made it Ready, over a
\* notReady or a leave too (CallService.cpp:281-291).
LastAnswerHolds ==
  \A c \in Client :
    client[c] = None /\ told[c] # "unknown" /\ ~late[c] => StillHolds(c, told[c])

\* Only a client that sends a request again while the first is being served
\* has its dn entered twice (CRestfulServer.cpp:21, 126-139).
UnknownOnlyAfterGivingUp ==
  \A c \in Client : dir[c] = "unknown" => c \in gaveUp

\* Why the two hold, as an inductive invariant.  A client waits for one thread,
\* the only one of its connections that is not lost, and the others are known
\* to be late; only requests of its own name its dn.
WaitsForOne ==
  /\ \A c \in Client :
       client[c] # None =>
         /\ told[c] = "unknown"
         /\ conn[client[c]].client = c
         /\ conn[client[c]].pc # "free" /\ ~conn[client[c]].lost
  /\ \A s \in Session :
       conn[s].pc # "free" =>
         /\ conn[s].client \in Client
         /\ conn[s].req.body.dn \in {conn[s].client, Empty}
         /\ IF conn[s].lost THEN conn[s].client \in gaveUp
                            ELSE client[conn[s].client] = s

ServesItsRequest ==
  \A s \in Session :
    /\ pending[s] = IF conn[s].pc \notin {"serve", "calling"} THEN NoRequest
                    ELSE [op |-> conn[s].req.target, dn |-> conn[s].req.body.dn]
    /\ conn[s].pc = "calling" => conn[s].req.target = "makecall"

AnswerStillTrue ==
  \A s \in Session :
    LET c == conn[s].client
        status == Conclusion(c, conn[s].req, conn[s].res)
    IN  conn[s].pc = "write" /\ ~conn[s].lost /\ status # "unknown" /\ ~late[c]
        => StillHolds(c, status)

\* Threads, connections and clients stay in step, and what an answer on its way
\* says is as true when it arrives as LastAnswerHolds claims
\* (CRestfulServer.cpp:17-22, 115-239, 282-288, CallService.cpp:281-291).
RestInductive ==
  WaitsForOne /\ ServesItsRequest /\ AnswerStillTrue /\ LastAnswerHolds
  /\ UnknownOnlyAfterGivingUp

\* No client whose request has arrived is left waiting, for an answer or for the
\* end of its connection, whatever the other threads and clients do, unless it
\* waits for a makecall that has found its agent and may never return, or a body
\* that is no object has ended the process
\* (CRestfulServer.cpp:35, 63, 98-283, CallService.cpp:152).
EveryRequestEnds ==
  \A c \in Client :
    (client[c] # None) ~> \/ client[c] = None
                          \/ conn[client[c]].pc = "calling"
                          \/ ~up

\* An agent request that names neither a dn nor an agent is refused
\* (CRestfulServer.cpp:76-81).
NamelessRefused ==
  \A s \in Session :
    /\ conn[s].pc = "write" /\ conn[s].req.target \in AgentOps
    /\ conn[s].req.body.dn = Empty /\ ~conn[s].req.body.other
    => conn[s].res = "notAcceptable"
=============================================================================
