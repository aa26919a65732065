--------------------------- MODULE WebsocketServer ---------------------------
(***************************************************************************)
(* The websocket server (WebsocketServer, WebsocketSession).  Its thread,  *)
(* the io thread, accepts connections, reads messages and echoes them; the *)
(* REST threads that serve /call/answer (CallService::answercall) walk the *)
(* list of sessions and write to each.  There is no lock and no strand.    *)
(*                                                                         *)
(* What boost does is modelled as far as src/ relies on it.  do_write()    *)
(* hands async_write a buffer that is gone when do_write returns: a write  *)
(* that the socket does not take at once sends freed memory later.  A      *)
(* second async_write on a stream before the completion of the first has   *)
(* run in the io thread fails an assertion, which aborts the process (the  *)
(* build does not define NDEBUG).  A REST thread and a handler of the io   *)
(* thread that use one stream at once, and a use of g_WebsocketServer      *)
(* while it is assigned, are data races.                                   *)
(*                                                                         *)
(* The properties promise something while nothing of that has happened,    *)
(* and the model stops when it has.                                        *)
(***************************************************************************)
EXTENDS Naturals, Sequences, SequencesExt

CONSTANTS
  Session,     \* REST session threads
  Conn,        \* connections of websocket clients, each with its session
  MaxMessages  \* bound: the messages of a client still to be read

ASSUME MaxMessagesAssumption == MaxMessages \in Nat

VARIABLES
  proc,            \* "sound", "undefined" or "dead"
  server,          \* g_WebsocketServer: "null", "assigning" or "set"
  accepting,       \* an async_accept is under way
  conn,            \* of each connection and its session
  m_listSessions,  \* the sessions, in order
  reading,         \* an async_read is under way
  unread,          \* the messages each client has sent that are still to be read
  writes,          \* an async_write: "none", "sent" and not completed, or
                   \* "pending", its bytes not yet taken by the socket
  io,              \* the handler the io thread is in, and its connection
  walk,            \* where each REST thread is in do_write
  owed, told       \* history: the sessions open when its walk began, and
                   \* those it has written to

served == <<conn, reading, unread>>
walks == <<walk, owed, told>>
vars == <<proc, server, accepting, m_listSessions, served, writes, io, walks>>

Sound == proc = "sound"

Idle == [op |-> "idle"]
Outside == [pc |-> "outside", at |-> 0]
Open == {k \in Conn : conn[k] = "open"}

\* do_write() on the session of k.
StartWrite(k) ==
  IF writes[k] = "none"
  THEN /\ \E w \in {"sent", "pending"} : writes' = [writes EXCEPT ![k] = w]
       /\ UNCHANGED proc
  ELSE /\ proc' = "dead"
       /\ UNCHANGED writes
-----------------------------------------------------------------------------
\* The websocket thread: the constructor listens and starts to accept, then
\* the global is assigned and ioc.run() entered.
Construct ==
  /\ server = "null"
  /\ server' = "assigning"
  /\ accepting' = TRUE
  /\ UNCHANGED <<proc, m_listSessions, served, writes, io, walks>>

Assign ==
  /\ server = "assigning"
  /\ server' = "set"
  /\ UNCHANGED <<proc, accepting, m_listSessions, served, writes, io, walks>>

Running == server = "set" /\ io = Idle

AcceptDone(k) ==
  /\ Running /\ accepting /\ conn[k] = "queued"
  /\ accepting' = FALSE
  /\ io' = [op |-> "accept", conn |-> k]
  /\ UNCHANGED <<proc, server, m_listSessions, served, writes, walks>>

AcceptFails ==
  /\ Running /\ accepting /\ \E k \in Conn : conn[k] = "queued"
  /\ accepting' = FALSE
  /\ io' = [op |-> "acceptError"]
  /\ UNCHANGED <<proc, server, m_listSessions, served, writes, walks>>

\* WebsocketServer::on_accept without an error: push_back, run, do_accept.
OnAccept ==
  /\ io.op = "accept"
  /\ m_listSessions' = Append(m_listSessions, io.conn)
  /\ conn' = [conn EXCEPT ![io.conn] = "handshake"]
  /\ accepting' = TRUE
  /\ io' = Idle
  /\ UNCHANGED <<proc, server, reading, unread, writes, walks>>

\* Mutant of OnAcceptError: return on error, as WebsocketSession does.
OnAcceptErrorReturns ==
  /\ io.op = "acceptError"
  /\ io' = Idle
  /\ UNCHANGED <<proc, server, accepting, m_listSessions, served, writes, walks>>

\* With an error, do_accept all the same.
OnAcceptError ==
  /\ io.op = "acceptError"
  /\ accepting' = TRUE
  /\ io' = Idle
  /\ UNCHANGED <<proc, server, m_listSessions, served, writes, walks>>

HandshakeDone(k) ==
  /\ Running /\ conn[k] = "handshake"
  /\ io' = [op |-> "handshake", conn |-> k]
  /\ UNCHANGED <<proc, server, accepting, m_listSessions, served, writes, walks>>

\* WebsocketSession::on_accept: fail, or do_read.
OnHandshake ==
  /\ io.op = "handshake"
  /\ \/ conn' = [conn EXCEPT ![io.conn] = "failed"] /\ UNCHANGED reading
     \/ /\ conn' = [conn EXCEPT ![io.conn] = "open"]
        /\ reading' = [reading EXCEPT ![io.conn] = TRUE]
  /\ io' = Idle
  /\ UNCHANGED <<proc, server, accepting, m_listSessions, unread, writes, walks>>

ReadDone(k) ==
  /\ Running /\ reading[k] /\ unread[k] > 0
  /\ reading' = [reading EXCEPT ![k] = FALSE]
  /\ unread' = [unread EXCEPT ![k] = @ - 1]
  /\ io' = [op |-> "read", conn |-> k]
  /\ UNCHANGED <<proc, server, accepting, m_listSessions, conn, writes, walks>>

\* Mutant of OnRead: do_read is not called again.
OnReadOnce ==
  /\ io.op = "read"
  /\ StartWrite(io.conn)
  /\ io' = Idle
  /\ UNCHANGED <<server, accepting, m_listSessions, served, walks>>

\* on_read: the echo, then do_read.
OnRead ==
  /\ io.op = "read"
  /\ StartWrite(io.conn)
  /\ reading' = [reading EXCEPT ![io.conn] = TRUE]
  /\ io' = Idle
  /\ UNCHANGED <<server, accepting, m_listSessions, conn, unread, walks>>

\* on_read with an error: fail; the session stays on the list.  A close is
\* behind the messages sent before it, a broken connection fails with them
\* unread.
ReadFails(k) ==
  /\ Running /\ reading[k]
  /\ \/ conn[k] = "broken"
     \/ conn[k] = "closed" /\ unread[k] = 0
  /\ reading' = [reading EXCEPT ![k] = FALSE]
  /\ conn' = [conn EXCEPT ![k] = "failed"]
  /\ UNCHANGED <<proc, server, accepting, m_listSessions, unread, writes, io, walks>>

\* on_write.  What was pending went out from freed memory, or no more goes
\* out on the connection.
WriteDone(k) ==
  /\ Running /\ writes[k] # "none"
  /\ writes' = [writes EXCEPT ![k] = "none"]
  /\ \/ writes[k] = "pending" /\ proc' \in {"undefined", "dead"}
     \/ (writes[k] = "sent" \/ conn[k] \in {"broken", "failed"}) /\ UNCHANGED proc
  /\ UNCHANGED <<server, accepting, m_listSessions, served, io, walks>>
-----------------------------------------------------------------------------
\* answercall(): nothing before the server is there, a walk of the list after.
AnswerCall(t) ==
  /\ walk[t] = Outside /\ server = "set"
  /\ walk' = [walk EXCEPT ![t] = [pc |-> "next", at |-> 0]]
  /\ owed' = [owed EXCEPT ![t] = Open]
  /\ UNCHANGED <<proc, server, accepting, m_listSessions, served, writes, io, told>>

PointerRace(t) ==
  /\ walk[t] = Outside /\ server = "assigning"
  /\ proc' \in {"undefined", "dead"}
  /\ UNCHANGED <<server, accepting, m_listSessions, served, writes, io, walks>>

\* Mutant of NextSession: the end is tested one session late.
NextSessionPastEnd(t) ==
  /\ walk[t].pc = "next" /\ walk[t].at <= Len(m_listSessions)
  /\ walk' = [walk EXCEPT ![t] = [pc |-> "write", at |-> @.at + 1]]
  /\ UNCHANGED <<proc, server, accepting, m_listSessions, served, writes, io, owed, told>>

NextSession(t) ==
  /\ walk[t].pc = "next" /\ walk[t].at < Len(m_listSessions)
  /\ walk' = [walk EXCEPT ![t] = [pc |-> "write", at |-> @.at + 1]]
  /\ UNCHANGED <<proc, server, accepting, m_listSessions, served, writes, io, owed, told>>

\* Mutant of WriteSession: the walk ends at a session that has failed.
WriteSessionBreaks(t) ==
  LET k == m_listSessions[walk[t].at]
  IN  /\ walk[t].pc = "write"
      /\ StartWrite(k)
      /\ told' = [told EXCEPT ![t] = @ \cup {k}]
      /\ walk' = [walk EXCEPT ![t] =
                    IF conn[k] = "failed" THEN Outside ELSE [@ EXCEPT !.pc = "next"]]
      /\ UNCHANGED <<server, accepting, m_listSessions, served, io, owed>>

\* session->do_write(message), whatever the state of the session: a session
\* in its handshake is spoilt by it or ignores it.
WriteSession(t) ==
  LET k == m_listSessions[walk[t].at]
  IN  /\ walk[t].pc = "write"
      /\ StartWrite(k)
      /\ \/ UNCHANGED conn
         \/ conn[k] = "handshake" /\ conn' = [conn EXCEPT ![k] = "failed"]
      /\ told' = [told EXCEPT ![t] = @ \cup {k}]
      /\ walk' = [walk EXCEPT ![t].pc = "next"]
      /\ UNCHANGED <<server, accepting, m_listSessions, reading, unread, io, owed>>

StreamRace(t) ==
  /\ walk[t].pc = "write"
  /\ io.op \in {"handshake", "read"} /\ io.conn = m_listSessions[walk[t].at]
  /\ proc' \in {"undefined", "dead"}
  /\ UNCHANGED <<server, accepting, m_listSessions, served, writes, io, walks>>

EndWalk(t) ==
  /\ walk[t].pc = "next" /\ walk[t].at = Len(m_listSessions)
  /\ walk' = [walk EXCEPT ![t] = Outside]
  /\ owed' = [owed EXCEPT ![t] = {}]
  /\ told' = [told EXCEPT ![t] = {}]
  /\ UNCHANGED <<proc, server, accepting, m_listSessions, served, writes, io>>
-----------------------------------------------------------------------------
\* The clients.
ClientConnect(k) ==
  /\ server # "null" /\ conn[k] = "none"
  /\ conn' = [conn EXCEPT ![k] = "queued"]
  /\ UNCHANGED <<proc, server, accepting, m_listSessions, reading, unread, writes, io, walks>>

ClientSend(k) ==
  /\ conn[k] = "open" /\ unread[k] < MaxMessages
  /\ unread' = [unread EXCEPT ![k] = @ + 1]
  /\ UNCHANGED <<proc, server, accepting, m_listSessions, conn, reading, writes, io, walks>>

ClientClose(k) ==
  /\ conn[k] = "open"
  /\ conn' = [conn EXCEPT ![k] = "closed"]
  /\ UNCHANGED <<proc, server, accepting, m_listSessions, reading, unread, writes, io, walks>>

\* A reset, a time-out, a protocol error or a message beyond the limit.
ClientBreaks(k) ==
  /\ conn[k] \in {"open", "closed"}
  /\ conn' = [conn EXCEPT ![k] = "broken"]
  /\ UNCHANGED <<proc, server, accepting, m_listSessions, reading, unread, writes, io, walks>>

Client(k) == ClientConnect(k) \/ ClientSend(k) \/ ClientClose(k) \/ ClientBreaks(k)

\* What the io thread does about k when it is ready.
IoReady(k) == AcceptDone(k) \/ ReadDone(k) \/ ReadFails(k) \/ WriteDone(k)

\* The handler it is in.
IoHandler == OnAccept \/ OnAcceptError \/ OnHandshake \/ OnRead

WalkStep(t) == NextSession(t) \/ WriteSession(t) \/ StreamRace(t) \/ EndWalk(t)

Init ==
  /\ proc = "sound" /\ server = "null" /\ accepting = FALSE
  /\ conn = [k \in Conn |-> "none"]
  /\ m_listSessions = <<>>
  /\ reading = [k \in Conn |-> FALSE]
  /\ unread = [k \in Conn |-> 0]
  /\ writes = [k \in Conn |-> "none"]
  /\ io = Idle
  /\ walk = [t \in Session |-> Outside]
  /\ owed = [t \in Session |-> {}] /\ told = [t \in Session |-> {}]

Next ==
  /\ Sound
  /\ \/ Construct \/ Assign \/ AcceptFails \/ IoHandler
     \/ \E k \in Conn : Client(k) \/ IoReady(k) \/ HandshakeDone(k)
     \/ \E t \in Session : AnswerCall(t) \/ PointerRace(t) \/ WalkStep(t)

Spec == Init /\ [][Next]_vars

\* The websocket thread keeps running, and runs the handlers that are ready
\* in turn: neither an accept nor a read that has completed is passed over
\* for ever.  Clients need not act, nor finish their handshake.
Fairness ==
  /\ WF_vars(Sound /\ (Construct \/ Assign))
  /\ WF_vars(Sound /\ IoHandler)
  /\ SF_vars(Sound /\ (AcceptFails \/ \E k \in Conn : AcceptDone(k)))
  /\ \A k \in Conn : SF_vars(Sound /\ ReadDone(k))

FairSpec == Spec /\ Fairness
-----------------------------------------------------------------------------
ConnStates ==
  {"none", "queued", "handshake", "open", "closed", "broken", "failed"}

WsTypeOK ==
  /\ proc \in {"sound", "undefined", "dead"}
  /\ server \in {"null", "assigning", "set"}
  /\ accepting \in BOOLEAN
  /\ conn \in [Conn -> ConnStates]
  /\ m_listSessions \in Seq(Conn)
  /\ reading \in [Conn -> BOOLEAN]
  /\ unread \in [Conn -> 0..MaxMessages]
  /\ writes \in [Conn -> {"none", "sent", "pending"}]
  /\ io \in {Idle, [op |-> "acceptError"]}
            \cup [op : {"accept", "handshake", "read"}, conn : Conn]
  /\ walk \in [Session -> [pc : {"outside", "next", "write"},
                           at : 0..Len(m_listSessions)]]
  /\ owed \in [Session -> SUBSET Conn] /\ told \in [Session -> SUBSET Conn]

\* A broadcast that ends has written to every session that was open when it
\* began and still is, and to none twice, however the list grew and whoever
\* failed meanwhile (WebsocketServer.cpp:24-29, 35-41).
BroadcastReaches ==
  [][\A t \in Session :
       walk[t].pc # "outside" /\ walk'[t].pc = "outside" /\ Sound'
       => /\ owed[t] \cap Open \subseteq told[t]
          /\ Cardinality(told[t]) = walk[t].at]_vars

\* Why it does, as an inductive invariant.  The list holds the connections
\* that have been accepted, once each; only its end ever moves; and what a
\* broadcast has written to are the sessions up to where it stands.
Unaccepted(k) == conn[k] \in {"none", "queued"}

SessionsListed ==
  /\ \A i, j \in 1..Len(m_listSessions) :
       m_listSessions[i] = m_listSessions[j] => i = j
  /\ \A k \in Conn :
       ~Unaccepted(k) <=> \E i \in 1..Len(m_listSessions) : m_listSessions[i] = k

HandlersListed ==
  /\ \A k \in Conn : reading[k] => ~Unaccepted(k)
  /\ io.op = "accept" => Unaccepted(io.conn)
  /\ io.op \in {"handshake", "read"} => ~Unaccepted(io.conn)

Written(t) == IF walk[t].pc = "write" THEN walk[t].at - 1 ELSE walk[t].at

WalkSoFar ==
  \A t \in Session :
    /\ walk[t].pc = "outside" => told[t] = {}
    /\ walk[t].pc = "write" => walk[t].at >= 1
    /\ walk[t].pc # "outside" =>
         /\ told[t] = {m_listSessions[i] : i \in 1..Written(t)}
         /\ IsFiniteSet(told[t]) /\ Cardinality(told[t]) = Written(t)
         /\ \A k \in owed[t] : ~Unaccepted(k)

WsInductive == WsTypeOK /\ SessionsListed /\ HandlersListed /\ WalkSoFar

\* From some point on the system gives accept() no more errors.
NoAcceptErrors == [][~AcceptFails]_vars

\* A connection is accepted in the end, although accepts may fail first
\* (WebsocketServer.cpp:32-41).
Accepted ==
  <>NoAcceptErrors =>
    \A k \in Conn : (conn[k] = "queued") ~> (conn[k] # "queued" \/ ~Sound)

\* While a client has messages to be read one is read in the end, and after
\* it the next, unless the connection breaks (WebsocketSession.cpp:46-66).
MessagesRead ==
  \A k \in Conn :
    (unread[k] > 0)
      ~> (io = [op |-> "read", conn |-> k] \/ conn[k] \in {"broken", "failed"} \/ ~Sound)
=============================================================================
