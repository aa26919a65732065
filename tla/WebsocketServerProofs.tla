------------------------ MODULE WebsocketServerProofs ------------------------
(***************************************************************************)
(* Proofs about WebsocketServer, for any number of REST threads,           *)
(* connections and messages.                                               *)
(***************************************************************************)
EXTENDS WebsocketServer, SequenceTheorems, FiniteSetTheorems, TLAPS

\* The handlers, by what they need of io.
LEMMA IoType ==
  ASSUME WsTypeOK
  PROVE  /\ io.op \in {"idle", "acceptError", "accept", "handshake", "read"}
         /\ io.op \in {"accept", "handshake", "read"} => io.conn \in Conn
BY DEF WsTypeOK, Idle

LEMMA StartWriteType ==
  ASSUME WsTypeOK, NEW k \in Conn, StartWrite(k)
  PROVE  /\ proc' \in {"sound", "undefined", "dead"}
         /\ writes' \in [Conn -> {"none", "sent", "pending"}]
BY DEF WsTypeOK, StartWrite

LEMMA HandlerType ==
  ASSUME WsTypeOK, IoHandler
  PROVE  WsTypeOK'
<1> USE DEF WsTypeOK, ConnStates
<1>1. CASE OnAccept
  <2>1. io.conn \in Conn
    BY <1>1, IoType DEF OnAccept
  <2>2. /\ m_listSessions' \in Seq(Conn)
        /\ Len(m_listSessions') = Len(m_listSessions) + 1
    BY <1>1, <2>1, AppendProperties DEF OnAccept
  <2>3. conn' \in [Conn -> ConnStates]
    BY <1>1, <2>1 DEF OnAccept
  <2>4. walk' \in [Session -> [pc : {"outside", "next", "write"},
                               at : 0..Len(m_listSessions')]]
    <3>1. Len(m_listSessions) \in Nat
      BY LenProperties
    <3>2. 0..Len(m_listSessions) \subseteq 0..Len(m_listSessions')
      BY <2>2, <3>1
    <3>3. walk' = walk
      BY <1>1 DEF OnAccept, walks
    <3>4. QED
      BY <3>2, <3>3
  <2>5. QED
    BY <1>1, <2>2, <2>3, <2>4 DEF OnAccept, walks
<1>2. CASE OnAcceptError
  BY <1>2 DEF OnAcceptError, served, walks
<1>3. CASE OnHandshake
  <2>1. io.conn \in Conn
    BY <1>3, IoType DEF OnHandshake
  <2>2. conn' \in [Conn -> ConnStates]
    <3>1. \E w \in {"failed", "open"} : conn' = [conn EXCEPT ![io.conn] = w]
      BY <1>3 DEF OnHandshake
    <3>2. QED
      BY <2>1, <3>1
  <2>3. reading' \in [Conn -> BOOLEAN]
    BY <1>3, <2>1 DEF OnHandshake
  <2>4. QED
    BY <1>3, <2>2, <2>3 DEF OnHandshake, walks
<1>4. CASE OnRead
  <2>1. io.conn \in Conn
    BY <1>4, IoType DEF OnRead
  <2>2. /\ proc' \in {"sound", "undefined", "dead"}
        /\ writes' \in [Conn -> {"none", "sent", "pending"}]
    BY <1>4, <2>1, StartWriteType DEF OnRead
  <2>3. QED
    BY <1>4, <2>1, <2>2 DEF OnRead, walks
<1>5. QED
  BY <1>1, <1>2, <1>3, <1>4 DEF IoHandler

LEMMA ServerType ==
  ASSUME WsTypeOK, Construct \/ Assign \/ AcceptFails
  PROVE  WsTypeOK'
BY DEF WsTypeOK, Construct, Assign, AcceptFails, served, walks

LEMMA ConnType ==
  ASSUME WsTypeOK, NEW k \in Conn, Client(k) \/ IoReady(k) \/ HandshakeDone(k)
  PROVE  WsTypeOK'
<1> USE DEF WsTypeOK, ConnStates
<1>1. CASE Client(k)
  <2>1. CASE ClientConnect(k) \/ ClientClose(k) \/ ClientBreaks(k)
    <3>1. conn' \in [Conn -> ConnStates]
      <4>1. \E w \in {"queued", "closed", "broken"} : conn' = [conn EXCEPT ![k] = w]
        BY <2>1 DEF ClientConnect, ClientClose, ClientBreaks
      <4>2. QED
        BY <4>1
    <3>2. QED
      BY <2>1, <3>1 DEF ClientConnect, ClientClose, ClientBreaks, walks
  <2>2. CASE ClientSend(k)
    <3>1. unread' \in [Conn -> 0..MaxMessages]
      <4>1. unread[k] + 1 \in 0..MaxMessages
        BY <2>2, MaxMessagesAssumption DEF ClientSend
      <4>2. QED
        BY <2>2, <4>1 DEF ClientSend
    <3>2. QED
      BY <2>2, <3>1 DEF ClientSend, walks
  <2>3. QED
    BY <1>1, <2>1, <2>2 DEF Client
<1>2. CASE AcceptDone(k) \/ HandshakeDone(k)
  <2>1. io' \in [op : {"accept", "handshake", "read"}, conn : Conn]
    BY <1>2 DEF AcceptDone, HandshakeDone
  <2>2. QED
    BY <1>2, <2>1 DEF AcceptDone, HandshakeDone, served, walks
<1>3. CASE ReadDone(k)
  <2>1. unread' \in [Conn -> 0..MaxMessages]
    <3>1. unread[k] - 1 \in 0..MaxMessages
      BY <1>3, MaxMessagesAssumption DEF ReadDone
    <3>2. QED
      BY <1>3, <3>1 DEF ReadDone
  <2>2. QED
    BY <1>3, <2>1 DEF ReadDone, walks
<1>4. CASE ReadFails(k)
  BY <1>4 DEF ReadFails, walks
<1>5. CASE WriteDone(k)
  BY <1>5 DEF WriteDone, served, walks
<1>6. QED
  BY <1>1, <1>2, <1>3, <1>4, <1>5 DEF IoReady

\* The session a broadcast is about to write to is on the list.
LEMMA WriteTarget ==
  ASSUME WsTypeOK, WalkSoFar, NEW t \in Session, walk[t].pc = "write"
  PROVE  /\ walk[t].at \in 1..Len(m_listSessions)
         /\ m_listSessions[walk[t].at] \in Conn
BY LenProperties, ElementOfSeq DEF WsTypeOK, WalkSoFar

LEMMA WalkType ==
  ASSUME WsTypeOK, WalkSoFar, NEW t \in Session,
         AnswerCall(t) \/ PointerRace(t) \/ WalkStep(t)
  PROVE  WsTypeOK'
<1> USE DEF WsTypeOK, ConnStates
<1> DEFINE Walks == [Session -> [pc : {"outside", "next", "write"},
                                 at : 0..Len(m_listSessions)]]
<1>1. Len(m_listSessions) \in Nat
  BY LenProperties
<1>2. CASE AnswerCall(t)
  <2>1. walk' \in Walks
    BY <1>1, <1>2 DEF AnswerCall
  <2>2. owed' \in [Session -> SUBSET Conn] /\ told' \in [Session -> SUBSET Conn]
    BY <1>2 DEF AnswerCall, Open
  <2>3. QED
    BY <1>2, <2>1, <2>2 DEF AnswerCall, served
<1>3. CASE PointerRace(t) \/ StreamRace(t)
  BY <1>3 DEF PointerRace, StreamRace, served, walks
<1>4. CASE NextSession(t)
  <2>1. walk[t].at + 1 \in 0..Len(m_listSessions)
    BY <1>1, <1>4 DEF NextSession
  <2>2. walk' \in Walks
    BY <1>4, <2>1 DEF NextSession
  <2>3. QED
    BY <1>4, <2>2 DEF NextSession, served
<1>5. CASE WriteSession(t)
  <2> DEFINE k == m_listSessions[walk[t].at]
  <2>1. k \in Conn
    BY <1>5, WriteTarget DEF WriteSession
  <2>2. /\ proc' \in {"sound", "undefined", "dead"}
        /\ writes' \in [Conn -> {"none", "sent", "pending"}]
    BY <1>5, <2>1, StartWriteType DEF WriteSession
  <2>3. conn' \in [Conn -> ConnStates]
    <3>1. conn' = conn \/ conn' = [conn EXCEPT ![k] = "failed"]
      BY <1>5 DEF WriteSession
    <3>2. QED
      BY <3>1
  <2>4. told' \in [Session -> SUBSET Conn]
    BY <1>5, <2>1 DEF WriteSession
  <2>5. walk' \in Walks
    <3>1. walk' = [walk EXCEPT ![t] = [walk[t] EXCEPT !.pc = "next"]]
      BY <1>5 DEF WriteSession
    <3>2. [walk[t] EXCEPT !.pc = "next"]
            \in [pc : {"outside", "next", "write"}, at : 0..Len(m_listSessions)]
      <4>1. walk[t] \in [pc : {"outside", "next", "write"}, at : 0..Len(m_listSessions)]
        OBVIOUS
      <4>2. QED
        BY <4>1
    <3>3. QED
      BY <3>1, <3>2
  <2>6. QED
    BY <1>5, <2>2, <2>3, <2>4, <2>5 DEF WriteSession
<1>6. CASE EndWalk(t)
  <2>1. walk' \in Walks
    BY <1>1, <1>6 DEF EndWalk, Outside
  <2>2. owed' \in [Session -> SUBSET Conn] /\ told' \in [Session -> SUBSET Conn]
    BY <1>6 DEF EndWalk
  <2>3. QED
    BY <1>6, <2>1, <2>2 DEF EndWalk, served
<1>7. QED
  BY <1>2, <1>3, <1>4, <1>5, <1>6 DEF WalkStep

LEMMA WsTypeStep ==
  ASSUME WsTypeOK, WalkSoFar, [Next]_vars
  PROVE  WsTypeOK'
<1>1. CASE Next
  BY <1>1, HandlerType, ServerType, ConnType, WalkType DEF Next
<1>2. CASE UNCHANGED vars
  BY <1>2 DEF WsTypeOK, vars, served, walks
<1>3. QED
  BY <1>1, <1>2
-----------------------------------------------------------------------------
\* A step that moves neither the list nor a broadcast, and accepts nobody.
LEMMA Undisturbed ==
  ASSUME WsInductive, UNCHANGED <<m_listSessions, walks>>,
         \A k \in Conn : Unaccepted(k)' <=> Unaccepted(k)
  PROVE  SessionsListed' /\ WalkSoFar'
<1>1. SessionsListed'
  BY DEF WsInductive, SessionsListed
<1>2. WalkSoFar'
  BY DEF WsInductive, WsTypeOK, WalkSoFar, Written, walks
<1>3. QED
  BY <1>1, <1>2

\* The end of the list moves: the connection pushed is a new one, and the
\* broadcasts stand where they stood.
LEMMA PushBack ==
  ASSUME WsInductive, OnAccept
  PROVE  (SessionsListed /\ HandlersListed /\ WalkSoFar)'
<1> USE DEF WsInductive
<1> DEFINE n == Len(m_listSessions)
           c == io.conn
<1>1. /\ c \in Conn /\ Unaccepted(c)
      /\ n \in Nat /\ \A i \in 1..n : m_listSessions[i] \in Conn
  BY IoType, LenProperties, ElementOfSeq DEF OnAccept, HandlersListed, WsTypeOK
<1>2. /\ Len(m_listSessions') = n + 1 /\ m_listSessions'[n + 1] = c
      /\ \A i \in 1..n : m_listSessions'[i] = m_listSessions[i]
  BY <1>1, AppendProperties DEF OnAccept, WsTypeOK
<1>3. \A k \in Conn : Unaccepted(k)' <=> (Unaccepted(k) /\ k # c)
  BY <1>1 DEF OnAccept, Unaccepted, WsTypeOK
<1>4. \A i \in 1..n : m_listSessions[i] # c
  BY <1>1 DEF SessionsListed
<1> HIDE DEF n, c
<1>5. SessionsListed'
  <2>1. ASSUME NEW i \in 1..(n + 1), NEW j \in 1..(n + 1),
               m_listSessions'[i] = m_listSessions'[j]
        PROVE  i = j
    <3>1. CASE i \in 1..n /\ j \in 1..n
      BY <1>2, <2>1, <3>1 DEF SessionsListed, n
    <3>2. CASE i = n + 1 /\ j = n + 1
      BY <3>2
    <3>3. CASE i = n + 1 /\ j \in 1..n
      BY <1>2, <1>4, <2>1, <3>3
    <3>4. CASE i \in 1..n /\ j = n + 1
      BY <1>2, <1>4, <2>1, <3>4
    <3>5. QED
      BY <1>1, <3>1, <3>2, <3>3, <3>4
  <2>2. ASSUME NEW k \in Conn
        PROVE  ~Unaccepted(k)' <=> \E i \in 1..(n + 1) : m_listSessions'[i] = k
    <3>1. CASE k = c
      <4>1. n + 1 \in 1..(n + 1)
        BY <1>1
      <4>2. QED
        BY <1>2, <1>3, <3>1, <4>1
    <3>2. CASE k # c
      <4>1. ~Unaccepted(k)' <=> \E i \in 1..n : m_listSessions[i] = k
        BY <1>3, <3>2 DEF SessionsListed, n
      <4>2. (\E i \in 1..(n + 1) : m_listSessions'[i] = k)
              <=> \E i \in 1..n : m_listSessions[i] = k
        BY <1>1, <1>2, <3>2
      <4>3. QED
        BY <4>1, <4>2
    <3>3. QED
      BY <3>1, <3>2
  <2>3. QED
    BY <1>2, <2>1, <2>2 DEF SessionsListed
<1>6. HandlersListed'
  BY <1>3 DEF OnAccept, HandlersListed, Idle
<1>7. WalkSoFar'
  <2>1. UNCHANGED walks
    BY DEF OnAccept
  <2>2. ASSUME NEW t \in Session, walk[t].pc # "outside"
        PROVE  {m_listSessions'[i] : i \in 1..Written(t)}
                 = {m_listSessions[i] : i \in 1..Written(t)}
    <3>1. 1..Written(t) \subseteq 1..n
      BY <1>1 DEF Written, WsTypeOK, WalkSoFar, n
    <3>2. QED
      BY <1>2, <3>1
  <2>3. \A t \in Session : Written(t)' = Written(t)
    BY <2>1 DEF Written, walks
  <2>4. \A t \in Session : \A k \in owed[t] : ~Unaccepted(k) => ~Unaccepted(k)'
    BY <1>3 DEF WsTypeOK
  <2>5. QED
    BY <2>1, <2>2, <2>3, <2>4 DEF WalkSoFar, walks
<1>8. QED
  BY <1>5, <1>6, <1>7

LEMMA HandlerInductive ==
  ASSUME WsInductive, OnAcceptError \/ OnHandshake \/ OnRead
  PROVE  (SessionsListed /\ HandlersListed /\ WalkSoFar)'
<1> USE DEF WsInductive
<1>1. UNCHANGED <<m_listSessions, walks>> /\ io' = Idle
  BY DEF OnAcceptError, OnHandshake, OnRead
<1>2. \A k \in Conn : Unaccepted(k)' <=> Unaccepted(k)
  <2>1. CASE OnHandshake
    <3>1. io.conn \in Conn /\ ~Unaccepted(io.conn)
      BY <2>1, IoType DEF OnHandshake, HandlersListed
    <3>2. QED
      BY <2>1, <3>1 DEF OnHandshake, Unaccepted, WsTypeOK
  <2>2. CASE OnAcceptError \/ OnRead
    BY <2>2 DEF OnAcceptError, OnRead, Unaccepted, served
  <2>3. QED
    BY <2>1, <2>2
<1>3. HandlersListed'
  <2>1. \A k \in Conn : reading'[k] => reading[k] \/ (k = io.conn /\ ~Unaccepted(k))
    BY IoType DEF OnAcceptError, OnHandshake, OnRead, HandlersListed, served, WsTypeOK
  <2>2. QED
    BY <1>1, <1>2, <2>1 DEF HandlersListed, Idle
<1>4. QED
  BY <1>1, <1>2, <1>3, Undisturbed

LEMMA ServerInductive ==
  ASSUME WsInductive, Construct \/ Assign \/ AcceptFails
  PROVE  (SessionsListed /\ HandlersListed /\ WalkSoFar)'
<1> USE DEF WsInductive
<1>1. UNCHANGED <<m_listSessions, walks, conn, reading>>
      /\ (io' = io \/ io'.op = "acceptError")
  BY DEF Construct, Assign, AcceptFails, served
<1>2. \A k : Unaccepted(k)' <=> Unaccepted(k)
  BY <1>1 DEF Unaccepted
<1>3. HandlersListed'
  BY <1>1, <1>2 DEF HandlersListed
<1>4. QED
  BY <1>1, <1>2, <1>3, Undisturbed

LEMMA ConnInductive ==
  ASSUME WsInductive, NEW k \in Conn, Client(k) \/ IoReady(k) \/ HandshakeDone(k)
  PROVE  (SessionsListed /\ HandlersListed /\ WalkSoFar)'
<1> USE DEF WsInductive
<1>1. UNCHANGED <<m_listSessions, walks>>
  BY DEF Client, ClientConnect, ClientSend, ClientClose, ClientBreaks, IoReady,
         AcceptDone, ReadDone, ReadFails, WriteDone, HandshakeDone
<1>2. \A j \in Conn : Unaccepted(j)' <=> Unaccepted(j)
  BY DEF Client, ClientConnect, ClientSend, ClientClose, ClientBreaks, IoReady,
         AcceptDone, ReadDone, ReadFails, WriteDone, HandshakeDone, served, Unaccepted, WsTypeOK
<1>3. \A j \in Conn : reading'[j] => reading[j]
  BY DEF Client, ClientConnect, ClientSend, ClientClose, ClientBreaks, IoReady,
         AcceptDone, ReadDone, ReadFails, WriteDone, HandshakeDone, served, WsTypeOK
<1>4. HandlersListed'
  <2>1. CASE io' = io
    <3>1. io.op \in {"accept", "handshake", "read"} => io.conn \in Conn
      BY IoType
    <3>2. QED
      BY <1>2, <1>3, <2>1, <3>1 DEF HandlersListed
  <2>2. CASE AcceptDone(k)
    <3>1. io'.op = "accept" /\ io'.conn = k /\ Unaccepted(k)
      BY <2>2 DEF AcceptDone, Unaccepted
    <3>2. QED
      BY <1>2, <1>3, <3>1 DEF HandlersListed
  <2>3. CASE ReadDone(k) \/ HandshakeDone(k)
    <3>1. io'.op \in {"read", "handshake"} /\ io'.conn = k /\ ~Unaccepted(k)
      BY <2>3 DEF ReadDone, HandshakeDone, HandlersListed, Unaccepted
    <3>2. QED
      BY <1>2, <1>3, <3>1 DEF HandlersListed
  <2>4. QED
    BY <2>1, <2>2, <2>3
    DEF Client, ClientConnect, ClientSend, ClientClose, ClientBreaks, IoReady, ReadFails,
        WriteDone
<1>5. QED
  BY <1>1, <1>2, <1>4, Undisturbed

\* A broadcast: it starts with nothing written, and each write adds one
\* session it has not written to before.
LEMMA WalkInductive ==
  ASSUME WsInductive, NEW t \in Session,
         AnswerCall(t) \/ PointerRace(t) \/ WalkStep(t)
  PROVE  (SessionsListed /\ HandlersListed /\ WalkSoFar)'
<1> USE DEF WsInductive
<1>1. UNCHANGED <<m_listSessions, io, reading>>
  BY DEF AnswerCall, PointerRace, WalkStep, NextSession, WriteSession, StreamRace,
         EndWalk, served
<1>2. \A k \in Conn : Unaccepted(k)' <=> Unaccepted(k)
  <2>1. conn' = conn \/ \E k \in Conn : conn[k] = "handshake"
                                        /\ conn' = [conn EXCEPT ![k] = "failed"]
    BY WriteTarget DEF AnswerCall, PointerRace, WalkStep, NextSession, WriteSession,
                       StreamRace, EndWalk, served
  <2>2. QED
    BY <2>1 DEF Unaccepted, WsTypeOK
<1>3. SessionsListed'
  BY <1>1, <1>2 DEF SessionsListed
<1>4. HandlersListed'
  BY <1>1, <1>2, IoType DEF HandlersListed
<1>5. \A u \in Session \ {t} :
         walk'[u] = walk[u] /\ owed'[u] = owed[u] /\ told'[u] = told[u]
  BY DEF AnswerCall, PointerRace, WalkStep, NextSession, WriteSession, StreamRace,
         EndWalk, walks, WsTypeOK
<1> DEFINE Part(u) ==
      /\ walk[u].pc = "outside" => told[u] = {}
      /\ walk[u].pc = "write" => walk[u].at >= 1
      /\ walk[u].pc # "outside" =>
           /\ told[u] = {m_listSessions[i] : i \in 1..Written(u)}
           /\ IsFiniteSet(told[u]) /\ Cardinality(told[u]) = Written(u)
           /\ \A k \in owed[u] : ~Unaccepted(k)
<1>6. \A u \in Session \ {t} : Part(u)'
  <2> SUFFICES ASSUME NEW u \in Session \ {t} PROVE Part(u)'
    OBVIOUS
  <2>1. Part(u)
    BY DEF WalkSoFar
  <2>2. walk'[u] = walk[u] /\ owed'[u] = owed[u] /\ told'[u] = told[u]
    BY <1>5
  <2>3. Written(u)' = Written(u)
    BY <2>2 DEF Written
  <2>4. \A k \in owed[u] : ~Unaccepted(k) => ~Unaccepted(k)'
    BY <1>2 DEF WsTypeOK
  <2>5. QED
    BY <1>1, <2>1, <2>2, <2>3, <2>4
<1>7. Part(t)'
  <2>1. CASE AnswerCall(t)
    <3>1. /\ walk'[t] = [pc |-> "next", at |-> 0]
          /\ owed'[t] = Open /\ told'[t] = {}
      <4>1. walk[t].pc = "outside" /\ told' = told
        BY <2>1 DEF AnswerCall, Outside
      <4>2. told[t] = {}
        BY <4>1 DEF WalkSoFar
      <4>3. QED
        BY <2>1, <4>1, <4>2 DEF AnswerCall, WsTypeOK
    <3>2. Written(t)' = 0
      BY <3>1 DEF Written
    <3>3. \A k \in Open : ~Unaccepted(k)'
      BY <1>2 DEF Open, Unaccepted
    <3>4. {m_listSessions'[i] : i \in 1..0} = {}
      OBVIOUS
    <3>5. QED
      BY <3>1, <3>2, <3>3, <3>4, FS_EmptySet
  <2>2. CASE PointerRace(t) \/ StreamRace(t)
    BY <1>1, <1>2, <2>2 DEF PointerRace, StreamRace, walks, WalkSoFar, Written, WsTypeOK
  <2>3. CASE NextSession(t)
    <3>1. /\ walk[t].pc = "next"
          /\ walk'[t] = [pc |-> "write", at |-> walk[t].at + 1]
          /\ owed'[t] = owed[t] /\ told'[t] = told[t]
      BY <2>3 DEF NextSession, WsTypeOK
    <3>2. walk[t].at \in Nat
      BY DEF WsTypeOK
    <3>3. Written(t)' = Written(t) /\ walk'[t].at >= 1
      BY <3>1, <3>2 DEF Written
    <3>4. QED
      BY <1>1, <1>2, <3>1, <3>3 DEF WalkSoFar, WsTypeOK
  <2>4. CASE WriteSession(t)
    <3> DEFINE a == walk[t].at
               k == m_listSessions[a]
    <3>1. /\ walk[t].pc = "write" /\ walk'[t].pc = "next" /\ walk'[t].at = a
          /\ owed'[t] = owed[t] /\ told'[t] = told[t] \cup {k}
      BY <2>4 DEF WriteSession, WsTypeOK
    <3>2. a \in 1..Len(m_listSessions) /\ Len(m_listSessions) \in Nat
      BY <3>1, WriteTarget, LenProperties DEF WsTypeOK
    <3>3. Written(t) = a - 1 /\ Written(t)' = a
      BY <3>1 DEF Written
    <3>4. told[t] = {m_listSessions[i] : i \in 1..(a - 1)}
          /\ IsFiniteSet(told[t]) /\ Cardinality(told[t]) = a - 1
      BY <3>1, <3>3 DEF WalkSoFar
    <3>5. k \notin told[t]
      BY <3>2, <3>4 DEF SessionsListed
    <3>6. IsFiniteSet(told'[t]) /\ Cardinality(told'[t]) = a
      <4>1. IsFiniteSet(told[t] \cup {k})
            /\ Cardinality(told[t] \cup {k}) = Cardinality(told[t]) + 1
        BY <3>4, <3>5, FS_AddElement
      <4>2. QED
        BY <3>1, <3>2, <3>4, <4>1
    <3>7. told'[t] = {m_listSessions[i] : i \in 1..a}
      <4>1. 1..a = 1..(a - 1) \cup {a}
        BY <3>2
      <4>2. QED
        BY <3>1, <3>4, <4>1
    <3>8. \A j \in owed[t] : ~Unaccepted(j)'
      BY <1>2, <3>1 DEF WalkSoFar, WsTypeOK
    <3>9. QED
      BY <1>1, <3>1, <3>3, <3>6, <3>7, <3>8
  <2>5. CASE EndWalk(t)
    BY <2>5 DEF EndWalk, Outside, WsTypeOK
  <2>6. QED
    BY <2>1, <2>2, <2>3, <2>4, <2>5 DEF WalkStep
<1>8. WalkSoFar'
  BY <1>6, <1>7 DEF WalkSoFar
<1>9. QED
  BY <1>3, <1>4, <1>8
-----------------------------------------------------------------------------
LEMMA WsInit == Init => WsInductive
<1> SUFFICES ASSUME Init PROVE WsInductive
  OBVIOUS
<1>1. m_listSessions \in Seq(Conn) /\ Len(m_listSessions) = 0
  BY DEF Init
<1>2. WsTypeOK
  <2>1. 0 \in 0..MaxMessages /\ 0 \in 0..Len(m_listSessions)
    BY <1>1, MaxMessagesAssumption
  <2>2. walk \in [Session -> [pc : {"outside", "next", "write"},
                              at : 0..Len(m_listSessions)]]
    BY <2>1 DEF Init, Outside
  <2>3. conn \in [Conn -> ConnStates]
    BY DEF Init, ConnStates
  <2>4. QED
    BY <1>1, <2>1, <2>2, <2>3 DEF Init, WsTypeOK
<1>3. SessionsListed /\ HandlersListed /\ WalkSoFar
  BY <1>1 DEF Init, SessionsListed, HandlersListed, WalkSoFar, Outside, Idle, Unaccepted
<1>4. QED
  BY <1>2, <1>3 DEF WsInductive

LEMMA WsStep == WsInductive /\ [Next]_vars => WsInductive'
<1> SUFFICES ASSUME WsInductive, [Next]_vars PROVE WsInductive'
  OBVIOUS
<1>1. WsTypeOK'
  BY WsTypeStep DEF WsInductive
<1>2. CASE UNCHANGED vars
  <2>1. (SessionsListed /\ HandlersListed /\ WalkSoFar)'
    BY <1>2 DEF WsInductive, vars, served, walks, SessionsListed, HandlersListed,
                WalkSoFar, Written, Unaccepted
  <2>2. QED
    BY <1>1, <2>1 DEF WsInductive
<1>3. CASE Next
  <2>1. (SessionsListed /\ HandlersListed /\ WalkSoFar)'
    BY <1>3, PushBack, HandlerInductive, ServerInductive, ConnInductive, WalkInductive
    DEF Next, IoHandler
  <2>2. QED
    BY <1>1, <2>1 DEF WsInductive
<1>4. QED
  BY <1>2, <1>3

\* The inductive invariant holds for any number of REST threads, connections
\* and messages.
THEOREM WsInductiveHolds == Spec => []WsInductive
BY WsInit, WsStep, PTL DEF Spec

\* Type correctness of the websocket server; no broadcast runs off the list.
THEOREM WsTypeCorrect == Spec => []WsTypeOK
<1>1. WsInductive => WsTypeOK
  BY DEF WsInductive
<1>2. QED
  BY <1>1, WsInductiveHolds, PTL

\* Only the end of its walk ends a broadcast, and there it has written to all
\* that is listed.
LEMMA BroadcastStep ==
  ASSUME WsInductive, Next, NEW t \in Session,
         walk[t].pc # "outside", walk'[t].pc = "outside"
  PROVE  /\ owed[t] \cap Open \subseteq told[t]
         /\ Cardinality(told[t]) = walk[t].at
<1> USE DEF WsInductive
<1>1. EndWalk(t)
  <2>1. PICK u \in Session : AnswerCall(u) \/ PointerRace(u) \/ WalkStep(u)
    BY DEF Next, Construct, Assign, AcceptFails, IoHandler, OnAccept, OnAcceptError,
           OnHandshake, OnRead, Client, ClientConnect, ClientSend, ClientClose, ClientBreaks,
           IoReady, AcceptDone, ReadDone, ReadFails, WriteDone, HandshakeDone, walks
  <2>2. u = t
    BY <2>1 DEF AnswerCall, PointerRace, WalkStep, NextSession, WriteSession, StreamRace,
                EndWalk, walks, WsTypeOK
  <2>3. QED
    BY <2>1, <2>2 DEF AnswerCall, PointerRace, WalkStep, NextSession, WriteSession,
                      StreamRace, walks, WsTypeOK
<1>2. walk[t].pc = "next" /\ walk[t].at = Len(m_listSessions)
  BY <1>1 DEF EndWalk
<1>3. told[t] = {m_listSessions[i] : i \in 1..Len(m_listSessions)}
      /\ Cardinality(told[t]) = walk[t].at /\ \A k \in owed[t] : ~Unaccepted(k)
  BY <1>2 DEF WalkSoFar, Written
<1>4. ASSUME NEW k \in owed[t]
      PROVE  k \in told[t]
  <2>1. k \in Conn
    BY <1>4 DEF WsTypeOK
  <2>2. ~Unaccepted(k)
    BY <1>3, <1>4
  <2>3. \E i \in 1..Len(m_listSessions) : m_listSessions[i] = k
    BY <2>1, <2>2 DEF SessionsListed
  <2>4. QED
    BY <1>3, <2>3
<1>5. QED
  BY <1>2, <1>3, <1>4

\* A broadcast that ends has written, once each, to all sessions that were
\* open all the while.
THEOREM BroadcastAlwaysReaches == Spec => BroadcastReaches
<1>1. WsInductive /\ [Next]_vars =>
        [\A t \in Session :
           walk[t].pc # "outside" /\ walk'[t].pc = "outside" /\ Sound'
           => /\ owed[t] \cap Open \subseteq told[t]
              /\ Cardinality(told[t]) = walk[t].at]_vars
  BY BroadcastStep
<1>2. QED
  BY <1>1, WsInductiveHolds, PTL DEF Spec, BroadcastReaches
=============================================================================
