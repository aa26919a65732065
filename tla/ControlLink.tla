----------------------------- MODULE ControlLink -----------------------------
(***************************************************************************)
(* The control connection to FreeSWITCH: the start-up thread that opens it *)
(* (CallService::startUp), the event thread, and the REST threads that     *)
(* send a command over it (CallService::makecall).                         *)
(*                                                                         *)
(* They share one socket and one mutex through two handles.  "handle" is   *)
(* the start-up thread's, lent to the event thread; "m_handle" is a copy   *)
(* of it made by setHandle().  The copy has its own connected flag and its *)
(* own queue of events that came before a reply (race_event), but its      *)
(* pointers last_sr_event and last_ievent lead to the same objects, which  *)
(* each handle frees at its next use.                                      *)
(*                                                                         *)
(* esl_send_recv() and esl_recv_event_timed() belong to libesl (src/lib    *)
(* holds the archive, src/inc/esl.h the declarations); they are modelled   *)
(* as far as the threads rely on them: the mutex is held from a command to *)
(* its reply, except for a moment after each event that comes first.  The  *)
(* reply is then printed without it.                                       *)
(*                                                                         *)
(* A double free, a use of a freed event or of a half copied handle either *)
(* kills the process or goes unnoticed; the properties are about the runs  *)
(* that go on.                                                             *)
(***************************************************************************)
EXTENDS Naturals, Sequences, SequencesExt

CONSTANTS
  Session,      \* REST session threads
  Starter,      \* the thread of startUp that connects
  EventThread,  \* eventThreadFun
  None,         \* an unlocked mutex, a request that has sent nothing
  Ops,          \* the call endpoints the clients use
  MaxEvents     \* bound: the events FreeSWITCH sends

ASSUME LinkThreadAssumption ==
  /\ Starter # EventThread
  /\ {Starter, EventThread} \cap Session = {}
  /\ None \notin Session \cup {Starter, EventThread}
ASSUME LinkOpsAssumption == Ops \subseteq {"makecall", "answer", "hangup"}
ASSUME MaxEventsAssumption == MaxEvents \in Nat

LinkThread == Session \cup {Starter, EventThread}
Handle == {"handle", "m_handle"}
Pointer == {"last_sr_event", "last_ievent"}

VARIABLES
  proc,        \* "sound", "undefined" or "dead"
  link,        \* the TCP connection
  wire,        \* sent by FreeSWITCH and not read: events by number, replies
  cmds,        \* commands FreeSWITCH has still to answer
  subscribed,  \* FreeSWITCH sends events
  sent,        \* the number of events it has sent
  lock,        \* the holder of the handles' mutex
  connected,   \* of each handle
  race,        \* race_event of each handle
  owns,        \* the two pointers of each handle: "null", "own", "shared"
               \* with the other handle, "freed" through the other handle
  pc,          \* where each thread is
  io,          \* where each thread is in esl_send_recv() and the lines that
               \* print the reply after it
  handled,     \* history: the events the event thread has read
  issued       \* history: the command the request of each session has sent

freeswitch == <<link, wire, cmds, subscribed, sent>>
handles == <<lock, connected, race, owns>>
vars == <<proc, freeswitch, handles, pc, io, handled, issued>>

Alive == proc # "dead"

\* A reply on the wire.
Reply == 0

\* Mutant of HandleOf: m_handle is the handle itself.
HandleShared(t) == "handle"

HandleOf(t) == IF t \in Session THEN "m_handle" ELSE "handle"
Other(h) == IF h = "handle" THEN "m_handle" ELSE "handle"

\* esl_event_destroy() of one pointer of h.
Release(o, h, p) ==
  [o EXCEPT ![h][p] = "null",
            ![Other(h)][p] = IF o[h][p] = "shared" THEN "freed" ELSE @]

\* Freeing it is a double free, or takes the event from under the event thread,
\* or the reply from under a thread that prints it.
Misuses(h, p) ==
  \/ owns[h][p] = "freed"
  \/ p = "last_ievent" /\ pc[EventThread] = "handling" /\ owns[h][p] # "null"
  \/ /\ p = "last_sr_event" /\ owns[h][p] # "null"
     /\ \E u \in LinkThread :
          io[u] = "printing" /\ (HandleOf(u) = h \/ owns[h][p] = "shared")

\* The pointer a thread reads to print the reply changes.
Replaced(h) == \E u \in LinkThread : io[u] = "printing" /\ HandleOf(u) = h

Risk(bad) == IF bad THEN proc' \in {"undefined", "dead"} ELSE UNCHANGED proc

\* Mutant of NextStep: "api version" comes before setHandle.
NextStepSwapped(step) ==
  CASE step = "subscribe" -> "version" [] step = "version" -> "copy"
    [] step = "copying" -> "originate" [] step = "originate" -> "serving"
    [] step \in Ops -> "idle"

\* What a thread does after a step that ends with a reply or with the copy.
NextStep(step) ==
  CASE step = "subscribe" -> "copy" [] step = "copying" -> "version"
    [] step = "version" -> "originate" [] step = "originate" -> "serving"
    [] step \in Ops -> "idle"

Done(t) ==
  /\ pc' = [pc EXCEPT ![t] = NextStep(pc[t])]
  /\ io' = [io EXCEPT ![t] = "none"]
  /\ issued' = IF t \in Session THEN [issued EXCEPT ![t] = None] ELSE issued

\* Mutant of Command: makecall sends what its comment says.
CommandOriginate(t) == CASE pc[t] = "subscribe" -> "events"
                         [] pc[t] = "version" -> "version"
                         [] pc[t] = "originate" -> "originate"
                         [] pc[t] = "makecall" -> "originate"

Command(t) == CASE pc[t] = "subscribe" -> "events"
                [] pc[t] = "version" -> "version"
                [] pc[t] = "originate" -> "originate"
                [] pc[t] = "makecall" -> "uuid_answer"
\* The call of esl_send_recv() returns to thread t, which looks at the last reply
\* of its handle, whichever it is, and prints it, if there is one.
ReplyOf(t) == owns[HandleOf(t)]["last_sr_event"]
Reads(t) == pc[t] # "subscribe"
ReadsFreed(t) == Reads(t) /\ ReplyOf(t) = "freed"

Returns(t, reply) ==
  IF Reads(t) /\ reply # "null"
  THEN io' = [io EXCEPT ![t] = "printing"] /\ UNCHANGED <<pc, issued>>
  ELSE Done(t)
-----------------------------------------------------------------------------
\* The start-up thread: esl_connect_timeout() until it succeeds, the event
\* thread, the subscription, setHandle(), two commands, and then nothing.
Connect ==
  /\ pc[Starter] = "connect" /\ link = "down"
  /\ link' = "up"
  /\ connected' = [connected EXCEPT !["handle"] = TRUE]
  /\ owns' = [owns EXCEPT !["handle"]["last_sr_event"] = "own"]
  /\ pc' = [pc EXCEPT ![Starter] = "spawn"]
  /\ UNCHANGED <<proc, wire, cmds, subscribed, sent, lock, race, io, handled, issued>>

Spawn ==
  /\ pc[Starter] = "spawn"
  /\ pc' = [pc EXCEPT ![Starter] = "subscribe", ![EventThread] = "poll"]
  /\ UNCHANGED <<proc, freeswitch, handles, io, handled, issued>>

\* m_handle = handle_, copied while REST threads may use m_handle.
CopyBegins ==
  /\ pc[Starter] = "copy"
  /\ pc' = [pc EXCEPT ![Starter] = "copying"]
  /\ UNCHANGED <<proc, freeswitch, handles, io, handled, issued>>

SetHandle ==
  /\ pc[Starter] = "copying"
  /\ connected' = [connected EXCEPT !["m_handle"] = connected["handle"]]
  /\ race' = [race EXCEPT !["m_handle"] = race["handle"]]
  /\ owns' = [h \in Handle |-> [p \in Pointer |->
                IF owns["handle"][p] = "null" THEN "null" ELSE "shared"]]
  /\ Done(Starter)
  /\ UNCHANGED <<proc, freeswitch, lock, handled>>

\* The REST endpoints.  A makecall whose agent is not found ends as the
\* others do, without a command.
Request(s) ==
  /\ pc[s] = "idle"
  /\ \E op \in Ops : pc' = [pc EXCEPT ![s] = op]
  /\ UNCHANGED <<proc, freeswitch, handles, io, handled, issued>>

\* answercall() writes to the websockets, hangupcall() does nothing.
NoCommand(s) ==
  /\ pc[s] \in {"answer", "hangup"} \cap Ops
  /\ Done(s)
  /\ UNCHANGED <<proc, freeswitch, handles, handled>>

TornHandle(s) ==
  /\ pc[s] = "makecall" /\ io[s] = "none" /\ pc[Starter] = "copying"
  /\ Risk(TRUE)
  /\ Done(s)
  /\ UNCHANGED <<freeswitch, handles, handled>>
-----------------------------------------------------------------------------
\* esl_send_recv() of thread t.  Without a connection it returns at once.
Sends(t) == io[t] = "none" /\ pc[t] \in {"subscribe", "version", "originate", "makecall"}

NotConnected(t) ==
  /\ Sends(t) /\ ~connected[HandleOf(t)]
  /\ Risk(ReadsFreed(t))
  /\ Returns(t, ReplyOf(t))
  /\ UNCHANGED <<freeswitch, handles, handled>>

\* The last reply is freed, the command sent, and the last event freed as
\* the first esl_recv_event() begins.
Send(t) ==
  LET h == HandleOf(t)
  IN  /\ Sends(t) /\ connected[h] /\ lock = None
      /\ lock' = t
      /\ io' = [io EXCEPT ![t] = "recv"]
      /\ cmds' = IF link = "up" THEN Append(cmds, Command(t)) ELSE cmds
      /\ issued' = IF t \in Session THEN [issued EXCEPT ![t] = Command(t)] ELSE issued
      /\ owns' = Release(Release(owns, h, "last_sr_event"), h, "last_ievent")
      /\ Risk(\E p \in Pointer : Misuses(h, p))
      /\ UNCHANGED <<link, wire, subscribed, sent, connected, race, pc, handled>>

\* send() on a closed connection fails, or its signal ends the process.  There
\* is no reply to print.
SendFails(t) ==
  LET h == HandleOf(t)
  IN  /\ Sends(t) /\ connected[h] /\ lock = None /\ link = "lost"
      /\ connected' = [connected EXCEPT ![h] = FALSE]
      /\ owns' = Release(owns, h, "last_sr_event")
      /\ Risk(Misuses(h, "last_sr_event")) \/ proc' = "dead"
      /\ Done(t)
      /\ UNCHANGED <<freeswitch, lock, race, handled>>

\* The pointer may change under a thread that reads it to print.
RecvReply(t) ==
  /\ io[t] = "recv" /\ wire # <<>> /\ Head(wire) = Reply
  /\ wire' = Tail(wire)
  /\ owns' = [owns EXCEPT ![HandleOf(t)]["last_sr_event"] = "own"]
  /\ lock' = None
  /\ Risk(Replaced(HandleOf(t)))
  /\ Returns(t, "own")
  /\ UNCHANGED <<link, cmds, subscribed, sent, connected, race, handled>>

\* Mutant of RecvRace: the event is dropped.
RecvDropped(t) ==
  /\ io[t] = "recv" /\ wire # <<>> /\ Head(wire) # Reply
  /\ wire' = Tail(wire)
  /\ lock' = None
  /\ io' = [io EXCEPT ![t] = "window"]
  /\ UNCHANGED <<proc, link, cmds, subscribed, sent, connected, race, owns, pc, handled, issued>>

\* An event comes first: it is queued and the mutex released for a moment.
RecvRace(t) ==
  /\ io[t] = "recv" /\ wire # <<>> /\ Head(wire) # Reply
  /\ race' = [race EXCEPT ![HandleOf(t)] = Append(@, Head(wire))]
  /\ wire' = Tail(wire)
  /\ lock' = None
  /\ io' = [io EXCEPT ![t] = "window"]
  /\ UNCHANGED <<proc, link, cmds, subscribed, sent, connected, owns, pc, handled, issued>>

Relock(t) ==
  LET h == HandleOf(t)
  IN  /\ io[t] = "window" /\ lock = None /\ connected[h]
      /\ lock' = t
      /\ io' = [io EXCEPT ![t] = "recv"]
      /\ owns' = Release(owns, h, "last_ievent")
      /\ Risk(Misuses(h, "last_ievent"))
      /\ UNCHANGED <<freeswitch, connected, race, pc, handled, issued>>

\* Another thread found the connection closed in that moment.
RelockLost(t) ==
  /\ io[t] = "window" /\ lock = None /\ ~connected[HandleOf(t)]
  /\ Risk(ReadsFreed(t))
  /\ Returns(t, ReplyOf(t))
  /\ UNCHANGED <<freeswitch, handles, handled>>

RecvLost(t) ==
  /\ io[t] = "recv" /\ wire = <<>> /\ link = "lost"
  /\ connected' = [connected EXCEPT ![HandleOf(t)] = FALSE]
  /\ lock' = None
  /\ Risk(ReadsFreed(t))
  /\ Returns(t, ReplyOf(t))
  /\ UNCHANGED <<freeswitch, race, owns, handled>>

Printed(t) ==
  /\ io[t] = "printing"
  /\ Done(t)
  /\ UNCHANGED <<proc, freeswitch, handles, handled>>
-----------------------------------------------------------------------------
\* The event thread.  esl_recv_event_timed() first looks whether there is
\* something to read, and takes the mutex afterwards, if it is free; by then
\* another thread may have read it, and it waits with the mutex.
EventPoll ==
  /\ pc[EventThread] = "poll" /\ connected["handle"]
  /\ race["handle"] # <<>> \/ wire # <<>> \/ link = "lost"
  /\ pc' = [pc EXCEPT ![EventThread] = "ready"]
  /\ UNCHANGED <<proc, freeswitch, handles, io, handled, issued>>

\* ESL_BREAK
EventBreak ==
  /\ pc[EventThread] = "ready" /\ lock # None
  /\ pc' = [pc EXCEPT ![EventThread] = "poll"]
  /\ UNCHANGED <<proc, freeswitch, handles, io, handled, issued>>

\* Mutant of EventLock: the mutex is not looked at.
EventLockAnyway ==
  /\ pc[EventThread] = "ready" /\ connected["handle"]
  /\ lock' = EventThread
  /\ owns' = Release(owns, "handle", "last_ievent")
  /\ Risk(Misuses("handle", "last_ievent"))
  /\ pc' = [pc EXCEPT ![EventThread] = "reading"]
  /\ UNCHANGED <<freeswitch, connected, race, io, handled, issued>>

EventLock ==
  /\ pc[EventThread] = "ready" /\ lock = None /\ connected["handle"]
  /\ lock' = EventThread
  /\ owns' = Release(owns, "handle", "last_ievent")
  /\ Risk(Misuses("handle", "last_ievent"))
  /\ pc' = [pc EXCEPT ![EventThread] = "reading"]
  /\ UNCHANGED <<freeswitch, connected, race, io, handled, issued>>

\* What esl_recv_event() returns ends in eventThreadFun with pc = "handling".
Read(e) ==
  /\ handled' = Append(handled, e)
  /\ lock' = None
  /\ owns' = [owns EXCEPT !["handle"]["last_ievent"] = "own"]
  /\ pc' = [pc EXCEPT ![EventThread] = "handling"]
  /\ UNCHANGED <<proc, link, cmds, subscribed, sent, connected, io, issued>>

EventFromQueue ==
  /\ pc[EventThread] = "reading" /\ race["handle"] # <<>>
  /\ Read(Head(race["handle"]))
  /\ race' = [race EXCEPT !["handle"] = Tail(@)]
  /\ UNCHANGED wire

\* Mutant of EventFromWire: check_q is 0, the queue is not looked at first.
EventFromWireFirst ==
  /\ pc[EventThread] = "reading"
  /\ wire # <<>> /\ Head(wire) # Reply
  /\ Read(Head(wire))
  /\ wire' = Tail(wire)
  /\ UNCHANGED race

EventFromWire ==
  /\ pc[EventThread] = "reading" /\ race["handle"] = <<>>
  /\ wire # <<>> /\ Head(wire) # Reply
  /\ Read(Head(wire))
  /\ wire' = Tail(wire)
  /\ UNCHANGED race

\* Mutant of ReplyToEvents: a packet without an event is skipped.
ReplySkipped ==
  /\ pc[EventThread] = "reading" /\ race["handle"] = <<>>
  /\ wire # <<>> /\ Head(wire) = Reply
  /\ wire' = Tail(wire)
  /\ lock' = None
  /\ pc' = [pc EXCEPT ![EventThread] = "poll"]
  /\ UNCHANGED <<proc, link, cmds, subscribed, sent, connected, race, owns, io, handled, issued>>

\* The reply to a command: last_ievent stays null, and eventThreadFun reads
\* last_ievent->event_id.
ReplyToEvents ==
  /\ pc[EventThread] = "reading" /\ race["handle"] = <<>>
  /\ wire # <<>> /\ Head(wire) = Reply
  /\ proc' = "dead"
  /\ UNCHANGED <<freeswitch, handles, pc, io, handled, issued>>

\* Mutant of EventLost: the flag that ends the loop is left alone.
EventLostIgnored ==
  /\ pc[EventThread] = "reading" /\ race["handle"] = <<>>
  /\ wire = <<>> /\ link = "lost"
  /\ lock' = None
  /\ pc' = [pc EXCEPT ![EventThread] = "poll"]
  /\ UNCHANGED <<proc, freeswitch, connected, race, owns, io, handled, issued>>

\* ESL_FAIL, "Disconnected."
EventLost ==
  /\ pc[EventThread] = "reading" /\ race["handle"] = <<>>
  /\ wire = <<>> /\ link = "lost"
  /\ connected' = [connected EXCEPT !["handle"] = FALSE]
  /\ lock' = None
  /\ pc' = [pc EXCEPT ![EventThread] = "poll"]
  /\ UNCHANGED <<proc, freeswitch, race, owns, io, handled, issued>>

Handled ==
  /\ pc[EventThread] = "handling"
  /\ pc' = [pc EXCEPT ![EventThread] = "poll"]
  /\ UNCHANGED <<proc, freeswitch, handles, io, handled, issued>>

\* while (handle->connected); nobody connects again.
EventEnd ==
  /\ pc[EventThread] \in {"poll", "ready"} /\ ~connected["handle"]
  /\ pc' = [pc EXCEPT ![EventThread] = "ended"]
  /\ UNCHANGED <<proc, freeswitch, handles, io, handled, issued>>
-----------------------------------------------------------------------------
\* FreeSWITCH answers the commands in order and sends events once they are
\* subscribed; when the connection is lost, so is a part of what it sent.
Answer ==
  /\ link = "up" /\ cmds # <<>>
  /\ subscribed' = (subscribed \/ Head(cmds) = "events")
  /\ cmds' = Tail(cmds)
  /\ wire' = Append(wire, Reply)
  /\ UNCHANGED <<proc, link, sent, handles, pc, io, handled, issued>>

SendEvent ==
  /\ link = "up" /\ subscribed /\ sent < MaxEvents
  /\ sent' = sent + 1
  /\ wire' = Append(wire, sent')
  /\ UNCHANGED <<proc, link, cmds, subscribed, handles, pc, io, handled, issued>>

Lose ==
  /\ link = "up"
  /\ link' = "lost"
  /\ \E n \in 0..Len(wire) : wire' = SubSeq(wire, 1, n)
  /\ cmds' = <<>>
  /\ UNCHANGED <<proc, subscribed, sent, handles, pc, io, handled, issued>>

SendRecvStep(t) ==
  \/ NotConnected(t) \/ Send(t) \/ SendFails(t) \/ RecvReply(t) \/ RecvRace(t)
  \/ Relock(t) \/ RelockLost(t) \/ RecvLost(t) \/ Printed(t)

StarterStep == Spawn \/ CopyBegins \/ SetHandle \/ SendRecvStep(Starter)

CallStep(s) == NoCommand(s) \/ TornHandle(s) \/ SendRecvStep(s)

EventThreadStep ==
  \/ EventPoll \/ EventBreak \/ EventLock \/ EventFromQueue \/ EventFromWire
  \/ ReplyToEvents \/ EventLost \/ Handled \/ EventEnd

Init ==
  /\ proc = "sound"
  /\ link = "down" /\ wire = <<>> /\ cmds = <<>> /\ subscribed = FALSE /\ sent = 0
  /\ lock = None
  /\ connected = [h \in Handle |-> FALSE]
  /\ race = [h \in Handle |-> <<>>]
  /\ owns = [h \in Handle |-> [p \in Pointer |-> "null"]]
  /\ pc = [t \in LinkThread |-> CASE t = Starter -> "connect"
                                  [] t = EventThread -> "none"
                                  [] OTHER -> "idle"]
  /\ io = [t \in LinkThread |-> "none"]
  /\ handled = <<>>
  /\ issued = [s \in Session |-> None]

Next ==
  /\ Alive
  /\ \/ Connect \/ StarterStep \/ EventThreadStep
     \/ \E s \in Session : Request(s) \/ CallStep(s)
     \/ Answer \/ SendEvent \/ Lose

Spec == Init /\ [][Next]_vars

\* The threads keep running.  Clients, and FreeSWITCH, need not.
Fairness ==
  /\ WF_vars(Alive /\ StarterStep)
  /\ WF_vars(Alive /\ EventThreadStep)
  /\ \A s \in Session : WF_vars(Alive /\ CallStep(s))

FairSpec == Spec /\ Fairness
-----------------------------------------------------------------------------
StarterPc == {"connect", "spawn", "subscribe", "copy", "copying", "version",
              "originate", "serving"}
EventPc == {"none", "poll", "ready", "reading", "handling", "ended"}

LinkTypeOK ==
  /\ proc \in {"sound", "undefined", "dead"}
  /\ link \in {"down", "up", "lost"}
  /\ wire \in Seq(Nat)
  /\ cmds \in Seq({"events", "version", "originate", "uuid_answer"})
  /\ subscribed \in BOOLEAN
  /\ sent \in 0..MaxEvents
  /\ lock \in LinkThread \cup {None}
  /\ connected \in [Handle -> BOOLEAN]
  /\ race \in [Handle -> Seq(Nat)]
  /\ owns \in [Handle -> [Pointer -> {"null", "own", "shared", "freed"}]]
  /\ pc \in [LinkThread -> StarterPc \cup EventPc \cup {"idle"} \cup Ops]
  /\ pc[Starter] \in StarterPc
  /\ pc[EventThread] \in EventPc
  /\ \A s \in Session : pc[s] \in {"idle"} \cup Ops
  /\ io \in [LinkThread -> {"none", "recv", "window", "printing"}]
  /\ handled \in Seq(Nat)
  /\ issued \in [Session -> {"uuid_answer", None}]

\* What a sequence of packets has besides replies, and that it comes in order.
Events(s) == ToSet(s) \ {Reply}
InOrder(s) ==
  \A i, j \in DOMAIN s : i < j /\ Reply \notin {s[i], s[j]} => s[i] < s[j]

\* The events that are, or will be, the event thread's, and replies.
EventStream == handled \o race["handle"] \o wire

\* No event is handled twice or after a later one, although the start-up
\* thread and every makecall read from the socket too; and while the
\* connection is up none is lost but those a makecall has queued on m_handle
\* (CallService.cpp:114-128, 152, 180).
EventsAccounted ==
  /\ InOrder(EventStream) /\ Reply \notin ToSet(handled) \cup ToSet(race["handle"])
  /\ Events(EventStream) \cap ToSet(race["m_handle"]) = {}
  /\ link = "up" =>
       Events(EventStream) \cup ToSet(race["m_handle"]) = 1..sent

\* When setHandle copies race_event the queue is empty: the two handles never
\* share queued events (CallService.cpp:115-118).
QueueNotShared ==
  pc[Starter] \in {"copy", "copying"} => race["handle"] = <<>>

\* Why it is so, as an inductive invariant.  Nobody but the start-up thread
\* uses the socket before setHandle, the event thread finds nothing to read,
\* and the reply to the subscription is sent before the first event.
OneReader ==
  /\ \A t \in LinkThread : io[t] = "recv" => lock = t
  /\ pc[EventThread] = "reading" => lock = EventThread
  /\ \A t \in LinkThread :
       io[t] # "none" => pc[t] \in {"subscribe", "version", "originate", "makecall"}

HandleUnset ==
  pc[Starter] \in {"connect", "spawn", "subscribe", "copy", "copying"} =>
    /\ ~connected["m_handle"] /\ race["handle"] = <<>> /\ race["m_handle"] = <<>>
    /\ \A s \in Session : io[s] \in {"none", "printing"}

NothingAsked == ~subscribed /\ cmds = <<>> /\ wire = <<>>

SubscriptionFirst ==
  /\ pc[Starter] # "connect" => link # "down"
  /\ pc[Starter] \in {"connect", "spawn"} => io[Starter] = "none" /\ NothingAsked
  /\ pc[Starter] = "subscribe" =>
       \/ io[Starter] = "none" /\ NothingAsked
       \/ /\ io[Starter] = "recv"
          /\ IF wire # <<>> THEN Head(wire) = Reply
             ELSE link = "lost" \/ (cmds = <<"events">> /\ ~subscribed)

\* Why EventsAccounted holds: whoever reads from the wire takes its first
\* packet, so what has been read, by anybody, is older than what has not.
Before(S, T) == \A a \in S, b \in T : a < b

EventOrder ==
  LET done == ToSet(handled)
      queued == ToSet(race["handle"])
      taken == ToSet(race["m_handle"])
  IN  /\ InOrder(handled) /\ InOrder(race["handle"]) /\ InOrder(wire)
      /\ Before(done, queued) /\ Before(done \cup queued \cup taken, Events(wire))
      /\ taken \cap (done \cup queued) = {}
      /\ done \cup queued \cup taken \cup Events(wire) \subseteq 1..sent
      /\ link # "lost" => 1..sent \subseteq done \cup queued \cup taken \cup Events(wire)

EventInHand ==
  /\ pc[EventThread] = "handling" => handled # <<>>
  /\ pc[Starter] \in {"connect", "spawn"} => pc[EventThread] = "none"

\* Nothing but the copy gives m_handle an event to free, and there is none to
\* free before the subscription.
HandlesApart ==
  /\ owns["m_handle"]["last_ievent"] # "own"
  /\ subscribed \/ sent = 0

LinkInductive ==
  /\ LinkTypeOK /\ OneReader /\ HandleUnset /\ SubscriptionFirst
  /\ EventOrder /\ EventInHand /\ HandlesApart

\* A pointer both handles have from setHandle, or that one has freed of the two.
Copied(h, p) == owns[h][p] \in {"shared", "freed"}

Settled == pc[Starter] = "serving" /\ \A h \in Handle, p \in Pointer : ~Copied(h, p)

\* A step that frees, reads or changes what it must not.
Misuse ==
  \/ \E t \in Session \cup {Starter} :
       \/ Send(t) /\ \E p \in Pointer : Misuses(HandleOf(t), p)
       \/ SendFails(t) /\ Misuses(HandleOf(t), "last_sr_event")
       \/ Relock(t) /\ Misuses(HandleOf(t), "last_ievent")
       \/ RecvReply(t) /\ Replaced(HandleOf(t))
       \/ (NotConnected(t) \/ RelockLost(t) \/ RecvLost(t)) /\ ReadsFreed(t)
  \/ EventLock /\ Misuses("handle", "last_ievent")
  \/ \E s \in Session : TornHandle(s)

\* What may be freed twice, or from under a thread that uses it, is first what
\* start-up leaves behind: a makecall uses the handle while it is copied, an event
\* or a reply that was copied is freed by both handles, or a start-up command frees
\* the event being handled.  Once that is over it does not come back, although both
\* handles go on reading one socket: each frees only its own, and what is left is
\* that of two makecalls at once one frees or replaces the reply the other prints
\* (CallService.cpp:118-126, 152-156, 180).
MisusesAccounted ==
  [][/\ Misuse => \/ pc[Starter] = "copying"
                  \/ \E h \in Handle, p \in Pointer : Copied(h, p)
                  \/ pc[Starter] \in {"version", "originate"}
                     /\ pc[EventThread] = "handling"
                  \/ \E s, u \in Session :
                       s # u /\ io[s] = "printing" /\ pc[u] = "makecall"
     /\ proc = "sound" /\ proc' = "undefined" => Misuse
     /\ Settled => Settled']_vars

\* The promise to the event thread (CallService.cpp:114-128, 152, 177-206).
Feed == INSTANCE EventFeed WITH
  whole <- link # "lost",
  pending <- ToSet(race["handle"]) \cup Events(wire),
  inHand <- IF pc[EventThread] = "handling" THEN handled[Len(handled)] ELSE 0,
  calling <- {s \in Session : io[s] \in {"recv", "window"}}

\* The event thread gets every event once and in order, unless a makecall that
\* waits for its reply is given it, or the connection is lost.
IsEventFeed == Feed!FeedSpec

\* The requests stop coming.
NoNewRequest == \A s \in Session : pc[s] = "idle" => pc'[s] = "idle"

\* FreeSWITCH answers what it is asked.
Answers == []<>(cmds = <<>>)

\* Every event is handled, unless a makecall took it or the connection is
\* lost, if FreeSWITCH answers the commands and these stop coming
\* (CallService.cpp:177-180).
EventsHandled ==
  Answers /\ <>[][NoNewRequest]_vars =>
    \A e \in 1..MaxEvents :
      (sent >= e) ~> \/ e \in ToSet(handled) \cup ToSet(race["m_handle"])
                     \/ link = "lost" \/ ~Alive

\* A makecall returns, if FreeSWITCH answers, no further calls compete for
\* the mutex, and the event thread does not wait for ever, with the mutex,
\* for a packet that somebody else has read (CallService.cpp:152, 180).
CallsReturn ==
  Answers /\ <>[][NoNewRequest]_vars /\ []<>(pc[EventThread] # "reading") =>
    \A s \in Session : (pc[s] = "makecall") ~> (pc[s] = "idle" \/ ~Alive)

\* The loss of the connection is noticed: the event thread ends and no
\* makecall goes on waiting (CallService.cpp:177, 188-191).
LossNoticed ==
  <>[][NoNewRequest]_vars =>
    (link = "lost") ~> \/ ~Alive
                       \/ /\ pc[EventThread] = "ended"
                          /\ \A s \in Session : pc[s] = "idle"

\* The reply of the last command on a handle can be read
\* (CallService.cpp:120-122, 153-155).
RepliesLive == \A h \in Handle : owns[h]["last_sr_event"] # "freed"

\* The call endpoints give FreeSWITCH the commands their comments name
\* (CallService.cpp:144, 162, 171).
EndpointCommands ==
  [][\A s \in Session :
       pc[s] \in Ops /\ pc'[s] = "idle" /\ link = "up" /\ connected["m_handle"]
       => issued[s] = CASE pc[s] = "makecall" -> "originate"
                        [] pc[s] = "answer" -> "uuid_answer"
                        [] pc[s] = "hangup" -> "uuid_kill"]_vars
=============================================================================
