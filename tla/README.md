# A TLA+ model of callSrv

callSrv is a small call-centre service beside FreeSWITCH. Agents log in and
change their status over REST; FreeSWITCH hands every incoming call to the
service over an ESL socket, and the service polls its agent list for somebody
to bridge the call to; a control connection tells it when calls to agents begin
and end. The three kinds of thread share one list of agents and use no lock.
That list, and what each thread may conclude from it, is what the first modules
are about. The others are about the control connection, which the event thread
shares with every REST thread that makes a call; about the websocket server, on
whose list REST threads broadcast; and about the REST server as its clients see
it, when they give up and try again.

## The system

| part | state | operations | code |
|---|---|---|---|
| Agent list | `m_listAgent`, a `std::list<shared_ptr<Agent>>`; an Agent's dn, name, polling flag, status, uuid | push_back, erase, walks | `CallService.h`, `Agent.h` |
| REST server | one detached thread per connection | login, logout, ready, notReady, leave, makecall, answer, hangup | `CRestfulServer.cpp` |
| ACD | one thread per incoming call, with its own ESL handle | answer, poll for an agent once a second, bridge | `CallService.cpp` 354-480 |
| Event thread | one, on the control connection | CHANNEL_CREATE sets an agent's uuid; CHANNEL_HANGUP_COMPLETE clears it and sets Ready | `CallService.cpp` 174-317 |
| Control connection | an ESL handle and a copy of it in `m_handle` | connect, subscribe, `esl_send_recv` | `CallService.cpp` 100-159 |
| Websocket server | list of sessions | accept, echo, broadcast "answercall" | `WebsocketServer.cpp`, `WebsocketSession.cpp` |
| Event queue, HTTP client | a queue nothing is pushed to | `doService`, `HttpPost`, `HttpGet` | `CallService.cpp` 323-352, 551-629 |
| Process | - | `main`, a disabled supervisor | `main.cpp` |

The parts interact through the list (REST, ACD, event thread), through the
control socket (event thread, and every REST thread that serves a makecall) and
through the global `g_WebsocketServer` (REST threads, io thread).

The hardest part is the list. A login searches it and then pushes; a logout
frees a node at which any other thread may stand; `get_available_agent` walks it
up to three times and decides each time from what it read earlier; the event
thread writes agents while they are printed. On the control connection two
copies of one handle read one socket, free one reply, and each keeps events the
other waits for. The websocket's list has no lock either, and its streams take
one write at a time. Each of the hazards in
`PROJECT.json` has the line where it bites and the properties that watch it.

What makes each component correct: the list holds a dn once; a request takes
effect as if the list were a table; the ACD gives turns back only when all are
used up, misses no agent who is Ready and due, and claims none who is not; an
agent's uuid does not outlive its call; a waiting call is served in the end;
events are handled once and in order, commands return, a lost connection is
noticed; a broadcast reaches every open session; every connection and message
of a websocket client is taken; every request ends, and what is answered is so.

## Modules

| module | models |
|---|---|
| `AgentList` | nodes, Agents, every thread's iterator and shared_ptr; push_back, erase, one step of a walk; undefined behaviour after erase |
| `AgentApi` | `do_session`: the five agent endpoints, and `makecall`: its search, its command, the wait for the reply |
| `AcdCall` | `acd_callback`, `get_available_agent`, `reset_agents` |
| `EventThread` | `eventThreadFun`, FreeSWITCH as its environment, an event taken from the shared socket by another thread |
| `CallCenter` | the composition: all threads over one list, the events a waiting makecall takes, data races; the properties |
| `AgentDirectory` | abstract: the table of dns and statuses REST clients are promised |
| `ControlLink` | `startUp`'s connecting thread, `setHandle`, the reads of `eventThreadFun`, the three call endpoints; the two handles, their mutex, and `esl_send_recv` and `esl_recv_event_timed` as far as the threads rely on them; loss of the connection |
| `EventFeed` | abstract: the event thread's one queue of events that `ControlLink` promises |
| `WebsocketServer` | `WebsocketServer`, `WebsocketSession`, `answercall`; the io thread, its handlers, the walks of REST threads |
| `RestServer` | `runner`, `do_session`, `parseAgent`, `parseCalldata`: connections, every target, accepted and refused bodies, responses; clients that give up and retry. It works on the table of `AgentDirectory`, which `CallCenter` implements |
| `MCCallCenter`, `MCControlLink`, `MCWebsocketServer`, `MCRestServer` | the same modules with the symmetry sets for TLC |
| `CallCenterProofs`, `AcdProofs`, `EventProofs`, `DirectoryProofs`, `ControlLinkProofs`, `RestServerProofs`, `WebsocketServerProofs` | the theorems |

**Steps.** A step of a walk reads the link under the cursor and the fields of the
node it leads to. Between two steps any other thread may run. The two tests
in `get_available_agent` (flag, then status) and the assignment after them are
three steps; the two writes of a relogin are two. The two writes of a hangup
(status, uuid) are one: no thread reads both.

**Variables and code.** `m_listAgent` is the order of the nodes; `agent[n]` the
Agent of node n (an Agent is pushed once, so a node and its Agent share a name);
`cur[t]` the iterator of thread t, with `Begin` before the first node; `held[t]`
a local shared_ptr (`p` of a relogin, `pAgent` of a call); `req[s]`, `acd[c]`
and `evt` say where a thread is. `channel` and `events` belong to FreeSWITCH. The
empty dn is accepted by `parseAgent` (its check at `CRestfulServer.cpp:76` comes
after "9" was put before the agent's name), so a member of `Dn` may stand for it.

**History variables** record what no thread can see: `raced`, the dns whose
logins overlapped another login or a logout; `overtaken[c]`, whether another
thread has "given" an agent (made one due or Ready) or "taken" one while call c
is "inside" `get_available_agent`; `strayed`, the channels with an event that a
makecall received instead of the event thread. They appear in no guard.

**Undefined behaviour.** `proc` is "sound" until a freed node is used (`Stray`) or
two threads meet on a link of the list or on a string, one of them writing
(`DataRace`). The process then dies or goes on: a stray iterator continues from
some node. The properties promise something while `proc` is sound; that
is their meaning, since a C++ program owes nothing afterwards. The threads read
and write flags and statuses without synchronisation too; each is one aligned
word, and the model gives those accesses their interleavings.

**Two views of one thing.** `EventThread` has FreeSWITCH's events as one queue of
which a makecall takes any while it waits for its reply (`TakesEvent`, `Diverted`);
`ControlLink` has the two handles, their queues, the mutex and the socket, with
events as numbers. `EventFeed` is the view they share: `ControlLink` implements it,
and `EventThread` is that queue with its contents. It is any event, not only the
first: the start-up thread's commands queue events on the handle the event
thread reads, and a makecall then reads the socket behind them. `RestServer` takes
the searches of `AgentApi` as the single steps `AgentDirectory` has for them.

**ControlLink.** `wire` is what FreeSWITCH has sent and nobody has read; replies
and events come on it in one order. `io[t]` is where thread t is in
`esl_send_recv`: it holds `lock` from its command to the reply, but for a moment
(`"window"`) after each event that came first and was queued on its own handle.
After `esl_send_recv` the thread prints the last reply of its handle, without the
mutex (`"printing"`, `CallService.cpp:153-156`); another makecall's command may
free that reply under it, and its reply take its place.
`owns` follows the two pointers both handles have and each frees at its next
use. libesl is a binary (`src/lib`); what is modelled of it was read from the
archive's code, and a reader who has only `esl.h` can judge it by the declarations. A use of a freed event, a double free or a half
copied handle makes `proc` "undefined" or "dead"; here the behaviour goes on
when it is "undefined", because these are mistakes that mostly go unnoticed.

**WebsocketServer.** `writes[k]` is "pending" when the socket has not taken all
bytes at once: `do_write`'s buffer is then gone, and what is sent is freed memory.
An overlapping `async_write` fails boost's assertion, since the build does not
define `NDEBUG`, and ends the process. The model stops when `proc` is no longer
"sound". An open connection ends by a close, which is read behind the messages sent
before it, or breaks (`ClientBreaks`: a reset, a time-out, a protocol error, a
message beyond the limit), and `on_read` then has its error with messages unread.
`unread` counts those; a client goes on sending without an end. `owed` and `told`
are history.

**RestServer.** A body is what the two parse functions look at: whether it
is broken, an object or another JSON value, its dn, and whether it has the other
member ("agent", or "callee"). A value that is no object parses, and `HasMember`
of it fails an assertion of RapidJSON (`CRestfulServer.cpp:35, 63`; `NDEBUG` is not
defined): the process ends (`Aborts`, `up`). A malformed request, or one over
beast's limits, is read with an error and its connection closed without an answer
(`ReadFails`). A makecall that finds its agent waits for FreeSWITCH in a state of its
own (`"calling"`), and `CallReturns` need never come; `ControlLink` says when it
does. Hangups make agents Ready at any time (`HangUp`, a step of the table).
Requests arrive whole: what a client sends half is a read that waits for it.
`told[c]` is what a client may conclude from its last answer; `late[c]` and `gaveUp`
record that a request it no longer waited for took effect, `hungUp[c]` that a
hangup came after its requests; no guard reads them.

**Left out.** Texts, printing (except of a makecall's reply, and as a participant
of data races), the ESL replies of a call's own handle, the applications executed
on a call. The loops by which login and logout print the list
(`CRestfulServer.cpp:140-141, 167-168`) are one step in which `DataRace` may meet a
write, and are not walked, so an erase under their iterator is no source of
undefined behaviour here. The receive loop of a call ends when it claims an agent
(`CallService.cpp:401`), so the code at 409-441 that needs `pAgent` never
has one: `ChannelEvent` shows the calls of `reset_agents` as they are, and
they change nothing.

## Properties and runs

| run | instance | properties |
|---|---|---|
| `api` | 2 sessions, 3 nodes, 2 dns; login, logout, ready, leave | `UniqueDn`, `UniqueDnInductive`, `IsDirectory` |
| `calls` | 2 sessions, 2 nodes, 2 dns, 1 channel; login, leave, makecall | `IsDirectory` |
| `events` | 1 session, 2 nodes, 2 dns, 2 channels; login, logout, leave, makecall | `UuidIsLive`, `EventInductive`, `UuidKept` |
| `acd` | 2 calls, 1 session, 2 nodes, 2 dns; login, logout, ready, notReady | `PollInductive`, `ResetOnlyWhenExhausted`, `NoAgentMissed`, `ClaimIsDue` |
| `acd_calls` | 1 call, 1 session, 1 channel, 2 nodes, 2 dns; login, logout, notReady | `TypeOK`, `NoAgentMissed`, `ClaimIsDue`, `TurnsComeBack` |
| `live` | 2 calls, 1 session, 2 nodes, 2 dns; login, notReady; fair | `CallerServed` |
| `link` | 2 sessions, 2 events; makecall, answer; fair | `LinkTypeOK`, `EventsAccounted`, `QueueNotShared`, `LinkInductive`, `IsEventFeed`, `MisusesAccounted`, `EventsHandled`, `CallsReturn`, `LossNoticed` |
| `link_replies` | 2 sessions, 1 event; makecall | `RepliesLive`: violated |
| `link_commands` | 2 sessions, 1 event; makecall, answer, hangup; fair | `EndpointCommands`: violated |
| `ws` | 1 session, 2 connections, 2 unread messages of each; fair | `WsTypeOK`, `WsInductive`, `BroadcastReaches`, `Accepted`, `MessagesRead` |
| `rest` | 2 threads, 1 client with a dn and the empty dn; login, logout, leave, makecall and the other targets; fair | `RestTypeOK`, `LastAnswerHolds`, `UnknownOnlyAfterGivingUp`, `RestInductive`, `EveryRequestEnds` |
| `rest_nameless` | the same, with ready and notReady | `NamelessRefused`: violated |

- `UniqueDn`: no dn is on the list twice, unless two logins of it (or a login and
  a logout) overlapped. `UniqueDnInductive` is its inductive form.
- `IsDirectory`: refinement of `AgentDirectory`. Every request acts at once on a
  table between its arrival and its answer. The table is read from the list;
  a dn in `raced` has the status "unknown", and so has every dn once an iterator
  dangles or `proc` is not sound. Both limits are steps of the abstract
  specification (`Overlap`, `Break`), so what the missing lock costs is in it.
- `UuidIsLive`: an agent shows the uuid of a channel only while that is up or its
  hangup is still to be received or handled, unless a makecall took the hangup:
  `esl_send_recv` waits for its reply on the copy `m_handle` and queues the
  events that come before the reply where nobody looks.
- `ResetOnlyWhenExhausted`, `NoAgentMissed`, `ClaimIsDue`: action properties of the
  decisions of `get_available_agent`, each with the interference that may
  falsify it ("given" for the first two, "taken" for the third). `PollInductive` is
  what a walk may rely on at every place, their inductive form.
- `UuidKept`: while its channel is up, an agent's uuid changes only by an event of
  its own dn. That one may belong to another call of the same agent: the hangup of
  the first of two calls clears the uuid of the second, which the property allows.
  `EventInductive` is the inductive form of `UuidIsLive` and `UuidKept`: the CREATE
  and the hangup of a channel find the same agent.
- `TurnsComeBack`: a turn, once taken, comes back only by a reset of an exhausted
  list or by a relogin. A refused call costs the agent its turn: the calls of
  `reset_agents` after a failed bridge have no agent.
- `CallerServed`: if in the end the list stays servable (some agent Ready, and none
  who is due is not) and no more calls come in, a waiting call is bridged or gone.
  Both assumptions are needed: an agent who is due and not Ready keeps the others
  from getting their turns back, and all calls wait; and later calls, each taking
  the agent just before the poll gets there, overtake a call for ever, since
  nothing orders calls by their arrival. The callers are interchangeable, so the
  property is stated of one of them.
- `EventsAccounted`: what the event thread has handled, followed by what is queued
  on its handle and what is on the wire, is in the order FreeSWITCH sent it, and
  until the connection is lost nothing is missing but what makecalls have taken.
  `QueueNotShared`: when `setHandle` copies the handle its queue is empty, although
  the event thread is running by then: the reply to the subscription comes before
  the first event. `LinkInductive` says why, and why `EventsAccounted` holds: whoever
  reads the socket takes its first packet, so what has been read, by anybody, is
  older than what has not (`EventOrder`).
- `IsEventFeed`: refinement of `EventFeed`. To the event thread the two handles on
  one socket are one queue, of which it gets the oldest each time. Events leave the
  queue otherwise in two ways only, and both are steps of the abstract specification: a
  makecall that waits for its reply takes one (`Diverted`), or the connection is
  lost and with it the last ones sent (`Lost`).
- `MisusesAccounted`: the two handles free their last reply and last event at each
  use. A pointer is freed twice, or something freed or replaced while a thread uses
  it, in two cases. The first is what start-up leaves behind: a makecall during
  `m_handle = handle_`, a pointer both handles have from the copy, or the two
  start-up commands, which use the event thread's own handle. Once no pointer is
  shared, none is again. The second stays for good: a makecall that sends a command
  or gets its reply while another prints the reply before. Every such step is a
  `Misuse`, and nothing else makes `proc` "undefined"; so the event thread's own events
  are safe from every makecall once start-up is over.
- `EventsHandled`, `CallsReturn`, `LossNoticed`: liveness of the control
  connection. `CallsReturn` has the premise that the event thread does not wait for
  ever with the mutex. It can: `esl_recv_event_timed` tests for input, and takes the
  mutex afterwards; if a makecall has read the packet in between, the event thread
  blocks with the mutex until FreeSWITCH sends something, and so does every
  makecall.
- `BroadcastReaches`: a broadcast that ends has written, once each, to every
  session that was open when it began and still is, however the list grew and
  whichever sessions failed meanwhile.
- `Accepted`, `MessagesRead`: connections are accepted, also after failed accepts,
  and messages are read one after another as long as the connection does not break.
- `LastAnswerHolds`: what the last answer told a client about its agent is so,
  with two exceptions. A request it had given up took effect later (nothing orders
  the two threads, and an answer that cannot be written does not undo the request).
  Or a call of the agent ended since, and the agent is Ready, over a notReady or a
  leave the client was told had succeeded (`CallService.cpp:281-291`); an agent that
  has logged out does not come back that way. `UnknownOnlyAfterGivingUp`: a dn used by
  one client is entered twice only if that client sent a request again before the
  first was done. `RestInductive` is the inductive form of both.
- `EveryRequestEnds`: a client is not left waiting: it is answered, or sees its
  connection closed (a malformed request is not answered). There are two exceptions: a
  makecall that waits for FreeSWITCH, and the end of the process by a body that is
  no object.

**Findings.** Three runs show where the code departs from what its text says:
`link_replies`, the two handles free the same reply (`CallService.cpp:118`);
`link_commands`, the call endpoints do not send the commands their comments
name (`CallService.cpp:144, 162, 171`); `rest_nameless`, the check that refuses an
agent request with no names can never be true (`CRestfulServer.cpp:76`).

**Bounds.** In `CallCenter` and `RestServer` sets are the only bounds and no
counter is cut off; `MaxEvents` bounds the events of `ControlLink`, `MaxMessages` the
unread messages of a websocket client. Two events are enough for one that is handled
and one that is queued, on either handle, and for a wrong order; two messages
for a read that is not started again. Two sessions on the control connection make
one wait for the other's mutex; two connections give a broadcast a session
before or after the one that fails; the broadcasts of two REST threads meet
only in a second write to one stream, which ends the process. `rest` has one client with two threads,
one of them serving what the client gave up: clients do not share a dn, so a
second one adds nothing but size, and the theorems
cover any number. `Caller` bounds the
calls at a time (the name of a call that is over goes to a later one), `Node` the
agents at a time, `Channel` the calls to agents in a behaviour. Two nodes give a
walk a middle and an end, three let an erase shift places on both sides
of a cursor. Two sessions are enough for every race between requests, two
calls for every race between polls. All three kinds of thread meet in `acd_calls`.
Safety runs use symmetry of threads, nodes, channels and connections; liveness
runs use none.
Deadlock is not checked, since the process may die (`proc = "dead"`).

**Fairness.** Weak fairness of each thread's own steps: the kernel schedules all of
them and none of them waits for another (there is no lock). Clients, callers
and FreeSWITCH need not act. A waiting call polls when a second passes without
a message; the messages of a call are those of a few announcements, so the second
comes. `live` has no logout: a client who logs an agent out and in for ever, each
time just before the poll gets there, does starve a call.
An action of a thread that has nothing to do is disabled, so weak fairness asks
nothing of it; nor is there any on the reply to a makecall, which is FreeSWITCH's
(`CallReturns` of `RestServer` included), nor on hangups. `ControlLink` has weak fairness of the three kinds of thread and
none of FreeSWITCH, which need not answer, send or keep the connection; the
properties name as premises what they need of it (`Answers`) and of clients
(`NoNewRequest`: a mutex is not fair, and makecalls without end may pass one by). In
`WebsocketServer` the io thread is fair to its handlers, and strongly so to what
has completed, a read or an accept (with or without an error), since `io_context` runs what is ready in the order it became so.
Nothing is assumed of clients; accepts stop failing at some point for `Accepted`.

## Proofs

`CallCenterProofs`, for any sets of threads, nodes, dns and channels:

- `TypeCorrect`: `Spec => []TypeOK`, one lemma per kind of thread.
- `UniqueDnHolds`: `Spec => []UniqueDn`. The invariant is not inductive: a push is
  safe because of what the search before it saw. `UniqueDnInductive` adds that
  nodes are distinct, that a session's cursor is at `Begin` outside its search
  and at a listed node (or dangling) during it, that a search that has got to
  place i has met its dn at no place up to i (`SearchedSoFar`), and that at a push
  the dn is not listed (`PushIsNew`). Pushes go behind every cursor; an erase
  keeps the order of the places left (`ErasedPlaces`) and every cursor it
  invalidates is marked. Steps of the ACD and event threads leave all of this
  alone (`SameDirectory`); a session's own step has to show its own part only
  (`OwnStep`, `OwnGoal`).

`UniqueDnInductiveHolds` states the inductive invariant itself.

`AcdProofs` and `EventProofs`, for the same constants:

- `PollInductiveHolds`: `Spec => []PollInductive`, and from it `ClaimsAreDue`,
  `NoAgentIsMissed`, `ResetsWhenExhausted` and `TurnsOnlyComeBack`. A step of another
  thread either changes nothing that counts for the walk of a call, or the call is
  told ("given", "taken"): `Undisturbed` says so, one lemma per kind of thread, and
  what the walk knows survives (`UndisturbedKeepsPoll`). push_back and erase have
  lemmas of their own, and so has each of the call's own steps.
- `EventInductiveHolds`: `Spec => []EventInductive`, and from it `UuidsAreLive` and
  `UuidsAreKept`. Behind the CREATE of a channel its hangup is still to come
  (`CreatesEnd`); an agent that shows a uuid is the first on the list with its dn
  (`UuidsEnd`), and the search for the hangup's dn has passed no agent with it
  (`DestSearched`). So the hangup finds the agent the CREATE found. Neither
  `raced` nor a single entry for a dn is needed for that.

  A makecall may remove any event of the queue while it waits: the order of the
  others stays, and the channel of the one removed is in `strayed`
  (`DivertedKeepsFlow`).

`DirectoryProofs`, for the same constants:

- `ImplementsDirectory`: `Spec => IsDirectory`. A step is one of four kinds. While the
  table is void everything is unknown before and after it (`VoidStep`), and void
  it stays (`VoidStays`): a dangling cursor is only used by `Stray`. A step that
  writes no status and relinks nothing leaves the table alone (`Calm`), and a
  request it answers is one the table answers the same way: a search that ends
  has met its dn nowhere (`SearchedSoFar`). `Login`, `Logout`, `SetStatus`,
  `ReloginReady` and `HangupComplete` change one entry, that of the dn asked for;
  each has its lemma, and the choice of `Serve`, `Overlap` or `Break` is made there.
  A data race breaks the table. `DirectoryInductiveHolds` is what they need beyond the
  invariants above: the agent a session has found or holds has the dn of its
  request, or is off the list and the dn in `raced`. Only a makecall waits for a
  reply, so the answer that ends the wait changes no entry. `StatusIn` chooses an entry;
  `StatusIs` and `EntryKept` replace the choice by the one entry there is.

`ControlLinkProofs`, for any number of REST threads and events:

- `LinkInductiveHolds`: `Spec => []LinkInductive`, and from it `LinkTypeCorrect` and
  `QueueNeverShared`. The type is not inductive alone: that a thread in
  `esl_send_recv` is one that sends commands is part of `OneReader`. `OneReader`
  also says that whoever waits for a packet holds the mutex. `HandleUnset`: until
  `setHandle` is done `m_handle` is not connected, so REST threads get no further than
  the first line of `esl_send_recv`. `SubscriptionFirst`: what the start-up thread
  reads first is the reply to its subscription, because FreeSWITCH sends no event
  before it; so nothing is queued on the handle when it is copied.
- `EventsAlwaysAccounted`: `Spec => []EventsAccounted`. `EventOrder` is its inductive
  form, over the sets of the events handled, queued on the one handle, taken by the
  other and still on the wire: the first are older than the second, all three older
  than the last, the third is apart, and together they are what was sent. One
  lemma for each way an event moves: read and handled (`ReadHandled`), read and
  queued on either handle, taken from the queue and handled (`QueuedHandled`), sent or
  lost (`FreeSwitchOrder`). The order of the concatenation follows.
- `ImplementsFeed`: `Spec => IsEventFeed`. Each such move is one step of the feed:
  queueing an event on the event thread's own handle is a stutter, queueing one on
  `m_handle` is `Diverted`, and that its reader is a session that waits for a reply is
  `OneReader` and `HandleUnset`. A use of a freed event in between makes no
  difference, since `ControlLink` goes on by the same steps after it. `EventInHand` is what is needed besides: an event thread that handles something has
  handled something, and there is none before the connection is up.
- `MisusesAlwaysAccounted`: `Spec => MisusesAccounted`. `HandlesApart` is what is
  needed besides: `m_handle` never has an event of its own (a makecall reads events to
  the queue, and only the event thread reads them to `last_ievent`), and none is sent
  before the subscription, so the subscription itself frees nothing that is being
  handled. `PointersAfter` says what a step may do to a pointer: only the copy
  shares one. Who prints a reply of `m_handle` is a makecall (`PrinterIsMakecall`), so
  one it can lose is lost to another makecall or was copied (`MisuseIsAccounted`);
  `UndefinedIsMisuse` goes through the steps that may make `proc` "undefined".

`RestServerProofs`, for any clients, threads and dns:

- `RestTypeCorrect`, and `RestInductiveHolds` with `LastAnswerAlwaysHolds` and
  `UnknownNeedsGivingUp`. A client waits for one thread, the only one of its
  connections that is not lost (`WaitsForOne`); a request of another client never
  names its dn; so between the step that serves a request and the one that
  delivers the answer only a late request or a hangup can change what the answer
  says (`AnswerStillTrue`). A hangup finds agents on the list only, so it makes
  nothing of an "absent" that was true (`HangUpKeeps`).

`WebsocketServerProofs`, for any numbers of connections, sessions and messages:

- `WsInductiveHolds`, with `WsTypeCorrect` and `BroadcastAlwaysReaches`. The list of
  sessions holds accepted connections, each once, and only its end moves; so the
  place where a broadcast stands is always one of the list or its end, and the
  broadcast has written to every session before that place (`WalkSoFar`). What it
  set out to reach is a prefix of the list it ends with.

The assumptions are those the modules name: threads of different kinds are
different, sentinels are no nodes, `None` is no dn, thread or channel, "down" (a
channel after its call) is no dn, the empty dn is no client's.

Only model-checked: the liveness properties, `CallerServed`, `EventsHandled`,
`CallsReturn`, `LossNoticed`, `Accepted`, `MessagesRead` and `EveryRequestEnds` (out
of the prover's reach). Every invariant and every action property of the runs, and
the two refinements, are theorems. The three violated properties have no proof.

## Not modelled

- The database check at start-up: its failures are printed and ignored.
- The event queue, `doService` and the HTTP client: nothing ever pushes to the queue.
- `callbackfun`: unreferenced. The supervisor of `main.cpp`: its only call is
  commented out. `stopService`: nobody calls it, so `m_bRunning` stays true.
- Vendored code. Of the 25,640 lines of the repository 1,415 are its own
  (`src/src`); the rest are the headers of libpqxx, curl and ESL, whose
  behaviour is in binary archives. Where `src/src` relies on ESL or boost the
  modules have external definitions for it.

## What is left

1. An abstract `Turns` (every agent once a round) that `AcdCall` refines up to
   overtaking.
2. `ControlLink` under `EventThread`: the events by content in place of numbers, so
   that `UuidIsLive` is stated over the two handles.
