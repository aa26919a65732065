--------------------------- MODULE ControlLinkProofs ---------------------------
(***************************************************************************)
(* Proofs about ControlLink, for any number of REST threads and events.    *)
(***************************************************************************)
EXTENDS ControlLink, SequenceTheorems, TLAPS

LEMMA Threads ==
  /\ Starter \in LinkThread /\ EventThread \in LinkThread
  /\ Session \subseteq LinkThread
  /\ Starter # EventThread /\ Starter \notin Session /\ EventThread \notin Session
  /\ None \notin LinkThread
BY LinkThreadAssumption DEF LinkThread

LEMMA HandleOfType == \A t : HandleOf(t) \in Handle
BY DEF HandleOf, Handle

LEMMA ReleaseType ==
  ASSUME NEW o \in [Handle -> [Pointer -> {"null", "own", "shared", "freed"}]],
         NEW h \in Handle, NEW p \in Pointer
  PROVE  Release(o, h, p) \in [Handle -> [Pointer -> {"null", "own", "shared", "freed"}]]
BY DEF Release, Other, Handle, Pointer

\* send() and the start of a wait leave the pointers well typed, and risk at
\* most the process.
LEMMA RiskType ==
  ASSUME proc \in {"sound", "undefined", "dead"}, NEW bad, Risk(bad)
  PROVE  proc' \in {"sound", "undefined", "dead"}
BY DEF Risk

\* What a thread that is done with a command, a copy or a request does next.
LEMMA DoneType ==
  ASSUME LinkTypeOK, NEW t \in Session \cup {Starter}, Done(t),
         pc[t] \in {"subscribe", "copying", "version", "originate"} \cup Ops
  PROVE  /\ pc' \in [LinkThread -> StarterPc \cup EventPc \cup {"idle"} \cup Ops]
         /\ pc'[Starter] \in StarterPc
         /\ pc'[EventThread] = pc[EventThread]
         /\ \A s \in Session : pc'[s] \in {"idle"} \cup Ops
         /\ io' \in [LinkThread -> {"none", "recv", "window", "printing"}]
         /\ io'[t] = "none"
         /\ \A u \in LinkThread \ {t} : io'[u] = io[u] /\ pc'[u] = pc[u]
         /\ issued' \in [Session -> {"uuid_answer", None}]
<1> USE DEF LinkTypeOK
<1>1. /\ pc' = [pc EXCEPT ![t] = NextStep(pc[t])]
      /\ io' = [io EXCEPT ![t] = "none"]
      /\ issued' \in [Session -> {"uuid_answer", None}]
  BY DEF Done
<1>2. CASE t = Starter
  <2>1. pc[t] \in {"subscribe", "copying", "version", "originate"}
    BY <1>2, LinkOpsAssumption DEF StarterPc
  <2>2. NextStep(pc[t]) \in StarterPc
    BY <2>1, LinkOpsAssumption DEF NextStep, StarterPc
  <2>3. QED
    BY <1>1, <1>2, <2>2, Threads
<1>3. CASE t \in Session
  <2>1. pc[t] \in Ops
    BY <1>3, LinkOpsAssumption
  <2>2. NextStep(pc[t]) = "idle"
    BY <2>1, LinkOpsAssumption DEF NextStep
  <2>3. QED
    BY <1>1, <1>3, <2>2, Threads
<1>4. QED
  BY <1>2, <1>3

\* The same for a thread that may have a reply to print first.
LEMMA ReturnsType ==
  ASSUME LinkTypeOK, NEW t \in Session \cup {Starter}, NEW reply, Returns(t, reply),
         pc[t] \in {"subscribe", "copying", "version", "originate"} \cup Ops
  PROVE  /\ pc' \in [LinkThread -> StarterPc \cup EventPc \cup {"idle"} \cup Ops]
         /\ pc'[Starter] \in StarterPc
         /\ pc'[EventThread] = pc[EventThread]
         /\ \A s \in Session : pc'[s] \in {"idle"} \cup Ops
         /\ io' \in [LinkThread -> {"none", "recv", "window", "printing"}]
         /\ issued' \in [Session -> {"uuid_answer", None}]
<1>1. CASE Done(t)
  BY <1>1, DoneType
<1>2. CASE ~Done(t)
  BY <1>2, Threads DEF Returns, LinkTypeOK
<1>3. QED
  BY <1>1, <1>2

\* Who sends: the start-up thread one of its three commands, a session the
\* one of makecall.
LEMMA CommandType ==
  ASSUME LinkTypeOK, NEW t \in Session \cup {Starter},
         pc[t] \in {"subscribe", "version", "originate", "makecall"}
  PROVE  /\ Command(t) \in {"events", "version", "originate", "uuid_answer"}
         /\ t \in Session => Command(t) = "uuid_answer"
         /\ pc[t] = "subscribe" => t = Starter /\ Command(t) = "events"
<1>1. t \in Session => pc[t] = "makecall"
  BY LinkOpsAssumption DEF LinkTypeOK
<1>2. QED
  BY <1>1 DEF Command

-----------------------------------------------------------------------------
LEMMA StarterType ==
  ASSUME LinkTypeOK, Connect \/ Spawn \/ CopyBegins \/ SetHandle
  PROVE  LinkTypeOK'
<1> USE DEF LinkTypeOK
<1>1. CASE Connect
  <2>1. owns' \in [Handle -> [Pointer -> {"null", "own", "shared", "freed"}]]
    <3>1. owns["handle"] \in [Pointer -> {"null", "own", "shared", "freed"}]
      BY DEF Handle
    <3>2. [owns["handle"] EXCEPT !["last_sr_event"] = "own"]
            \in [Pointer -> {"null", "own", "shared", "freed"}]
      BY <3>1
    <3>3. owns' = [owns EXCEPT !["handle"] = [owns["handle"] EXCEPT !["last_sr_event"] = "own"]]
      BY <1>1 DEF Connect
    <3>4. QED
      BY <3>2, <3>3
  <2>2. connected' \in [Handle -> BOOLEAN] /\ link' \in {"down", "up", "lost"}
    BY <1>1 DEF Connect
  <2>3. /\ pc' \in [LinkThread -> StarterPc \cup EventPc \cup {"idle"} \cup Ops]
        /\ pc'[Starter] \in StarterPc /\ pc'[EventThread] \in EventPc
        /\ \A s \in Session : pc'[s] \in {"idle"} \cup Ops
    BY <1>1, Threads DEF Connect, StarterPc
  <2>4. QED
    BY <1>1, <2>1, <2>2, <2>3 DEF Connect
<1>2. CASE Spawn
  <2>1. /\ pc' \in [LinkThread -> StarterPc \cup EventPc \cup {"idle"} \cup Ops]
        /\ pc'[Starter] \in StarterPc /\ pc'[EventThread] \in EventPc
        /\ \A s \in Session : pc'[s] \in {"idle"} \cup Ops
    <3>1. "subscribe" \in StarterPc /\ "poll" \in EventPc
      BY DEF StarterPc, EventPc
    <3>2. QED
      BY <1>2, <3>1, Threads DEF Spawn
  <2>2. QED
    BY <1>2, <2>1 DEF Spawn, freeswitch, handles
<1>3. CASE CopyBegins
  <2>1. /\ pc' \in [LinkThread -> StarterPc \cup EventPc \cup {"idle"} \cup Ops]
        /\ pc'[Starter] \in StarterPc /\ pc'[EventThread] \in EventPc
        /\ \A s \in Session : pc'[s] \in {"idle"} \cup Ops
    <3>1. "copying" \in StarterPc
      BY DEF StarterPc
    <3>2. QED
      BY <1>3, <3>1, Threads DEF CopyBegins
  <2>2. QED
    BY <1>3, <2>1 DEF CopyBegins, freeswitch, handles
<1>4. CASE SetHandle
  <2>1. owns' \in [Handle -> [Pointer -> {"null", "own", "shared", "freed"}]]
    BY <1>4 DEF SetHandle
  <2>2. connected' \in [Handle -> BOOLEAN] /\ race' \in [Handle -> Seq(Nat)]
    BY <1>4 DEF SetHandle, Handle
  <2>3. Done(Starter) /\ pc[Starter] = "copying"
    BY <1>4 DEF SetHandle
  <2>4. QED
    BY <1>4, <2>1, <2>2, <2>3, DoneType DEF SetHandle, freeswitch
<1>5. QED
  BY <1>1, <1>2, <1>3, <1>4

LEMMA RequestType ==
  ASSUME LinkTypeOK, NEW s \in Session, Request(s) \/ NoCommand(s) \/ TornHandle(s)
  PROVE  LinkTypeOK'
<1> USE DEF LinkTypeOK
<1>1. CASE Request(s)
  <2>1. PICK op \in Ops : pc' = [pc EXCEPT ![s] = op]
    BY <1>1 DEF Request
  <2>2. /\ pc' \in [LinkThread -> StarterPc \cup EventPc \cup {"idle"} \cup Ops]
        /\ pc'[Starter] \in StarterPc /\ pc'[EventThread] \in EventPc
        /\ \A u \in Session : pc'[u] \in {"idle"} \cup Ops
    BY <2>1, Threads
  <2>3. QED
    BY <1>1, <2>2 DEF Request, freeswitch, handles
<1>2. CASE NoCommand(s)
  <2>1. Done(s) /\ pc[s] \in Ops
    BY <1>2 DEF NoCommand
  <2>2. QED
    BY <1>2, <2>1, DoneType DEF NoCommand, freeswitch, handles
<1>3. CASE TornHandle(s)
  <2>1. Done(s) /\ pc[s] \in Ops
    BY <1>3 DEF TornHandle
  <2>2. proc' \in {"sound", "undefined", "dead"}
    BY <1>3, RiskType DEF TornHandle
  <2>3. QED
    BY <1>3, <2>1, <2>2, DoneType DEF TornHandle, freeswitch, handles
<1>4. QED
  BY <1>1, <1>2, <1>3

\* A step of esl_send_recv() in thread t.
LEMMA SendRecvType ==
  ASSUME LinkTypeOK, OneReader, NEW t \in Session \cup {Starter}, SendRecvStep(t)
  PROVE  LinkTypeOK'
<1> USE DEF LinkTypeOK
<1> DEFINE h == HandleOf(t)
<1>0. /\ t \in LinkThread /\ h \in Handle
      /\ pc[t] \in {"subscribe", "version", "originate", "makecall"}
      /\ pc[t] \in {"subscribe", "copying", "version", "originate"} \cup Ops
  <2>1. pc[t] \in {"subscribe", "version", "originate", "makecall"}
    BY Threads
    DEF SendRecvStep, NotConnected, Send, SendFails, RecvReply, RecvRace, Relock,
        RelockLost, RecvLost, Printed, Sends, OneReader
  <2>2. pc[t] = "makecall" => pc[t] \in Ops
    BY LinkOpsAssumption DEF StarterPc
  <2>3. QED
    BY <2>1, <2>2, Threads, HandleOfType
<1> HIDE DEF h
<1>1. CASE NotConnected(t)
  <2>1. Returns(t, ReplyOf(t)) /\ proc' \in {"sound", "undefined", "dead"}
    BY <1>1, RiskType DEF NotConnected
  <2>2. QED
    BY <1>0, <1>1, <2>1, ReturnsType DEF NotConnected, freeswitch, handles
<1>2. CASE Send(t)
  <2>1. cmds' \in Seq({"events", "version", "originate", "uuid_answer"})
    BY <1>0, <1>2, CommandType DEF Send
  <2>2. issued' \in [Session -> {"uuid_answer", None}]
    BY <1>0, <1>2, CommandType DEF Send
  <2>3. owns' \in [Handle -> [Pointer -> {"null", "own", "shared", "freed"}]]
    <3>1. "last_sr_event" \in Pointer /\ "last_ievent" \in Pointer
      BY DEF Pointer
    <3>2. QED
      BY <1>0, <1>2, <3>1, ReleaseType DEF Send, h
  <2>4. proc' \in {"sound", "undefined", "dead"}
    BY <1>2, RiskType DEF Send
  <2>5. QED
    BY <1>0, <1>2, <2>1, <2>2, <2>3, <2>4 DEF Send
<1>3. CASE SendFails(t)
  <2>1. owns' \in [Handle -> [Pointer -> {"null", "own", "shared", "freed"}]]
    <3>1. "last_sr_event" \in Pointer
      BY DEF Pointer
    <3>2. QED
      BY <1>0, <1>3, <3>1, ReleaseType DEF SendFails, h
  <2>2. proc' \in {"sound", "undefined", "dead"}
    BY <1>3, RiskType DEF SendFails
  <2>3. connected' \in [Handle -> BOOLEAN]
    BY <1>3 DEF SendFails
  <2>4. QED
    BY <1>0, <1>3, <2>1, <2>2, <2>3, DoneType DEF SendFails, freeswitch
<1>4. CASE RecvReply(t)
  <2>1. owns' \in [Handle -> [Pointer -> {"null", "own", "shared", "freed"}]]
    <3>1. [owns[h] EXCEPT !["last_sr_event"] = "own"]
            \in [Pointer -> {"null", "own", "shared", "freed"}]
      BY <1>0
    <3>2. owns' = [owns EXCEPT ![h] = [owns[h] EXCEPT !["last_sr_event"] = "own"]]
      BY <1>4 DEF RecvReply, h
    <3>3. QED
      BY <3>1, <3>2
  <2>2. wire' \in Seq(Nat)
    BY <1>4 DEF RecvReply
  <2>3. Returns(t, "own") /\ proc' \in {"sound", "undefined", "dead"}
    BY <1>4, RiskType DEF RecvReply
  <2>4. QED
    BY <1>0, <1>4, <2>1, <2>2, <2>3, ReturnsType DEF RecvReply
<1>5. CASE RecvRace(t)
  <2>1. wire' \in Seq(Nat) /\ Head(wire) \in Nat
    BY <1>5 DEF RecvRace
  <2>2. race' \in [Handle -> Seq(Nat)]
    <3>1. Append(race[h], Head(wire)) \in Seq(Nat)
      BY <1>0, <2>1
    <3>2. race' = [race EXCEPT ![h] = Append(race[h], Head(wire))]
      BY <1>5 DEF RecvRace, h
    <3>3. QED
      BY <3>1, <3>2
  <2>3. QED
    BY <1>5, <2>1, <2>2 DEF RecvRace
<1>6. CASE Relock(t)
  <2>1. owns' \in [Handle -> [Pointer -> {"null", "own", "shared", "freed"}]]
    <3>1. "last_ievent" \in Pointer
      BY DEF Pointer
    <3>2. QED
      BY <1>0, <1>6, <3>1, ReleaseType DEF Relock, h
  <2>2. proc' \in {"sound", "undefined", "dead"}
    BY <1>6, RiskType DEF Relock
  <2>3. QED
    BY <1>0, <1>6, <2>1, <2>2 DEF Relock, freeswitch
<1>7. CASE RelockLost(t)
  <2>1. Returns(t, ReplyOf(t)) /\ proc' \in {"sound", "undefined", "dead"}
    BY <1>7, RiskType DEF RelockLost
  <2>2. QED
    BY <1>0, <1>7, <2>1, ReturnsType DEF RelockLost, freeswitch, handles
<1>8. CASE RecvLost(t)
  <2>1. connected' \in [Handle -> BOOLEAN]
    BY <1>8 DEF RecvLost
  <2>2. Returns(t, ReplyOf(t)) /\ proc' \in {"sound", "undefined", "dead"}
    BY <1>8, RiskType DEF RecvLost
  <2>3. QED
    BY <1>0, <1>8, <2>1, <2>2, ReturnsType DEF RecvLost, freeswitch
<1>9. CASE Printed(t)
  BY <1>0, <1>9, DoneType DEF Printed, freeswitch, handles
<1>10. QED
  BY <1>1, <1>2, <1>3, <1>4, <1>5, <1>6, <1>7, <1>8, <1>9 DEF SendRecvStep

LEMMA EventThreadType ==
  ASSUME LinkTypeOK, EventThreadStep
  PROVE  LinkTypeOK'
<1> USE DEF LinkTypeOK
<1> DEFINE PcOK == /\ pc' \in [LinkThread -> StarterPc \cup EventPc \cup {"idle"} \cup Ops]
                   /\ pc'[Starter] \in StarterPc
                   /\ pc'[EventThread] \in EventPc
                   /\ \A s \in Session : pc'[s] \in {"idle"} \cup Ops
<1>1. \A l \in EventPc : pc' = [pc EXCEPT ![EventThread] = l] => PcOK
  BY Threads
<1>2. {"poll", "ready", "reading", "handling", "ended"} \subseteq EventPc
  BY DEF EventPc
<1> HIDE DEF PcOK
<1>3. CASE EventPoll \/ EventBreak \/ Handled \/ EventEnd
  <2>1. PcOK
    BY <1>1, <1>2, <1>3 DEF EventPoll, EventBreak, Handled, EventEnd
  <2>2. QED
    BY <1>3, <2>1
    DEF EventPoll, EventBreak, Handled, EventEnd, freeswitch, handles, PcOK
<1>4. CASE EventLock
  <2>1. PcOK
    BY <1>1, <1>2, <1>4 DEF EventLock
  <2>2. owns' \in [Handle -> [Pointer -> {"null", "own", "shared", "freed"}]]
    <3>1. "last_ievent" \in Pointer /\ "handle" \in Handle
      BY DEF Pointer, Handle
    <3>2. QED
      BY <1>4, <3>1, ReleaseType DEF EventLock
  <2>3. proc' \in {"sound", "undefined", "dead"}
    BY <1>4, RiskType DEF EventLock
  <2>4. QED
    BY <1>4, <2>1, <2>2, <2>3, Threads DEF EventLock, freeswitch, PcOK
<1>5. ASSUME NEW e \in Nat, Read(e), wire' \in Seq(Nat), race' \in [Handle -> Seq(Nat)]
      PROVE  LinkTypeOK'
  <2>1. PcOK
    BY <1>1, <1>2, <1>5 DEF Read
  <2>2. owns' \in [Handle -> [Pointer -> {"null", "own", "shared", "freed"}]]
    BY <1>5 DEF Read, Pointer
  <2>3. handled' \in Seq(Nat)
    BY <1>5 DEF Read
  <2>4. QED
    BY <1>5, <2>1, <2>2, <2>3 DEF Read, PcOK
<1>6. CASE EventFromQueue
  <2>1. race["handle"] \in Seq(Nat) /\ race["handle"] # <<>>
    BY <1>6 DEF EventFromQueue, Handle
  <2>2. Head(race["handle"]) \in Nat /\ Tail(race["handle"]) \in Seq(Nat)
    BY <2>1
  <2>3. wire' \in Seq(Nat) /\ race' \in [Handle -> Seq(Nat)]
    BY <1>6, <2>2 DEF EventFromQueue
  <2>4. QED
    BY <1>5, <1>6, <2>2, <2>3 DEF EventFromQueue
<1>7. CASE EventFromWire
  <2>1. Head(wire) \in Nat /\ wire' \in Seq(Nat) /\ race' \in [Handle -> Seq(Nat)]
    BY <1>7 DEF EventFromWire
  <2>2. QED
    BY <1>5, <1>7, <2>1 DEF EventFromWire
<1>8. CASE ReplyToEvents
  BY <1>8 DEF ReplyToEvents, freeswitch, handles
<1>9. CASE EventLost
  <2>1. PcOK
    BY <1>1, <1>2, <1>9 DEF EventLost
  <2>2. QED
    BY <1>9, <2>1 DEF EventLost, freeswitch, PcOK
<1>10. QED
  BY <1>3, <1>4, <1>6, <1>7, <1>8, <1>9 DEF EventThreadStep

LEMMA FreeSwitchType ==
  ASSUME LinkTypeOK, Answer \/ SendEvent \/ Lose
  PROVE  LinkTypeOK'
<1> USE DEF LinkTypeOK
<1>1. CASE Answer
  BY <1>1 DEF Answer, handles, Reply
<1>2. CASE SendEvent
  <2>1. sent' \in 0..MaxEvents /\ sent' \in Nat
    BY <1>2, MaxEventsAssumption DEF SendEvent
  <2>2. QED
    BY <1>2, <2>1 DEF SendEvent, handles
<1>3. CASE Lose
  <2>1. wire' \in Seq(Nat)
    BY <1>3, SubSeqProperties DEF Lose
  <2>2. QED
    BY <1>3, <2>1 DEF Lose, handles
<1>4. QED
  BY <1>1, <1>2, <1>3

LEMMA LinkTypeStep ==
  ASSUME LinkTypeOK, OneReader, [Next]_vars
  PROVE  LinkTypeOK'
<1>1. CASE Next
  <2>1. CASE Connect \/ StarterStep
    BY <2>1, StarterType, SendRecvType DEF StarterStep
  <2>2. CASE \E s \in Session : Request(s) \/ CallStep(s)
    BY <2>2, RequestType, SendRecvType DEF CallStep
  <2>3. QED
    BY <1>1, <2>1, <2>2, EventThreadType, FreeSwitchType DEF Next
<1>2. CASE UNCHANGED vars
  BY <1>2 DEF LinkTypeOK, vars, freeswitch, handles
<1>3. QED
  BY <1>1, <1>2

-----------------------------------------------------------------------------
\* The order of the start-up thread's steps, and the end of a request.
LEMMA NextStepIs ==
  /\ NextStep("subscribe") = "copy" /\ NextStep("copying") = "version"
  /\ NextStep("version") = "originate" /\ NextStep("originate") = "serving"
  /\ \A op \in Ops : NextStep(op) = "idle"
BY LinkOpsAssumption DEF NextStep

LEMMA HeadOfAppend ==
  ASSUME NEW w \in Seq(Nat), w # <<>>, NEW e \in Nat
  PROVE  Append(w, e) # <<>> /\ Head(Append(w, e)) = Head(w)
OBVIOUS

LEMMA HeadOfPrefix ==
  ASSUME NEW w \in Seq(Nat), NEW n \in 0..Len(w), SubSeq(w, 1, n) # <<>>
  PROVE  w # <<>> /\ Head(SubSeq(w, 1, n)) = Head(w)
<1>1. n # 0
  BY SubSeqProperties
<1>2. Len(SubSeq(w, 1, n)) = n /\ SubSeq(w, 1, n)[1] = w[1]
  BY <1>1, SubSeqProperties
<1>3. QED
  BY <1>1, <1>2, HeadTailProperties, SubSeqProperties

\* What is not a command of the start-up thread or a session leaves the
\* sockets' readers as they are.
LEMMA StarterInductive ==
  ASSUME LinkInductive, Connect \/ Spawn \/ CopyBegins \/ SetHandle
  PROVE  (OneReader /\ HandleUnset /\ SubscriptionFirst)'
<1> USE DEF LinkInductive
<1>1. CASE Connect
  <2>1. pc' = [pc EXCEPT ![Starter] = "spawn"] /\ pc[Starter] = "connect"
    BY <1>1 DEF Connect
  <2>2. /\ UNCHANGED <<wire, cmds, subscribed, lock, race, io>> /\ link' = "up"
        /\ connected'["m_handle"] = connected["m_handle"]
    BY <1>1 DEF Connect, LinkTypeOK, Handle
  <2>3. OneReader'
    BY <2>1, <2>2, Threads DEF OneReader, LinkTypeOK
  <2>4. HandleUnset'
    BY <2>1, <2>2, Threads DEF HandleUnset, LinkTypeOK
  <2>5. SubscriptionFirst'
    BY <2>1, <2>2, Threads DEF SubscriptionFirst, NothingAsked, LinkTypeOK
  <2>6. QED
    BY <2>3, <2>4, <2>5
<1>2. CASE Spawn
  <2>1. /\ pc' = [pc EXCEPT ![Starter] = "subscribe", ![EventThread] = "poll"]
        /\ pc[Starter] = "spawn"
        /\ UNCHANGED <<link, wire, cmds, subscribed, lock, race, io, connected>>
    BY <1>2 DEF Spawn, freeswitch, handles
  <2>2. io[EventThread] = "none" /\ io[Starter] = "none" /\ NothingAsked
    BY <2>1, Threads DEF OneReader, SubscriptionFirst, LinkTypeOK, EventPc
  <2>3. OneReader'
    BY <2>1, <2>2, Threads DEF OneReader, LinkTypeOK
  <2>4. HandleUnset'
    BY <2>1, Threads DEF HandleUnset, LinkTypeOK
  <2>5. SubscriptionFirst'
    BY <2>1, <2>2, Threads DEF SubscriptionFirst, NothingAsked, LinkTypeOK
  <2>6. QED
    BY <2>3, <2>4, <2>5
<1>3. CASE CopyBegins
  <2>1. /\ pc' = [pc EXCEPT ![Starter] = "copying"] /\ pc[Starter] = "copy"
        /\ UNCHANGED <<link, wire, cmds, subscribed, lock, race, io, connected>>
    BY <1>3 DEF CopyBegins, freeswitch, handles
  <2>2. io[Starter] = "none"
    BY <2>1, Threads DEF OneReader
  <2>3. OneReader'
    BY <2>1, <2>2, Threads DEF OneReader, LinkTypeOK
  <2>4. HandleUnset'
    BY <2>1, Threads DEF HandleUnset, LinkTypeOK
  <2>5. SubscriptionFirst'
    BY <2>1, Threads DEF SubscriptionFirst, LinkTypeOK
  <2>6. QED
    BY <2>3, <2>4, <2>5
<1>4. CASE SetHandle
  <2>1. /\ pc' = [pc EXCEPT ![Starter] = "version"] /\ pc[Starter] = "copying"
        /\ io' = [io EXCEPT ![Starter] = "none"]
        /\ UNCHANGED <<link, wire, cmds, subscribed, lock>>
    BY <1>4, NextStepIs DEF SetHandle, Done, freeswitch
  <2>2. OneReader'
    BY <2>1, Threads DEF OneReader, LinkTypeOK
  <2>3. HandleUnset' /\ SubscriptionFirst'
    BY <2>1, Threads DEF HandleUnset, SubscriptionFirst, LinkTypeOK
  <2>4. QED
    BY <2>2, <2>3
<1>5. QED
  BY <1>1, <1>2, <1>3, <1>4

LEMMA RequestInductive ==
  ASSUME LinkInductive, NEW s \in Session, Request(s) \/ NoCommand(s) \/ TornHandle(s)
  PROVE  (OneReader /\ HandleUnset /\ SubscriptionFirst)'
<1> USE DEF LinkInductive
<1>1. \E l \in {"idle"} \cup Ops : pc' = [pc EXCEPT ![s] = l]
  <2>1. CASE Request(s)
    BY <2>1 DEF Request
  <2>2. CASE NoCommand(s) \/ TornHandle(s)
    <3>1. pc' = [pc EXCEPT ![s] = NextStep(pc[s])]
      BY <2>2 DEF NoCommand, TornHandle, Done
    <3>2. pc[s] \in Ops
      BY <2>2, LinkOpsAssumption DEF NoCommand, TornHandle, LinkTypeOK
    <3>3. QED
      BY <3>1, <3>2, NextStepIs
  <2>3. QED
    BY <2>1, <2>2
<1>2. UNCHANGED <<link, wire, cmds, subscribed, lock, race, connected>>
  BY DEF Request, NoCommand, TornHandle, freeswitch, handles
<1>3. io[s] = "none" /\ io' = io
  <2>1. CASE Request(s)
    BY <2>1, Threads DEF Request, OneReader, LinkTypeOK
  <2>2. CASE NoCommand(s)
    <3>1. io[s] = "none"
      BY <2>2, Threads DEF NoCommand, OneReader, LinkTypeOK
    <3>2. QED
      BY <2>2, <3>1, Threads DEF NoCommand, Done, LinkTypeOK
  <2>3. CASE TornHandle(s)
    BY <2>3, Threads DEF TornHandle, Done, LinkTypeOK
  <2>4. QED
    BY <2>1, <2>2, <2>3
<1>4. /\ pc'[Starter] = pc[Starter] /\ pc'[EventThread] = pc[EventThread]
      /\ \A t \in LinkThread : io[t] # "none" => pc'[t] = pc[t]
  BY <1>1, <1>3, Threads DEF LinkTypeOK
<1>5. OneReader'
  BY <1>2, <1>3, <1>4 DEF OneReader
<1>6. HandleUnset'
  BY <1>2, <1>3, <1>4 DEF HandleUnset
<1>7. SubscriptionFirst'
  BY <1>2, <1>3, <1>4 DEF SubscriptionFirst, NothingAsked
<1>8. QED
  BY <1>5, <1>6, <1>7

\* esl_send_recv() in thread t.  Before setHandle only the start-up thread
\* gets past its first line, and what it reads first is the reply.
LEMMA SendRecvInductive ==
  ASSUME LinkInductive, NEW t \in Session \cup {Starter}, SendRecvStep(t)
  PROVE  (OneReader /\ HandleUnset /\ SubscriptionFirst)'
<1> USE DEF LinkInductive
<1> DEFINE Unset == pc[Starter] \in {"connect", "spawn", "subscribe", "copy", "copying"}
<1>1. /\ t \in LinkThread /\ t # EventThread
      /\ pc[t] \in {"subscribe", "version", "originate", "makecall"}
      /\ t = Starter => pc[t] \in {"subscribe", "version", "originate"}
      /\ t \in Session => pc[t] \in Ops
  <2>1. pc[t] \in {"subscribe", "version", "originate", "makecall"}
    BY Threads
    DEF SendRecvStep, NotConnected, Send, SendFails, RecvReply, RecvRace, Relock,
        RelockLost, RecvLost, Printed, Sends, OneReader
  <2>2. QED
    BY <2>1, Threads, LinkOpsAssumption DEF LinkTypeOK, StarterPc
<1>2. \/ Done(t)
      \/ pc' = pc /\ \E l \in {"recv", "window", "printing"} : io' = [io EXCEPT ![t] = l]
  BY DEF SendRecvStep, NotConnected, Send, SendFails, RecvReply, RecvRace, Relock,
         RelockLost, RecvLost, Printed, Returns
<1>3. /\ \A u \in LinkThread \ {t} : pc'[u] = pc[u] /\ io'[u] = io[u]
      /\ io'[t] \in {"none", "recv", "window", "printing"}
      /\ pc'[t] = IF io'[t] = "none" THEN NextStep(pc[t]) ELSE pc[t]
  BY <1>1, <1>2 DEF Done, LinkTypeOK
<1>4. OneReader'
  <2>1. \A u \in LinkThread : io'[u] # "none" =>
           pc'[u] \in {"subscribe", "version", "originate", "makecall"}
    BY <1>1, <1>3 DEF OneReader
  <2>2. CASE NotConnected(t) \/ SendFails(t) \/ RelockLost(t) \/ Printed(t)
    <3>1. lock' = lock /\ io'[t] # "recv"
      BY <2>2, <1>1 DEF NotConnected, SendFails, RelockLost, Printed, Returns, handles,
                        Done, LinkTypeOK
    <3>2. QED
      BY <1>1, <1>3, <2>1, <3>1, Threads DEF OneReader
  <2>3. CASE Send(t) \/ Relock(t)
    <3>1. lock = None /\ lock' = t
      BY <2>3 DEF Send, Relock
    <3>2. QED
      BY <1>1, <1>3, <2>1, <3>1, Threads DEF OneReader
  <2>4. CASE RecvReply(t) \/ RecvRace(t) \/ RecvLost(t)
    <3>1. io[t] = "recv" /\ lock' = None /\ io'[t] # "recv"
      BY <2>4, <1>1 DEF RecvReply, RecvRace, RecvLost, Returns, Done, LinkTypeOK
    <3>2. lock = t
      BY <1>1, <3>1 DEF OneReader
    <3>3. QED
      BY <1>1, <1>3, <2>1, <3>1, <3>2, Threads DEF OneReader
  <2>5. QED
    BY <2>2, <2>3, <2>4 DEF SendRecvStep
\* Before setHandle.
<1>5. ASSUME Unset, t \in Session  PROVE  NotConnected(t) \/ Printed(t)
  <2>1. io[t] \in {"none", "printing"} /\ ~connected[HandleOf(t)]
    BY <1>5 DEF HandleUnset, HandleOf
  <2>2. QED
    BY <2>1 DEF SendRecvStep, Send, SendFails, RecvReply, RecvRace, Relock,
                RelockLost, RecvLost
<1>6. Unset' => Unset
  <2>1. CASE t = Starter
    BY <1>1, <1>3, <2>1, NextStepIs
  <2>2. CASE t \in Session
    BY <1>3, <2>2, Threads
  <2>3. QED
    BY <2>1, <2>2
<1>7. ASSUME Unset, t = Starter
      PROVE  /\ pc[t] = "subscribe"
             /\ ~RecvRace(t) /\ ~Relock(t) /\ ~RelockLost(t) /\ ~Printed(t)
  <2>1. pc[t] = "subscribe"
    BY <1>1, <1>7
  <2>2. QED
    BY <1>7, <2>1 DEF SubscriptionFirst, RecvRace, Relock, RelockLost, Printed
<1>8. HandleUnset'
  <2>1. SUFFICES ASSUME Unset, Unset'
                 PROVE  /\ ~connected'["m_handle"]
                        /\ race'["handle"] = <<>> /\ race'["m_handle"] = <<>>
                        /\ \A s \in Session : io'[s] \in {"none", "printing"}
    BY <1>6 DEF HandleUnset
  <2>2. /\ ~connected["m_handle"] /\ race["handle"] = <<>> /\ race["m_handle"] = <<>>
        /\ \A s \in Session : io[s] \in {"none", "printing"}
    BY <2>1 DEF HandleUnset
  <2>3. CASE t \in Session
    <3>1. NotConnected(t) \/ Printed(t)
      BY <1>5, <2>1, <2>3
    <3>2. UNCHANGED <<connected, race>> /\ io'[t] \in {"none", "printing"}
      BY <1>1, <3>1 DEF NotConnected, Printed, Returns, handles, Done, LinkTypeOK
    <3>3. QED
      BY <1>3, <2>2, <3>2, Threads
  <2>4. CASE t = Starter
    <3>1. NotConnected(t) \/ Send(t) \/ SendFails(t) \/ RecvReply(t) \/ RecvLost(t)
      BY <1>7, <2>1, <2>4 DEF SendRecvStep
    <3>2. race' = race
      BY <3>1 DEF NotConnected, Send, SendFails, RecvReply, RecvLost, handles
    <3>3. connected' \in {connected, [connected EXCEPT ![HandleOf(t)] = FALSE]}
      BY <3>1 DEF NotConnected, Send, SendFails, RecvReply, RecvLost, handles
    <3>4. ~connected'["m_handle"]
      BY <2>2, <3>3, HandleOfType DEF LinkTypeOK, Handle
    <3>5. QED
      BY <1>3, <2>2, <2>4, <3>2, <3>4, Threads
  <2>5. QED
    BY <2>3, <2>4
<1>9. SubscriptionFirst'
  <2>1. link' = link /\ subscribed' = subscribed
    BY DEF SendRecvStep, NotConnected, Send, SendFails, RecvReply, RecvRace, Relock,
           RelockLost, RecvLost, Printed, freeswitch
  <2>2. CASE ~Unset
    <3>1. ~Unset'
      BY <1>6, <2>2
    <3>2. pc[Starter] # "connect" /\ pc'[Starter] \notin {"connect", "spawn", "subscribe"}
      BY <2>2, <3>1
    <3>3. QED
      BY <2>1, <3>2 DEF SubscriptionFirst
  <2>3. CASE Unset /\ t \in Session
    <3>1. UNCHANGED <<wire, cmds>>
      BY <1>5, <2>3 DEF NotConnected, Printed, freeswitch
    <3>2. pc'[Starter] = pc[Starter] /\ io'[Starter] = io[Starter]
      BY <1>3, <2>3, Threads
    <3>3. QED
      BY <2>1, <3>1, <3>2 DEF SubscriptionFirst, NothingAsked
  <2>4. CASE Unset /\ t = Starter
    <3>1. pc[t] = "subscribe" /\ link # "down"
      BY <1>7, <2>4 DEF SubscriptionFirst
    <3>2. CASE Send(t)
      <4>1. io[t] = "none" /\ io'[t] = "recv" /\ pc'[t] = "subscribe"
        BY <1>1, <3>1, <3>2 DEF Send, Sends, LinkTypeOK
      <4>2. NothingAsked
        BY <2>4, <3>1, <4>1 DEF SubscriptionFirst
      <4>3. /\ wire' = <<>>
            /\ link = "up" => cmds' = <<"events">> /\ ~subscribed'
        BY <2>1, <3>1, <3>2, <4>2 DEF Send, Command, NothingAsked
      <4>4. link \in {"up", "lost"}
        BY <3>1 DEF LinkTypeOK
      <4>5. QED
        BY <2>1, <2>4, <4>1, <4>3, <4>4 DEF SubscriptionFirst
    <3>3. CASE NotConnected(t) \/ SendFails(t) \/ RecvReply(t) \/ RecvLost(t)
      <4>1. Done(t)
        BY <3>1, <3>3 DEF NotConnected, SendFails, RecvReply, RecvLost, Returns, Reads
      <4>2. pc'[t] = "copy"
        BY <1>1, <3>1, <4>1, NextStepIs DEF Done, LinkTypeOK
      <4>3. QED
        BY <2>1, <2>4, <3>1, <4>2 DEF SubscriptionFirst
    <3>4. QED
      BY <1>7, <2>4, <3>2, <3>3 DEF SendRecvStep
  <2>5. QED
    BY <2>2, <2>3, <2>4
<1>10. QED
  BY <1>4, <1>8, <1>9

\* Before setHandle the event thread finds nothing it could take.
LEMMA EventThreadInductive ==
  ASSUME LinkInductive, EventThreadStep
  PROVE  (OneReader /\ HandleUnset /\ SubscriptionFirst)'
<1> USE DEF LinkInductive
<1>1. /\ UNCHANGED <<link, cmds, subscribed, io>>
      /\ pc' = pc \/ \E l \in EventPc : pc' = [pc EXCEPT ![EventThread] = l]
  BY DEF EventThreadStep, EventPoll, EventBreak, EventLock, EventFromQueue,
         EventFromWire, Read, ReplyToEvents, EventLost, Handled, EventEnd,
         freeswitch, handles, EventPc
<1>2. /\ pc'[Starter] = pc[Starter]
      /\ \A t \in LinkThread \ {EventThread} : pc'[t] = pc[t]
      /\ io[EventThread] = "none"
  BY <1>1, Threads DEF OneReader, LinkTypeOK, EventPc
<1>3. OneReader'
  <2>1. \A t \in LinkThread : io'[t] # "none" =>
           pc'[t] \in {"subscribe", "version", "originate", "makecall"}
    BY <1>1, <1>2 DEF OneReader
  <2>2. CASE EventPoll \/ EventBreak \/ Handled \/ EventEnd
    <3>1. lock' = lock /\ pc'[EventThread] # "reading"
      BY <2>2, Threads DEF EventPoll, EventBreak, Handled, EventEnd, handles, LinkTypeOK
    <3>2. QED
      BY <1>1, <2>1, <3>1 DEF OneReader
  <2>3. CASE EventLock
    <3>1. lock = None /\ lock' = EventThread
      BY <2>3 DEF EventLock
    <3>2. QED
      BY <1>1, <2>1, <3>1, Threads DEF OneReader
  <2>4. CASE EventFromQueue \/ EventFromWire \/ EventLost
    <3>1. pc[EventThread] = "reading" /\ pc'[EventThread] # "reading" /\ lock' = None
      BY <2>4, Threads DEF EventFromQueue, EventFromWire, EventLost, Read, LinkTypeOK
    <3>2. \A t \in LinkThread : io[t] # "recv"
      BY <1>2, <3>1 DEF OneReader
    <3>3. QED
      BY <1>1, <2>1, <3>1, <3>2 DEF OneReader
  <2>5. CASE ReplyToEvents
    BY <2>5 DEF ReplyToEvents, handles, OneReader
  <2>6. QED
    BY <2>2, <2>3, <2>4, <2>5 DEF EventThreadStep
<1>4. HandleUnset'
  <2>1. connected' \in {connected, [connected EXCEPT !["handle"] = FALSE]}
    BY DEF EventThreadStep, EventPoll, EventBreak, EventLock, EventFromQueue,
           EventFromWire, Read, ReplyToEvents, EventLost, Handled, EventEnd, handles
  <2>2. race' = race \/ race["handle"] # <<>>
    BY DEF EventThreadStep, EventPoll, EventBreak, EventLock, EventFromQueue,
           EventFromWire, Read, ReplyToEvents, EventLost, Handled, EventEnd, handles
  <2>3. connected'["m_handle"] = connected["m_handle"]
    BY <2>1 DEF LinkTypeOK, Handle
  <2>4. QED
    BY <1>1, <1>2, <2>2, <2>3 DEF HandleUnset
<1>5. SubscriptionFirst'
  <2>1. CASE wire' = wire
    BY <1>1, <1>2, <2>1 DEF SubscriptionFirst, NothingAsked
  <2>2. CASE EventFromWire
    <3>1. pc[EventThread] = "reading" /\ wire # <<>>
      BY <2>2 DEF EventFromWire
    <3>2. io[Starter] # "recv"
      BY <3>1, Threads DEF OneReader
    <3>3. pc[Starter] \notin {"connect", "spawn", "subscribe"}
      BY <3>1, <3>2 DEF SubscriptionFirst, NothingAsked
    <3>4. QED
      BY <1>1, <1>2, <3>3 DEF SubscriptionFirst
  <2>3. QED
    BY <2>1, <2>2 DEF EventThreadStep, EventPoll, EventBreak, EventLock, EventFromQueue,
                      ReplyToEvents, EventLost, Handled, EventEnd, freeswitch
<1>6. QED
  BY <1>3, <1>4, <1>5

LEMMA FreeSwitchInductive ==
  ASSUME LinkInductive, Answer \/ SendEvent \/ Lose
  PROVE  (OneReader /\ HandleUnset /\ SubscriptionFirst)'
<1> USE DEF LinkInductive
<1>1. UNCHANGED <<pc, io, lock, connected, race>>
  BY DEF Answer, SendEvent, Lose, handles
<1>2. OneReader' /\ HandleUnset'
  BY <1>1 DEF OneReader, HandleUnset
<1>3. link' # "down"
  BY DEF Answer, SendEvent, Lose
<1>4. CASE Answer
  <2>1. cmds # <<>> /\ wire' = Append(wire, Reply) /\ link' = link
    BY <1>4 DEF Answer
  <2>2. wire' # <<>>
    <3>1. wire \in Seq(Nat) /\ Reply \in Nat
      BY DEF LinkTypeOK, Reply
    <3>2. Append(wire, Reply) # <<>>
      BY <3>1, AppendProperties
    <3>3. QED
      BY <2>1, <3>2
  <2>3. wire = <<>> => Head(wire') = Reply
    <3>1. Append(<<>>, Reply) = <<Reply>>
      OBVIOUS
    <3>2. QED
      BY <2>1, <3>1
  <2>4. wire # <<>> => Head(wire') = Head(wire)
    BY <2>1, HeadOfAppend DEF LinkTypeOK, Reply
  <2>5. SubscriptionFirst'
    BY <1>1, <1>3, <2>1, <2>2, <2>3, <2>4 DEF SubscriptionFirst, NothingAsked
  <2>6. QED
    BY <1>2, <2>5
<1>5. CASE SendEvent
  <2>1. subscribed /\ wire' = Append(wire, sent + 1) /\ link' = link /\ link = "up"
    BY <1>5 DEF SendEvent
  <2>2. wire # <<>> => wire' # <<>> /\ Head(wire') = Head(wire)
    <3>1. wire \in Seq(Nat) /\ sent + 1 \in Nat
      BY MaxEventsAssumption DEF LinkTypeOK
    <3>2. wire # <<>> =>
            Append(wire, sent + 1) # <<>> /\ Head(Append(wire, sent + 1)) = Head(wire)
      BY <3>1, HeadOfAppend
    <3>3. QED
      BY <2>1, <3>2
  <2>3. SubscriptionFirst'
    BY <1>1, <1>3, <2>1, <2>2 DEF SubscriptionFirst, NothingAsked
  <2>4. QED
    BY <1>2, <2>3
<1>6. CASE Lose
  <2>1. PICK n \in 0..Len(wire) : wire' = SubSeq(wire, 1, n)
    BY <1>6 DEF Lose
  <2>2. wire' # <<>> => wire # <<>> /\ Head(wire') = Head(wire)
    BY <2>1, HeadOfPrefix DEF LinkTypeOK
  <2>3. link' = "lost" /\ cmds' = <<>> /\ subscribed' = subscribed
    BY <1>6 DEF Lose
  <2>4. SubscriptionFirst'
    BY <1>1, <2>2, <2>3 DEF SubscriptionFirst, NothingAsked
  <2>5. QED
    BY <1>2, <2>4
<1>7. QED
  BY <1>4, <1>5, <1>6
-----------------------------------------------------------------------------
\* Sequences of packets: what is left when the first is read, when one is
\* sent, and when the connection is lost.
LEMMA FirstRead ==
  ASSUME NEW s \in Seq(Nat), s # <<>>
  PROVE  /\ Head(s) \in Nat /\ Tail(s) \in Seq(Nat)
         /\ ToSet(s) = {Head(s)} \cup ToSet(Tail(s))
         /\ Events(s) = ({Head(s)} \ {Reply}) \cup Events(Tail(s))
         /\ InOrder(s) =>
              /\ InOrder(Tail(s))
              /\ Head(s) # Reply => \A e \in Events(Tail(s)) : Head(s) < e
<1>1. /\ Len(s) \in Nat /\ Len(s) >= 1 /\ DOMAIN s = 1..Len(s) /\ Head(s) = s[1]
      /\ Tail(s) \in Seq(Nat) /\ DOMAIN Tail(s) = 1..(Len(s) - 1) /\ s[1] \in Nat
      /\ \A i \in 1..(Len(s) - 1) : Tail(s)[i] = s[i + 1]
  BY HeadTailProperties, LenProperties, EmptySeq
<1>2. ToSet(s) = {Head(s)} \cup ToSet(Tail(s))
  <2>1. ASSUME NEW i \in DOMAIN s  PROVE s[i] \in {Head(s)} \cup ToSet(Tail(s))
    <3>1. CASE i = 1
      BY <3>1, <1>1
    <3>2. CASE i # 1
      <4>1. i - 1 \in 1..(Len(s) - 1) /\ Tail(s)[i - 1] = s[i]
        BY <3>2, <1>1
      <4>2. QED
        BY <4>1, <1>1 DEF ToSet
    <3>3. QED
      BY <3>1, <3>2
  <2>2. ASSUME NEW i \in DOMAIN Tail(s)  PROVE Tail(s)[i] \in ToSet(s)
    <3>1. i + 1 \in DOMAIN s /\ Tail(s)[i] = s[i + 1]
      BY <1>1
    <3>2. QED
      BY <3>1 DEF ToSet
  <2>3. Head(s) \in ToSet(s)
    <3>1. 1 \in DOMAIN s
      BY <1>1
    <3>2. QED
      BY <1>1, <3>1 DEF ToSet
  <2>4. QED
    BY <2>1, <2>2, <2>3 DEF ToSet
<1>3. ASSUME InOrder(s)
      PROVE  /\ InOrder(Tail(s))
             /\ Head(s) # Reply => \A e \in Events(Tail(s)) : Head(s) < e
  <2>1. ASSUME NEW i \in DOMAIN Tail(s), NEW j \in DOMAIN Tail(s), i < j,
               Reply \notin {Tail(s)[i], Tail(s)[j]}
        PROVE  Tail(s)[i] < Tail(s)[j]
    <3>1. /\ i + 1 \in DOMAIN s /\ j + 1 \in DOMAIN s /\ i + 1 < j + 1
          /\ Tail(s)[i] = s[i + 1] /\ Tail(s)[j] = s[j + 1]
      BY <2>1, <1>1
    <3>2. QED
      BY <2>1, <3>1, <1>3 DEF InOrder
  <2>2. ASSUME Head(s) # Reply, NEW e \in Events(Tail(s))
        PROVE  Head(s) < e
    <3>1. PICK i \in DOMAIN Tail(s) : e = Tail(s)[i] /\ e # Reply
      BY <2>2 DEF Events, ToSet
    <3>2. 1 \in DOMAIN s /\ i + 1 \in DOMAIN s /\ 1 < i + 1 /\ e = s[i + 1] /\ Head(s) = s[1]
      BY <3>1, <1>1
    <3>3. QED
      BY <2>2, <3>1, <3>2, <1>3 DEF InOrder
  <2>3. QED
    BY <2>1, <2>2 DEF InOrder
<1>4. QED
  BY <1>1, <1>2, <1>3 DEF Events

LEMMA LastSent ==
  ASSUME NEW s \in Seq(Nat), NEW e \in Nat
  PROVE  /\ Append(s, e) \in Seq(Nat)
         /\ ToSet(Append(s, e)) = ToSet(s) \cup {e}
         /\ Events(Append(s, e)) = Events(s) \cup ({e} \ {Reply})
         /\ InOrder(s) /\ (e = Reply \/ \A f \in Events(s) : f < e)
              => InOrder(Append(s, e))
<1> DEFINE a == Append(s, e)
<1>1. /\ a \in Seq(Nat) /\ Len(s) \in Nat /\ DOMAIN s = 1..Len(s)
      /\ DOMAIN a = 1..(Len(s) + 1)
      /\ \A i \in 1..Len(s) : a[i] = s[i]
      /\ a[Len(s) + 1] = e
  BY AppendProperties, LenProperties
<1> HIDE DEF a
<1>2. ToSet(a) = ToSet(s) \cup {e}
  <2>1. ASSUME NEW i \in DOMAIN a  PROVE a[i] \in ToSet(s) \cup {e}
    <3>1. i \in 1..Len(s) \/ i = Len(s) + 1
      BY <1>1
    <3>2. QED
      BY <1>1, <3>1 DEF ToSet
  <2>2. ASSUME NEW i \in DOMAIN s  PROVE s[i] \in ToSet(a)
    <3>1. i \in DOMAIN a /\ a[i] = s[i]
      BY <1>1
    <3>2. QED
      BY <3>1 DEF ToSet
  <2>3. e \in ToSet(a)
    <3>1. Len(s) + 1 \in DOMAIN a
      BY <1>1
    <3>2. QED
      BY <1>1, <3>1 DEF ToSet
  <2>4. QED
    BY <2>1, <2>2, <2>3 DEF ToSet
<1>3. ASSUME InOrder(s), e = Reply \/ \A f \in Events(s) : f < e
      PROVE  InOrder(a)
  <2>1. ASSUME NEW i \in DOMAIN a, NEW j \in DOMAIN a, i < j, Reply \notin {a[i], a[j]}
        PROVE  a[i] < a[j]
    <3>1. i \in 1..Len(s) /\ a[i] = s[i] /\ i \in DOMAIN s
      BY <1>1, <2>1
    <3>2. CASE j \in 1..Len(s)
      BY <1>1, <1>3, <2>1, <3>1, <3>2 DEF InOrder
    <3>3. CASE j = Len(s) + 1
      <4>1. a[j] = e /\ e # Reply
        BY <1>1, <2>1, <3>3
      <4>2. a[i] \in Events(s)
        BY <2>1, <3>1 DEF Events, ToSet
      <4>3. QED
        BY <1>3, <4>1, <4>2
    <3>4. QED
      BY <1>1, <3>2, <3>3
  <2>2. QED
    BY <2>1 DEF InOrder
<1>4. QED
  BY <1>1, <1>2, <1>3 DEF a, Events

LEMMA RestLost ==
  ASSUME NEW s \in Seq(Nat), NEW n \in 0..Len(s), InOrder(s)
  PROVE  LET p == SubSeq(s, 1, n)
         IN  /\ p \in Seq(Nat) /\ InOrder(p)
             /\ Events(p) \subseteq Events(s)
             /\ Before(Events(p), Events(s) \ Events(p))
<1> DEFINE p == SubSeq(s, 1, n)
<1>1. /\ p \in Seq(Nat) /\ DOMAIN p = 1..n /\ DOMAIN s = 1..Len(s) /\ n <= Len(s)
      /\ n \in Nat /\ Len(s) \in Nat
      /\ \A i \in 1..n : p[i] = s[i]
  <2>1. Len(s) \in Nat /\ DOMAIN s = 1..Len(s) /\ \A i \in 1..n : s[i] \in Nat
    BY LenProperties, ElementOfSeq
  <2>2. /\ p \in Seq(Nat) /\ Len(p) = IF 1 <= n THEN n - 1 + 1 ELSE 0
        /\ \A i \in 1..(n - 1 + 1) : p[i] = s[1 + i - 1]
    BY <2>1, SubSeqProperties
  <2>3. Len(p) = n /\ DOMAIN p = 1..n
    BY <2>2, LenProperties
  <2>4. \A i \in 1..n : p[i] = s[i]
    BY <2>2
  <2>5. QED
    BY <2>1, <2>2, <2>3, <2>4
<1> HIDE DEF p
<1>2. Events(p) \subseteq Events(s)
  BY <1>1 DEF Events, ToSet
<1>3. InOrder(p)
  BY <1>1 DEF InOrder
<1>4. ASSUME NEW a \in Events(p), NEW b \in Events(s) \ Events(p)
      PROVE  a < b
  <2>1. PICK i \in 1..n : a = s[i] /\ a # Reply
    BY <1>1, <1>4 DEF Events, ToSet
  <2>2. PICK j \in 1..Len(s) : b = s[j] /\ b # Reply
    BY <1>1, <1>4 DEF Events, ToSet
  <2>3. j \notin 1..n
    BY <1>1, <1>4, <2>2 DEF Events, ToSet
  <2>4. i \in DOMAIN s /\ j \in DOMAIN s /\ i < j
    BY <1>1, <2>3
  <2>5. QED
    BY <2>1, <2>2, <2>4 DEF InOrder
<1>5. QED
  BY <1>1, <1>2, <1>3, <1>4 DEF p, Before

\* One sequence behind another.
LEMMA OneBehindOther ==
  ASSUME NEW s \in Seq(Nat), NEW t \in Seq(Nat), InOrder(s), InOrder(t),
         Before(Events(s), Events(t))
  PROVE  s \o t \in Seq(Nat) /\ InOrder(s \o t) /\ Events(s \o t) = Events(s) \cup Events(t)
<1> DEFINE c == s \o t
<1>1. /\ c \in Seq(Nat) /\ Len(s) \in Nat /\ Len(t) \in Nat
      /\ DOMAIN s = 1..Len(s) /\ DOMAIN t = 1..Len(t) /\ DOMAIN c = 1..(Len(s) + Len(t))
      /\ \A i \in 1..(Len(s) + Len(t)) : c[i] = IF i <= Len(s) THEN s[i] ELSE t[i - Len(s)]
  BY ConcatProperties, LenProperties
<1> HIDE DEF c
<1>2. \A i \in 1..Len(s) : i \in DOMAIN c /\ c[i] = s[i]
  BY <1>1
<1>3. ASSUME NEW i \in 1..Len(t)  PROVE Len(s) + i \in DOMAIN c /\ c[Len(s) + i] = t[i]
  <2>1. /\ Len(s) + i \in 1..(Len(s) + Len(t)) /\ ~(Len(s) + i <= Len(s))
        /\ Len(s) + i - Len(s) = i
    BY <1>1
  <2>2. c[Len(s) + i] = t[Len(s) + i - Len(s)]
    BY <1>1, <2>1
  <2>3. QED
    BY <1>1, <2>1, <2>2
<1>4. \A i \in DOMAIN c : \/ i \in 1..Len(s) /\ c[i] = s[i]
                          \/ i - Len(s) \in 1..Len(t) /\ c[i] = t[i - Len(s)]
  BY <1>1
<1>5. ToSet(c) = ToSet(s) \cup ToSet(t)
  <2>1. \A i \in DOMAIN c : c[i] \in ToSet(s) \cup ToSet(t)
    BY <1>1, <1>4 DEF ToSet
  <2>2. \A i \in DOMAIN s : s[i] \in ToSet(c)
    BY <1>1, <1>2 DEF ToSet
  <2>3. \A i \in DOMAIN t : t[i] \in ToSet(c)
    BY <1>1, <1>3 DEF ToSet
  <2>4. QED
    BY <2>1, <2>2, <2>3 DEF ToSet
<1>6. ASSUME NEW i \in DOMAIN c, NEW j \in DOMAIN c, i < j, Reply \notin {c[i], c[j]}
      PROVE  c[i] < c[j]
  <2>1. CASE j \in 1..Len(s)
    <3>1. i \in DOMAIN s /\ j \in DOMAIN s /\ c[i] = s[i] /\ c[j] = s[j]
      BY <1>1, <1>2, <1>6, <2>1
    <3>2. QED
      BY <1>6, <3>1 DEF InOrder
  <2>2. CASE j \notin 1..Len(s) /\ i \in 1..Len(s)
    <3>1. c[i] = s[i] /\ i \in DOMAIN s
      BY <1>1, <1>2, <2>2
    <3>2. c[j] = t[j - Len(s)] /\ j - Len(s) \in DOMAIN t
      BY <1>1, <1>4, <2>2
    <3>3. c[i] \in Events(s) /\ c[j] \in Events(t)
      BY <1>6, <3>1, <3>2 DEF Events, ToSet
    <3>4. QED
      BY <3>3 DEF Before
  <2>3. CASE i \notin 1..Len(s)
    <3>1. /\ i - Len(s) \in DOMAIN t /\ c[i] = t[i - Len(s)]
          /\ j - Len(s) \in DOMAIN t /\ c[j] = t[j - Len(s)]
          /\ i - Len(s) < j - Len(s)
      BY <1>1, <1>4, <1>6, <2>3
    <3>2. QED
      BY <1>6, <3>1 DEF InOrder
  <2>4. QED
    BY <2>1, <2>2, <2>3
<1>7. QED
  BY <1>1, <1>5, <1>6 DEF c, InOrder, Events
-----------------------------------------------------------------------------
\* Where the events are, after each step that moves them.
LEMMA EventsMoved ==
  ASSUME LinkTypeOK, EventOrder, UNCHANGED <<handled, race, wire, sent>>,
         link' # "lost" => link # "lost"
  PROVE  EventOrder'
BY DEF EventOrder

\* A reply leaves the events where they are.
LEMMA ReplyRead ==
  ASSUME LinkTypeOK, EventOrder, wire # <<>>, Head(wire) = Reply, wire' = Tail(wire),
         UNCHANGED <<handled, race, sent, link>>
  PROVE  EventOrder'
<1>1. InOrder(wire') /\ Events(wire') = Events(wire)
  BY FirstRead DEF LinkTypeOK, EventOrder, Events
<1>2. QED
  BY <1>1 DEF EventOrder

\* What a thread that waits for a reply reads first goes to the end of a queue,
\* and is younger than all that is in it.
LEMMA EventQueued ==
  ASSUME LinkTypeOK, EventOrder, wire # <<>>, Head(wire) # Reply, wire' = Tail(wire),
         NEW h \in Handle, race' = [race EXCEPT ![h] = Append(@, Head(wire))],
         UNCHANGED <<handled, sent, link>>
  PROVE  EventOrder'
<1> DEFINE e == Head(wire)
           queued == ToSet(race["handle"])
           taken == ToSet(race["m_handle"])
<1>1. /\ e \in Nat /\ e # Reply /\ InOrder(wire')
      /\ Events(wire) = {e} \cup Events(wire')
      /\ \A f \in Events(wire') : e < f
  BY FirstRead DEF LinkTypeOK, EventOrder
<1>2. /\ InOrder(handled) /\ InOrder(race["handle"])
      /\ Before(ToSet(handled), queued)
      /\ Before(ToSet(handled) \cup queued \cup taken, Events(wire))
      /\ taken \cap (ToSet(handled) \cup queued) = {}
      /\ ToSet(handled) \cup queued \cup taken \cup Events(wire) \subseteq 1..sent
      /\ link # "lost" => 1..sent \subseteq ToSet(handled) \cup queued \cup taken \cup Events(wire)
  BY DEF EventOrder
<1>3. /\ \A a \in ToSet(handled) \cup queued \cup taken : a < e
      /\ sent \in Nat /\ ToSet(handled) \cup queued \cup taken \subseteq Nat
      /\ \A a \in ToSet(handled) \cup queued \cup taken : ~(a = e)
  <2>1. e \in Events(wire) /\ sent \in Nat
    BY <1>1, MaxEventsAssumption DEF LinkTypeOK
  <2>2. \A a \in ToSet(handled) \cup queued \cup taken : a < e /\ a \in Nat
    BY <1>2, <2>1 DEF Before
  <2>3. QED
    BY <1>1, <2>1, <2>2
<1>4. /\ InOrder(Append(race["handle"], e))
      /\ ToSet(Append(race["handle"], e)) = queued \cup {e}
      /\ ToSet(Append(race["m_handle"], e)) = taken \cup {e}
  <2>1. race["handle"] \in Seq(Nat) /\ race["m_handle"] \in Seq(Nat)
    BY DEF LinkTypeOK, Handle
  <2>2. \A f \in Events(race["handle"]) : f < e
    BY <1>3 DEF Events
  <2>3. QED
    BY <1>1, <1>2, <2>1, <2>2, LastSent
<1> HIDE DEF e
<1>5. CASE h = "handle"
  <2>1. /\ race'["handle"] = Append(race["handle"], e)
        /\ race'["m_handle"] = race["m_handle"]
    BY <1>5 DEF LinkTypeOK, Handle, e
  <2>2. InOrder(race'["handle"]) /\ ToSet(race'["handle"]) = queued \cup {e}
        /\ ToSet(race'["m_handle"]) = taken
    BY <1>4, <2>1
  <2> HIDE DEF queued, taken
  <2>3. Before(ToSet(handled), queued \cup {e})
    BY <1>2, <1>3 DEF Before
  <2>4. Before(ToSet(handled) \cup queued \cup {e} \cup taken, Events(wire'))
    BY <1>1, <1>2 DEF Before
  <2>5. taken \cap (ToSet(handled) \cup queued \cup {e}) = {}
    BY <1>2, <1>3
  <2>6. ToSet(handled) \cup queued \cup {e} \cup taken \cup Events(wire') =
          ToSet(handled) \cup queued \cup taken \cup Events(wire)
    BY <1>1
  <2>7. QED
    BY <1>1, <1>2, <2>2, <2>3, <2>4, <2>5, <2>6 DEF EventOrder
<1>6. CASE h = "m_handle"
  <2>1. /\ race'["m_handle"] = Append(race["m_handle"], e)
        /\ race'["handle"] = race["handle"]
    BY <1>6 DEF LinkTypeOK, Handle, e
  <2>2. InOrder(race'["handle"]) /\ ToSet(race'["handle"]) = queued
        /\ ToSet(race'["m_handle"]) = taken \cup {e}
    BY <1>2, <1>4, <2>1
  <2> HIDE DEF queued, taken
  <2>3. Before(ToSet(handled), queued)
    BY <1>2
  <2>4. Before(ToSet(handled) \cup queued \cup taken \cup {e}, Events(wire'))
    BY <1>1, <1>2 DEF Before
  <2>5. (taken \cup {e}) \cap (ToSet(handled) \cup queued) = {}
    BY <1>2, <1>3
  <2>6. ToSet(handled) \cup queued \cup taken \cup {e} \cup Events(wire') =
          ToSet(handled) \cup queued \cup taken \cup Events(wire)
    BY <1>1
  <2>7. QED
    BY <1>1, <1>2, <2>2, <2>3, <2>4, <2>5, <2>6 DEF EventOrder
<1>7. QED
  BY <1>5, <1>6 DEF Handle

\* The event thread takes the oldest event that is left to it.
LEMMA QueuedHandled ==
  ASSUME LinkTypeOK, EventOrder, race["handle"] # <<>>,
         handled' = Append(handled, Head(race["handle"])),
         race' = [race EXCEPT !["handle"] = Tail(@)],
         UNCHANGED <<wire, sent, link>>
  PROVE  EventOrder'
<1> DEFINE e == Head(race["handle"])
           done == ToSet(handled)
           queued == ToSet(race["handle"])
           taken == ToSet(race["m_handle"])
           rest == ToSet(race'["handle"])
<1>1. /\ InOrder(handled) /\ InOrder(race["handle"]) /\ InOrder(wire)
      /\ Before(done, queued) /\ Before(done \cup queued \cup taken, Events(wire))
      /\ taken \cap (done \cup queued) = {}
      /\ done \cup queued \cup taken \cup Events(wire) \subseteq 1..sent
      /\ link # "lost" => 1..sent \subseteq done \cup queued \cup taken \cup Events(wire)
  BY DEF EventOrder
<1>2. /\ race["handle"] \in Seq(Nat) /\ race'["handle"] = Tail(race["handle"])
      /\ race'["m_handle"] = race["m_handle"]
  BY DEF LinkTypeOK, Handle
<1>3. /\ e \in Nat /\ queued = {e} \cup rest /\ InOrder(race'["handle"])
      /\ e # Reply => \A f \in Events(race'["handle"]) : e < f
  BY <1>1, <1>2, FirstRead
<1>4. e # Reply /\ Events(race'["handle"]) = rest
  BY <1>1, <1>3 DEF Events, Reply
<1>5. \A f \in done : f < e
  BY <1>1, <1>3 DEF Before
<1>6. InOrder(handled') /\ ToSet(handled') = done \cup {e}
  <2>1. handled \in Seq(Nat) /\ \A f \in Events(handled) : f < e
    BY <1>5 DEF LinkTypeOK, Events
  <2>2. QED
    BY <1>1, <1>3, <2>1, LastSent
<1> HIDE DEF e, done, queued, taken, rest
<1>7. /\ Before(done \cup {e}, rest)
      /\ Before(done \cup {e} \cup rest \cup taken, Events(wire))
  BY <1>1, <1>3, <1>4 DEF Before
<1>8. /\ taken \cap (done \cup {e} \cup rest) = {}
      /\ done \cup {e} \cup rest \cup taken \cup Events(wire) =
           done \cup queued \cup taken \cup Events(wire)
  BY <1>1, <1>3
<1>9. ToSet(race'["handle"]) = rest /\ ToSet(race'["m_handle"]) = taken
  BY <1>2 DEF rest, taken
<1>10. QED
  BY <1>1, <1>3, <1>6, <1>7, <1>8, <1>9 DEF EventOrder

LEMMA ReadHandled ==
  ASSUME LinkTypeOK, EventOrder, race["handle"] = <<>>, wire # <<>>, Head(wire) # Reply,
         handled' = Append(handled, Head(wire)), wire' = Tail(wire),
         UNCHANGED <<race, sent, link>>
  PROVE  EventOrder'
<1> DEFINE e == Head(wire)
           done == ToSet(handled)
           queued == ToSet(race["handle"])
           taken == ToSet(race["m_handle"])
<1>1. /\ InOrder(handled) /\ InOrder(race["handle"]) /\ InOrder(wire)
      /\ Before(done \cup queued \cup taken, Events(wire))
      /\ taken \cap (done \cup queued) = {}
      /\ done \cup queued \cup taken \cup Events(wire) \subseteq 1..sent
      /\ link # "lost" => 1..sent \subseteq done \cup queued \cup taken \cup Events(wire)
  BY DEF EventOrder
<1>2. queued = {}
  BY DEF ToSet
<1>3. /\ e \in Nat /\ e # Reply /\ InOrder(wire')
      /\ Events(wire) = {e} \cup Events(wire')
      /\ \A f \in Events(wire') : e < f
  BY <1>1, FirstRead DEF LinkTypeOK
<1>4. \A f \in done \cup taken : f < e /\ f \in Nat
  <2>1. e \in Events(wire) /\ sent \in Nat
    BY <1>3, MaxEventsAssumption DEF LinkTypeOK
  <2>2. QED
    BY <1>1, <2>1 DEF Before
<1>5. InOrder(handled') /\ ToSet(handled') = done \cup {e}
  <2>1. handled \in Seq(Nat) /\ \A f \in Events(handled) : f < e
    BY <1>4 DEF LinkTypeOK, Events
  <2>2. QED
    BY <1>1, <1>3, <2>1, LastSent
<1> HIDE DEF e, done, queued, taken
<1>6. /\ Before(done \cup {e}, queued)
      /\ Before(done \cup {e} \cup queued \cup taken, Events(wire'))
  BY <1>1, <1>2, <1>3, <1>4 DEF Before
<1>7. /\ taken \cap (done \cup {e} \cup queued) = {}
      /\ done \cup {e} \cup queued \cup taken \cup Events(wire') =
           done \cup queued \cup taken \cup Events(wire)
  BY <1>1, <1>3, <1>4
<1>8. ToSet(race'["handle"]) = queued /\ ToSet(race'["m_handle"]) = taken
  BY DEF queued, taken
<1>9. /\ done \cup {e} \cup queued \cup taken \cup Events(wire') \subseteq 1..sent'
      /\ link' # "lost" =>
           1..sent' \subseteq done \cup {e} \cup queued \cup taken \cup Events(wire')
  BY <1>1, <1>7
<1>10. InOrder(race'["handle"]) /\ InOrder(wire')
  BY <1>1, <1>3
<1>11. QED
  BY <1>5, <1>6, <1>7, <1>8, <1>9, <1>10 DEF EventOrder

\* FreeSWITCH sends, and the connection is lost.
LEMMA FreeSwitchOrder ==
  ASSUME LinkTypeOK, EventOrder, Answer \/ SendEvent \/ Lose
  PROVE  EventOrder'
<1>1. UNCHANGED <<handled, race>> /\ wire \in Seq(Nat) /\ sent \in Nat
  BY MaxEventsAssumption DEF Answer, SendEvent, Lose, handles, LinkTypeOK
<1> DEFINE read == ToSet(handled) \cup ToSet(race["handle"]) \cup ToSet(race["m_handle"])
<1>2. /\ InOrder(wire) /\ Before(read, Events(wire))
      /\ read \cup Events(wire) \subseteq 1..sent
      /\ link # "lost" => 1..sent \subseteq read \cup Events(wire)
  BY DEF EventOrder
<1>3. SUFFICES /\ InOrder(wire') /\ Before(read, Events(wire'))
               /\ read \cup Events(wire') \subseteq 1..sent'
               /\ link' # "lost" => 1..sent' \subseteq read \cup Events(wire')
  BY <1>1, <1>3 DEF EventOrder
<1>4. CASE Answer
  <2>1. wire' = Append(wire, Reply) /\ UNCHANGED <<sent, link>> /\ Reply \in Nat
    BY <1>4 DEF Answer, Reply
  <2>2. InOrder(wire') /\ Events(wire') = Events(wire) \cup ({Reply} \ {Reply})
    BY <1>1, <1>2, <2>1, LastSent
  <2> HIDE DEF read
  <2>3. Events(wire') = Events(wire)
    BY <2>2
  <2>4. QED
    BY <1>2, <2>1, <2>2, <2>3
<1>5. CASE SendEvent
  <2>1. wire' = Append(wire, sent + 1) /\ sent' = sent + 1 /\ link' = link /\ sent + 1 \in Nat
    BY <1>1, <1>5 DEF SendEvent
  <2>2. sent + 1 # Reply /\ \A f \in read \cup Events(wire) : f < sent + 1
    BY <1>1, <1>2 DEF Reply
  <2>3. InOrder(wire') /\ Events(wire') = Events(wire) \cup {sent + 1}
    BY <1>1, <1>2, <2>1, <2>2, LastSent
  <2> HIDE DEF read
  <2>4. Before(read, Events(wire'))
    BY <1>2, <2>2, <2>3 DEF Before
  <2>5. 1..sent' = 1..sent \cup {sent + 1}
    BY <1>1, <2>1
  <2>6. QED
    BY <1>2, <1>5, <2>1, <2>3, <2>4, <2>5 DEF SendEvent
<1>6. CASE Lose
  <2>1. PICK n \in 0..Len(wire) : wire' = SubSeq(wire, 1, n)
    BY <1>6 DEF Lose
  <2>2. InOrder(wire') /\ Events(wire') \subseteq Events(wire)
    BY <1>1, <1>2, <2>1, RestLost
  <2>3. Before(read, Events(wire'))
    BY <1>2, <2>2 DEF Before
  <2>4. link' = "lost" /\ sent' = sent
    BY <1>6 DEF Lose
  <2>5. QED
    BY <1>2, <2>2, <2>3, <2>4
<1>7. QED
  BY <1>4, <1>5, <1>6

\* A thread in esl_send_recv.
LEMMA SendRecvOrder ==
  ASSUME LinkTypeOK, EventOrder, NEW t \in LinkThread, SendRecvStep(t)
  PROVE  EventOrder'
<1>1. UNCHANGED <<handled, sent, link>>
  BY DEF SendRecvStep, NotConnected, Send, SendFails, RecvReply, RecvRace, Relock,
         RelockLost, RecvLost, Printed, freeswitch
<1>2. CASE RecvReply(t)
  BY <1>1, <1>2, ReplyRead DEF RecvReply
<1>3. CASE RecvRace(t)
  <2>1. HandleOf(t) \in Handle
    BY HandleOfType
  <2>2. /\ wire # <<>> /\ Head(wire) # Reply /\ wire' = Tail(wire)
        /\ race' = [race EXCEPT ![HandleOf(t)] = Append(@, Head(wire))]
    BY <1>3 DEF RecvRace
  <2>3. QED
    BY <1>1, <2>1, <2>2, EventQueued
<1>4. CASE \/ NotConnected(t) \/ Send(t) \/ SendFails(t) \/ Relock(t) \/ RelockLost(t)
           \/ RecvLost(t) \/ Printed(t)
  <2>1. UNCHANGED <<race, wire>>
    BY <1>4 DEF NotConnected, Send, SendFails, Relock, RelockLost, RecvLost, Printed,
                freeswitch, handles
  <2>2. QED
    BY <1>1, <2>1, EventsMoved
<1>5. QED
  BY <1>2, <1>3, <1>4 DEF SendRecvStep

LEMMA EventThreadOrder ==
  ASSUME LinkTypeOK, EventOrder, EventThreadStep
  PROVE  EventOrder'
<1>1. CASE EventFromQueue
  BY <1>1, QueuedHandled DEF EventFromQueue, Read
<1>2. CASE EventFromWire
  BY <1>2, ReadHandled DEF EventFromWire, Read
<1>3. CASE EventPoll \/ EventBreak \/ EventLock \/ ReplyToEvents \/ EventLost \/ Handled \/ EventEnd
  <2>1. UNCHANGED <<handled, race, wire, sent, link>>
    BY <1>3 DEF EventPoll, EventBreak, EventLock, ReplyToEvents, EventLost, Handled,
                EventEnd, freeswitch, handles
  <2>2. QED
    BY <2>1, EventsMoved
<1>4. QED
  BY <1>1, <1>2, <1>3 DEF EventThreadStep

\* The start-up thread and the requests; the copy is one of an empty queue.
LEMMA OtherOrder ==
  ASSUME LinkTypeOK, HandleUnset, EventOrder,
         \/ Connect \/ Spawn \/ CopyBegins \/ SetHandle
         \/ \E s \in Session : Request(s) \/ NoCommand(s) \/ TornHandle(s)
  PROVE  EventOrder'
<1>1. UNCHANGED <<handled, wire, sent>> /\ (link' # "lost" => link # "lost")
  BY DEF Connect, Spawn, CopyBegins, SetHandle, Request, NoCommand, TornHandle,
         freeswitch, handles
<1>2. race' = race
  <2>1. CASE SetHandle
    <3>1. race["handle"] = <<>> /\ race["m_handle"] = <<>>
      BY <2>1 DEF SetHandle, HandleUnset
    <3>2. QED
      BY <2>1, <3>1 DEF SetHandle, LinkTypeOK
  <2>2. CASE Connect \/ Spawn \/ CopyBegins
             \/ \E s \in Session : Request(s) \/ NoCommand(s) \/ TornHandle(s)
    BY <2>2 DEF Connect, Spawn, CopyBegins, Request, NoCommand, TornHandle,
                freeswitch, handles
  <2>3. QED
    BY <2>1, <2>2
<1>3. QED
  BY <1>1, <1>2, EventsMoved
-----------------------------------------------------------------------------
LEMMA LinkInit == Init => LinkInductive
<1> SUFFICES ASSUME Init PROVE LinkInductive
  OBVIOUS
<1>1. pc \in [LinkThread -> StarterPc \cup EventPc \cup {"idle"} \cup Ops]
  BY DEF Init, StarterPc, EventPc
<1>2. /\ pc[Starter] = "connect" /\ pc[EventThread] = "none"
      /\ \A s \in Session : pc[s] = "idle"
  BY Threads DEF Init
<1>3. LinkTypeOK
  <2>1. owns \in [Handle -> [Pointer -> {"null", "own", "shared", "freed"}]]
    BY DEF Init
  <2>2. wire \in Seq(Nat) /\ handled \in Seq(Nat) /\ race \in [Handle -> Seq(Nat)]
        /\ cmds \in Seq({"events", "version", "originate", "uuid_answer"})
    BY DEF Init
  <2>3. /\ pc[Starter] \in StarterPc /\ pc[EventThread] \in EventPc
        /\ \A s \in Session : pc[s] \in {"idle"} \cup Ops
    BY <1>2 DEF StarterPc, EventPc
  <2>4. sent \in 0..MaxEvents
    BY MaxEventsAssumption DEF Init
  <2>5. QED
    BY <1>1, <2>1, <2>2, <2>3, <2>4 DEF Init, LinkTypeOK
<1>4. OneReader /\ HandleUnset /\ SubscriptionFirst
  BY <1>2, Threads DEF Init, OneReader, HandleUnset, SubscriptionFirst, NothingAsked, Handle
<1>5. EventOrder
  <2>1. /\ handled = <<>> /\ race["handle"] = <<>> /\ race["m_handle"] = <<>>
        /\ wire = <<>> /\ sent = 0
    BY DEF Init, Handle
  <2>2. ToSet(<<>>) = {} /\ Events(<<>>) = {} /\ InOrder(<<>>) /\ 1..0 = {}
    BY DEF ToSet, Events, InOrder
  <2>3. QED
    BY <2>1, <2>2 DEF EventOrder, Before
<1>6. EventInHand
  BY <1>2, Threads DEF EventInHand
<1>7. HandlesApart
  BY DEF Init, HandlesApart, Handle, Pointer
<1>8. QED
  BY <1>3, <1>4, <1>5, <1>6, <1>7 DEF LinkInductive

\* Only the event thread moves itself and reads for itself.
LEMMA SendRecvLeavesEvents ==
  ASSUME LinkTypeOK, NEW t \in LinkThread, t # EventThread, SendRecvStep(t)
  PROVE  handled' = handled /\ pc'[EventThread] = pc[EventThread]
<1>1. handled' = handled
  BY DEF SendRecvStep, NotConnected, Send, SendFails, RecvReply, RecvRace, Relock,
         RelockLost, RecvLost, Printed
<1>2. Done(t) \/ pc' = pc
  BY DEF SendRecvStep, NotConnected, Send, SendFails, RecvReply, RecvRace, Relock,
         RelockLost, RecvLost, Printed, Returns
<1>3. QED
  BY <1>1, <1>2, Threads DEF Done, LinkTypeOK

LEMMA StarterLeavesEvents ==
  ASSUME LinkTypeOK, Connect \/ StarterStep
  PROVE  handled' = handled /\ (pc'[EventThread] = "handling" => pc[EventThread] = "handling")
<1>1. CASE SendRecvStep(Starter)
  BY <1>1, Threads, SendRecvLeavesEvents
<1>2. CASE Connect \/ Spawn \/ CopyBegins \/ SetHandle
  BY <1>2, Threads DEF Connect, Spawn, CopyBegins, SetHandle, Done, LinkTypeOK
<1>3. QED
  BY <1>1, <1>2 DEF StarterStep

LEMMA RequestLeavesStarter ==
  ASSUME LinkTypeOK, NEW s \in Session, Request(s) \/ CallStep(s)
  PROVE  pc'[Starter] = pc[Starter]
<1>1. pc' = pc \/ Done(s) \/ \E op \in Ops : pc' = [pc EXCEPT ![s] = op]
  BY DEF Request, CallStep, NoCommand, TornHandle, SendRecvStep, NotConnected, Send, SendFails,
         RecvReply, RecvRace, Relock, RelockLost, RecvLost, Printed, Returns
<1>2. QED
  BY <1>1, Threads DEF Done, LinkTypeOK

LEMMA RequestLeavesEvents ==
  ASSUME LinkTypeOK, NEW s \in Session, Request(s) \/ CallStep(s)
  PROVE  handled' = handled /\ pc'[EventThread] = pc[EventThread]
<1>1. CASE SendRecvStep(s)
  BY <1>1, Threads, SendRecvLeavesEvents
<1>2. CASE Request(s) \/ NoCommand(s) \/ TornHandle(s)
  BY <1>2, Threads DEF Request, NoCommand, TornHandle, Done, LinkTypeOK
<1>3. QED
  BY <1>1, <1>2 DEF CallStep

\* What the event thread handles is the last event it has read, and it does
\* not run before it is spawned.
LEMMA InHandStep ==
  ASSUME LinkTypeOK, OneReader, EventInHand, [Next]_vars
  PROVE  EventInHand'
<1>1. SUFFICES ASSUME Next PROVE EventInHand'
  BY DEF EventInHand, vars
<1>2. CASE EventThreadStep
  <2>1. pc'[Starter] = pc[Starter] /\ pc[EventThread] # "none"
    BY <1>2, Threads
    DEF EventThreadStep, EventPoll, EventBreak, EventLock, EventFromQueue, EventFromWire,
        Read, ReplyToEvents, EventLost, Handled, EventEnd, LinkTypeOK
  <2>2. CASE EventFromQueue \/ EventFromWire
    <3>1. \/ handled' = Append(handled, Head(race["handle"])) /\ race["handle"] # <<>>
          \/ handled' = Append(handled, Head(wire)) /\ wire # <<>>
      BY <2>2 DEF EventFromQueue, EventFromWire, Read
    <3>2. PICK e \in Nat : handled' = Append(handled, e)
      BY <3>1, FirstRead DEF LinkTypeOK, Handle
    <3>3. handled' # <<>>
      BY <3>2, AppendProperties DEF LinkTypeOK
    <3>4. QED
      BY <2>1, <3>3 DEF EventInHand
  <2>3. CASE EventPoll \/ EventBreak \/ EventLock \/ ReplyToEvents \/ EventLost \/ Handled \/ EventEnd
    <3>1. handled' = handled /\ (pc'[EventThread] = "handling" => pc[EventThread] = "handling")
      BY <2>3, Threads
      DEF EventPoll, EventBreak, EventLock, ReplyToEvents, EventLost, Handled, EventEnd, LinkTypeOK
    <3>2. QED
      BY <2>1, <3>1 DEF EventInHand
  <2>4. QED
    BY <1>2, <2>2, <2>3 DEF EventThreadStep
<1>3. CASE Connect \/ StarterStep
  <2>1. handled' = handled /\ (pc'[EventThread] = "handling" => pc[EventThread] = "handling")
    BY <1>3, StarterLeavesEvents
  <2>2. CASE Connect
    BY <2>1, <2>2, Threads DEF Connect, EventInHand, LinkTypeOK
  <2>3. CASE StarterStep
    <3>1. pc'[Starter] \notin {"connect", "spawn"}
      <4>1. CASE SendRecvStep(Starter)
        <5>1. pc[Starter] \in {"subscribe", "version", "originate"}
          BY <4>1, Threads, LinkOpsAssumption
          DEF SendRecvStep, NotConnected, Send, SendFails, RecvReply, RecvRace, Relock,
              RelockLost, RecvLost, Printed, Sends, OneReader, LinkTypeOK, StarterPc
        <5>2. pc' = pc \/ Done(Starter)
          BY <4>1 DEF SendRecvStep, NotConnected, Send, SendFails, RecvReply, RecvRace,
                      Relock, RelockLost, RecvLost, Printed, Returns
        <5>3. pc'[Starter] \in {pc[Starter], NextStep(pc[Starter])}
          BY <5>2, Threads DEF Done, LinkTypeOK
        <5>4. QED
          BY <5>1, <5>3, NextStepIs
      <4>2. CASE Spawn \/ CopyBegins \/ SetHandle
        BY <4>2, Threads, NextStepIs DEF Spawn, CopyBegins, SetHandle, Done, LinkTypeOK
      <4>3. QED
        BY <2>3, <4>1, <4>2 DEF StarterStep
    <3>2. QED
      BY <2>1, <3>1 DEF EventInHand
  <2>4. QED
    BY <1>3, <2>2, <2>3
<1>4. CASE \E s \in Session : Request(s) \/ CallStep(s)
  <2>1. handled' = handled /\ pc'[EventThread] = pc[EventThread]
    BY <1>4, RequestLeavesEvents
  <2>2. pc'[Starter] = pc[Starter]
    BY <1>4, Threads, RequestLeavesStarter
  <2>3. QED
    BY <2>1, <2>2 DEF EventInHand
<1>5. CASE Answer \/ SendEvent \/ Lose
  BY <1>5 DEF Answer, SendEvent, Lose, EventInHand
<1>6. QED
  BY <1>1, <1>2, <1>3, <1>4, <1>5 DEF Next

\* Freeing a pointer clears it, and leaves a freed one only to the handle that
\* shared it.
LEMMA ReleaseLeaves ==
  ASSUME NEW o \in [Handle -> [Pointer -> {"null", "own", "shared", "freed"}]],
         NEW h \in Handle, NEW p \in Pointer, NEW g \in Handle, NEW q \in Pointer
  PROVE  \/ Release(o, h, p)[g][q] \in {o[g][q], "null"}
         \/ Release(o, h, p)[g][q] = "freed" /\ o[h][p] = "shared"
BY DEF Release, Other, Handle, Pointer

\* What a step does to a pointer: only the copy shares one, and an event of its
\* own comes to handle alone.
PointerAfter(g, q) ==
  \/ owns'[g][q] \in {owns[g][q], "null"}
  \/ owns'[g][q] = "own" /\ <<g, q>> # <<"m_handle", "last_ievent">>
  \/ owns'[g][q] = "freed" /\ \E h \in Handle, p \in Pointer : owns[h][p] = "shared"

LEMMA PointersAfter ==
  ASSUME LinkTypeOK, Next, ~SetHandle, NEW g \in Handle, NEW q \in Pointer
  PROVE  PointerAfter(g, q)
<1>1. /\ owns \in [Handle -> [Pointer -> {"null", "own", "shared", "freed"}]]
      /\ "last_sr_event" \in Pointer /\ "last_ievent" \in Pointer
      /\ \A t : HandleOf(t) \in Handle
  BY HandleOfType DEF LinkTypeOK, Pointer
<1>2. ASSUME owns' = owns PROVE PointerAfter(g, q)
  BY <1>2 DEF PointerAfter
<1>3. ASSUME NEW h \in Handle, NEW p \in Pointer, owns' = Release(owns, h, p)
      PROVE  PointerAfter(g, q)
  BY <1>1, <1>3, ReleaseLeaves DEF PointerAfter
<1>4. ASSUME NEW h \in Handle,
             owns' = Release(Release(owns, h, "last_sr_event"), h, "last_ievent")
      PROVE  PointerAfter(g, q)
  <2>1. PICK cleared \in [Handle -> [Pointer -> {"null", "own", "shared", "freed"}]] :
               /\ cleared = Release(owns, h, "last_sr_event")
               /\ owns' = Release(cleared, h, "last_ievent")
    BY <1>1, <1>4, ReleaseType
  <2>2. \A k \in Handle, r \in Pointer :
          \/ cleared[k][r] \in {owns[k][r], "null"}
          \/ cleared[k][r] = "freed" /\ owns[h]["last_sr_event"] = "shared"
    BY <1>1, <2>1, ReleaseLeaves
  <2>3. \/ owns'[g][q] \in {cleared[g][q], "null"}
        \/ owns'[g][q] = "freed" /\ cleared[h]["last_ievent"] = "shared"
    <3>1. PICK p \in Pointer : p = "last_ievent"
      BY <1>1
    <3>2. \/ Release(cleared, h, p)[g][q] \in {cleared[g][q], "null"}
          \/ Release(cleared, h, p)[g][q] = "freed" /\ cleared[h][p] = "shared"
      BY ReleaseLeaves
    <3>3. QED
      BY <2>1, <3>1, <3>2
  <2>4. cleared[h]["last_ievent"] = "shared" => owns[h]["last_ievent"] = "shared"
    BY <1>1, <2>2
  <2>5. QED
    BY <1>1, <2>2, <2>3, <2>4 DEF PointerAfter
<1>5. ASSUME NEW h \in Handle, NEW p \in Pointer, owns' = [owns EXCEPT ![h][p] = "own"],
             <<h, p>> # <<"m_handle", "last_ievent">>
      PROVE  PointerAfter(g, q)
  <2>1. owns'[g][q] = IF g = h /\ q = p THEN "own" ELSE owns[g][q]
    BY <1>1, <1>5
  <2>2. QED
    BY <1>5, <2>1 DEF PointerAfter
<1>6. ASSUME NEW t, SendRecvStep(t)
      PROVE  PointerAfter(g, q)
  <2>1. CASE NotConnected(t) \/ RecvRace(t) \/ RelockLost(t) \/ RecvLost(t) \/ Printed(t)
    BY <1>2, <2>1 DEF NotConnected, RecvRace, RelockLost, RecvLost, Printed, handles
  <2>2. CASE Send(t)
    BY <1>1, <1>4, <2>2 DEF Send
  <2>3. CASE SendFails(t) \/ Relock(t)
    BY <1>1, <1>3, <2>3 DEF SendFails, Relock
  <2>4. CASE RecvReply(t)
    BY <1>1, <1>5, <2>4 DEF RecvReply
  <2>5. QED
    BY <1>6, <2>1, <2>2, <2>3, <2>4 DEF SendRecvStep
<1>7. CASE Connect \/ StarterStep
  <2>1. CASE Connect
    BY <1>1, <1>5, <2>1 DEF Connect, Handle
  <2>2. CASE Spawn \/ CopyBegins
    BY <1>2, <2>2 DEF Spawn, CopyBegins, handles
  <2>3. QED
    BY <1>6, <1>7, <2>1, <2>2 DEF StarterStep
<1>8. CASE EventThreadStep
  <2>1. CASE EventLock
    BY <1>1, <1>3, <2>1 DEF EventLock, Handle
  <2>2. CASE EventFromQueue \/ EventFromWire
    BY <1>1, <1>5, <2>2 DEF EventFromQueue, EventFromWire, Read, Handle
  <2>3. CASE EventPoll \/ EventBreak \/ ReplyToEvents \/ EventLost \/ Handled \/ EventEnd
    BY <1>2, <2>3 DEF EventPoll, EventBreak, ReplyToEvents, EventLost, Handled, EventEnd, handles
  <2>4. QED
    BY <1>8, <2>1, <2>2, <2>3 DEF EventThreadStep
<1>9. CASE \E s \in Session : Request(s) \/ CallStep(s)
  BY <1>2, <1>6, <1>9 DEF Request, CallStep, NoCommand, TornHandle, handles
<1>10. CASE Answer \/ SendEvent \/ Lose
  BY <1>2, <1>10 DEF Answer, SendEvent, Lose, handles
<1>11. QED
  BY <1>7, <1>8, <1>9, <1>10 DEF Next

\* The event that m_handle could take from under the event thread.
LEMMA HandlesApartStep ==
  ASSUME LinkTypeOK, HandlesApart, [Next]_vars
  PROVE  HandlesApart'
<1>1. owns'["m_handle"]["last_ievent"] # "own"
  <2>1. "m_handle" \in Handle /\ "last_ievent" \in Pointer
    BY DEF Handle, Pointer
  <2>2. CASE UNCHANGED vars
    BY <2>2 DEF vars, handles, HandlesApart
  <2>3. CASE SetHandle
    BY <2>1, <2>3 DEF SetHandle
  <2>4. CASE Next /\ ~SetHandle
    BY <2>1, <2>4, PointersAfter DEF PointerAfter, HandlesApart
  <2>5. QED
    BY <2>2, <2>3, <2>4
<1>2. subscribed' \/ sent' = 0
  <2>1. \/ UNCHANGED <<subscribed, sent>>
        \/ subscribed' /\ sent' = sent
        \/ subscribed /\ subscribed' = subscribed
        \/ subscribed' = (subscribed \/ Head(cmds) = "events") /\ sent' = sent
    BY DEF Next, vars, freeswitch, Connect, StarterStep, Spawn, CopyBegins, SetHandle,
           SendRecvStep, NotConnected, Send, SendFails, RecvReply, RecvRace, Relock,
           RelockLost, RecvLost, Printed, EventThreadStep, EventPoll, EventBreak, EventLock,
           EventFromQueue, EventFromWire, Read, ReplyToEvents, EventLost, Handled, EventEnd,
           Request, CallStep, NoCommand, TornHandle, Answer, SendEvent, Lose
  <2>2. QED
    BY <2>1 DEF HandlesApart, LinkTypeOK
<1>3. QED
  BY <1>1, <1>2 DEF HandlesApart

LEMMA LinkStep == LinkInductive /\ [Next]_vars => LinkInductive'
<1> SUFFICES ASSUME LinkInductive, [Next]_vars PROVE LinkInductive'
  OBVIOUS
<1>1. LinkTypeOK' /\ LinkTypeOK /\ HandleUnset /\ EventOrder /\ EventInHand' /\ HandlesApart'
  BY LinkTypeStep, InHandStep, HandlesApartStep DEF LinkInductive
<1>2. CASE UNCHANGED vars
  <2>1. (OneReader /\ HandleUnset /\ SubscriptionFirst)'
    BY <1>2 DEF LinkInductive, vars, freeswitch, handles, OneReader, HandleUnset,
                SubscriptionFirst, NothingAsked
  <2>2. EventOrder'
    BY <1>1, <1>2, EventsMoved DEF vars, freeswitch, handles
  <2>3. QED
    BY <1>1, <2>1, <2>2 DEF LinkInductive
<1>3. CASE Next
  <2>1. CASE Connect \/ StarterStep
    <3>1. (OneReader /\ HandleUnset /\ SubscriptionFirst)'
      BY <2>1, StarterInductive, SendRecvInductive DEF StarterStep
    <3>2. EventOrder'
      BY <1>1, <2>1, Threads, SendRecvOrder, OtherOrder DEF StarterStep
    <3>3. QED
      BY <1>1, <3>1, <3>2 DEF LinkInductive
  <2>2. CASE \E s \in Session : Request(s) \/ CallStep(s)
    <3>1. (OneReader /\ HandleUnset /\ SubscriptionFirst)'
      BY <2>2, RequestInductive, SendRecvInductive DEF CallStep
    <3>2. EventOrder'
      BY <1>1, <2>2, Threads, SendRecvOrder, OtherOrder DEF CallStep
    <3>3. QED
      BY <1>1, <3>1, <3>2 DEF LinkInductive
  <2>3. CASE EventThreadStep
    BY <1>1, <2>3, EventThreadInductive, EventThreadOrder DEF LinkInductive
  <2>4. CASE Answer \/ SendEvent \/ Lose
    BY <1>1, <2>4, FreeSwitchInductive, FreeSwitchOrder DEF LinkInductive
  <2>5. QED
    BY <1>3, <2>1, <2>2, <2>3, <2>4 DEF Next
<1>4. QED
  BY <1>2, <1>3

\* The inductive invariant holds for any number of REST threads, events and
\* clients: one thread at a time waits for a packet, and until setHandle it is
\* the start-up thread.
THEOREM LinkInductiveHolds == Spec => []LinkInductive
BY LinkInit, LinkStep, PTL DEF Spec

\* Type correctness of the control connection.
THEOREM LinkTypeCorrect == Spec => []LinkTypeOK
<1>1. LinkInductive => LinkTypeOK
  BY DEF LinkInductive
<1>2. QED
  BY <1>1, LinkInductiveHolds, PTL

\* setHandle copies an empty queue of events.
THEOREM QueueNeverShared == Spec => []QueueNotShared
<1>1. LinkInductive => QueueNotShared
  BY DEF LinkInductive, HandleUnset, QueueNotShared
<1>2. QED
  BY <1>1, LinkInductiveHolds, PTL

\* The event thread handles no event twice or out of order, although the
\* start-up thread and every makecall read from its socket, and while the
\* connection is up none is lost but those a makecall has queued: for any
\* number of REST threads and events.
THEOREM EventsAlwaysAccounted == Spec => []EventsAccounted
<1>1. LinkInductive => EventsAccounted
  <2> SUFFICES ASSUME LinkInductive PROVE EventsAccounted
    OBVIOUS
  <2> DEFINE done == ToSet(handled)
             queued == ToSet(race["handle"])
             taken == ToSet(race["m_handle"])
  <2>1. /\ handled \in Seq(Nat) /\ race["handle"] \in Seq(Nat) /\ wire \in Seq(Nat)
        /\ InOrder(handled) /\ InOrder(race["handle"]) /\ InOrder(wire)
        /\ Before(done, queued) /\ Before(done \cup queued \cup taken, Events(wire))
        /\ taken \cap (done \cup queued) = {}
        /\ done \cup queued \cup taken \cup Events(wire) \subseteq 1..sent
        /\ link # "lost" => 1..sent \subseteq done \cup queued \cup taken \cup Events(wire)
    BY DEF LinkInductive, LinkTypeOK, EventOrder, Handle
  <2>2. /\ Reply \notin done /\ Reply \notin queued
        /\ Events(handled) = done /\ Events(race["handle"]) = queued
    BY <2>1 DEF Reply, Events
  <2> DEFINE first == handled \o race["handle"]
  <2>3. first \in Seq(Nat) /\ InOrder(first) /\ Events(first) = done \cup queued
    BY <2>1, <2>2, OneBehindOther
  <2> HIDE DEF first
  <2>4. Before(Events(first), Events(wire))
    BY <2>1, <2>3 DEF Before
  <2>5. InOrder(first \o wire) /\ Events(first \o wire) = done \cup queued \cup Events(wire)
    BY <2>1, <2>3, <2>4, OneBehindOther
  <2>6. EventStream = first \o wire
    BY DEF EventStream, first
  <2>7. Events(wire) \cap taken = {}
    <3>1. ASSUME NEW e \in Events(wire) \cap taken PROVE FALSE
      <4>1. e < e /\ e \in 1..sent
        BY <2>1, <3>1 DEF Before
      <4>2. sent \in Nat
        BY MaxEventsAssumption DEF LinkInductive, LinkTypeOK
      <4>3. QED
        BY <4>1, <4>2
    <3>2. QED
      BY <3>1
  <2> HIDE DEF done, queued, taken
  <2>8. (done \cup queued \cup Events(wire)) \cap taken = {}
    BY <2>1, <2>7
  <2>9. link = "up" => done \cup queued \cup Events(wire) \cup taken = 1..sent
    BY <2>1
  <2>10. QED
    BY <2>2, <2>5, <2>6, <2>8, <2>9 DEF EventsAccounted, done, queued, taken
<1>2. QED
  BY <1>1, LinkInductiveHolds, PTL
-----------------------------------------------------------------------------
\* Where a session or the start-up thread is when it uses a handle.
LEMMA StarterSends ==
  ASSUME LinkTypeOK, OneReader, SendRecvStep(Starter)
  PROVE  pc[Starter] \in {"subscribe", "version", "originate"}
BY Threads, LinkOpsAssumption
DEF SendRecvStep, NotConnected, Send, SendFails, RecvReply, RecvRace, Relock, RelockLost,
    RecvLost, Printed, Sends, OneReader, LinkTypeOK, StarterPc

\* What may go wrong: what start-up leaves behind, or two makecalls at once.
Accounted ==
  \/ pc[Starter] = "copying"
  \/ \E h \in Handle, p \in Pointer : Copied(h, p)
  \/ pc[Starter] \in {"version", "originate"} /\ pc[EventThread] = "handling"
  \/ \E s, u \in Session : s # u /\ io[s] = "printing" /\ pc[u] = "makecall"

\* Another thread prints the reply of the handle that thread t uses: both are
\* makecalls, because the start-up thread shares its handle only with the event
\* thread, which prints none.
LEMMA PrinterIsMakecall ==
  ASSUME LinkInductive, NEW t \in Session \cup {Starter}, io[t] # "printing",
         t \in Session => pc[t] = "makecall",
         Replaced(HandleOf(t))
  PROVE  Accounted
<1>1. PICK u \in LinkThread : io[u] = "printing" /\ HandleOf(u) = HandleOf(t)
  BY DEF Replaced
<1>2. u # t /\ u # EventThread
  <2>1. pc[u] \in {"subscribe", "version", "originate", "makecall"}
    BY <1>1 DEF LinkInductive, OneReader
  <2>2. QED
    BY <1>1, <2>1 DEF LinkInductive, LinkTypeOK, EventPc
<1>3. u \in Session /\ t \in Session
  BY <1>1, <1>2, Threads DEF HandleOf, LinkThread
<1>4. QED
  BY <1>1, <1>2, <1>3 DEF Accounted

\* What may go wrong when thread t frees a pointer of its handle.
LEMMA MisuseIsAccounted ==
  ASSUME LinkInductive, NEW t \in Session \cup {Starter}, NEW p \in Pointer,
         Misuses(HandleOf(t), p), io[t] # "printing",
         t \in Session => pc[t] = "makecall",
         t = Starter => /\ pc[t] \in {"subscribe", "version", "originate"}
                        /\ pc[t] = "subscribe" => io[t] # "recv"
  PROVE  Accounted
<1>1. /\ HandleOf(t) \in Handle
      /\ owns[HandleOf(t)][p] \in {"null", "own", "shared", "freed"}
  BY HandleOfType DEF LinkInductive, LinkTypeOK
<1>2. CASE owns[HandleOf(t)][p] \in {"shared", "freed"}
  BY <1>1, <1>2 DEF Copied, Accounted
<1>3. CASE /\ owns[HandleOf(t)][p] \notin {"shared", "freed"}
           /\ p = "last_ievent" /\ pc[EventThread] = "handling"
           /\ owns[HandleOf(t)][p] # "null"
  <2>1. owns[HandleOf(t)][p] = "own"
    BY <1>1, <1>3
  <2>2. t = Starter
    BY <1>3, <2>1 DEF HandleOf, LinkInductive, HandlesApart
  <2>3. pc[Starter] # "subscribe"
    <3>1. SUFFICES ASSUME pc[Starter] = "subscribe" PROVE FALSE
      OBVIOUS
    <3>2. ~subscribed
      BY <2>2, <3>1 DEF LinkInductive, SubscriptionFirst, NothingAsked
    <3>3. sent = 0
      BY <3>2 DEF LinkInductive, HandlesApart
    <3>4. ToSet(handled) \subseteq 1..sent
      BY DEF LinkInductive, EventOrder
    <3>5. handled \in Seq(Nat) /\ handled # <<>>
      BY <1>3 DEF LinkInductive, LinkTypeOK, EventInHand
    <3>6. PICK e \in Nat : e \in ToSet(handled)
      BY <3>5, FirstRead
    <3>7. QED
      BY <3>3, <3>4, <3>6
  <2>4. QED
    BY <1>3, <2>2, <2>3 DEF Accounted
<1>4. CASE /\ owns[HandleOf(t)][p] \notin {"shared", "freed"}
           /\ \E u \in LinkThread : io[u] = "printing" /\ HandleOf(u) = HandleOf(t)
  BY <1>4, PrinterIsMakecall DEF Replaced
<1>5. QED
  BY <1>2, <1>3, <1>4 DEF Misuses

\* A step that frees, reads or changes what it must not.
LEMMA MisuseStep ==
  ASSUME LinkInductive, Misuse
  PROVE  Accounted
<1>1. ASSUME NEW t \in Session \cup {Starter}, SendRecvStep(t)
      PROVE  /\ t \in Session => pc[t] = "makecall"
             /\ t = Starter => pc[t] \in {"subscribe", "version", "originate"}
  <2>1. t = Starter => pc[t] \in {"subscribe", "version", "originate"}
    BY <1>1, StarterSends DEF LinkInductive
  <2>2. t \in Session => pc[t] = "makecall"
    BY <1>1, Threads, LinkOpsAssumption
    DEF SendRecvStep, NotConnected, Send, SendFails, RecvReply, RecvRace, Relock,
        RelockLost, RecvLost, Printed, Sends, OneReader, LinkTypeOK, LinkInductive
  <2>3. QED
    BY <2>1, <2>2
<1>2. ASSUME NEW t \in Session \cup {Starter}, NEW p \in Pointer,
             Send(t) \/ SendFails(t) \/ Relock(t), Misuses(HandleOf(t), p)
      PROVE  Accounted
  <2>1. SendRecvStep(t) /\ io[t] \notin {"recv", "printing"}
    BY <1>2 DEF SendRecvStep, Send, SendFails, Relock, Sends
  <2>2. QED
    BY <1>1, <1>2, <2>1, MisuseIsAccounted
<1>3. ASSUME NEW t \in Session \cup {Starter}, RecvReply(t), Replaced(HandleOf(t))
      PROVE  Accounted
  <2>1. SendRecvStep(t) /\ io[t] # "printing"
    BY <1>3 DEF SendRecvStep, RecvReply
  <2>2. QED
    BY <1>1, <1>3, <2>1, PrinterIsMakecall
<1>4. ASSUME NEW t \in Session \cup {Starter}, ReadsFreed(t)
      PROVE  Accounted
  BY <1>4, HandleOfType DEF ReadsFreed, ReplyOf, Copied, Accounted, Pointer
<1>5. ASSUME EventLock, Misuses("handle", "last_ievent")
      PROVE  Accounted
  <2>1. owns["handle"]["last_ievent"] = "freed"
    BY <1>5 DEF EventLock, Misuses
  <2>2. QED
    BY <2>1 DEF Copied, Accounted, Handle, Pointer
<1>6. ASSUME NEW s \in Session, TornHandle(s)
      PROVE  Accounted
  BY <1>6 DEF TornHandle, Accounted
<1>7. "last_sr_event" \in Pointer /\ "last_ievent" \in Pointer
  BY DEF Pointer
<1>8. QED
  BY <1>2, <1>3, <1>4, <1>5, <1>6, <1>7 DEF Misuse

\* No other step turns a sound process into an undefined one.
LEMMA UndefinedIsMisuse ==
  ASSUME Next, proc = "sound", proc' = "undefined"
  PROVE  Misuse
<1>1. ASSUME NEW t \in Session \cup {Starter}, SendRecvStep(t)
      PROVE  Misuse
  <2>1. \/ Send(t) /\ \E p \in Pointer : Misuses(HandleOf(t), p)
        \/ SendFails(t) /\ Misuses(HandleOf(t), "last_sr_event")
        \/ Relock(t) /\ Misuses(HandleOf(t), "last_ievent")
        \/ RecvReply(t) /\ Replaced(HandleOf(t))
        \/ (NotConnected(t) \/ RelockLost(t) \/ RecvLost(t)) /\ ReadsFreed(t)
    <3>1. ~RecvRace(t) /\ ~Printed(t)
      BY DEF RecvRace, Printed
    <3>2. Send(t) => \E p \in Pointer : Misuses(HandleOf(t), p)
      BY DEF Send, Risk
    <3>3. SendFails(t) => Misuses(HandleOf(t), "last_sr_event")
      BY DEF SendFails, Risk
    <3>4. Relock(t) => Misuses(HandleOf(t), "last_ievent")
      BY DEF Relock, Risk
    <3>5. RecvReply(t) => Replaced(HandleOf(t))
      BY DEF RecvReply, Risk
    <3>6. NotConnected(t) \/ RelockLost(t) \/ RecvLost(t) => ReadsFreed(t)
      BY DEF NotConnected, RelockLost, RecvLost, Risk
    <3>7. QED
      BY <1>1, <3>1, <3>2, <3>3, <3>4, <3>5, <3>6 DEF SendRecvStep
  <2>2. QED
    BY <2>1 DEF Misuse
<1>2. CASE EventThreadStep
  <2>1. EventLock
    BY <1>2
    DEF EventThreadStep, EventPoll, EventBreak, EventFromQueue, EventFromWire,
        Read, ReplyToEvents, EventLost, Handled, EventEnd, handles
  <2>2. Misuses("handle", "last_ievent")
    BY <2>1 DEF EventLock, Risk
  <2>3. QED
    BY <2>1, <2>2 DEF Misuse
<1>3. CASE \E s \in Session : TornHandle(s)
  BY <1>3 DEF Misuse
<1>4. CASE \/ Connect \/ Spawn \/ CopyBegins \/ SetHandle \/ Answer \/ SendEvent \/ Lose
           \/ \E s \in Session : Request(s) \/ NoCommand(s)
  BY <1>4 DEF Connect, Spawn, CopyBegins, SetHandle, Answer, SendEvent, Lose, Request, NoCommand
<1>5. QED
  BY <1>1, <1>2, <1>3, <1>4 DEF Next, StarterStep, CallStep

\* Once no pointer is shared, none is again.
LEMMA SettledStep ==
  ASSUME LinkInductive, Next, Settled
  PROVE  Settled'
<1>1. LinkTypeOK /\ OneReader /\ pc[Starter] = "serving"
  BY DEF LinkInductive, Settled
<1>2. pc'[Starter] = "serving"
  <2>1. ~Connect /\ ~StarterStep
    BY <1>1, StarterSends DEF Connect, StarterStep, Spawn, CopyBegins, SetHandle
  <2>2. CASE EventThreadStep
    BY <1>1, <2>2, Threads
    DEF EventThreadStep, EventPoll, EventBreak, EventLock, EventFromQueue, EventFromWire,
        Read, ReplyToEvents, EventLost, Handled, EventEnd, LinkTypeOK
  <2>3. CASE \E s \in Session : Request(s) \/ CallStep(s)
    BY <1>1, <2>3, RequestLeavesStarter
  <2>4. CASE Answer \/ SendEvent \/ Lose
    BY <1>1, <2>4 DEF Answer, SendEvent, Lose
  <2>5. QED
    BY <2>1, <2>2, <2>3, <2>4 DEF Next
<1>3. ASSUME NEW g \in Handle, NEW q \in Pointer
      PROVE  owns'[g][q] \notin {"shared", "freed"}
  <2>1. \A h \in Handle, p \in Pointer : owns[h][p] \notin {"shared", "freed"}
    BY DEF Settled, Copied
  <2>2. PointerAfter(g, q)
    BY <1>1, PointersAfter DEF SetHandle
  <2>3. QED
    BY <2>1, <2>2 DEF PointerAfter
<1>4. QED
  BY <1>2, <1>3 DEF Settled, Copied

\* Nothing is freed twice, or from under a thread that uses it, but what the copy of
\* the handle shares, what a start-up command frees, and the reply one makecall
\* prints while another is under way, however many REST threads go on using the two
\* handles; and what start-up leaves behind is over for good once it is over
\* (CallService.cpp:118-126, 152-156, 180).
THEOREM MisusesAlwaysAccounted == Spec => MisusesAccounted
<1>1. LinkInductive /\ [Next]_vars =>
        [/\ Misuse => Accounted
         /\ proc = "sound" /\ proc' = "undefined" => Misuse
         /\ Settled => Settled']_vars
  BY MisuseStep, UndefinedIsMisuse, SettledStep
<1>2. QED
  BY <1>1, LinkInductiveHolds, PTL DEF Spec, MisusesAccounted, Accounted
-----------------------------------------------------------------------------
\* The link keeps the promise of EventFeed.  How its state is seen there:
Pending == ToSet(race["handle"]) \cup Events(wire)
InHand == IF pc[EventThread] = "handling" THEN handled[Len(handled)] ELSE 0
Calling == {s \in Session : io[s] \in {"recv", "window"}}

LEMMA FeedState ==
  ASSUME LinkInductive
  PROVE  /\ pc[EventThread] = "handling" => InHand # 0
         /\ pc[EventThread] # "handling" => InHand = 0
         /\ Pending \subseteq Nat /\ sent \in Nat
         /\ Before(ToSet(race["handle"]), Events(wire))
<1>1. /\ LinkTypeOK /\ EventInHand /\ sent \in Nat
      /\ ToSet(handled) \cup Pending \subseteq 1..sent
      /\ Before(ToSet(race["handle"]), Events(wire))
  BY MaxEventsAssumption DEF LinkInductive, LinkTypeOK, EventOrder, Before, Pending
<1>2. ASSUME pc[EventThread] = "handling"  PROVE InHand # 0
  <2>1. Len(handled) \in DOMAIN handled
    BY <1>1, <1>2, LenProperties, EmptySeq DEF LinkTypeOK, EventInHand
  <2>2. handled[Len(handled)] \in ToSet(handled)
    BY <2>1 DEF ToSet
  <2>3. QED
    BY <1>1, <1>2, <2>2 DEF InHand
<1>3. QED
  BY <1>1, <1>2 DEF InHand

\* What the feed does not see.
LEMMA FeedStutters ==
  ASSUME UNCHANGED <<Pending, InHand, Calling, sent>>, (link' # "lost") = (link # "lost")
  PROVE  UNCHANGED Feed!feedVars
BY DEF Feed!feedVars, Pending, InHand, Calling

\* What is not the event thread's leaves it what it has in hand.
LEMMA InHandKept ==
  ASSUME handled' = handled, pc'[EventThread] = pc[EventThread]
  PROVE  InHand' = InHand
BY DEF InHand

\* A request that has begun or ended a command.
LEMMA CallingAfter ==
  ASSUME LinkTypeOK, NEW t \in LinkThread, t # EventThread
  PROVE  /\ Done(t) => Calling' = Calling \ {t}
         /\ \A reply : Returns(t, reply) => Calling' = Calling \ {t}
         /\ \A l \in {"recv", "window"} : io' = [io EXCEPT ![t] = l] =>
              Calling' = IF t \in Session THEN Calling \cup {t} ELSE Calling
<1>1. ASSUME NEW l, io' = [io EXCEPT ![t] = l]
      PROVE  Calling' = IF t \in Session /\ l \in {"recv", "window"}
                        THEN Calling \cup {t} ELSE Calling \ {t}
  <2>1. \A s \in Session : io'[s] = IF s = t THEN l ELSE io[s]
    BY <1>1, Threads DEF LinkTypeOK, LinkThread
  <2>2. QED
    BY <2>1, Threads DEF Calling
<1>2. t \notin Session => Calling \ {t} = Calling
  BY DEF Calling
<1>3. QED
  BY <1>1, <1>2 DEF Done, Returns

\* A command on the link, seen from the event thread.
LEMMA CallImplements ==
  ASSUME LinkInductive, NEW t \in Session \cup {Starter}, SendRecvStep(t)
  PROVE  Feed!FeedNext \/ UNCHANGED Feed!feedVars
<1>1. /\ LinkTypeOK /\ t \in LinkThread /\ t # EventThread
      /\ InHand' = InHand /\ sent' = sent /\ link' = link
      /\ wire \in Seq(Nat)
  <2>1. LinkTypeOK /\ t \in LinkThread /\ t # EventThread
    BY Threads DEF LinkInductive
  <2>2. InHand' = InHand
    BY <2>1, SendRecvLeavesEvents, InHandKept
  <2>3. sent' = sent /\ link' = link
    BY DEF SendRecvStep, NotConnected, Send, SendFails, RecvReply, RecvRace, Relock,
           RelockLost, RecvLost, Printed, freeswitch
  <2>4. QED
    BY <2>1, <2>2, <2>3 DEF LinkTypeOK
<1>2. ASSUME Pending' = Pending, Done(t) \/ \E reply : Returns(t, reply)
      PROVE  Feed!FeedNext \/ UNCHANGED Feed!feedVars
  <2>1. Calling' = Calling \ {t}
    BY <1>1, <1>2, CallingAfter
  <2>2. CASE t \in Session
    <3>1. Feed!CallEnds(t)
      BY <1>1, <1>2, <2>1, <2>2 DEF Feed!CallEnds, Pending, InHand, Calling
    <3>2. QED
      BY <2>2, <3>1 DEF Feed!FeedNext
  <2>3. CASE t \notin Session
    <3>1. Calling' = Calling
      BY <2>1, <2>3 DEF Calling
    <3>2. QED
      BY <1>1, <1>2, <3>1, FeedStutters
  <2>4. QED
    BY <2>2, <2>3
<1>3. CASE NotConnected(t) \/ SendFails(t) \/ RelockLost(t) \/ RecvLost(t) \/ Printed(t)
  <2>1. (Done(t) \/ \E reply : Returns(t, reply)) /\ UNCHANGED <<race, wire>>
    BY <1>3 DEF NotConnected, SendFails, RelockLost, RecvLost, Printed, freeswitch, handles
  <2>2. Pending' = Pending
    BY <2>1 DEF Pending
  <2>3. QED
    BY <1>2, <2>1, <2>2
<1>4. CASE RecvReply(t)
  <2>1. /\ Returns(t, "own") /\ race' = race
        /\ wire # <<>> /\ Head(wire) = Reply /\ wire' = Tail(wire)
    BY <1>4 DEF RecvReply
  <2>2. Events(wire') = Events(wire)
    BY <1>1, <2>1, FirstRead DEF Events
  <2>3. Pending' = Pending
    BY <2>1, <2>2 DEF Pending
  <2>4. QED
    BY <1>2, <2>1, <2>3
<1>5. CASE Send(t) \/ Relock(t)
  <2>1. UNCHANGED <<race, wire>> /\ \E l \in {"recv", "window"} : io' = [io EXCEPT ![t] = l]
    BY <1>5 DEF Send, Relock, freeswitch
  <2>2. Calling' = (IF t \in Session THEN Calling \cup {t} ELSE Calling)
    BY <1>1, <2>1, CallingAfter
  <2>3. Pending' = Pending
    BY <2>1 DEF Pending
  <2>4. CASE t \in Session
    <3>1. Feed!CallBegins(t)
      BY <1>1, <2>2, <2>3, <2>4 DEF Feed!CallBegins, Pending, InHand, Calling
    <3>2. QED
      BY <2>4, <3>1 DEF Feed!FeedNext
  <2>5. CASE t \notin Session
    BY <1>1, <2>2, <2>3, <2>5, FeedStutters
  <2>6. QED
    BY <2>4, <2>5
<1>6. CASE RecvRace(t)
  <2> DEFINE e == Head(wire)
  <2>1. /\ io[t] = "recv" /\ wire # <<>> /\ e # Reply /\ wire' = Tail(wire)
        /\ race' = [race EXCEPT ![HandleOf(t)] = Append(@, e)]
        /\ io' = [io EXCEPT ![t] = "window"]
    BY <1>6 DEF RecvRace
  <2>2. /\ e \in Nat /\ Events(wire) = {e} \cup Events(wire')
        /\ \A f \in Events(wire') : e < f
    BY <1>1, <2>1, FirstRead DEF LinkInductive, EventOrder
  <2>3. Calling' = (IF t \in Session THEN Calling \cup {t} ELSE Calling)
    BY <1>1, <2>1, CallingAfter
  <2>4. race["handle"] \in Seq(Nat)
    BY <1>1 DEF LinkTypeOK, Handle
  <2>5. CASE t \in Session
    <3>1. race'["handle"] = race["handle"]
      BY <1>1, <2>1, <2>5 DEF HandleOf, LinkTypeOK, Handle
    <3>2. e \notin ToSet(race["handle"]) /\ e \notin Events(wire')
      <4>1. Before(ToSet(race["handle"]), Events(wire)) /\ ~(e < e)
        BY <2>2, FeedState
      <4>2. QED
        BY <2>2, <4>1 DEF Before
    <3>3. Pending' = Pending \ {e} /\ e \in Pending
      BY <2>2, <3>1, <3>2 DEF Pending
    <3>4. Calling' = Calling /\ t \in Calling
      BY <2>1, <2>3, <2>5 DEF Calling
    <3> HIDE DEF e
    <3>5. Feed!Diverted
      BY <1>1, <3>3, <3>4 DEF Feed!Diverted, Pending, InHand, Calling
    <3>6. QED
      BY <3>5 DEF Feed!FeedNext
  <2>6. CASE t = Starter
    <3>1. race'["handle"] = Append(race["handle"], e)
      BY <1>1, <2>1, <2>6, Threads DEF HandleOf, LinkTypeOK, Handle
    <3>2. ToSet(race'["handle"]) = ToSet(race["handle"]) \cup {e}
      BY <2>2, <2>4, <3>1, LastSent
    <3>3. Pending' = Pending
      BY <2>2, <3>2 DEF Pending
    <3>4. Calling' = Calling
      BY <2>3, <2>6, Threads
    <3>5. QED
      BY <1>1, <3>3, <3>4, FeedStutters
  <2>7. QED
    BY <2>5, <2>6
<1>7. QED
  BY <1>3, <1>4, <1>5, <1>6 DEF SendRecvStep

\* The event thread gets the oldest event that is left to it.
LEMMA EventThreadImplements ==
  ASSUME LinkInductive, LinkInductive', EventThreadStep
  PROVE  Feed!FeedNext \/ UNCHANGED Feed!feedVars
<1>1. /\ LinkTypeOK /\ UNCHANGED <<link, sent, io>>
      /\ Calling' = Calling
  BY DEF EventThreadStep, EventPoll, EventBreak, EventLock, EventFromQueue, EventFromWire,
         Read, ReplyToEvents, EventLost, Handled, EventEnd, freeswitch, LinkInductive, Calling
<1>2. CASE EventPoll \/ EventBreak \/ EventLock \/ ReplyToEvents \/ EventLost \/ EventEnd
  <2>1. UNCHANGED <<race, wire, handled>>
    BY <1>2 DEF EventPoll, EventBreak, EventLock, ReplyToEvents, EventLost, EventEnd,
                freeswitch, handles
  <2>2. pc[EventThread] = "handling" <=> pc'[EventThread] = "handling"
    BY <1>1, <1>2, Threads
    DEF EventPoll, EventBreak, EventLock, ReplyToEvents, EventLost, EventEnd, LinkTypeOK
  <2>3. Pending' = Pending /\ InHand' = InHand
    BY <2>1, <2>2 DEF Pending, InHand
  <2>4. QED
    BY <1>1, <2>3, FeedStutters
<1>3. CASE Handled
  <2>1. /\ pc[EventThread] = "handling" /\ pc'[EventThread] = "poll"
        /\ UNCHANGED <<race, wire>>
    BY <1>1, <1>3, Threads DEF Handled, LinkTypeOK, freeswitch, handles
  <2>2. InHand # 0 /\ InHand' = 0 /\ Pending' = Pending
    BY <2>1, FeedState DEF InHand, Pending
  <2>3. Feed!Finished
    BY <1>1, <2>2 DEF Feed!Finished, InHand, Pending, Calling
  <2>4. QED
    BY <2>3 DEF Feed!FeedNext
<1>4. ASSUME NEW e \in Nat, pc[EventThread] = "reading", Read(e),
             e \in Pending, \A f \in Pending : e <= f, Pending' = Pending \ {e}
      PROVE  Feed!FeedNext
  <2>1. pc'[EventThread] = "handling" /\ handled' = Append(handled, e)
    BY <1>1, <1>4, Threads DEF Read, LinkTypeOK
  <2>2. handled'[Len(handled')] = e
    BY <1>1, <2>1, AppendProperties DEF LinkTypeOK
  <2>3. InHand = 0 /\ InHand' = e
    BY <1>4, <2>1, <2>2 DEF InHand
  <2>4. Feed!Received
    BY <1>1, <1>4, <2>3 DEF Feed!Received, InHand, Pending, Calling
  <2>5. QED
    BY <2>4 DEF Feed!FeedNext
<1>5. CASE EventFromQueue
  <2> DEFINE e == Head(race["handle"])
  <2>1. /\ pc[EventThread] = "reading" /\ race["handle"] # <<>> /\ Read(e)
        /\ race'["handle"] = Tail(race["handle"]) /\ wire' = wire
        /\ race["handle"] \in Seq(Nat)
    BY <1>1, <1>5 DEF EventFromQueue, LinkTypeOK, Handle
  <2>2. /\ InOrder(race["handle"]) /\ Before(ToSet(race["handle"]), Events(wire))
        /\ Reply \notin ToSet(race["handle"]) /\ Pending \subseteq Nat
    BY FeedState DEF LinkInductive, EventOrder, Reply
  <2>3. /\ e \in Nat /\ ToSet(race["handle"]) = {e} \cup ToSet(race'["handle"])
        /\ e # Reply => \A f \in Events(race'["handle"]) : e < f
    BY <2>1, <2>2, FirstRead
  <2>4. e # Reply /\ Events(race'["handle"]) = ToSet(race'["handle"])
    BY <2>2, <2>3 DEF Events
  <2>5. \A f \in ToSet(race'["handle"]) \cup Events(wire) : e < f
    BY <2>2, <2>3, <2>4 DEF Before
  <2>6. /\ Pending = {e} \cup (ToSet(race'["handle"]) \cup Events(wire))
        /\ Pending' = ToSet(race'["handle"]) \cup Events(wire)
    BY <2>1, <2>3 DEF Pending
  <2> HIDE DEF e
  <2>7. e \in Pending /\ (\A f \in Pending : e <= f) /\ Pending' = Pending \ {e}
    BY <2>2, <2>3, <2>5, <2>6
  <2>8. QED
    BY <1>4, <2>1, <2>3, <2>7
<1>6. CASE EventFromWire
  <2> DEFINE e == Head(wire)
  <2>1. /\ pc[EventThread] = "reading" /\ race["handle"] = <<>> /\ Read(e)
        /\ wire # <<>> /\ e # Reply /\ wire' = Tail(wire) /\ race' = race
        /\ wire \in Seq(Nat)
    BY <1>1, <1>6 DEF EventFromWire, LinkTypeOK
  <2>2. /\ e \in Nat /\ Events(wire) = {e} \cup Events(wire')
        /\ \A f \in Events(wire') : e < f
    BY <2>1, FirstRead DEF LinkInductive, EventOrder
  <2>3. Pending = Events(wire) /\ Pending' = Events(wire') /\ Pending \subseteq Nat
    BY <2>1, FeedState DEF Pending, ToSet
  <2> HIDE DEF e
  <2>4. e \in Pending /\ (\A f \in Pending : e <= f) /\ Pending' = Pending \ {e}
    BY <2>2, <2>3
  <2>5. QED
    BY <1>4, <2>1, <2>2, <2>4
<1>7. QED
  BY <1>2, <1>3, <1>5, <1>6 DEF EventThreadStep

\* What FreeSWITCH sends is added, and what a lost connection takes is the last.
LEMMA FreeSwitchImplements ==
  ASSUME LinkInductive, Answer \/ SendEvent \/ Lose
  PROVE  Feed!FeedNext \/ UNCHANGED Feed!feedVars
<1>1. /\ wire \in Seq(Nat) /\ InOrder(wire) /\ sent \in Nat
      /\ InHand' = InHand /\ Calling' = Calling /\ race' = race
  BY FeedState
  DEF LinkInductive, LinkTypeOK, EventOrder, Answer, SendEvent, Lose, handles, InHand, Calling
<1>2. CASE Answer
  <2>1. wire' = Append(wire, Reply) /\ UNCHANGED <<sent, link>> /\ Reply \in Nat
    BY <1>2 DEF Answer, Reply
  <2>2. Events(wire') = Events(wire) \cup ({Reply} \ {Reply})
    BY <1>1, <2>1, LastSent
  <2>3. Pending' = Pending
    BY <1>1, <2>2 DEF Pending
  <2>4. QED
    BY <1>1, <2>1, <2>3, FeedStutters
<1>3. CASE SendEvent
  <2>1. /\ wire' = Append(wire, sent + 1) /\ sent' = sent + 1 /\ link = "up" /\ link' = link
        /\ sent + 1 \in Nat /\ sent + 1 # Reply
    BY <1>1, <1>3 DEF SendEvent, Reply
  <2>2. Events(wire') = Events(wire) \cup ({sent + 1} \ {Reply})
    BY <1>1, <2>1, LastSent
  <2>3. Pending' = Pending \cup {sent'}
    BY <1>1, <2>1, <2>2 DEF Pending
  <2>4. Feed!Sent
    BY <1>1, <2>1, <2>3 DEF Feed!Sent, Pending, InHand, Calling
  <2>5. QED
    BY <2>4 DEF Feed!FeedNext
<1>4. CASE Lose
  <2>1. PICK n \in 0..Len(wire) : wire' = SubSeq(wire, 1, n)
    BY <1>4 DEF Lose
  <2>2. link = "up" /\ link' = "lost" /\ sent' = sent
    BY <1>4 DEF Lose
  <2>3. /\ Events(wire') \subseteq Events(wire)
        /\ Before(Events(wire'), Events(wire) \ Events(wire'))
    BY <1>1, <2>1, RestLost
  <2>4. Before(ToSet(race["handle"]), Events(wire))
    BY FeedState
  <2>5. /\ Pending' = ToSet(race["handle"]) \cup Events(wire')
        /\ Pending \ Pending' \subseteq Events(wire) \ Events(wire')
    BY <1>1 DEF Pending
  <2>6. /\ Pending' \subseteq Pending
        /\ \A e \in Pending', f \in Pending \ Pending' : e < f
    BY <2>3, <2>4, <2>5 DEF Before, Pending
  <2>7. Feed!Lost
    BY <1>1, <2>2, <2>6 DEF Feed!Lost, Pending, InHand, Calling
  <2>8. QED
    BY <2>7 DEF Feed!FeedNext
<1>5. QED
  BY <1>2, <1>3, <1>4

\* The start-up thread opens the connection; a request begins, or ends without
\* a command.
LEMMA OtherImplements ==
  ASSUME LinkInductive,
         \/ Connect \/ Spawn \/ CopyBegins \/ SetHandle
         \/ \E s \in Session : Request(s) \/ NoCommand(s) \/ TornHandle(s)
  PROVE  Feed!FeedNext \/ UNCHANGED Feed!feedVars
<1>1. /\ LinkTypeOK /\ UNCHANGED <<handled, wire, sent>>
      /\ (link' # "lost") = (link # "lost")
  BY DEF Connect, Spawn, CopyBegins, SetHandle, Request, NoCommand, TornHandle,
         freeswitch, LinkInductive
<1>2. Pending' = Pending
  <2>1. race'["handle"] = race["handle"]
    BY <1>1 DEF Connect, Spawn, CopyBegins, SetHandle, Request, NoCommand, TornHandle,
                handles, LinkTypeOK, Handle
  <2>2. QED
    BY <1>1, <2>1 DEF Pending
<1>3. InHand' = InHand
  <2>1. pc[EventThread] = "handling" <=> pc'[EventThread] = "handling"
    <3>1. CASE Connect \/ CopyBegins \/ SetHandle
      BY <1>1, <3>1, Threads DEF Connect, CopyBegins, SetHandle, Done, LinkTypeOK
    <3>2. CASE Spawn
      BY <1>1, <3>2, Threads DEF Spawn, LinkTypeOK, LinkInductive, EventInHand
    <3>3. ASSUME NEW s \in Session, Request(s) \/ NoCommand(s) \/ TornHandle(s)
          PROVE  pc'[EventThread] = pc[EventThread]
      BY <1>1, <3>3, RequestLeavesEvents DEF CallStep
    <3>4. QED
      BY <3>1, <3>2, <3>3
  <2>2. QED
    BY <1>1, <2>1 DEF InHand
<1>4. CASE Connect \/ Spawn \/ CopyBegins \/ SetHandle \/ \E s \in Session : Request(s)
  <2>1. Calling' = Calling
    <3>1. CASE SetHandle
      <4>1. Calling' = Calling \ {Starter}
        BY <1>1, <3>1, Threads, CallingAfter DEF SetHandle
      <4>2. QED
        BY <4>1, Threads DEF Calling
    <3>2. CASE Connect \/ Spawn \/ CopyBegins \/ \E s \in Session : Request(s)
      BY <3>2 DEF Connect, Spawn, CopyBegins, Request, Calling
    <3>3. QED
      BY <1>4, <3>1, <3>2
  <2>2. QED
    BY <1>1, <1>2, <1>3, <2>1, FeedStutters
<1>5. ASSUME NEW s \in Session, NoCommand(s) \/ TornHandle(s)
      PROVE  Feed!FeedNext
  <2>1. Calling' = Calling \ {s}
    BY <1>1, <1>5, Threads, CallingAfter DEF NoCommand, TornHandle
  <2>2. Feed!CallEnds(s)
    BY <1>1, <1>2, <1>3, <2>1 DEF Feed!CallEnds, Pending, InHand, Calling
  <2>3. QED
    BY <2>2 DEF Feed!FeedNext
<1>6. QED
  BY <1>4, <1>5

\* Every event that FreeSWITCH sends reaches the event thread once and in order,
\* unless a makecall that waits for its reply is given it, or the connection is
\* lost with it: for any number of REST threads and events.
THEOREM ImplementsFeed == Spec => IsEventFeed
<1>1. Init => Feed!FeedInit
  <2> SUFFICES ASSUME Init PROVE Feed!FeedInit
    OBVIOUS
  <2>1. link = "down" /\ wire = <<>> /\ sent = 0 /\ race["handle"] = <<>>
        /\ pc[EventThread] = "none" /\ \A s \in Session : io[s] = "none"
    BY Threads DEF Init, Handle
  <2>2. Pending = {} /\ InHand = 0 /\ Calling = {}
    BY <2>1 DEF Pending, InHand, Calling, ToSet, Events
  <2>3. QED
    BY <2>1, <2>2 DEF Feed!FeedInit, Pending, InHand, Calling
<1>2. LinkInductive /\ LinkInductive' /\ [Next]_vars => [Feed!FeedNext]_(Feed!feedVars)
  <2> SUFFICES ASSUME LinkInductive, LinkInductive', [Next]_vars
               PROVE  Feed!FeedNext \/ UNCHANGED Feed!feedVars
    OBVIOUS
  <2>1. CASE UNCHANGED vars
    BY <2>1 DEF vars, freeswitch, handles, Feed!feedVars
  <2>2. CASE Connect \/ StarterStep
    BY <2>2, CallImplements, OtherImplements DEF StarterStep
  <2>3. CASE \E s \in Session : Request(s) \/ CallStep(s)
    BY <2>3, CallImplements, OtherImplements DEF CallStep
  <2>4. CASE EventThreadStep
    BY <2>4, EventThreadImplements
  <2>5. CASE Answer \/ SendEvent \/ Lose
    BY <2>5, FreeSwitchImplements
  <2>6. QED
    BY <2>1, <2>2, <2>3, <2>4, <2>5 DEF Next
<1>3. QED
  BY <1>1, <1>2, LinkInductiveHolds, PTL DEF Spec, IsEventFeed, Feed!FeedSpec
=============================================================================
