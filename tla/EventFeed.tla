------------------------------ MODULE EventFeed ------------------------------
(***************************************************************************)
(* What the event thread is promised by the control connection, on which   *)
(* every makecall reads too: FreeSWITCH's events, in the order they were   *)
(* sent and each once.  The promise has two limits, and both are stated    *)
(* here as steps:                                                          *)
(*   Diverted  an event goes to a REST thread that waits for the reply of  *)
(*             its makecall, and the event thread never sees it;           *)
(*   Lost      the connection is lost, and with it the last events sent.   *)
(* Events are numbered as FreeSWITCH sends them; 0 stands for none.        *)
(***************************************************************************)
EXTENDS Naturals

CONSTANT Session  \* REST session threads

VARIABLES
  whole,    \* the connection is not lost
  sent,     \* the number of events sent
  pending,  \* those still on their way to the event thread
  inHand,   \* the one it handles
  calling   \* the sessions that wait for the reply of a makecall

feedVars == <<whole, sent, pending, inHand, calling>>

FeedInit ==
  /\ whole = TRUE /\ sent = 0 /\ pending = {} /\ inHand = 0 /\ calling = {}

Sent ==
  /\ whole
  /\ sent' = sent + 1
  /\ pending' = pending \cup {sent'}
  /\ UNCHANGED <<whole, inHand, calling>>

\* The event thread gets the oldest.
Received ==
  /\ inHand = 0
  /\ \E e \in pending : /\ \A f \in pending : e <= f
                        /\ inHand' = e
                        /\ pending' = pending \ {e}
  /\ UNCHANGED <<whole, sent, calling>>

Finished ==
  /\ inHand # 0
  /\ inHand' = 0
  /\ UNCHANGED <<whole, sent, pending, calling>>

CallBegins(s) ==
  /\ calling' = calling \cup {s}
  /\ UNCHANGED <<whole, sent, pending, inHand>>

CallEnds(s) ==
  /\ calling' = calling \ {s}
  /\ UNCHANGED <<whole, sent, pending, inHand>>

Diverted ==
  /\ calling # {}
  /\ \E e \in pending : pending' = pending \ {e}
  /\ UNCHANGED <<whole, sent, inHand, calling>>

Lost ==
  /\ whole
  /\ whole' = FALSE
  /\ pending' \subseteq pending
  /\ \A e \in pending', f \in pending \ pending' : e < f
  /\ UNCHANGED <<sent, inHand, calling>>

FeedNext ==
  \/ Sent \/ Received \/ Finished \/ Diverted \/ Lost
  \/ \E s \in Session : CallBegins(s) \/ CallEnds(s)

FeedSpec == FeedInit /\ [][FeedNext]_feedVars
=============================================================================
