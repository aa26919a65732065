------------------------------ MODULE AgentList ------------------------------
(***************************************************************************)
(* The list of logged-in agents (CallService::m_listAgent) and the Agent   *)
(* objects it points to, shared without any lock by                        *)
(*   - the REST session threads (CRestfulServer::do_session),              *)
(*   - the ACD threads, one per incoming call (CallService::acd_callback), *)
(*   - the event thread (CallService::eventThreadFun).                     *)
(*                                                                         *)
(* A std::list node holds one shared_ptr and every Agent is pushed once,   *)
(* so a node and its Agent share one name, a member of Node.  A thread     *)
(* walks the list with a cursor; one step of a walk reads the link of the  *)
(* node under the cursor and the fields of the node it leads to.           *)
(*                                                                         *)
(* Undefined behaviour.  erase() frees a node other threads may be at.     *)
(* Their cursors become Dangling; the next use of a Dangling cursor either *)
(* kills the process or goes on from whatever the freed memory holds now.  *)
(* Two threads that meet on a link or a string, one of them writing it,    *)
(* are the other kind (CallCenter!DataRace).  Races on the flag and the    *)
(* status, one aligned word each, lose nothing but their order.            *)
(***************************************************************************)
EXTENDS Naturals, Sequences, SequencesExt

CONSTANTS
  Session,    \* REST session threads
  Caller,     \* incoming calls, one ACD thread each
  Listener,   \* the event thread
  Node,       \* list nodes, a bound on the number of agents at a time
  Dn,         \* directory numbers clients send, the empty string may be one
  Channel,    \* FreeSWITCH channels, named by their Unique-ID
  None,       \* nullptr, end() and the empty uuid
  Begin,      \* cursor of a thread that has not entered the list
  Dangling    \* cursor into a freed node

Thread == Session \cup Caller \cup {Listener}

ASSUME ThreadAssumption ==
  /\ Session \cap Caller = {}
  /\ Listener \notin Session \cup Caller
ASSUME NodeAssumption ==
  /\ {None, Begin, Dangling} \cap Node = {}
  /\ None # Begin /\ None # Dangling /\ Begin # Dangling
ASSUME NameAssumption == None \notin Dn \cup Channel

VARIABLES
  proc,         \* "sound", "undefined" once behaviour was undefined, "dead"
  m_listAgent,  \* the nodes linked into the list, in order
  agent,        \* the Agent of each node
  cur,          \* the node each thread's iterator is at
  held,         \* the Agent each thread keeps alive by a shared_ptr
  overtaken     \* history: what other threads did to each call that is
                \* "inside" get_available_agent() since it entered: "given" if
                \* one made an agent due or Ready, "taken" if one did the
                \* opposite

listVars == <<proc, m_listAgent, agent, cur, held, overtaken>>

AgentStatus_t == {"unknown", "login", "logout", "notReady", "Ready", "busy",
                  "idle", "leave"}

Agent == [dn : Dn \cup {None}, polling : BOOLEAN, status : AgentStatus_t,
          uuid : Channel \cup {None}]

\* An Agent as its constructor leaves it; unused nodes hold this value.
Blank == [dn |-> None, polling |-> FALSE, status |-> "unknown", uuid |-> None]

\* What the login handler sets before push_back.
NewAgent(d) == [Blank EXCEPT !.dn = d, !.status = "Ready"]

Listed == ToSet(m_listAgent)

\* Memory make_shared and push_back may be given.
Fresh == Node \ (Listed \cup {held[t] : t \in Thread})

\* begin() and ++it: a cursor at x reaches y, None standing for end().
Leads(x, y) ==
  \/ /\ x = Begin
     /\ y = IF m_listAgent = <<>> THEN None ELSE m_listAgent[1]
  \/ \E i \in DOMAIN m_listAgent :
       /\ m_listAgent[i] = x
       /\ y = IF i = Len(m_listAgent) THEN None ELSE m_listAgent[i + 1]

MoveTo(t, y) == cur' = [cur EXCEPT ![t] = y]

\* Thread t changes what the other calls may have read.
Overtake(t, how) ==
  overtaken' = [c \in Caller |-> IF c = t \/ overtaken[c] = {} THEN overtaken[c]
                                 ELSE overtaken[c] \cup {how}]

\* Someone but thread t has a shared_ptr to the Agent of n.
Kept(t, n) == n \in Listed \/ \E u \in Thread \ {t} : held[u] = n

\* Mutant of PushBack: push_front, which gets behind searches under way.
PushFront(t, n, d) ==
  /\ m_listAgent' = <<n>> \o m_listAgent
  /\ agent' = [agent EXCEPT ![n] = NewAgent(d)]
  /\ Overtake(t, "given")
  /\ UNCHANGED <<proc, cur, held>>

PushBack(t, n, d) ==
  /\ m_listAgent' = Append(m_listAgent, n)
  /\ agent' = [agent EXCEPT ![n] = NewAgent(d)]
  /\ Overtake(t, "given")
  /\ UNCHANGED <<proc, cur, held>>

\* erase(it): unlinks and frees the node, drops its shared_ptr, and leaves
\* every other iterator at the node dangling.
Erase(t) ==
  /\ \E i \in DOMAIN m_listAgent :
       /\ m_listAgent[i] = cur[t]
       /\ m_listAgent' = RemoveAt(m_listAgent, i)
  /\ cur' = [u \in Thread |-> IF u = t THEN Begin
                              ELSE IF cur[u] = cur[t] THEN Dangling
                              ELSE cur[u]]
  /\ agent' = IF \E u \in Thread : held[u] = cur[t]
              THEN agent ELSE [agent EXCEPT ![cur[t]] = Blank]
  /\ UNCHANGED <<proc, held, overtaken>>

\* Use of a dangling iterator: the process dies, or memory reused by another
\* node makes the thread continue from there.
Stray(t) ==
  /\ cur[t] = Dangling
  /\ \/ /\ proc' = "dead"
        /\ UNCHANGED cur
     \/ /\ proc' = "undefined"
        /\ \E y \in Listed : MoveTo(t, y)
  /\ UNCHANGED <<m_listAgent, agent, held, overtaken>>

ListInit ==
  /\ proc = "sound"
  /\ m_listAgent = <<>>
  /\ agent = [n \in Node |-> Blank]
  /\ cur = [t \in Thread |-> Begin]
  /\ held = [t \in Thread |-> None]
  /\ overtaken = [c \in Caller |-> {}]

ListTypeOK ==
  /\ proc \in {"sound", "undefined", "dead"}
  /\ m_listAgent \in Seq(Node)
  /\ agent \in [Node -> Agent]
  /\ cur \in [Thread -> Node \cup {Begin, Dangling}]
  /\ held \in [Thread -> Node \cup {None}]
  /\ overtaken \in [Caller -> SUBSET {"inside", "given", "taken"}]
=============================================================================
