------------------------------- MODULE AcdCall -------------------------------
(***************************************************************************)
(* The ACD: one thread per incoming call runs acd_callback, which polls    *)
(* get_available_agent() once a second until it gets an agent to bridge    *)
(* the call to, or the call is gone.                                       *)
(*                                                                         *)
(* The applications executed on the channel (answer, set, speak, playback) *)
(* and their replies are left out: none touches the shared state.          *)
(***************************************************************************)
EXTENDS AgentList

VARIABLE acd  \* where each call's thread is

acdVars == <<acd>>

\* "exhausted" and "choose" are the two walks of get_available_agent(),
\* "reset" the for_each between them; "ready" and "claim" the rest of the
\* test and the body of the second walk's if.
InPoll == {"exhausted", "reset", "choose", "ready", "claim"}
AcdPc == {"dial", "recv", "bridge", "bridged", "hungup"} \cup InPoll

Jump(c, label) == acd' = [acd EXCEPT ![c] = label]

\* The call comes in and is answered; the thread enters its receive loop.
Answer(c) ==
  /\ acd[c] = "dial"
  /\ Jump(c, "recv")
  /\ UNCHANGED listVars

\* reset_agents(pAgent)
ResetAgents(c) ==
  agent' = IF held[c] = None THEN agent
           ELSE [agent EXCEPT ![held[c]].polling = FALSE]

\* An event for the channel.  An EXECUTE_COMPLETE can only be of one of the
\* announcements: a bridge is executed in the step that leaves the loop.
ChannelEvent(c) ==
  /\ acd[c] = "recv"
  /\ ResetAgents(c)
  /\ \/ /\ Jump(c, "hungup")       \* CHANNEL_HANGUP_COMPLETE
        /\ held' = [held EXCEPT ![c] = None]
     \/ UNCHANGED <<acd, held>>    \* CHANNEL_EXECUTE_COMPLETE
  /\ UNCHANGED <<proc, m_listAgent, cur, overtaken>>

\* ESL_FAIL: the socket is closed.
Disconnect(c) ==
  /\ acd[c] = "recv"
  /\ Jump(c, "hungup")
  /\ held' = [held EXCEPT ![c] = None]
  /\ UNCHANGED <<proc, m_listAgent, agent, cur, overtaken>>

\* ESL_BREAK, a second without a message: get_available_agent() is entered.
Poll(c) ==
  /\ acd[c] = "recv"
  /\ Jump(c, "exhausted")
  /\ overtaken' = [overtaken EXCEPT ![c] = {"inside"}]
  /\ UNCHANGED <<proc, m_listAgent, agent, cur, held>>

\* find_if for an agent whose turn has not come: one node of the first walk.
TestExhausted(c) ==
  /\ acd[c] = "exhausted"
  /\ \E y \in Node : /\ Leads(cur[c], y)
                     /\ IF agent[y].polling
                        THEN MoveTo(c, y) /\ UNCHANGED acd
                        ELSE MoveTo(c, Begin) /\ Jump(c, "choose")
  /\ UNCHANGED <<proc, m_listAgent, agent, held, overtaken>>

\* Mutants of Exhausted: the flag tested the wrong way round; no reset.
ExhaustedInverted(c) ==
  /\ acd[c] = "exhausted"
  /\ \E y \in Node : Leads(cur[c], y) /\ agent[y].polling
  /\ MoveTo(c, Begin)
  /\ Jump(c, "reset")
  /\ UNCHANGED <<proc, m_listAgent, agent, held, overtaken>>

ExhaustedNoReset(c) ==
  /\ acd[c] = "exhausted"
  /\ Leads(cur[c], None)
  /\ MoveTo(c, Begin)
  /\ Jump(c, "choose")
  /\ UNCHANGED <<proc, m_listAgent, agent, held, overtaken>>

\* None left: every agent is given its turn back.
Exhausted(c) ==
  /\ acd[c] = "exhausted"
  /\ Leads(cur[c], None)
  /\ MoveTo(c, Begin)
  /\ Jump(c, "reset")
  /\ UNCHANGED <<proc, m_listAgent, agent, held, overtaken>>

\* One node of for_each(x->setPolling(false)).
Reset(c) ==
  /\ acd[c] = "reset"
  /\ \E y \in Node : /\ Leads(cur[c], y)
                     /\ MoveTo(c, y)
                     /\ agent' = [agent EXCEPT ![y].polling = FALSE]
  /\ Overtake(c, "given")
  /\ UNCHANGED <<proc, m_listAgent, held, acd>>

\* Mutant of ResetDone: returns instead of choosing after the reset.
ResetReturns(c) ==
  /\ acd[c] = "reset"
  /\ Leads(cur[c], None)
  /\ MoveTo(c, Begin)
  /\ Jump(c, "recv")
  /\ overtaken' = [overtaken EXCEPT ![c] = {}]
  /\ UNCHANGED <<proc, m_listAgent, agent, held>>

ResetDone(c) ==
  /\ acd[c] = "reset"
  /\ Leads(cur[c], None)
  /\ MoveTo(c, Begin)
  /\ Jump(c, "choose")
  /\ UNCHANGED <<proc, m_listAgent, agent, held, overtaken>>

\* Mutant of TestPolling: an agent whose turn is taken passes.
TestPollingSkipped(c) ==
  /\ acd[c] = "choose"
  /\ \E y \in Node : Leads(cur[c], y) /\ MoveTo(c, y) /\ Jump(c, "ready")
  /\ UNCHANGED <<proc, m_listAgent, agent, held, overtaken>>

\* One node of the second walk: agent_->getPolling() == false ...
TestPolling(c) ==
  /\ acd[c] = "choose"
  /\ \E y \in Node : /\ Leads(cur[c], y)
                     /\ MoveTo(c, y)
                     /\ IF agent[y].polling THEN UNCHANGED acd
                                            ELSE Jump(c, "ready")
  /\ UNCHANGED <<proc, m_listAgent, agent, held, overtaken>>

\* Mutants of TestReady: the loop is left at an agent who is not Ready; the
\* status is not tested.
TestReadyBreaks(c) ==
  /\ acd[c] = "ready"
  /\ cur[c] \in Listed
  /\ IF agent[cur[c]].status = "Ready" THEN Jump(c, "claim") /\ UNCHANGED cur
     ELSE Jump(c, "recv") /\ MoveTo(c, Begin)
  /\ overtaken' = [overtaken EXCEPT ![c] = {}]
  /\ UNCHANGED <<proc, m_listAgent, agent, held>>

TestReadySkipped(c) ==
  /\ acd[c] = "ready"
  /\ cur[c] \in Listed
  /\ Jump(c, "claim")
  /\ UNCHANGED listVars

\* ... && agent_->getAgentStatus() == Ready
TestReady(c) ==
  /\ acd[c] = "ready"
  /\ cur[c] \in Listed
  /\ Jump(c, IF agent[cur[c]].status = "Ready" THEN "claim" ELSE "choose")
  /\ UNCHANGED listVars

\* agent_->setPolling(true); pAgent = agent_
Claim(c) ==
  /\ acd[c] = "claim"
  /\ cur[c] \in Listed
  /\ agent' = [agent EXCEPT ![cur[c]].polling = TRUE]
  /\ held' = [held EXCEPT ![c] = cur[c]]
  /\ MoveTo(c, Begin)
  /\ Jump(c, "bridge")
  /\ Overtake(c, "taken")
  /\ UNCHANGED <<proc, m_listAgent>>

\* Mutant of NoneAvailable: the thread keeps its iterator at end().
NoneAvailableAtEnd(c) ==
  /\ acd[c] = "choose"
  /\ Leads(cur[c], None)
  /\ MoveTo(c, None)
  /\ Jump(c, "recv")
  /\ overtaken' = [overtaken EXCEPT ![c] = {}]
  /\ UNCHANGED <<proc, m_listAgent, agent, held>>

\* No agent: back to the receive loop.
NoneAvailable(c) ==
  /\ acd[c] = "choose"
  /\ Leads(cur[c], None)
  /\ MoveTo(c, Begin)
  /\ Jump(c, "recv")
  /\ overtaken' = [overtaken EXCEPT ![c] = {}]
  /\ UNCHANGED <<proc, m_listAgent, agent, held>>

\* Mutant of Bridge: the loop is not left, the agent is kept.
BridgeStays(c) ==
  /\ acd[c] = "bridge"
  /\ Jump(c, "recv")
  /\ overtaken' = [overtaken EXCEPT ![c] = {}]
  /\ UNCHANGED <<proc, m_listAgent, agent, cur, held>>

\* The bridge to user/<dn> is executed, the loop is left, the handle is
\* disconnected and pAgent goes out of scope.
Bridge(c) ==
  /\ acd[c] = "bridge"
  /\ Jump(c, "bridged")
  /\ agent' = IF Kept(c, held[c]) THEN agent
              ELSE [agent EXCEPT ![held[c]] = Blank]
  /\ held' = [held EXCEPT ![c] = None]
  /\ overtaken' = [overtaken EXCEPT ![c] = {}]
  /\ UNCHANGED <<proc, m_listAgent, cur>>

\* The thread of a call that is over ends; its name goes to a later call.
NextCall(c) ==
  /\ acd[c] \in {"bridged", "hungup"}
  /\ Jump(c, "dial")
  /\ UNCHANGED listVars

\* A step of get_available_agent() and what acd_callback does with its result.
PollStep(c) ==
  \/ TestExhausted(c) \/ Exhausted(c) \/ Reset(c) \/ ResetDone(c)
  \/ TestPolling(c) \/ TestReady(c) \/ Claim(c) \/ NoneAvailable(c)
  \/ Bridge(c)
  \/ Stray(c) /\ UNCHANGED acd

CallerStep(c) ==
  \/ Answer(c) \/ ChannelEvent(c) \/ Disconnect(c) \/ Poll(c) \/ PollStep(c)
  \/ NextCall(c)

AcdInit == acd = [c \in Caller |-> "dial"]

AcdTypeOK == acd \in [Caller -> AcdPc]
=============================================================================
