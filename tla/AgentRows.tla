----------------------------- MODULE AgentRows ------------------------------
(* The agents and sessions rows that the hooks of a session keep, and the    *)
(* agent an `rtok mcp` process finds for itself among them (hooks/mod.rs     *)
(* dispatch, store/agents.rs, agents/link.rs). A session has at most one     *)
(* hook of each kind in flight: an event, its SessionEnd, and the detached   *)
(* child a SessionEnd that met a locked store hands over to. The sessions    *)
(* are those of one host, in one directory.                                  *)
EXTENDS Integers, Sequences

CONSTANTS Sessions,
          HookChain,    \* session -> pids above its hooks, nearest first
          McpChain,     \* session -> pids above its `rtok mcp`, nearest first
          MaxResumes, MaxFaults     \* bounds

ASSUME AgentConstants ==
    /\ HookChain \in [Sessions -> Seq(Nat)] /\ McpChain \in [Sessions -> Seq(Nat)]
    /\ MaxResumes \in Nat /\ MaxFaults \in Nat

Pids(chain) == {chain[i] : i \in DOMAIN chain}

\* Whatever an `rtok mcp` has above it that some session's hooks have too, one as near is
\* above the hooks of its own session: its host is above both, and no other session runs
\* below what is between that host and the `rtok mcp`.
ASSUME OwnIsNearest ==
    \A s, t \in Sessions : \A j \in DOMAIN McpChain[s] :
        McpChain[s][j] \in Pids(HookChain[t]) =>
            \E i \in DOMAIN McpChain[s] : i <= j /\ McpChain[s][i] \in Pids(HookChain[s])

VARIABLES
    phase,      \* session -> what the host has made of it
    hook,       \* session -> kind of hook -> where that hook is
    id,         \* session -> ending hooks that hold the agent's id
    agent,      \* session -> its agents row
    chained,    \* sessions whose row has the ancestors of their hooks
    seen,       \* session -> sessions whose `rtok mcp` started before its row was last seen
    row,        \* session -> its sessions row
    dropped,    \* sessions whose deferred end could not write either
    resumes, faults

agentVars == <<phase, hook, id, agent, chained, seen, row, dropped, resumes, faults>>

Kinds == {"event", "end", "child"}

AgentTypeOK ==
    /\ phase \in [Sessions -> {"new", "running", "over"}]
    /\ hook \in [Sessions -> [Kinds -> {"none", "open", "register", "chain", "record",
                                        "endAgent", "endSession"}]]
    /\ id \in [Sessions -> SUBSET Kinds]
    /\ agent \in [Sessions -> {"none", "live", "ended"}]
    /\ chained \subseteq Sessions /\ seen \in [Sessions -> SUBSET Sessions]
    /\ row \in [Sessions -> {"none", "open", "ended"}]
    /\ dropped \subseteq Sessions /\ resumes \in 0..MaxResumes /\ faults \in 0..MaxFaults

AgentInit ==
    /\ phase = [s \in Sessions |-> "new"]
    /\ hook = [s \in Sessions |-> [k \in Kinds |-> "none"]]
    /\ id = [s \in Sessions |-> {}]
    /\ agent = [s \in Sessions |-> "none"] /\ row = [s \in Sessions |-> "none"]
    /\ chained = {} /\ seen = [s \in Sessions |-> {}] /\ dropped = {}
    /\ resumes = 0 /\ faults = 0

-----------------------------------------------------------------------------
(* The host fires the hooks and starts the MCP process.                      *)

Fire(s, k) == hook[s][k] = "none" /\ hook' = [hook EXCEPT ![s][k] = "open"]
RowsUnchanged == UNCHANGED <<agent, chained, row, dropped>>

SessionEvent(s) ==
    /\ phase[s] \in {"new", "running"} /\ Fire(s, "event")
    /\ phase' = [phase EXCEPT ![s] = "running"]
    /\ RowsUnchanged /\ UNCHANGED <<id, seen, resumes, faults>>
SessionEnd(s) ==
    /\ phase[s] = "running" /\ Fire(s, "end") /\ hook[s]["child"] = "none"
    /\ phase' = [phase EXCEPT ![s] = "over"]
    /\ RowsUnchanged /\ UNCHANGED <<id, seen, resumes, faults>>
SessionResumes(s) ==
    /\ phase[s] = "over" /\ resumes < MaxResumes /\ Fire(s, "event")
    /\ phase' = [phase EXCEPT ![s] = "running"]
    /\ resumes' = resumes + 1 /\ dropped' = dropped \ {s}
    /\ UNCHANGED <<id, agent, chained, row, seen, faults>>
McpStarts(s) ==
    /\ phase[s] = "running" /\ \E t \in Sessions : s \in seen[t]
    /\ seen' = [t \in Sessions |-> seen[t] \ {s}]
    /\ RowsUnchanged /\ UNCHANGED <<phase, hook, id, resumes, faults>>

-----------------------------------------------------------------------------
(* A hook process. Each statement may meet another writer's lock.            *)

To(s, k, l) == hook' = [hook EXCEPT ![s][k] = l]
Fault == faults < MaxFaults /\ faults' = faults + 1
NoFault == UNCHANGED faults

\* Broken variant: nobody is left to end the session.
GiveUpAlone(s, k) ==
    /\ hook' = [hook EXCEPT ![s][k] = "none"]
    /\ dropped' = IF k = "child" THEN dropped \cup {s} ELSE dropped

\* defer_session_end: only a SessionEnd that is not the deferred child itself.
GiveUp(s, k) ==
    /\ hook' = [hook EXCEPT ![s][k] = "none",
                            ![s]["child"] = IF k = "end" THEN "open"
                                            ELSE IF k = "child" THEN "none" ELSE @]
    /\ dropped' = IF k = "child" THEN dropped \cup {s} ELSE dropped

\* open_with; a locked store hands a SessionEnd over to the child.
HookOpen(s, k) ==
    /\ hook[s][k] = "open"
    /\ \/ To(s, k, "register") /\ NoFault /\ UNCHANGED dropped
       \/ GiveUp(s, k) /\ Fault
    /\ UNCHANGED <<phase, id, agent, chained, row, seen, resumes>>

\* register_agent: an upsert that makes the row live, also when it was ended.
\* When it fails the hook goes on without an id.
HookRegister(s, k) ==
    /\ hook[s][k] = "register"
    /\ \/ /\ agent' = [agent EXCEPT ![s] = "live"]
          /\ seen' = [seen EXCEPT ![s] = Sessions]
          /\ id' = [id EXCEPT ![s] = @ \cup ({k} \ {"event"})]
          /\ To(s, k, "chain") /\ NoFault
       \/ To(s, k, "record") /\ Fault /\ UNCHANGED <<agent, seen, id>>
    /\ UNCHANGED <<phase, chained, row, dropped, resumes>>

\* set_agent_ancestors; its error is ignored. A child outlives its hook: it may have
\* no ancestors left, which keeps the stored ones, or those of the resident.
HookChains(s, k) ==
    /\ hook[s][k] = "chain" /\ To(s, k, "record")
    /\ \/ chained' = chained \cup {s} /\ NoFault
       \/ k = "child" /\ chained' \in {chained, chained \ {s}} /\ NoFault
       \/ UNCHANGED chained /\ Fault
    /\ UNCHANGED <<phase, id, agent, row, seen, dropped, resumes>>

\* record_call: the sessions row is upserted, which never reopens it.
HookRecord(s, k) ==
    /\ hook[s][k] = "record"
    /\ \/ /\ row' = [row EXCEPT ![s] = IF @ = "none" THEN "open" ELSE @]
          /\ To(s, k, IF k = "event" THEN "none" ELSE "endAgent")
          /\ NoFault /\ UNCHANGED <<id, dropped>>
       \/ GiveUp(s, k) /\ id' = [id EXCEPT ![s] = @ \ {k}] /\ Fault /\ UNCHANGED row
    /\ UNCHANGED <<phase, agent, chained, seen, resumes>>

\* end_agent, with the id the hook registered; its error is ignored.
HookEndAgent(s, k) ==
    /\ hook[s][k] = "endAgent" /\ To(s, k, "endSession")
    /\ \/ /\ agent' = IF k \in id[s] THEN [agent EXCEPT ![s] = "ended"] ELSE agent
          /\ NoFault
       \/ UNCHANGED agent /\ Fault
    /\ id' = [id EXCEPT ![s] = @ \ {k}]
    /\ UNCHANGED <<phase, chained, row, seen, dropped, resumes>>

\* end_session; a locked store hands over to the child once more.
HookEndSession(s, k) ==
    /\ hook[s][k] = "endSession"
    /\ \/ /\ row' = [row EXCEPT ![s] = IF @ = "none" THEN @ ELSE "ended"]
          /\ To(s, k, "none") /\ NoFault /\ UNCHANGED dropped
       \/ GiveUp(s, k) /\ Fault /\ UNCHANGED row
    /\ UNCHANGED <<phase, id, agent, chained, seen, resumes>>

HookStep(s, k) ==
    \/ HookOpen(s, k) \/ HookRegister(s, k) \/ HookChains(s, k) \/ HookRecord(s, k)
    \/ HookEndAgent(s, k) \/ HookEndSession(s, k)

AgentNext == \E s \in Sessions :
    \/ SessionEvent(s) \/ SessionEnd(s) \/ SessionResumes(s) \/ McpStarts(s)
    \/ \E k \in Kinds : HookStep(s, k)

AgentSpec == AgentInit /\ [][AgentNext]_agentVars

\* A hook process goes on to its end; the host need not start another.
AgentFairness == \A s \in Sessions, k \in Kinds : WF_agentVars(HookStep(s, k))

-----------------------------------------------------------------------------
(* link::resolve for the `rtok mcp` of session s.                            *)

\* Broken variant: last_seen compared the other way round.
CandidatesBefore(s) == {t \in Sessions : agent[t] = "live" /\ s \notin seen[t]}
Candidates(s) == {t \in Sessions : agent[t] = "live" /\ s \in seen[t]}
Shared(s, t) ==
    IF t \in chained THEN {i \in DOMAIN McpChain[s] : McpChain[s][i] \in Pids(HookChain[t])}
    ELSE {}
\* The candidates behind the nearest ancestor that a hook of theirs also had.
Nearest(s) == {t \in Candidates(s) :
                 \E i \in Shared(s, t) :
                    \A u \in Candidates(s) : \A j \in Shared(s, u) : i <= j}
\* The agents the process may serve: one is the link, several are ambiguous.
\* Without a shared ancestor it is whoever is live in the directory.
Resolved(s) == IF Nearest(s) # {} THEN Nearest(s) ELSE Candidates(s)

\* A process is never linked to another session's agent once its own session
\* has a live row with its ancestors, seen since the process started: "a wrong
\* link would route another agent's messages here" (link.rs:22).
LinkIsOwn == \A s \in Sessions :
    agent[s] = "live" /\ s \in seen[s] /\ s \in chained => s \in Resolved(s)

\* A session that ends gets its ended_at, though the store be locked at every
\* statement of the hook, unless it is resumed or the child fails as well.
SessionsEnd == \A s \in Sessions :
    phase[s] = "over" ~> (row[s] = "ended" \/ phase[s] = "running" \/ s \in dropped)
=============================================================================
