------------------------------ MODULE MCParts -------------------------------
(* One instance of each of seven parts that share no state: the symbol       *)
(* index, the rotating log, the agents' rows, the proxy, the project links,  *)
(* the notes and the guard. Which part runs is chosen at the start; the      *)
(* others rest in one of their initial states.                               *)
EXTENDS GraphIndex, LogFiles, AgentRows, ProxyCalls, ProjectLinks, Notes, GuardCache, TLC

CONSTANTS s1, s2, c1, A, B, C, k1, k2, t1, t2, b1, b2, x1, x2, q1, q2

VARIABLE part

partVars == <<part, graphVars, logVars, agentVars, proxyVars, linkVars, noteVars, guardVars>>

HookChains2 == (s1 :> <<11, 10, 5>>) @@ (s2 :> <<20, 11, 10>>)
McpChains == (s1 :> <<10, 5>>) @@ (s2 :> <<20, 11, 10>>)
AskOne == [scope |-> "A", text |-> "a", eligible |-> TRUE]
AllAsks == {AskOne, [scope |-> "A", text |-> "b", eligible |-> TRUE],
            [scope |-> "B", text |-> "a", eligible |-> TRUE],
            [scope |-> "A", text |-> "a", eligible |-> FALSE]}
Manifests == (A :> {{B}, {B, C}}) @@ (B :> {{C}}) @@ (C :> {{}})
FromAbroad == <<[id |-> 0, topic |-> t1, body |-> b2, retired |-> TRUE], Malformed,
                [id |-> 1, topic |-> t2, body |-> b1, retired |-> FALSE]>>
BothSimilar == [x \in {"a", "b"} |-> {"a", "b"}]

(* Where each part begins: the files all hold text, and the parts that rest  *)
(* have a single initial state.                                              *)
PartsInit ==
    /\ part \in {"graph", "log", "watch", "session", "sessions", "proxy", "links", "walks", "notes",
                "guard"}
    /\ GraphInit /\ disk = [f \in Files |-> [sha |-> c1, stat |-> 0]]
    /\ LogInit /\ (part \in {"log", "watch"} \/ keep = 0)
    /\ AgentInit
    /\ ProxyInit /\ (part = "proxy" \/ ask = [r \in Requests |-> AskOne])
    /\ LinksInit /\ (part = "links" \/ named[A] = {B})
    /\ NotesInit
    /\ GuardInit /\ contents = [f \in Paths |-> x1]

(* The log is written with nobody watching it, and less of it with a watch   *)
(* and nobody dying. One session is resumed twice and meets two faults; two  *)
(* sessions side by side are not resumed and meet none. One walk follows the *)
(* references under two acts of the user; two walks read every manifest,     *)
(* under one act, with every directory in place. Four calls on the notes are *)
(* all finished, three may be cut. Three tools run, or two with an upset. Of  *)
(* the two slots, which are alike, the first is taken first.                  *)
PartsNext ==
    /\ UNCHANGED part
    /\ \/ part = "graph" /\ GraphNext /\ UNCHANGED <<logVars, agentVars, proxyVars, linkVars, noteVars, guardVars>>
       \/ /\ part = "log" /\ LogNext /\ follow'.at = "off"
          /\ UNCHANGED <<graphVars, agentVars, proxyVars, linkVars, noteVars, guardVars>>
       \/ /\ part = "watch" /\ LogNext /\ keep > 0 /\ begun' <= 5 /\ deaths' = 0
          /\ UNCHANGED <<graphVars, agentVars, proxyVars, linkVars, noteVars, guardVars>>
       \/ /\ part = "session" /\ AgentNext /\ phase'[s2] = "new"
          /\ UNCHANGED <<graphVars, logVars, proxyVars, linkVars, noteVars, guardVars>>
       \/ /\ part = "sessions" /\ AgentNext /\ resumes' + faults' = 0
          /\ UNCHANGED <<graphVars, logVars, proxyVars, linkVars, noteVars, guardVars>>
       \/ /\ part = "proxy" /\ ProxyNext
          /\ UNCHANGED <<graphVars, logVars, agentVars, linkVars, noteVars, guardVars>>
       \/ /\ part = "links" /\ LinksNext /\ walk'[k2] = walk[k2]
          /\ UNCHANGED <<graphVars, logVars, agentVars, proxyVars, noteVars, guardVars>>
       \/ /\ part = "walks" /\ LinksNext /\ acts' <= 1 /\ UNCHANGED <<there, selected>>
          /\ ~\E k \in Walkers : walk'[k].unread
          /\ UNCHANGED <<graphVars, logVars, agentVars, proxyVars, noteVars, guardVars>>
       \/ /\ part = "notes" /\ NotesNext /\ (cuts' = 0 \/ calls' <= 3)
          /\ UNCHANGED <<graphVars, logVars, agentVars, proxyVars, linkVars, guardVars>>
       \/ /\ part = "guard" /\ GuardNext /\ (upsets' = 0 \/ tools' <= 2)
          /\ tool[q1] # NoTool \/ tool[q2] # NoTool \/ tool'[q2] = NoTool
          /\ UNCHANGED <<graphVars, logVars, agentVars, proxyVars, linkVars, noteVars>>

PartsSpec == PartsInit /\ [][PartsNext]_partVars /\ GraphFairness /\ AgentFairness

PartsTypeOK == GraphTypeOK /\ LogTypeOK /\ AgentTypeOK /\ ProxyTypeOK /\ LinksTypeOK
               /\ NotesTypeOK /\ GuardTypeOK
=============================================================================
