----------------------------- MODULE MCGateway -----------------------------
(* Gateway on a small instance: one daemon and one agent. *)
EXTENDS Gateway, TLC

CONSTANTS agent, lab, k1, k2

\* Hello frames: the daemon, the agent and a peer of neither role.
DaemonHello == [role |-> "daemon", name |-> lab, key |-> k1, target |-> lab]
AgentHello == [role |-> "bridge", name |-> agent, key |-> k1, target |-> lab]
StrayHello == [role |-> "other", name |-> agent, key |-> k1, target |-> lab]
OneAgent == {DaemonHello, AgentHello}
AllHellos == {DaemonHello, AgentHello, StrayHello}

MCNames == {agent, lab}
Absent == [key |-> NoKey, allowed |-> {}]
\* The configuration on disk at start, and one with the agent's key rotated
\* and the daemon's token removed.
MCStart ==
    [agents |-> [n \in MCNames |-> IF n = lab THEN Absent ELSE [key |-> k1, allowed |-> {lab}]],
     daemons |-> [n \in MCNames |-> IF n = lab THEN k1 ELSE NoKey]]
Rotated ==
    [agents |-> [n \in MCNames |-> IF n = lab THEN Absent ELSE [key |-> k2, allowed |-> {lab}]],
     daemons |-> [n \in MCNames |-> NoKey]]
MCConfigs == {MCStart, Rotated}
Symmetry == Permutations(Conns)
=============================================================================
