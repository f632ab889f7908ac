--------------------------- MODULE MCManagedRuns ---------------------------
(* Instances of ManagedRuns for TLC: every run works for one of two clients *)
(* on an issue of their common Jira workspace, with one of two agents.      *)
EXTENDS ManagedRuns

CONSTANTS r1, r2, r3, i1, c1, c2, a1, a2, t1

\* all runs of one client and one agent on one issue
SameIssue == [r \in Runs |-> i1]
SameClient == [r \in Runs |-> c1]
SameAgent == [r \in Runs |-> a1]

\* the second run belongs to another client, and has another agent
MixedClients == [r \in Runs |-> IF r = r2 THEN c2 ELSE c1]
MixedAgents == [r \in Runs |-> IF r = r2 THEN a2 ELSE a1]
SharedTemplate == [a \in Agents |-> t1]
=============================================================================
