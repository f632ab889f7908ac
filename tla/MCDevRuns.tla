----------------------------- MODULE MCDevRuns -----------------------------
(* DevRuns for TLC: every run of a Dev or a Desk is about one issue.        *)
EXTENDS DevRuns, TLC

CONSTANTS d1, f1, k1, open

MCIssueOf == [r \in Devs \cup Desks |-> "LEO-1"]
MCGrants == {<<open, "repo">>, <<open, "project">>}
=============================================================================
