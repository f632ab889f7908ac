----------------------------- MODULE MCBilling -----------------------------
(* Billing for TLC: two loops outside any Task, a managed session on an     *)
(* issue, a skill proposal, and an analysis whose Task is closed.          *)
EXTENDS Billing, TLC

CONSTANTS k1, k2, a1, a2, w1, w2, w3, w4, i0, j0

MCAgentOf == [w \in Loops \cup Sessions |-> IF w = w2 THEN a2 ELSE a1]
MCTaskOf == [w \in Loops \cup Sessions |-> IF w = w3 THEN i0 ELSE None]
MCPlacements ==
  {[x \in Agents \cup Proposals \cup Issues |->
      IF x = a2 THEN k ELSE IF x = w4 THEN k2 ELSE k1] : k \in {k1, k2}}
MCPrice == [w \in Writers |-> (w1 :> 3 @@ w2 :> 5 @@ w3 :> 4 @@ w4 :> 9)[w]]
MCPlan == k1 :> [infra |-> 15, fixed |-> 2, fx |-> 6] @@ k2 :> None

AllTasks == [wanted |-> Columns, dates |-> 0..MaxTime]
MCNarrow ==
  {AllTasks, [wanted |-> {c \in Columns : c.status = "in_progress"}, dates |-> 0..MaxTime],
   [wanted |-> {c \in Columns : c.agent = a1}, dates |-> 2..MaxTime]}

\* Behaviours with an analysis, or with a list that is narrowed down, have one
\* call and one run of the script.
Narrowed == page # Resting /\ page.of.list = "tasks" /\ page.of.wanted # Columns
MCBound ==
  j0 \in DOMAIN created \/ Narrowed =>
    /\ runs <= 1 /\ Cardinality(DOMAIN rows) <= 1
    /\ \A c \in DOMAIN rows : rows[c].writer = w1
    /\ \A w \in Writers \ {w1} : began[w] = 0
=============================================================================
