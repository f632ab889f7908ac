----------------------------- MODULE RunLedger -----------------------------
(***************************************************************************)
(* What run_managed_task promises to whoever reads the database: a run     *)
(* opens a session, the session reports usage and threads once, the report *)
(* is shown whole or not at all, and the session is closed only after its  *)
(* report is shown.  A run may stop at any point.                          *)
(***************************************************************************)
CONSTANTS Runs, Threads

VARIABLES
  phase,    \* progress of a run
  report,   \* what its session reported
  shown,    \* what the database shows of it
  closed    \* runs whose session is gone

vars == <<phase, report, shown, closed>>

Reports == [usage : BOOLEAN, threads : SUBSET Threads]
Nothing == [usage |-> FALSE, threads |-> {}]

Init ==
  /\ phase = [r \in Runs |-> "new"]
  /\ report = [r \in Runs |-> Nothing]
  /\ shown = [r \in Runs |-> Nothing]
  /\ closed = {}

Step(r, from, to) == phase[r] = from /\ phase' = [phase EXCEPT ![r] = to]

Open(r) == Step(r, "new", "open") /\ UNCHANGED <<report, shown, closed>>

Report(r) ==
  /\ Step(r, "open", "reported")
  /\ \E p \in Reports : report' = [report EXCEPT ![r] = p]
  /\ UNCHANGED <<shown, closed>>

Show(r) ==
  /\ Step(r, "reported", "saved")
  /\ shown' = [shown EXCEPT ![r] = report[r]]
  /\ UNCHANGED <<report, closed>>

Close(r) ==
  /\ phase[r] = "saved" /\ r \notin closed
  /\ closed' = closed \cup {r}
  /\ UNCHANGED <<phase, report, shown>>

Next == \E r \in Runs : Open(r) \/ Report(r) \/ Show(r) \/ Close(r)
Spec == Init /\ [][Next]_vars
=============================================================================
