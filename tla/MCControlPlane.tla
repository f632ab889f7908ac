--------------------------- MODULE MCControlPlane ---------------------------
(* Instance for TLC: two coroutines, three requests, on an empty database or  *)
(* on one with the seeded client, a tenant and an agent of each.             *)
EXTENDS ControlPlane, TLC

MCAgents == "a0" :> [client |-> Zero, onboards |-> FALSE]
            @@ "a1" :> [client |-> Tenant, onboards |-> TRUE]
            @@ "a2" :> [client |-> Tenant, onboards |-> FALSE]
MCClientEdits == {[status |-> "archived"], [status |-> "active"], [url |-> Workspace]}
MCPlanEdits == {[rate |-> 2], [markup |-> 1]}
MCUserEdits == {[role |-> "CLIENT_VIEWER"], [active |-> FALSE],
                [role |-> "CLIENT_ADMIN", active |-> TRUE]}
MCStackEdits == {[framework |-> 1], [name |-> 2]}
MCProfiles == "python" :> "v2"
MCSymmetry == Permutations(Slots)
=============================================================================
