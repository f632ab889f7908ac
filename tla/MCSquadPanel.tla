---------------------------- MODULE MCSquadPanel ----------------------------
(* Instance for TLC: two coroutines serve four requests on a squad of two     *)
(* devs and one architect; the setups cross their drafts.                    *)
EXTENDS SquadPanel, TLC

MCSlugs == <<"dev", "dev", "arch">>
MCTiers == [g \in {"dev", "arch", "qa", "ops"} |->
               CASE g = "dev" -> "dev" [] g = "arch" -> "architect" [] OTHER -> "reviewer"]
Draft(g) == [slug |-> g, draft |-> TRUE]
Known(g) == [slug |-> g, draft |-> FALSE]
MCSetups == {<<Draft("qa"), Draft("dev")>>, <<Draft("dev"), Draft("qa")>>,
             <<Draft("ops"), Known("arch")>>, <<Draft("qa"), Known("ops")>>}
MCSymmetry == Permutations(Slots)
=============================================================================
