---------------------------- MODULE MCSecretFiles ----------------------------
(* Instance for TLC: two coroutines serve three requests on two kinds of     *)
(* credential; one of them may die.                                          *)
EXTENDS SecretFiles, TLC

MCKinds == <<"jira", "github">>
MCSymmetry == Permutations(Slots)
=============================================================================
