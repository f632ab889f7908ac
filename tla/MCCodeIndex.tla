----------------------------- MODULE MCCodeIndex -----------------------------
(* Instance for TLC: two files that have no chunk at first, two after a pull  *)
(* and one after the next; messages about the local repository, about another *)
(* one, about one that is not cloned, and one that can never be handled.      *)
EXTENDS CodeIndex

MCChunks == <<0, 2, 1>>
Reindex(repo, files) == [body |-> "reindex", repo |-> repo, files |-> files]
MCMessages == {Reindex("a", <<"f", "g">>), Reindex("b", <<"f">>),
               Reindex("c", <<"f">>), [body |-> "bad fields"]}
=============================================================================
