---------------------------- MODULE MCRagSources ----------------------------
(* Instances of RagSources for TLC: uploads, merged pull requests and      *)
(* deletions of one cross-tenant collection.                               *)
EXTENDS RagSources

CONSTANTS n1, n2, f1, f2, d1, d2, stack, h1, h2

OneCollection == [w \in Writers |-> stack]
=============================================================================
