------------------------ MODULE MCOnboardingAnalysis ------------------------
(* Instances of OnboardingAnalysis for TLC: starts and cancels of the      *)
(* analysis of one squad, whose client may be moved to another workspace.  *)
EXTENDS OnboardingAnalysis

CONSTANTS r1, r2, g1, c1, c2, w1, w2
=============================================================================
