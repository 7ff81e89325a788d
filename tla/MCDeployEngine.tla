--------------------------- MODULE MCDeployEngine ---------------------------
(* Model values and a small history for TLC.                               *)
EXTENDS DeployEngineInvariants, TLC

CONSTANTS d1, d2, d3, s1

OneBefore == <<s1>>

\* Deployments are interchangeable until they are created.
Symmetry == Permutations(Deployment)
=============================================================================
