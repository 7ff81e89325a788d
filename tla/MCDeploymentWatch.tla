------------------------- MODULE MCDeploymentWatch --------------------------
(* Constants for model-checking DeploymentWatch.                           *)
EXTENDS DeploymentWatch

CONSTANTS w1, w2
=============================================================================
