------------------------- MODULE MCDeployModeChange -------------------------
(***************************************************************************)
(* A component with two pods, a current and an older ReplicaSet, and       *)
(* identities for the replacements of pods that die.                       *)
(***************************************************************************)
EXTENDS DeployModeChange

CONSTANTS p1, p2, p3, p4, current, previous

MCPods == {p1, p2, p3, p4}
MCInitial == {p1, p2}
MCSets == {current, previous}
=============================================================================
