------------------------------- MODULE MCSign -------------------------------
(***************************************************************************)
(* Instances of Sign for TLC: delegates, pinners and deployments are each  *)
(* interchangeable.                                                        *)
(***************************************************************************)
EXTENDS Sign, TLC

Symmetry ==
  Permutations(Delegates) \cup Permutations(Pinners) \cup Permutations(DeploymentIds)
=============================================================================
