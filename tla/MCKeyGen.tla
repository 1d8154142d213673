------------------------------ MODULE MCKeyGen ------------------------------
(***************************************************************************)
(* Instances of KeyGen for TLC: the nodes are interchangeable.             *)
(***************************************************************************)
EXTENDS KeyGen, TLC

Symmetry == Permutations(Peers)

\* Bound for the runs with redelivered events: how much is under way at a time.
FewUnderWay == Cardinality(net) <= 4
=============================================================================
