---------------------------- MODULE SignPromise ----------------------------
(***************************************************************************)
(* What a signing task promises, without its messages: one node is chosen, *)
(* slices are collected for it, it alone recovers the private key, and not *)
(* before enough of them are there, and a result is committed only when    *)
(* the key was recovered.  A committed task is taken up again only for the *)
(* slice of a further deployment.                                          *)
(***************************************************************************)
CONSTANTS
  Nodes, NoNode, \* the nodes that may be chosen, and none of them
  Ids,           \* the slices there may be
  Quorums        \* the sets of slices from which the key can be recovered

VARIABLES
  signer,     \* the chosen node
  collected,  \* the deployments whose slices are there
  recovered,  \* the nodes that know the private key
  committed   \* a result is committed

promiseVars == <<signer, collected, recovered, committed>>

Init ==
  /\ signer = NoNode
  /\ collected = {} /\ recovered = {}
  /\ committed = FALSE

Choose(p) ==
  /\ signer = NoNode
  /\ signer' = p
  /\ UNCHANGED <<collected, recovered, committed>>

Collect(id) ==
  /\ signer # NoNode /\ id \notin collected
  /\ collected' = collected \cup {id}
  /\ committed' \in {committed, FALSE}
  /\ UNCHANGED <<signer, recovered>>

Recover ==
  /\ signer # NoNode /\ collected \in Quorums
  /\ recovered' = {signer}
  /\ UNCHANGED <<signer, collected, committed>>

Commit ==
  /\ signer # NoNode /\ recovered = {signer}
  /\ committed' = TRUE
  /\ UNCHANGED <<signer, collected, recovered>>

Next ==
  \/ \E p \in Nodes : Choose(p)
  \/ \E id \in Ids : Collect(id)
  \/ Recover
  \/ Commit

Spec == Init /\ [][Next]_promiseVars
=============================================================================
