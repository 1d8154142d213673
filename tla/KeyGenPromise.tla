--------------------------- MODULE KeyGenPromise ---------------------------
(***************************************************************************)
(* What a key generation task promises, without its messages: once, an     *)
(* executor and pinners are elected, all different nodes; once, a result   *)
(* is published in which the i-th pinner holds the i-th slice of one key;  *)
(* and a pinner commits only the deployment that was published for it.     *)
(***************************************************************************)
EXTENDS Naturals, Sequences

CONSTANTS
  Nodes, NoNode, \* the nodes that may be elected, and none of them
  Count,         \* how many pinners
  Keys           \* the keys that may be generated

VARIABLES
  executor,   \* the elected executor
  pinners,    \* the elected pinners, in order
  published,  \* the results layer1 received
  committed   \* the commits of the pinners

promiseVars == <<executor, pinners, published, committed>>

Init ==
  /\ executor = NoNode /\ pinners = <<>>
  /\ published = <<>>
  /\ committed = {}

Elect(e, ps) ==
  /\ executor = NoNode
  /\ \A i, j \in 1 .. Count : i # j => ps[i] # ps[j]
  /\ \A i \in 1 .. Count : ps[i] # e
  /\ executor' = e /\ pinners' = ps
  /\ UNCHANGED <<published, committed>>

Slices(key) == {[peer |-> pinners[i], key |-> key, index |-> i] : i \in 1 .. Count}

Publish(key) ==
  /\ executor # NoNode /\ published = <<>>
  /\ published' = <<[key |-> key, deployments |-> Slices(key)]>>
  /\ UNCHANGED <<executor, pinners, committed>>

Commit(d) ==
  /\ published # <<>> /\ d \in published[1].deployments
  /\ committed' = committed \cup {[cid |-> d, deployment |-> d]}
  /\ UNCHANGED <<executor, pinners, published>>

Next ==
  \/ \E e \in Nodes, ps \in [1 .. Count -> Nodes] : Elect(e, ps)
  \/ \E key \in Keys : Publish(key)
  \/ \E d \in UNION {published[i].deployments : i \in DOMAIN published} : Commit(d)

Spec == Init /\ [][Next]_promiseVars
=============================================================================
