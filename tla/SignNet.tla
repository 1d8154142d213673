------------------------------ MODULE SignNet ------------------------------
(***************************************************************************)
(* What the handlers of a signing task exchange.                           *)
(***************************************************************************)
EXTENDS Network

CONSTANTS
  Delegates,     \* the nodes that may be invited to sign
  Pinners,       \* the nodes that may hold a key slice
  DeploymentIds  \* the deployments of the slices of the account's key

ASSUME SignNetAssumption ==
  /\ NoPeer \notin Delegates
  /\ IsFiniteSet(DeploymentIds)

\* The task info of every signing task, until layer1 is asked for it.
N == 2
K == 1

\* ExecutorInfo: a node and the RSA key it sent along, known by its number
\* among that node's keys.
ExecutorInfo == [peer : Delegates, rsa : Nat \ {0}]

\* KeySliceInfo of a deployment, with the key that the slice is encrypted for.
KeySlice == [id : DeploymentIds, peer : Pinners, key : ExecutorInfo]

\* Answers that run a closure of the event handler, at the delegator.
EventAnswers == [type : {"nodeReady", "delegatorKey", "deploymentIds"}, ev : Nat]
DelegateLists == [type : {"delegates"}, ev : Nat, ids : SUBSET DeploymentIds]

\* The profile of a delegate, and SignCandidateRequest.
Invitations == [type : {"profile", "candidate"}, ev : Nat, peer : Delegates]

\* TaskSignWithKeySlicesRequst, and the attestation that succeeded.
Applications == [type : {"apply", "attest"}, peer : Delegates, rsa : Nat \ {0}]

\* FindPinnersRequest, and the attestation of a pinner that was found.
Searches == [type : {"find"}, ev : Nat, id : DeploymentIds]
Discoveries == [type : {"found"}, ev : Nat, id : DeploymentIds, peer : Pinners]

\* TaskSignGetPinnerKeySliceRequest, the answer of get_deployment_info, and
\* TaskSignGetPinnerKeySliceResponse.
SliceMessages ==
  [type : {"get", "info", "slice"}, id : DeploymentIds, peer : Pinners, key : ExecutorInfo]

\* TaskSignWithKeySlicesResponse and TaskCommitSignResultRequest.
SignRequests == [type : {"sign"}, peer : Delegates, slices : SUBSET KeySlice]
Commits == [type : {"commit"}, peer : Delegates]

Message ==
  EventAnswers \cup DelegateLists \cup Invitations \cup Applications \cup Searches
    \cup Discoveries \cup SliceMessages \cup SignRequests \cup Commits
=============================================================================
