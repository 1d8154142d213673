----------------------------- MODULE KeyGenNet -----------------------------
(***************************************************************************)
(* What the handlers of a key generation task exchange.                    *)
(***************************************************************************)
EXTENDS Network

CONSTANTS
  Peers,         \* the nodes beside the delegator
  N,             \* exec_info.n of the task
  ProfilesAgree  \* get_delegates and the profiles name the same peer ids

ASSUME NetAssumption ==
  /\ NoPeer \notin Peers   \* the executor of an item without an election
  /\ N \in 2 .. 254   \* validate_task_info wants 1 <= k < n; 255: see CandidateElection
  /\ ProfilesAgree \in BOOLEAN

\* A candidate as the delegator knows it: a peer and the RSA key it sent
\* along, known by its number among that peer's keys.
Candidate == [peer : Peers, rsa : Nat \ {0}]

\* A deployed key slice: who holds it, of which generated key, and which one.
Deployment == [peer : Peers, key : Nat \ {0}, index : Nat \ {0}]

\* Answers that run a closure of the event handler, at the delegator.
EventAnswers == [type : {"nodeReady", "delegatorKey", "delegates"}, ev : Nat]
Profiles == [type : {"profile"}, ev : Nat, peer : Peers]

\* KeyGenerationCandidateRequest, and the answer that verifies its sender.
Invitations == [type : {"candidate", "verify"}, ev : Nat, peer : Peers, exec : BOOLEAN]

\* TaskKeyGenerationApplyRequst, and the attestation that succeeded.
Applications == [type : {"apply", "attest"}, peer : Peers, exec : BOOLEAN, rsa : Nat \ {0}]

\* TaskExecutionRequest and TaskExecutionResponse.
Requests == [type : {"execute"}, peer : Peers, pinners : Seq(Candidate)]
Responses == [type : {"executed"}, peer : Peers, key : Nat \ {0}, pinners : Seq(Candidate)]

\* TaskPinnerKeySliceRequest, and the answer of register_upload_rsa_key.
Slices == [type : {"slice", "upload"}, peer : Peers, key : Nat \ {0}, rsa : Nat \ {0},
           index : Nat \ {0}]

\* The answer of process_data_upload, and TaskPinnerKeySliceResponse.
Deployments == [type : {"uploaded", "deployed"}, peer : Peers, key : Nat \ {0},
                index : Nat \ {0}]

\* update_generate_key_result, its reply, and the AssetGenerated event.
Results == [type : {"result"}, key : Nat, deployments : SUBSET Deployment]
Updates == [type : {"updated"}]
Assets == [type : {"asset"}, peer : Peers, key : Nat]

Message ==
  EventAnswers \cup Profiles \cup Invitations \cup Applications \cup Requests
    \cup Responses \cup Slices \cup Deployments \cup Results \cup Updates \cup Assets
=============================================================================
