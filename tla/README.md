# Specifications of the gluon actor

The gluon actor runs on every node of the TEA network. With the gluon actors of
other nodes it generates a key nobody holds alone, deposits its Shamir slices
at *initial pinners*, and later collects slices again to sign transactions. It
is a wascc actor: it keeps no state in memory, handles one message at a time,
and loads and saves one record per task and role in a key-value store. Calls to
layer1, to the pinner actor and to its own host return at once; a closure
stored with the call runs when the answer arrives. Peer-to-peer messages are
sent and forgotten.

What can go wrong is therefore hardly ever inside one handler. It lies between
handlers: in the order in which messages, answers and layer1 events arrive, in
a call that fails between two saves, in a check made before a call and a save
made in its closure. These modules model the handlers as actions over the saved
records and a set of messages under way.

Paths below are relative to `src/src/`.

## 1. Inventory

| Component | State it keeps | Operations | Correct when | Status |
|---|---|---|---|---|
| Election (`delegator/key_gen/store_item.rs`) | the two candidate vectors, executor and pinners of `DelegatorKeyGenStoreItem` | `ready`, `insert_*`, `elect`, `select_executor`, `select_initial_pinners` | an election has candidates enough, ends, loses and doubles none, elects exactly n | modelled; all safety properties proved |
| Key generation, delegator (`delegator/key_gen.rs`, `delegator/key_gen/**`, `delegator/verifier.rs`, `common/utils.rs`) | `DelegatorKeyGenStoreItem` | event closures, attestation, `try_send_to_executor`, the two response handlers, `close_p2p_connections` | slices go to attested nodes only; members are distinct; one complete result is published; nobody waits in vain | modelled; all safety properties proved |
| Key generation, other nodes (`executor/key_gen.rs`, `initial_pinner/**`, `common/key_generation.rs`) | `ExecutorStoreItem`, `InitialPinnerStoreItem`, the RSA key of the task, temporary cid and deployment id per account | candidate handlers, execution, upload in two calls, commit on the asset event | what is committed is what was stored and published; whoever is asked has the item it needs | modelled; all safety properties proved |
| Messages and closures (`lib.rs`) | none of its own | `handle_message`, `listen_p2p_message`, the two pinner events | every message reaches the handler of its flow | modelled |
| Choice of swarm peers (`delegator/key_gen/candidates.rs`) | none (pure) | `random_select_peers`, the invitation of the first 2n | the 2n peers nearest to the task, all different; the loop ends and its u8 does not overflow | modelled; all safety properties proved, but the comparison with the unit test |
| Task info (`common/task_info.rs`) | none (pure) | conversion and `validate_task_info` | 1 <= k < n, judged alike by delegator and candidates | modelled |
| Portal (`portal/layer1_events.rs`) | none | three layer1 events | - | modelled |
| Signing, delegator (`delegator/sign.rs`, `delegator/sign/**`) | `DelegatorSignStoreItem` | event closures, attestation of executors and of holders, slices, request, commit | one executor; every found holder is asked; a signed task is committed for good | modelled; all safety properties proved |
| Signing, executor and pinner (`executor/sign.rs`, `pinner/handler.rs`) | `ExecutorStoreItem`, RSA key | application, slice request, signing | only the attested executor recovers the key | modelled; all safety properties proved |
| Dumps (`delegator/dump_methods.rs`) | - | test messages, feature `dev` | - | left out |
| Glue (`common.rs`, `portal.rs`, `delegator.rs`) | - | declarations | - | left out |

A round of key generation:

1. layer1 delivers `AccountGenerationRequested` to all nodes. A node that is
   ready and can decrypt the nonce is the *delegator*; it saves a fresh item.
2. It asks layer1 for at most n delegates, looks up the profile of each, and
   invites them to be the executor; it invites at most 2n other swarm peers to
   be initial pinners.
3. An invited node that has no item of the other role checks the signature,
   looks up the delegator's profile, and in that closure saves its item,
   makes an RSA key and applies.
4. The delegator has each applicant attested by the pinner actor; role and key
   travel along as properties. When the attestation succeeds the candidate is
   stored, and if there are enough the delegator elects an executor and n
   pinners and asks the executor to execute.
5. The executor generates the key, cuts it into n slices, encrypts each for its
   pinner, and answers. The delegator passes the slices on.
6. A pinner registers an upload, decrypts and stores its slice, has it
   processed, remembers cid and deployment id, and reports the deployment.
7. With the last report the delegator publishes the result; layer1 announces
   the asset, upon which each pinner commits its upload; the delegator closes
   the connections.

A round of signing:

1. layer1 delivers `SignTransactionRequested`. The node that is ready and can
   decrypt the nonce is the delegator. It asks layer1 for the deployments of the
   account's key slices and saves a fresh item with an empty place for each.
2. It looks up at most n delegates, who are invited to execute, and has the
   pinner actor find and attest the holders of every deployment.
3. An invited delegate saves its item, makes an RSA key and applies; the pinner
   actor attests it. The first applicant to be attested is the executor.
4. An attested holder is asked for its slice, encrypted for the executor's key.
   While there is no executor it is deferred; the executor's attestation pops
   all deferred holders and asks them.
5. A holder looks up the deployment, takes the slice out of its block store,
   encrypts it and returns it.
6. With k slices, and again with every further one, the delegator sends all it
   has to the executor, which decrypts them, recovers the key, signs, and
   returns the result; the delegator saves the state `CommitResult`. To verify the
   signature and to hand it to layer1 is marked as to be done in the code, and the
   model, like the code, only sets the state.

Delegator and nodes share nothing but messages. The executor's item can serve a
pinner (`trying_get_initial_pinner_store_item`), since an unused executor
candidate may be elected a pinner. Executor and signing executor share a store
key prefix but not a task id.

The hard behaviours, with their lines, are the hazards of `PROJECT.json`.
Roughly: the order of attestations; a failed call in the middle of a handler;
late or repeated messages meeting an item that moved on; role checks before a
lookup and saves after it; expiry of keys and temporary entries; u8 arithmetic.

## 2. Modules

Key generation:

- `Election`: pure operators. `Ready`, the elected executor and pinners as a
  closed form, when the election loop does not end, and whether it elects
  exactly n. Numbers are u8: `n + 1` is taken modulo 256, as in a release build.
- `CandidateElection`: a machine on top of it. Candidates arrive one at a time;
  each arrival runs `try_send_to_executor`, whose loop takes one step per
  iteration. It exists to check the closed form of `Election` against the loop,
  and to study elections that follow failed sends.
- `TaskInfo`: the conversions of n and k between u32 and u8, and validation.
- `CandidateSelection`: `random_select_peers` ring by ring, from the event to
  the invited peers that accept the task.
- `KeyGenNet`: constants of a task and the kinds of messages (each a named set
  of records).
- `KeyGenDelegator` / `KeyGenNode`: the two sides, one action per handler or
  closure. They share only `net` and the count of faults.
- `KeyGen`: their composition, the specification `Spec`, `FairSpec`, the
  properties, and the inductive invariants.
- `KeyGenPromise`: the abstract specification of a round: one election of
  different members, one result, commits of what was published. `KeyGen`
  instantiates it as `Promise`, with the peers of the item's pinners for its
  pinners; `KeepsPromise` is the refinement.

Signing:

- `SignNet`, `SignDelegator`, `SignNode`, `Sign`: built alike.
- `SignPromise`: one node is chosen, collects slices one at a time, it alone
  recovers the key and not before there are enough, and a result is committed
  when it was recovered. `Sign` implements it with the executor, the deployments
  of the stored slices and the state `CommitResult`. The promise says what the
  code does with a slice that comes after the commit: the task goes back, but
  only for a deployment that was not collected before.

Both:

- `Network`: how a message is handled, lost, or fails; the bounds.
- `MCKeyGen`, `MCSign`, `MCSelection`: symmetry, cases and a constraint for TLC.
- `ElectionProofs`, `CandidateElectionProofs`, `SelectionProofs`,
  `KeyGenProofs`, `KeyGenRoundProofs`, `KeyGenRestProofs`, `SignProofs`,
  `SignRestProofs`: theorems.

Key generation and signing are specifications of their own. They share code
(closures, the profile lookup, the attestation of `delegator/verifier.rs`) but
no message type, no attestation tag and no store key of the same task, so that
a step of one is never one of the other. `lib.rs` chooses by message type and
tag; each message type of the models is one branch of it.

### How state corresponds to the code

`item` is `DelegatorKeyGenStoreItem`: `state`; `executor` (`NoPeer` for `None`);
`pinners`; `key` for `p2_public_key` and `multi_sig_account`, which are set
together; `candExecutors`, `candPinners`; and `initial_pinner_responses` split
into `asked`, its keys, and `answers`, those with a deployment. State `"None"`
means that there is no item. `exe[p]` and `pin[p]` are the states of a node's
two items. `rsaKey[p]` is the number of the RSA private key it stores for the
task, 0 when it expired. `dataCid` and `deployId` are the temporary entries.
The remaining variables (`invited`, `attested`, `published`, `closed`,
`committed`) are history: what the code asked of others.

In `Sign`, `item` is `DelegatorSignStoreItem`: `state`, `executor` (node and RSA
key, `NoExecutor` for `None`), `ids` (the keys of `key_slices`), `slices` (its
entries that are there) and `waiting` (the holders in `deployment_candidates`).
`exe`, `rsaKey` and `rsaKeys` are the executor's side as above; holders keep no
state. `invited`, `attested`, `found`, `asked` and `recovered` are history.

A handler that saves before and after a call is one action with an alternative
per outcome: it went through, or the call failed (`Fault("send")`) and only the
first save happened. Handlers of one actor never overlap, so nothing can be
seen between the saves of one handler.

### Abstractions

- One task. Tasks share no record: every key contains the task id or the account.
- Keys, RSA keys, slices, accounts and deployment ids are numbers or records
  that say which they are. Decryption succeeds when the stored RSA key is the
  one encrypted for.
- The delegator is not one of `Peers`: it is not asked to take part in its own
  task.
- The pinner actor, layer1 and the host are external. An attestation, a profile
  lookup or a processing either succeeds or gives no answer; an answer that is
  an error, and a handler that fails before it did anything, is a lost message.
  What stays inside the pinner actor (`update_conflict_list`, the commit) is
  not modelled beyond the request.
- The key-value store does not fail. A crash of the actor loses only closures,
  which is the loss of the answers they wait for.
- `net` is a set: of two equal messages under way at the same time one is
  handled. Within one round no two are equal; of two rounds only those that
  name the same keys can be.
- Replies that only say "received" are left out; nothing waits for them.
- `willing_to_run` and `check_capabilities` always agree, as in the code.
- In `KeyGen` the peers invited to be pinners are any set of at most 2n, hence
  also those `random_select_peers` chooses; which these are is the subject of
  `CandidateSelection`. With `ProfilesAgree` the peer ids in the delegates'
  list, used as filter, are the ones in their profiles, used as addresses.
- In `CandidateSelection` an id is its last byte, all that the code reads of it.
- In `Sign`, N and K are 2 and 1, the constants of `delegator/sign.rs:38`: the
  code does not ask layer1 for them yet.
- Who holds which deployment, and which holders are found and attested, is any
  choice; the search and the attestations are the pinner actor's. In the code an
  attested holder comes back with the deployment it was found for, as here.
- `close_p2p` can fail, and then ends its handler; what closing does to messages
  under way is the host's and not modelled.
- In `KeyGen`, N is 2 .. 254. Less than 2 is refused by `validate_task_info` (1 <= k < n);
  for 255 the machine of `CandidateElection` shows what happens.

## 3. Runs

| Run | Instance | Question |
|---|---|---|
| `election` | N = 3, 7 candidates, 3 failed sends | Is the loop what `Election` says, for every order of arrivals? Does it end, and lose or double nobody? What can a failed send do? |
| `election_255` | N = 255, 2 candidates | *Violation*: the election starts with one candidate |
| `keygen_safety` | 4 nodes, N = 2, 1 event, 3 faults of any kind | All safety properties of a round, that the item only moves on, and the refinement of `KeyGenPromise` |
| `keygen_redelivery` | 3 nodes, N = 2, 2 events, at most 4 messages under way | What survives a redelivered event, of the slices and of what is published? Can anything go on for ever? |
| `keygen_roles` | 3 nodes, N = 2, profiles differ | *Violation*: a node takes both roles |
| `keygen_liveness` | 4 nodes, N = 2, no faults, `FairSpec` | Is a task with enough candidates published and committed? |
| `sign_safety` | 2 delegates, 2 holders, 2 deployments, 1 event, 3 faults of any kind | All safety properties of a signing task, and the refinement of `SignPromise` |
| `sign_redelivery` | 2 delegates, 1 holder, 1 deployment, 2 events, 1 fault | What survives a redelivered event? Can anything go on for ever? |
| `sign_deferred` | as `sign_safety`, with one failed call | *Violation*: one failed call costs more than one deferred holder |
| `sign_liveness` | as `sign_safety`, no faults, `FairSpec` | Is a task committed for good, and does every deployment contribute? |
| `selection` | swarms of up to 7 peers with 3 last bytes, numbers around 0, 1, 255, 256; n = 255 with swarms of 256 to 530; the unit test's peers | Are the nearest peers invited, do they accept, does the loop end without overflow? |

What they show:

- `election`: candidates are partitioned by every election; the first election
  is always exact; every iteration takes a candidate off a vector
  (`LoopNeverStalls`: the loop has no other way to end than to run out of them). After a failed send the stored candidates grow, and with a
  spare executor candidate and more than N pinner candidates the loop, whose
  second condition goes on popping pinners, elects too many; the request is
  then refused (`NotElectedProperly`), and no later election succeeds.
  `OvershootOnlyWithSpareExecutor` says that nothing less leads there.
- `keygen_safety`: with losses, failed calls and expiries in any place, slices
  go to attested nodes only, no node takes two roles, whoever is asked to execute
  or to pin has an item for it, the members are N + 1 different nodes, a published
  result has all N slices of one key from N nodes and is published once, what a
  pinner commits is the slice it stored and was published, no connection is
  closed that is still needed, and the item goes through its states in order
  without taking anything back. `RestsOnlyWhenDone` asks what is left when no
  message is under way any more: without a fault it is a published result, all
  of whose deployments are committed, provided that a delegate and N more nodes
  were invited. A handler that drops a message the next step waits for violates
  it, in whatever order the messages came.
- `keygen_redelivery`: `SlicesOnlyToAttested` does not depend on a single
  delivery; nor do `MembersHaveItems` and `NobodyWaitsInVain`, which the theorems
  of section 4 state for any number of deliveries. The other safety properties of
  `keygen_safety` do: a response of the earlier round, which
  `process_task_execution_response` takes in any state, completes or replaces
  parts of the new one. The repository says nothing about redelivery, so these
  properties are claimed for `MaxEvents = 1` only. `PublishedIsHeld` is what is
  left of them: layer1 may be told of a result in which two rounds mix, but each
  deployment in it is one that an attested pinner made, with both entries in place
  for the commit. The second round replaces RSA keys of the first; a pinner that can
  no longer decrypt its slice must not report it. `RunsOut`: every step uses up an event, a fault or a message, and
  adds messages of later stages only, so that no two rounds can keep each other
  going; a handler that put a message back to wait or to try again would violate it.
- `keygen_liveness`: `EnoughIsPublished` needs one invited delegate and N other
  invitations; `PublishedIsCommitted` follows every published deployment to the
  commit of its node.

- `sign_safety`: of all delegates under attestation at once one is taken and
  only it recovers the key; slices are requested for it alone; what it is sent
  it can decrypt as long as its key has not expired; while no call failed no
  holder falls between being deferred, popped and asked; whoever is sent slices
  finds the item of its own application (`ExecutorHasItem`); the task keeps the
  promise of `SignPromise`. `RestsOnlyWhenDone`: where nothing failed, a delegate
  was invited and a holder attested, the task comes to rest with its result
  committed and a slice of every deployment that has an attested holder.
- `sign_redelivery`: slices and the key go to attested executors only, even when
  requests and slices of the first round meet the item of the second, and
  `RunsOut` holds as in `keygen_redelivery`. The other
  properties are claimed for one delivery, since a fresh item forgets the
  executor and a second one is chosen.
- `sign_liveness`: `SignedForGood` says `[](state = CommitResult)` from some time
  on, for a further slice takes the state back and has the result computed
  again; each such return is followed by another commit. `FoundIsCollected`
  says that no deployment with an attested holder is left out.
- `selection`: a peer is passed over only for one nearer, or as near and earlier
  in the swarm; 2n different peers are invited when there are so many; each
  invited peer validates numbers that it cut itself and agrees; the distance
  does not exceed n. `AgreesWithTest` compares the number of selected peers with
  the unit test of `candidates.rs`, for those of its n a task can have; its
  n = 1 is refused by validation.

The three violations are the findings of `PROJECT.json`. In `sign_deferred` the
log "executor not ready, deal later" (`client_observer.rs:111`) says of a holder
that it will be dealt with; the executor's attestation pops all of them, saves,
and then asks them one by one until a call fails; the rest is never asked. In `election_255` the
comment "this is essential condition to construct an execution request"
(`store_item.rs:47`) stands above the condition that wraps. In `keygen_roles`
the logs of `executor.rs:16` and `initial_pinner.rs:14` say that a request in a
second role is ignored; it is when the first has been saved, which happens only
after a lookup. `OneRole` is the promise of those logs; `keygen_safety` shows that it
holds where the delegates are filtered out of the swarm peers, so that it is the
delegator's filter and not the nodes' check that keeps it.

### Bounds

- N = 2 pinners and an executor are the least that validation accepts; with
  four nodes there is one candidate more than needed, so late attestations,
  spare candidates and executors elected as pinners all occur. Three nodes are
  exactly enough; `keygen_redelivery` needs them to reach a second election.
- `election` uses N = 3: 4 candidates suffice for an election, 6 are needed for
  an overshoot (two executors, four pinners), 7 allow one of two pinners too
  many. Three failed sends let the candidates grow from 4 to 7.
- `MaxFaults = 3` allows a different fault in each of three steps of a round.
- `FewUnderWay` (at most four messages at a time) bounds the interleaving of two
  rounds; a round of three nodes has at most four of them under way once the
  invitations are out.
- Nodes are interchangeable, and no definition chooses one: `Symmetry` is sound
  for the invariants and for `ItemProgresses`. The liveness run does not use it.
- Signing with K = 1 completes with the first slice, so two deployments are
  enough for a slice that comes after the request or after the commit; two
  holders allow two holders of one deployment; two delegates are the N that the
  code invites. A redelivery in which all of that happens is too large for a
  run; one deployment and one holder suffice for slices of one round to meet the
  executor of the other.
- `selection`: three bytes give distances 0 to 2, seven peers are more than 2n for
  n = 2 and 3, so that full and cut rings occur; the swarms for n = 255 have
  their peers at both ends of a byte, the farthest they can be.
- Deadlock is not checked: a round ends, and then nothing more happens.

### Fairness

`FairSpec` asks for weak fairness of `Deliver` as a whole: while there is some
message that can be handled, some message is handled. The actor host delivers
every message it accepted, and without faults nothing is lost. Each handling
removes its message, and there are finitely many in all: `RunsOut` compares what
is left (events and faults first, then the messages of each stage, an order
without infinite descent), so that every behaviour has finitely many steps. So no
message can be passed over for ever and fairness per message is not needed. Losses and
failures are excluded in that run because the code has no timer and no retry:
after one, a task may rightly hang. The same holds for `Sign`. In
`CandidateSelection` the whole selection is one call that runs until it
returns, so its steps are fair. In `CandidateElection` only the steps of a
running handler are fair; candidates need not arrive.

## 4. Proofs

`tlapm` checks the proof modules for every value of the constants that the
named assumptions allow: any number of nodes, deployments, candidates and
faults, N in 2 .. 254 for a round of key generation (`NetAssumption`), 2 .. 255
for the election (`ElectionAssumption`). No bound of the runs is used. Theorems
for a single delivery have the hypothesis `MaxEvents = 1`.

`ElectionProofs`: for n in 1 .. 254 `ready()` implies that the loop ends
(`ReadyConverges`); for n = 255 one executor candidate makes it true and the loop
cannot end (`ReadyDivergesAt255`); with exactly n + 1 candidates, or one
executor candidate, exactly n are elected (`FirstElectionConstructible`).

`CandidateElectionProofs`: the loop itself. Its invariant `ElectionUnderWay` says
that j pinner candidates and i executor candidates were popped from the ends,
that executors are popped only after all pinners and only below N, and that
with no spare executor the loop stops at N. From it follow, for every order of
arrivals and any number of failed sends, `LoopComputesTheElection` (which is why
`KeyGenDelegator` may use the closed form of `Election` for a whole election),
`NobodyIsLost`, `OvershootNeedsSpareExecutor`, and, with the second invariant
`FirstElection`, `FirstElectionSucceeds`. `ElectionsBeginReady` excludes N = 255,
where `election_255` shows its violation. `EveryIterationPops` says of every
other N that an iteration finds a candidate to pop, hence that the loop ends
after at most as many iterations as there are candidates: the safety half of
`ElectionReturns`.

`SelectionProofs`: for every swarm and task. `DistanceFits`: a ring takes every
peer up to its distance, and two lucky numbers differ by less than n, so after n
rings no peer is left. `TheNearestAreInvited` and `EnoughPeersAccept` rest on one
invariant of the loop: the peers chosen so far are all those nearer than the
next ring, each once, sorted by distance and then by their place in the swarm.
That `InOrder`, a recursive function on the swarm, lists the peers of a ring once
and in their order is shown by the least swarm length for which it would not,
with `WellFoundedInduction`'s least elements in the place of induction.

`KeyGenProofs`: what holds under every fault and redelivery.

- `TypeCorrect`: one step per handler. The sequences of candidates need the
  lemmas about `Insert` and `Elect`, which rest on `ReadyConverges`: without it
  `Elect` would not even yield a sequence of candidates.
- `MembersOnly`: `Spec => []OnlyMembers`, the inductive invariant. Neither
  `SlicesOnlyToAttested` nor `MembersHaveItems` is inductive: a slice is
  addressed from the response of an executor, which copies a request, which was
  made from an election among stored candidates. `OnlyMembers` follows the
  candidate along that path. It is kept because items and attestations are never
  removed, which is also why a redelivered event cannot break it.
- `SlicesReachOnlyAttested`, `MembersAlwaysHaveItems`: its two consequences.
- `NobodyEverWaitsInVain`: while no fault occurred there are never enough
  candidates stored: the insertion that makes them suffice is one on exactly
  N + 1 candidates or the first of an executor, so `FirstElectionConstructible`
  applies and the handler goes on to send.
- `PublishedIsAlwaysHeld`: from `OnlyHeld`, which follows a slice back from the
  published result over the item's answers and the report to the two entries its
  pinner wrote, and to the attestation. An entry is overwritten only by one of the
  same node and account, so that a later round does no harm.

`KeyGenRoundProofs`: what holds for one delivery and profiles that agree. The
inductive invariant `OneRound` says that everything in a round is used once, in
six parts: the start is one message at a time (`OneStart`); a node is one
invitation, one application or one candidate (`OneCandidacy`); members are
elected from these once (`OneElection`); there is one request to execute or one
response to it (`OneExecution`); each pinner has one slice under way or one
answer, for the first key (`OneDeployment`); and the results are made when all
answers are there (`OnePublication`). Each part needs the one before it, and the
first is where a second event would break it: its fresh item meets messages of
the earlier round. `ProfilesAgree` is needed in `OneCandidacy`: otherwise a node
may be invited in two roles, as in `keygen_roles`. For `NobodyTakesTwoRoles` a
second invariant, `RolesAsInvited`, ties the requests under way and the roles
taken to the invitations, which are made once and to disjoint sets. From `OneRound`
follow `MembersAreDistinct`, `PublishedIsComplete`, `PublishedAtMostOnce`,
`CommitsArePublished`, `ClosedOnlyWhenDone`, `ItemGoesForward` and the refinement
`KeyGenerationKeepsPromise`: the attestation that elects maps to an election, the
call of layer1 after the last answer to a publication, a pinner's reaction to
the asset to a commit, every other step to a stutter.

`KeyGenRestProofs`: `RestsWhenDone`, what liveness adds to safety, as far as the
prover can follow. `RestsOnlyWhenDone` says nothing of a state with a message
under way, so it is not inductive. `AllUnderWay` is (`NothingIsMissing`, on top
of `OneRound` and `NobodyWaitsInVain`): while there was no fault, whatever is
still to be done has its message under way, in six parts. An invited node is
invited, applies, is under attestation, or is stored among the candidates
(`InvitedUnderWay`); the RSA key that a message or a candidate names is the one
its node stores, so that what is encrypted for it can be decrypted (`KeysHeld`);
the request to the executor or its response is under way (`ExecutionUnderWay`);
every member has a slice under way or answered (`AnswersUnderWay`) and remembers
what it will commit (`SlicesRemembered`); the call of layer1, or the asset event
of every pinner, is under way or the pinner has committed (`ResultUnderWay`). At
rest, all those invited are candidates; they are N + 1 or more, so
`NobodyWaitsInVain` excludes that the delegator still waits; and each later state
lacks its message. With `MembersAlwaysHaveItems`, every message under way can be
handled, so that a state where `Deliver` is not enabled is such a state of rest.
That a round reaches rest is what fairness adds, and what `keygen_liveness` checks.

`KeyGenerationRunsOut`, in the same module, is the other half of liveness that is
safety: for every finite set of nodes, under every fault and any number of
deliveries, each step lessens `Left`, the tuple of what is left per stage, in
lexicographic order. It needs only `Bounded`: `net` is finite and the two budgets
are not exceeded. Per handler it is shown that what it sends is finite and of a
later stage than what it took. With a message that can be handled wherever a round
is not done (above), this is the argument for the liveness properties; that a
relation without infinite descent bounds every behaviour, and what fairness makes
of ENABLED, are the steps the prover cannot take.

`SignProofs`: `TypeCorrect`; `SignsOnlyWhenAttested` under every fault and
redelivery, from `AttestedInv`, which follows an attested key from the item to
the holder and back. For one delivery, `OneStart`, `OnlyForExecutor`,
`OneInvitation` and `HoldersKept`: nothing is collected before the delegates are
known, all slices are for the executor, a delegate makes one RSA key, and a
holder that was found waits or was asked. They give `OnlyTheExecutorRecovers`,
`EveryHolderIsAsked` and the refinement `SigningKeepsPromise`.

`SignRestProofs`: `ExecutorAlwaysHasItem` under every fault and redelivery, from
`ApplicantsHaveItems`, which follows an applicant from its saved item through the
attestation to the executor of the item and the request. `RestsWhenDone` as above,
from `AllUnderWay` (`NothingIsMissing`): an application is under way until there
is an executor; of every holder asked the slice is under way or its deployment
has one; once there is a slice the request or the commit is under way, or the
result is committed; and the executor can decrypt, since a stored RSA key that
did not expire is the newest. Every deferred holder is asked when the executor is
taken, by `HoldersKept`. `SigningRunsOut` is to signing what `KeyGenerationRunsOut`
is to key generation, for finite sets of delegates and holders; a deferred holder
has no message under way, and the requests that the executor's attestation sends to
all of them are of a later stage than the attestation.

Only model-checked: liveness (`EnoughIsPublished`, `PublishedIsCommitted`,
`ElectionReturns`, `SignedForGood`, `FoundIsCollected`, `SelectionEnds`), which is
out of the prover's reach, and `AgreesWithTest`, which is about the six results of
the unit test only.

## 5. Not modelled

- `delegator/dump_methods.rs`: writes test messages, compiled with `dev` only.
- The wire format, the codec of stored items, logging, and replies that say no
  more than "received".
- Cryptography: whether an operation succeeds depends on the keys' names only.
- The pinner actor's own state, layer1 and the peer-to-peer host, beyond what
  the gluon actor asks of them and hears back.
- Two redelivered signing rounds with several holders (`sign_redelivery` has one).

## 6. Plan

Done: both flows with their rounds, the selection, task info, the two promises
and their refinements, and the proofs above. Left:

1. k and n of an account in `Sign`, once the code asks layer1 for them.
2. `close_p2p` and its effect on messages, if the host's contract is written down.
3. A bound on what one fault costs, in the manner of `DeferredIsDealtWith`, for
   the other calls that are not tried again.
