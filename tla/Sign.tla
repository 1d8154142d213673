-------------------------------- MODULE Sign --------------------------------
(***************************************************************************)
(* Signing with key slices: the delegator and the other nodes, composed    *)
(* through the messages between them.                                      *)
(***************************************************************************)
EXTENDS SignDelegator, SignNode

vars == <<net, faults, delegatorVars, nodeVars>>

Init ==
  /\ net = {} /\ faults = 0
  /\ DelegatorInit
  /\ NodeInit

DelegatorHandles(m) ==
  \/ NodeReady(m)
  \/ BecomeDelegator(m)
  \/ BeginRound(m)
  \/ InviteAndFind(m)
  \/ InviteExecutor(m)
  \/ PinnersAttested(m)
  \/ StartAttestation(m)
  \/ ExecutorAttested(m)
  \/ PinnerAttested(m)
  \/ SliceReturned(m)
  \/ CommitResult(m)

NodeHandles(m) ==
  \/ ApplyAsExecutor(m)
  \/ LookUpDeployment(m)
  \/ ReturnSlice(m)
  \/ Sign(m)

Deliver ==
  \E m \in net : \/ DelegatorHandles(m) /\ UNCHANGED nodeVars
                 \/ NodeHandles(m) /\ UNCHANGED delegatorVars

Environment ==
  \/ PortalEvent /\ UNCHANGED nodeVars
  \/ \E m \in net : Lose(m) /\ UNCHANGED <<delegatorVars, nodeVars>>
  \/ \E p \in Delegates : Expire(p) /\ UNCHANGED delegatorVars

Next == Deliver \/ Environment

Spec == Init /\ [][Next]_vars

\* Every message that is not lost is handled at some time.  Each handling uses
\* one up and there are finitely many (RunsOut), so fairness of Deliver is enough.
FairSpec == Spec /\ WF_vars(Deliver)
-----------------------------------------------------------------------------
(* Type correctness *)

DelegatorState ==
  {"None", "Initialized", "FindingDeployments", "SentToExecutor", "CommitResult"}

Holder == [id : DeploymentIds, peer : Pinners]

StoreItem ==
  [state : DelegatorState, executor : ExecutorInfo \cup {NoExecutor},
   ids : SUBSET DeploymentIds, slices : SUBSET KeySlice, waiting : SUBSET Holder]

ExecutorState == {"None", "Init", "Requested", "Responded", "Executed"}

TypeOK ==
  /\ net \subseteq Message
  /\ faults \in Nat
  /\ events \in Nat
  /\ item \in StoreItem
  /\ invited \subseteq Delegates
  /\ attested \subseteq ExecutorInfo
  /\ found \subseteq Holder
  /\ asked \subseteq Holder
  /\ exe \in [Delegates -> ExecutorState]
  /\ rsaKey \in [Delegates -> Nat]
  /\ rsaKeys \in [Delegates -> Nat]
  /\ recovered \subseteq Delegates
-----------------------------------------------------------------------------
(* Safety, whatever is lost, fails, expires or is redelivered *)

SlicesUnderWay ==
  UNION {m.slices : m \in {n \in net : n.type = "sign"}}

\* A holder is asked to encrypt its slice, and a slice is stored or sent, only
\* for an executor and an RSA key that the pinner actor attested, and only such
\* an executor recovers the private key: the path from the application over the
\* properties, the item and the holder and back.
OnlyForAttested ==
  /\ \A m \in net : m.type \in {"get", "info", "slice"} => m.key \in attested
  /\ \A s \in item.slices \cup SlicesUnderWay : s.key \in attested
  /\ recovered \subseteq {k.peer : k \in attested}

\* Its inductive invariant: the executor and the slices of the item, whoever is
\* sent slices, and the key of every request for one.
NamesAttested(m) ==
  /\ m.type \in {"get", "info", "slice"} => m.key \in attested
  /\ m.type = "sign" => /\ m.peer \in {k.peer : k \in attested}
                        /\ \A s \in m.slices : s.key \in attested

ItemNamesAttested ==
  /\ item.executor \in attested \cup {NoExecutor}
  /\ \A s \in item.slices : s.key \in attested

AttestedInv ==
  /\ ItemNamesAttested
  /\ \A m \in net : NamesAttested(m)
  /\ recovered \subseteq {k.peer : k \in attested}

\* Whoever is sent the slices finds the item of its own application, through
\* its attestation and the saved executor, and however long these take.
ExecutorHasItem == \A m \in net : m.type = "sign" => exe[m.peer] # "None"

\* Its inductive invariant.
ApplicantsHaveItems ==
  /\ \A m \in net : m.type \in {"apply", "attest", "sign"} => exe[m.peer] # "None"
  /\ item.executor # NoExecutor => exe[item.executor.peer] # "None"
-----------------------------------------------------------------------------
(* Nothing goes on for ever, whatever is lost, fails, expires or is redelivered *)

\* How far the task has come where a message of each kind is under way.
Stage ==
  [nodeReady |-> 1, delegatorKey |-> 2, deploymentIds |-> 3, delegates |-> 4, profile |-> 5,
   candidate |-> 6, apply |-> 7, attest |-> 8, find |-> 9, found |-> 10, get |-> 11,
   info |-> 12, slice |-> 13, sign |-> 14, commit |-> 15]

\* What is left to happen: at first events and faults, then the messages of each stage.
Left(stage) ==
  IF stage = 0 THEN (MaxEvents - events) + (MaxFaults - faults)
               ELSE Cardinality({m \in net : Stage[m.type] = stage})

\* No handler ever puts a message back or goes back to an earlier stage, be it to
\* wait for something or to try again: every step uses up something of a stage and
\* adds to later ones only.  So every behaviour has finitely many steps.
RunsOut ==
  [][\E i \in 0 .. 15 : /\ Left(i)' \in 0 .. Left(i) - 1
                        /\ \A j \in 0 .. i - 1 : Left(j)' = Left(j)]_vars

\* Its invariant.
Bounded == IsFiniteSet(net) /\ events <= MaxEvents /\ faults <= MaxFaults
-----------------------------------------------------------------------------
(* Safety when the event is delivered once *)

\* Of all the delegates under attestation at once, only the one that was taken
\* as the executor ever recovers the private key; and what is sent to it
\* is encrypted for its stored key, unless that expired.
OneNodeRecovers ==
  /\ recovered \subseteq {item.executor.peer}
  /\ \A m \in net : m.type = "sign" => CanDecrypt(m) \/ rsaKey[m.peer] = 0

\* Every holder that was attested, before or after the executor, is asked for
\* its slice, unless the deployment has one: while no call failed, no candidate
\* is forgotten between being deferred, popped and asked.
NoHolderForgotten ==
  item.executor # NoExecutor /\ faults = 0 =>
    \A h \in found : h \in asked \/ HasSlice(item, h.id)

\* The same with failed calls: a holder that was attested too early is only put
\* off, "executor not ready, deal later", so that a call that fails costs at most
\* the one holder it was made for.
DeferredIsDealtWith ==
  item.executor # NoExecutor =>
    Cardinality({h \in found : h \notin asked /\ ~HasSlice(item, h.id)}) <= faults

Promise == INSTANCE SignPromise WITH
  Nodes <- Delegates, NoNode <- NoPeer, Ids <- DeploymentIds,
  Quorums <- {ids \in SUBSET DeploymentIds : Cardinality(ids) >= K},
  signer <- item.executor.peer,
  collected <- {s.id : s \in item.slices},
  committed <- (item.state = "CommitResult")

\* The task keeps its promise: one executor for good, who recovers the key from
\* enough slices before the result is committed, and a committed task that goes
\* back to SentToExecutor does so for the slice of a further deployment.
KeepsPromise == Promise!Spec
-----------------------------------------------------------------------------
(* The inductive invariant for a single delivery *)

EventTypes == {"nodeReady", "delegatorKey", "deploymentIds"}

\* Until the delegates are known there is one message at a time, and no slice,
\* executor or candidate.
OneStart ==
  /\ events = 0 => net = {} /\ item.state = "None"
  /\ item.state = "None" =>
       item = NewItem("None", {}) /\ \A m \in net : m.type \in EventTypes
  /\ \A m \in net :
       /\ m.type \in EventTypes => net = {m} /\ item.state = "None"
       /\ m.type = "delegates" => net = {m} /\ item.state = "Initialized" /\ m.ids = item.ids

\* All slices are for the one executor, who alone is asked, recovers, commits.
OnlyForExecutor ==
  /\ \A s \in item.slices : s.key = item.executor
  /\ \A m \in net :
       /\ m.type \in {"get", "info", "slice"} => m.key = item.executor
       /\ m.type = "sign" => /\ m.peer = item.executor.peer
                             /\ m.slices \subseteq item.slices /\ EnoughSlices(m)
       /\ m.type = "commit" => m.peer \in recovered
  /\ recovered \subseteq {item.executor.peer}
  /\ item.state = "CommitResult" => recovered # {}

\* A delegate is invited once, hence makes one RSA key: the key it names as an
\* applicant, and then as the executor, is the one it stores until it expires.
OneInvitation ==
  /\ item.state = "None" \/ (\E m \in net : m.type = "delegates") =>
       \A p \in Delegates : rsaKeys[p] = 0
  /\ \A p \in Delegates : rsaKey[p] \in {0, rsaKeys[p]}
  /\ item.executor # NoExecutor => item.executor.rsa = rsaKeys[item.executor.peer]
  /\ \A m \in net :
       /\ m.type \in {"apply", "attest"} => m.rsa = rsaKeys[m.peer]
       /\ m.type \in {"profile", "candidate"} =>
            /\ rsaKeys[m.peer] = 0
            /\ \A n \in net : n.type \in {"profile", "candidate"} /\ n.peer = m.peer => n = m

\* A holder that was found waits, was asked, or is not needed any more.
HoldersKept ==
  /\ item.executor # NoExecutor => item.waiting = {}
  /\ \A m \in net : m.type \in {"find", "found"} => m.id \in item.ids
  /\ faults = 0 => \A h \in found : h \in item.waiting \cup asked \/ HasSlice(item, h.id)
-----------------------------------------------------------------------------
(* Rest and liveness without faults *)

\* The task comes to rest only when it is done.  Where nothing fails no handler
\* drops the message that the next step waits for: with nothing under way any
\* more, a delegate invited and a holder attested, the result is committed, and
\* every deployment of which a holder was attested has contributed its slice.
RestsOnlyWhenDone ==
  net = {} /\ faults = 0 /\ invited # {} /\ found # {} =>
    /\ item.state = "CommitResult"
    /\ \A h \in found : HasSlice(item, h.id)

\* With a delegate invited and a holder attested the result is committed in the
\* end, for good: every later slice that has the key recovered anew is followed
\* by another commit.
SignedForGood ==
  (invited # {} /\ found # {}) ~> [](item.state = "CommitResult")

\* Every deployment of which a holder was attested contributes its slice.
FoundIsCollected ==
  \A id \in DeploymentIds :
    (invited # {} /\ \E h \in found : h.id = id) ~> HasSlice(item, id)
-----------------------------------------------------------------------------
(* The inductive invariant of RestsOnlyWhenDone, for a single delivery: what is *)
(* still to be done has its message under way, and that message will be taken.  *)

InviteTypes == {"profile", "candidate", "apply", "attest"}
SliceTypes == {"get", "info", "slice"}

ExecutorUnderWay ==
  invited # {} /\ item.executor = NoExecutor => \E m \in net : m.type \in InviteTypes

\* A holder that was asked has its slice under way, or is not needed any more.
HoldersUnderWay ==
  /\ \A h \in item.waiting : h.id \in item.ids
  /\ \A m \in net : m.type \in SliceTypes => m.id \in item.ids
  /\ \A h \in asked : HasSlice(item, h.id) \/ \E m \in net : m.type \in SliceTypes /\ m.id = h.id

\* The first slice already starts the execution, and each is followed by a commit.
SignatureUnderWay ==
  /\ item.slices # {} => item.state \in {"SentToExecutor", "CommitResult"}
  /\ item.state = "SentToExecutor" => \E m \in net : m.type \in {"sign", "commit"}

UnderWay ==
  rsaKey = rsaKeys /\ ExecutorUnderWay /\ HoldersUnderWay /\ SignatureUnderWay

AllUnderWay == faults = 0 => UnderWay
=============================================================================
