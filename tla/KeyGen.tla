------------------------------- MODULE KeyGen -------------------------------
(***************************************************************************)
(* Key generation: the delegator and the other nodes, composed through the *)
(* messages between them.                                                  *)
(***************************************************************************)
EXTENDS KeyGenDelegator, KeyGenNode

vars == <<net, faults, delegatorVars, nodeVars>>

Init ==
  /\ net = {} /\ faults = 0
  /\ DelegatorInit
  /\ NodeInit

DelegatorHandles(m) ==
  \/ NodeReady(m)
  \/ BecomeDelegator(m)
  \/ Delegates(m)
  \/ Profile(m)
  \/ StartAttestation(m)
  \/ AfterVerify(m)
  \/ ExecutionResult(m)
  \/ SliceDeployed(m)
  \/ Layer1Accepts(m)
  \/ CloseConnections(m)

NodeHandles(m) ==
  \/ CandidateRequest(m)
  \/ ApplyAsCandidate(m)
  \/ Execute(m)
  \/ StartUpload(m)
  \/ StoreSlice(m)
  \/ SliceUploaded(m)
  \/ AssetGenerated(m)

Deliver ==
  \E m \in net : \/ DelegatorHandles(m) /\ UNCHANGED nodeVars
                 \/ NodeHandles(m) /\ UNCHANGED delegatorVars

Environment ==
  \/ PortalEvent /\ UNCHANGED nodeVars
  \/ \E m \in net : Lose(m) /\ UNCHANGED <<delegatorVars, nodeVars>>
  \/ \E p \in Peers : Expire(p) /\ UNCHANGED delegatorVars

Next == Deliver \/ Environment

Spec == Init /\ [][Next]_vars

\* Every message that is not lost is handled at some time.  Each handling uses
\* one up and there are finitely many (RunsOut), so fairness of Deliver is enough.
FairSpec == Spec /\ WF_vars(Deliver)
-----------------------------------------------------------------------------
(* Type correctness *)

DelegatorState ==
  {"None", "Init", "InvitedCandidates", "SentToExecutor", "ReceivedExecutionResult",
   "SentToInitialPinner", "ReceivedAllPinnerResponse"}

StoreItem ==
  [state : DelegatorState, executor : Peers \cup {NoPeer}, pinners : Seq(Candidate),
   key : Nat, asked : SUBSET Peers, answers : SUBSET Deployment,
   candExecutors : Seq(Candidate), candPinners : Seq(Candidate)]

ExecutorState == {"None", "Init", "Requested", "Responded", "Executed"}
PinnerState == {"None", "Init", "Requested", "Responded", "Deployed"}

TypeOK ==
  /\ net \subseteq Message
  /\ faults \in Nat
  /\ events \in Nat
  /\ item \in StoreItem
  /\ invited \subseteq [peer : Peers, exec : BOOLEAN]
  /\ attested \subseteq Candidate
  /\ published \in Seq([key : Nat, deployments : SUBSET Deployment])
  /\ closed \subseteq Peers
  /\ exe \in [Peers -> ExecutorState]
  /\ pin \in [Peers -> PinnerState]
  /\ rsaKey \in [Peers -> Nat]
  /\ rsaKeys \in [Peers -> Nat]
  /\ keys \in Nat
  /\ dataCid \subseteq Deployment
  /\ deployId \subseteq Deployment
  /\ committed \subseteq [cid : Deployment, deployment : Deployment]
-----------------------------------------------------------------------------
(* Safety, whatever is lost, fails, expires or is redelivered *)

\* Key slices go only to nodes the pinner actor attested, encrypted with the
\* RSA key whose attestation succeeded: the path from the apply request over
\* the properties, the candidates, the election, the executor and back.
SlicesOnlyToAttested ==
  \A m \in net : m.type \in {"slice", "upload"} =>
    [peer |-> m.peer, rsa |-> m.rsa] \in attested

\* Whoever is asked to execute or to pin finds the item of its own application.
MembersHaveItems ==
  \A m \in net :
    /\ m.type = "execute" => exe[m.peer] # "None"
    /\ m.type = "slice" => pin[m.peer] # "None" \/ exe[m.peer] # "None"

\* The last of the candidates that suffice starts the election: while nothing
\* failed, the delegator never goes on waiting with enough of them stored.
NobodyWaitsInVain ==
  item.state = "InvitedCandidates" /\ faults = 0 =>
    ~Ready(N, item.candExecutors, item.candPinners)
-----------------------------------------------------------------------------
(* The inductive invariant of the first two: whoever is a candidate, elected, *)
(* or addressed with a slice was attested with that key and took a role.      *)

Executors == {c \in attested : exe[c.peer] # "None"}
Members == {c \in attested : exe[c.peer] # "None" \/ pin[c.peer] # "None"}

CandidatesAreMembers ==
  item.candExecutors \in Seq(Executors) /\ item.candPinners \in Seq(Members)

NamesMembers(m) ==
  /\ m.type \in {"apply", "attest"} => IF m.exec THEN exe[m.peer] # "None"
                                                ELSE pin[m.peer] # "None"
  /\ m.type = "execute" => exe[m.peer] # "None"
  /\ m.type \in {"execute", "executed"} => m.pinners \in Seq(Members)
  /\ m.type \in {"slice", "upload"} => [peer |-> m.peer, rsa |-> m.rsa] \in Members

OnlyMembers == CandidatesAreMembers /\ \A m \in net : NamesMembers(m)
-----------------------------------------------------------------------------
(* What is published is held, however often the event is delivered *)

NothingExpired == faults = 0 \/ "expire" \notin FaultKinds

\* The holder d.peer of a slice of d.key, which a message under way may name too.
Serves(d) == pin[d.peer] # "None" /\ \E c \in attested : c.peer = d.peer
StoredBy(d) == NothingExpired => Entry(dataCid, d.peer, d.key) # {}
DeployedBy(d) == NothingExpired => Entry(deployId, d.peer, d.key) # {}
HeldBy(d) == Serves(d) /\ StoredBy(d) /\ DeployedBy(d)

\* No redelivery mixes rounds in what layer1 is told: of whatever round a published
\* deployment is, its node was attested and serves as a pinner, and, unless they
\* expired, it has both entries under the account that the asset event commits.
PublishedIsHeld ==
  \A i \in DOMAIN published : \A d \in published[i].deployments : HeldBy(d)

\* Its inductive invariant: what is reported was stored before, what is answered
\* and published was reported.
NamesHeld(m) ==
  /\ m.type \in {"upload", "uploaded", "deployed"} => Serves(m)
  /\ m.type \in {"uploaded", "deployed"} => StoredBy(m)
  /\ m.type = "deployed" => DeployedBy(m)
  /\ m.type = "result" => \A d \in m.deployments : HeldBy(d)

OnlyHeld ==
  /\ \A d \in item.answers : HeldBy(d)
  /\ \A m \in net : NamesHeld(m)
  /\ PublishedIsHeld
-----------------------------------------------------------------------------
(* Nothing goes on for ever, whatever is lost, fails, expires or is redelivered *)

\* How far the task has come where a message of each kind is under way.
Stage ==
  [nodeReady |-> 1, delegatorKey |-> 2, delegates |-> 3, profile |-> 4, candidate |-> 5,
   verify |-> 6, apply |-> 7, attest |-> 8, execute |-> 9, executed |-> 10, slice |-> 11,
   upload |-> 12, uploaded |-> 13, deployed |-> 14, result |-> 15, updated |-> 16, asset |-> 17]

\* What is left to happen: at first events and faults, then the messages of each stage.
Left(stage) ==
  IF stage = 0 THEN (MaxEvents - events) + (MaxFaults - faults)
               ELSE Cardinality({m \in net : Stage[m.type] = stage})

\* No handler ever puts a message back or goes back to an earlier stage, be it to
\* wait for something or to try again: every step uses up something of a stage and
\* adds to later ones only.  So every behaviour has finitely many steps.
RunsOut ==
  [][\E i \in 0 .. 17 : /\ Left(i)' \in 0 .. Left(i) - 1
                        /\ \A j \in 0 .. i - 1 : Left(j)' = Left(j)]_vars

\* Its invariant.
Bounded == IsFiniteSet(net) /\ events <= MaxEvents /\ faults <= MaxFaults
-----------------------------------------------------------------------------
(* Safety when the event is delivered once *)

\* A node takes at most one role of a task: "i have processed executor candidate
\* request already, just ignore this", and the same the other way round.  What makes
\* it so is whom the delegator invites, for both requests may pass that check.
OneRole ==
  \A p \in Peers : ~(exe[p] = "Requested" /\ pin[p] = "Requested")

InvitedAs(exec) == {i.peer : i \in {j \in invited : j.exec = exec}}

StartTypes == {"nodeReady", "delegatorKey", "delegates"}

\* Its inductive invariant: nobody is invited in both roles, a role is sought and
\* taken only by those invited to it, and nobody is invited before the delegates are known.
RolesAsInvited ==
  /\ InvitedAs(TRUE) \cap InvitedAs(FALSE) = {}
  /\ \A m \in net :
       /\ m.type = "profile" => m.peer \in InvitedAs(TRUE)
       /\ m.type \in {"candidate", "verify"} => m.peer \in InvitedAs(m.exec)
  /\ \A p \in Peers : /\ exe[p] = "Requested" => p \in InvitedAs(TRUE)
                      /\ pin[p] = "Requested" => p \in InvitedAs(FALSE)
  /\ item.state = "None" \/ (\E m \in net : m.type \in StartTypes) => invited = {}

PinnerPeers == {item.pinners[i].peer : i \in DOMAIN item.pinners}

\* The executor and the N initial pinners are N + 1 different nodes, so no node
\* holds two slices and the executor, which knew the key, holds none.
MembersDistinct ==
  item.executor # NoPeer =>
    /\ Len(item.pinners) = N
    /\ Cardinality(PinnerPeers \cup {item.executor}) = N + 1

\* layer1 learns of one deployment per slice, all N, of one key, by N nodes.
PublishedComplete ==
  \A i \in DOMAIN published :
    LET result == published[i]
    IN  /\ {d.key : d \in result.deployments} = {result.key}
        /\ {d.index : d \in result.deployments} = 1 .. N
        /\ Cardinality({d.peer : d \in result.deployments}) = N

\* The result is published once: no answer that comes late, and none that
\* follows a failure, completes the set of answers again.
PublishedOnce == Len(published) <= 1

\* A pinner commits the slice it stored together with the deployment of that
\* same slice, and only what layer1 was told.
CommitsMatch ==
  \A c \in committed :
    /\ c.cid = c.deployment
    /\ \E i \in DOMAIN published : c.deployment \in published[i].deployments

\* Connections are closed when nobody needs them any more.
ClosedWhenDone ==
  \A m \in net :
    m.type \in {"execute", "executed", "slice", "upload", "uploaded", "deployed"} =>
      m.peer \notin closed

Promise == INSTANCE KeyGenPromise WITH
  Nodes <- Peers, NoNode <- NoPeer, Count <- N, Keys <- 1 .. MaxEvents,
  executor <- item.executor,
  pinners <- [i \in DOMAIN item.pinners |-> item.pinners[i].peer]

\* The task keeps its promise: one election of different members, one result
\* with the slices of exactly these members in the order of their election, and
\* commits of what was published.
KeepsPromise == Promise!Spec

Order == <<"None", "Init", "InvitedCandidates", "SentToExecutor",
           "ReceivedExecutionResult", "SentToInitialPinner", "ReceivedAllPinnerResponse">>

Rank(state) == CHOOSE i \in DOMAIN Order : Order[i] = state

\* The item goes through its states in their order and never takes back a key,
\* a member or an answer, whichever handler saves it and in whatever order the
\* messages come.
ItemProgresses ==
  [][/\ Rank(item.state) <= Rank(item'.state)
     /\ item.key # NoKey => item'.key = item.key
     /\ item.executor # NoPeer => item'.executor = item.executor
                                  /\ item'.pinners = item.pinners
     /\ item.answers \subseteq item'.answers]_vars
-----------------------------------------------------------------------------
(* The inductive invariant for a single delivery.  Everything in a round is    *)
(* used once: the start is one message at a time, a node that was invited is   *)
(* one invitation, one application or one candidate, the request to execute    *)
(* and its answer are one message, and each pinner has one slice under way or  *)
(* one answer.                                                                 *)

CandidateTypes == {"profile", "candidate", "verify", "apply", "attest"}
ExecutionTypes == {"execute", "executed"}
SliceTypes == {"slice", "upload", "uploaded", "deployed"}
ResultTypes == {"result", "updated", "asset"}

OneStart ==
  /\ events = 0 => net = {} /\ item.state = "None"
  /\ item.state = "None" => item = Fresh("None")
  /\ item.state \in {"None", "Init"} => \A m \in net : m.type \in StartTypes
  /\ \A m \in net :
       /\ m.type \in StartTypes => net = {m}
       /\ m.type \in {"nodeReady", "delegatorKey"} => item.state = "None"
       /\ m.type = "delegates" => item = Fresh("InvitedCandidates")

DistinctPeers(s) == \A i, j \in DOMAIN s : s[i].peer = s[j].peer => i = j

DisjointPeers(s, t) == \A i \in DOMAIN s, j \in DOMAIN t : s[i].peer # t[j].peer

OneCandidacy ==
  /\ \A m, n \in net :
       m.type \in CandidateTypes /\ n.type \in CandidateTypes /\ m.peer = n.peer => m = n
  /\ item.executor = NoPeer =>
       /\ DistinctPeers(item.candExecutors) /\ DistinctPeers(item.candPinners)
       /\ DisjointPeers(item.candExecutors, item.candPinners)
       /\ \A m \in net : m.type \in CandidateTypes =>
            /\ \A i \in DOMAIN item.candExecutors : item.candExecutors[i].peer # m.peer
            /\ \A i \in DOMAIN item.candPinners : item.candPinners[i].peer # m.peer

Undecided == {"None", "Init", "InvitedCandidates"}

OneElection ==
  /\ item.executor = NoPeer =>
       /\ item.state \in Undecided /\ item.pinners = <<>> /\ item.key = NoKey /\ keys = 0
       /\ \A m \in net : m.type \in StartTypes \cup CandidateTypes
  /\ item.executor # NoPeer =>
       /\ item.state \notin Undecided
       /\ Len(item.pinners) = N /\ DistinctPeers(item.pinners)
       /\ \A i \in 1 .. N : item.pinners[i].peer # item.executor
       /\ \A m \in net : m.type \notin StartTypes

OneExecution ==
  /\ \A m \in net : m.type \in ExecutionTypes =>
       /\ m.pinners = item.pinners /\ item.key = NoKey
       /\ m.type = "execute" => keys = 0
       /\ m.type = "executed" => m.key = 1
       /\ \A n \in net : n.type \in ExecutionTypes => n = m
  /\ item.key = NoKey =>
       /\ item.state \in Undecided \cup {"SentToExecutor"}
       /\ item.asked = {} /\ item.answers = {}
       /\ \A m \in net : m.type \notin SliceTypes
  /\ item.key # NoKey =>
       /\ item.key = 1
       /\ item.state \notin Undecided \cup {"SentToExecutor"}
       /\ item.asked = IF item.state = "ReceivedExecutionResult" THEN {} ELSE PinnerPeers

\* The slices of the first key, as they are deployed.
FirstSlices == {[peer |-> item.pinners[i].peer, key |-> 1, index |-> i] : i \in DOMAIN item.pinners}

OneDeployment ==
  /\ item.answers \cup dataCid \cup deployId \subseteq FirstSlices
  /\ \A m \in net : m.type \in SliceTypes =>
       /\ [peer |-> m.peer, key |-> m.key, index |-> m.index] \in FirstSlices
       /\ m.peer \notin Answered(item)
       /\ \A n \in net : n.type \in SliceTypes /\ n.peer = m.peer => n = m

OnePublication ==
  /\ item.state # "ReceivedAllPinnerResponse" =>
       /\ published = <<>> /\ closed = {}
       /\ \A m \in net : m.type \notin ResultTypes
  /\ item.state = "ReceivedAllPinnerResponse" => item.answers = FirstSlices
  /\ \A m \in net :
       /\ m.type = "result" => m.key = 1 /\ m.deployments = FirstSlices /\ published = <<>>
       /\ m.type = "asset" => published # <<>>
  /\ published \in {<<>>, <<[key |-> 1, deployments |-> FirstSlices]>>}
  /\ committed \subseteq {[cid |-> d, deployment |-> d] : d \in FirstSlices}
  /\ committed # {} => published # <<>>

OneRound ==
  OneStart /\ OneCandidacy /\ OneElection /\ OneExecution /\ OneDeployment /\ OnePublication
-----------------------------------------------------------------------------
(* Rest and liveness without faults *)

Committed(d) == [cid |-> d, deployment |-> d] \in committed

\* The task comes to rest only when it is done.  Where nothing fails no handler
\* drops the message that the next step waits for: with nothing under way any
\* more, and enough nodes invited, layer1 has a result, and every deployment of it
\* has been committed with its slice.
RestsOnlyWhenDone ==
  net = {} /\ faults = 0 =>
    /\ InvitedAs(TRUE) # {} /\ Cardinality(invited) > N => published # <<>>
    /\ \A i \in DOMAIN published : \A d \in published[i].deployments : Committed(d)

\* When a delegate and N more nodes were invited, a result is published.
EnoughIsPublished ==
  (InvitedAs(TRUE) # {} /\ Cardinality(invited) > N) ~> published # <<>>

\* Every deployment that layer1 is told of is committed by its node.
PublishedIsCommitted ==
  \A p \in Peers :
    (\E i \in DOMAIN published : \E d \in published[i].deployments : d.peer = p)
      ~> (\E c \in committed : c.deployment.peer = p)
-----------------------------------------------------------------------------
(* The inductive invariant of RestsOnlyWhenDone, for a single delivery: what is *)
(* still to be done has its message under way, and that message will be taken.  *)

\* The candidacy that this invitation led to.
Follows(m, i) ==
  /\ m.type \in CandidateTypes /\ m.peer = i.peer
  /\ m.type = "profile" => i.exec
  /\ m.type # "profile" => i.exec = m.exec

Stored(i) ==
  IF i.exec THEN \E j \in DOMAIN item.candExecutors : item.candExecutors[j].peer = i.peer
            ELSE \E j \in DOMAIN item.candPinners : item.candPinners[j].peer = i.peer

\* Until the election every node that was invited is a candidate or on the way to
\* become one, and has taken no other role.
InvitedUnderWay ==
  /\ item.state = "None" \/ (\E m \in net : m.type \in StartTypes) => invited = {}
  /\ \A i, j \in invited : i.peer = j.peer => i = j
  /\ item.executor = NoPeer =>
       /\ \A i \in invited : Stored(i) \/ \E m \in net : Follows(m, i)
       /\ \A m \in net : m.type \in CandidateTypes => \E i \in invited : Follows(m, i)
       /\ \A p \in Peers : /\ exe[p] # "None" => [peer |-> p, exec |-> TRUE] \in invited
                           /\ pin[p] # "None" => [peer |-> p, exec |-> FALSE] \in invited

\* The candidates that will generate no further RSA key.
Served == {c \in Candidate : /\ rsaKey[c.peer] = c.rsa
                             /\ \A m \in net : m.type \in CandidateTypes => m.peer # c.peer}

\* So a slice can be decrypted when it arrives.
KeyFits(m) ==
  /\ m.type \in {"apply", "attest"} => rsaKey[m.peer] = m.rsa
  /\ m.type \in {"slice", "upload"} => [peer |-> m.peer, rsa |-> m.rsa] \in Served

KeysHeld ==
  /\ {item.candExecutors, item.candPinners, item.pinners} \subseteq Seq(Served)
  /\ \A m \in net : KeyFits(m)

ExecutionUnderWay ==
  /\ item.state \notin {"Init", "ReceivedExecutionResult"}
  /\ item.executor # NoPeer /\ item.key = NoKey => \E m \in net : m.type \in ExecutionTypes

\* An answer is missing until the last, and the slice of each that is missing is
\* under way.
AnswersUnderWay ==
  item.state = "SentToInitialPinner" =>
    /\ ~AllAnswered(item)
    /\ \A p \in item.asked \ Answered(item) :
         \E m \in net : m.type \in SliceTypes /\ m.peer = p

\* A pinner that has answered remembers the slice and its deployment.
RememberedBy(m) ==
  LET d == [peer |-> m.peer, key |-> m.key, index |-> m.index]
  IN  /\ m.type \in {"uploaded", "deployed"} => d \in dataCid
      /\ m.type = "deployed" => d \in deployId

SlicesRemembered ==
  /\ item.answers \subseteq dataCid \cap deployId
  /\ \A m \in net : RememberedBy(m)
  /\ \A d \in deployId : pin[d.peer] # "None"

ResultUnderWay ==
  /\ item.state = "ReceivedAllPinnerResponse" /\ published = <<>> =>
       \E m \in net : m.type = "result"
  /\ published # <<>> =>
       \A d \in FirstSlices :
         Committed(d) \/ \E m \in net : m.type = "asset" /\ m.peer = d.peer /\ m.key = d.key

UnderWay ==
  InvitedUnderWay /\ KeysHeld /\ ExecutionUnderWay /\ AnswersUnderWay /\ SlicesRemembered
    /\ ResultUnderWay

AllUnderWay == faults = 0 => UnderWay
=============================================================================
