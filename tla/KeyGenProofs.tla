---------------------------- MODULE KeyGenProofs ----------------------------
(***************************************************************************)
(* Theorems about key generation, for all sets of nodes, every n up to     *)
(* 254, any number of deliveries of the event, and any faults.             *)
(***************************************************************************)
EXTENDS KeyGen, ElectionProofs

-----------------------------------------------------------------------------
(* Messages and items *)

\* The type of a message tells its fields.
LEMMA MessageFields ==
  ASSUME NEW m \in Message
  PROVE  /\ m.type \in {"nodeReady", "delegatorKey", "delegates"} => m \in EventAnswers
         /\ m.type = "profile" => m \in Profiles
         /\ m.type \in {"candidate", "verify"} => m \in Invitations
         /\ m.type \in {"apply", "attest"} => m \in Applications
         /\ m.type = "execute" => m \in Requests
         /\ m.type = "executed" => m \in Responses
         /\ m.type \in {"slice", "upload"} => m \in Slices
         /\ m.type \in {"uploaded", "deployed"} => m \in Deployments
         /\ m.type = "result" => m \in Results
         /\ m.type = "updated" => m \in Updates
         /\ m.type = "asset" => m \in Assets
  BY DEF Message, EventAnswers, Profiles, Invitations, Applications, Requests, Responses,
         Slices, Deployments, Results, Updates, Assets

\* Handling a message keeps the network well-typed if what it sends is.
LEMMA HandleType ==
  ASSUME net \subseteq Message, NEW m, NEW out, out \subseteq Message, Handle(m, out)
  PROVE  net' \subseteq Message
  BY DEF Handle

LEMMA ElementOfSeq ==
  ASSUME NEW S, NEW s \in Seq(S), NEW i \in DOMAIN s
  PROVE  s[i] \in S
  OBVIOUS

LEMMA ElementOfAppended ==
  ASSUME NEW S, NEW s \in Seq(S), NEW e, NEW i \in DOMAIN Append(s, e)
  PROVE  \/ i \in DOMAIN s /\ Append(s, e)[i] = s[i]
         \/ Append(s, e)[i] = e
  OBVIOUS

\* A sequence over a set is one over every larger set.
LEMMA SeqMonotone ==
  ASSUME NEW A, NEW B, A \subseteq B, NEW s \in Seq(A)
  PROVE  s \in Seq(B)
  OBVIOUS

\* The peers of a sequence of candidates.
LEMMA PeersOfSeq ==
  ASSUME NEW s \in Seq(Candidate)
  PROVE  /\ \A i \in 1 .. Len(s) : s[i] \in Candidate
         /\ {s[i].peer : i \in DOMAIN s} \subseteq Peers
<1>1. \A i \in 1 .. Len(s) : s[i] \in Candidate
  OBVIOUS
<1>2. DOMAIN s = 1 .. Len(s)
  OBVIOUS
<1>3. ASSUME NEW i \in DOMAIN s  PROVE s[i].peer \in Peers
  BY <1>1, <1>2 DEF Candidate
<1> QED  BY <1>1, <1>3

\* An insertion keeps the item, and the kind of candidate of either vector.
LEMMA InsertType ==
  ASSUME NEW E, NEW M, E \subseteq M, M \subseteq Candidate, NEW it \in StoreItem,
         it.candExecutors \in Seq(E), it.candPinners \in Seq(M),
         NEW exec \in BOOLEAN, NEW c \in M, exec => c \in E
  PROVE  /\ Insert(it, exec, c) \in StoreItem
         /\ Insert(it, exec, c).candExecutors \in Seq(E)
         /\ Insert(it, exec, c).candPinners \in Seq(M)
<1>1. CASE exec
  <2>1. Append(it.candExecutors, c) \in Seq(E)
    BY <1>1
  <2>2. Append(it.candExecutors, c) \in Seq(Candidate)
    BY <2>1, SeqMonotone
  <2> QED  BY <1>1, <2>1, <2>2 DEF Insert, StoreItem
<1>2. CASE ~exec
  <2>1. Append(it.candPinners, c) \in Seq(M)
    OBVIOUS
  <2>2. Append(it.candPinners, c) \in Seq(Candidate)
    BY <2>1, SeqMonotone
  <2> QED  BY <1>2, <2>1, <2>2 DEF Insert, StoreItem
<1> QED  BY <1>1, <1>2

\* The members an election chooses, and the candidates it leaves over, are
\* candidates: the executor one for the executor.
LEMMA ElectType ==
  ASSUME NEW E, NEW M, E \subseteq M, M \subseteq Candidate, NEW it \in StoreItem,
         it.candExecutors \in Seq(E), it.candPinners \in Seq(M),
         Ready(N, it.candExecutors, it.candPinners)
  PROVE  /\ Elect(it) \in StoreItem
         /\ \E c \in E : Elect(it).executor = c.peer
         /\ Elect(it).pinners \in Seq(M)
         /\ Elect(it).candExecutors \in Seq(E)
         /\ Elect(it).candPinners \in Seq(M)
<1> DEFINE executors == it.candExecutors
           pinners == it.candPinners
           left == Popped(executors)
           p == PinnersTaken(N, left, pinners)
           e == ExecutorsTaken(N, left, pinners)
<1>1. N \in 1 .. 254 /\ N \in Nat
  BY NetAssumption
<1>2. executors \in Seq(M)
  BY SeqMonotone
<1>3. executors # <<>>
  BY DEF Ready
<1>4. left \in Seq(E) /\ left \in Seq(M)
  BY <1>2, <1>3, PoppedType
<1>5. ~Diverges(N, left, pinners)
  BY <1>1, <1>2, ReadyConverges
<1>6. p \in 0 .. Len(pinners) /\ e \in 0 .. Len(left)
  BY <1>1, <1>4, <1>5, TakenBounds
<1>7. ElectedPinners(N, left, pinners) \in Seq(M)
  BY <1>1, <1>4, <1>5, ElectedPinnersType
<1>8. ElectedExecutor(executors) \in E
  <2>1. Len(executors) \in 1 .. Len(executors)
    BY <1>3
  <2> QED  BY <2>1 DEF ElectedExecutor
<1>9. SubSeq(left, 1, Len(left) - e) \in Seq(E)
  <2>1. Len(left) - e \in Nat /\ Len(left) - e <= Len(left)
    BY <1>4, <1>6
  <2> HIDE DEF left, e
  <2> QED  BY <2>1, <1>4, PrefixType
<1>10. SubSeq(pinners, 1, Len(pinners) - p) \in Seq(M)
  <2>1. Len(pinners) - p \in Nat /\ Len(pinners) - p <= Len(pinners)
    BY <1>6
  <2> HIDE DEF p
  <2> QED  BY <2>1, PrefixType
<1>11. Elect(it) = [it EXCEPT !.executor = ElectedExecutor(executors).peer,
                              !.pinners = ElectedPinners(N, left, pinners),
                              !.candExecutors = SubSeq(left, 1, Len(left) - e),
                              !.candPinners = SubSeq(pinners, 1, Len(pinners) - p)]
  BY DEF Elect
<1> HIDE DEF p, e, left
<1>12. /\ Elect(it).executor = ElectedExecutor(executors).peer
       /\ Elect(it).pinners = ElectedPinners(N, left, pinners)
       /\ Elect(it).candExecutors = SubSeq(left, 1, Len(left) - e)
       /\ Elect(it).candPinners = SubSeq(pinners, 1, Len(pinners) - p)
  BY <1>11 DEF StoreItem
<1>13. ElectedExecutor(executors).peer \in Peers
  BY <1>8 DEF Candidate
<1>14. /\ ElectedPinners(N, left, pinners) \in Seq(Candidate)
       /\ SubSeq(left, 1, Len(left) - e) \in Seq(Candidate)
       /\ SubSeq(pinners, 1, Len(pinners) - p) \in Seq(Candidate)
  BY <1>7, <1>9, <1>10, SeqMonotone
<1>15. Elect(it) \in StoreItem
  BY <1>11, <1>13, <1>14 DEF StoreItem
<1> QED  BY <1>7, <1>8, <1>9, <1>10, <1>12, <1>15
-----------------------------------------------------------------------------
(* Type correctness *)

LEMMA InitTypeOK == Init => TypeOK
  BY NetAssumption
     DEF Init, DelegatorInit, NodeInit, TypeOK, Fresh, NoKey, StoreItem, DelegatorState,
         ExecutorState, PinnerState

LEMMA DelegatorTypeOK ==
  ASSUME TypeOK, NEW m \in net, DelegatorHandles(m), UNCHANGED nodeVars
  PROVE  TypeOK'
<1> USE MessageFields DEF TypeOK
<1>0. m \in Message /\ net \subseteq Message
  OBVIOUS
<1>1. CASE NodeReady(m)
  <2>1. PICK ready \in BOOLEAN :
          Handle(m, IF ready THEN {[type |-> "delegatorKey", ev |-> m.ev]} ELSE {})
    BY <1>1 DEF NodeReady
  <2>2. m.ev \in Nat
    BY <1>0, <1>1 DEF NodeReady, EventAnswers
  <2>3. (IF ready THEN {[type |-> "delegatorKey", ev |-> m.ev]} ELSE {}) \subseteq Message
    BY <2>2 DEF Message, EventAnswers
  <2>4. net' \subseteq Message
    BY <2>1, <2>3, HandleType
  <2> QED  BY <1>1, <2>4 DEF NodeReady, nodeVars, delegatorVars, NoFault
<1>2. CASE BecomeDelegator(m)
  <2>1. [type |-> "delegates", ev |-> m.ev] \in Message
    BY <1>0, <1>2 DEF BecomeDelegator, Message, EventAnswers
  <2>2. net' \subseteq Message
    BY <1>2, <2>1 DEF BecomeDelegator, Handle
  <2>3. Fresh("Init") \in StoreItem /\ Fresh("InvitedCandidates") \in StoreItem
    BY DEF Fresh, StoreItem, DelegatorState, NoKey
  <2>4. item' \in StoreItem /\ invited' \subseteq [peer : Peers, exec : BOOLEAN]
    BY <1>2, <2>3 DEF BecomeDelegator, NewRound
  <2>5. faults' \in Nat
    BY <1>2 DEF BecomeDelegator, NoFault, Fault
  <2> QED  BY <1>2, <2>2, <2>4, <2>5 DEF BecomeDelegator, nodeVars
<1>3. CASE Delegates(m)
  <2>1. PICK executors \in SUBSET Peers, pinners \in SUBSET Peers :
          /\ Handle(m, {[type |-> "profile", ev |-> m.ev, peer |-> p] : p \in executors}
                 \cup [type : {"candidate"}, ev : {m.ev}, peer : pinners, exec : {FALSE}])
          /\ invited' = [peer : executors, exec : {TRUE}] \cup [peer : pinners, exec : {FALSE}]
    BY <1>3 DEF Delegates, SwarmPeers
  <2>2. m.ev \in Nat
    BY <1>0, <1>3 DEF Delegates, EventAnswers
  <2>3. {[type |-> "profile", ev |-> m.ev, peer |-> p] : p \in executors} \subseteq Profiles
    BY <2>2 DEF Profiles
  <2>4. [type : {"candidate"}, ev : {m.ev}, peer : pinners, exec : {FALSE}] \subseteq Invitations
    BY <2>2 DEF Invitations
  <2>5. net' \subseteq Message
    BY <2>1, <2>3, <2>4 DEF Handle, Message
  <2>6. invited' \subseteq [peer : Peers, exec : BOOLEAN]
    BY <2>1
  <2> QED  BY <1>3, <2>5, <2>6 DEF Delegates, nodeVars, NoFault
<1>4. CASE Profile(m)
  <2>1. [type |-> "candidate", ev |-> m.ev, peer |-> m.peer, exec |-> TRUE] \in Message
    BY <1>0, <1>4 DEF Profile, Profiles, Message, Invitations
  <2>2. net' \subseteq Message
    BY <1>4, <2>1 DEF Profile, Handle
  <2> QED  BY <1>4, <2>2 DEF Profile, nodeVars, delegatorVars, NoFault
<1>5. CASE StartAttestation(m)
  <2>1. [m EXCEPT !.type = "attest"] \in Message
    BY <1>0, <1>5 DEF StartAttestation, Applications, Message
  <2>2. net' \subseteq Message
    BY <1>5, <2>1 DEF StartAttestation, Handle
  <2> QED  BY <1>5, <2>2 DEF StartAttestation, nodeVars, delegatorVars, NoFault
<1>6. CASE AfterVerify(m)
  <2> DEFINE c == [peer |-> m.peer, rsa |-> m.rsa]
             it == Insert(item, m.exec, c)
             request == [type |-> "execute", peer |-> Elect(it).executor,
                         pinners |-> Elect(it).pinners]
  <2>1. c \in Candidate /\ m.exec \in BOOLEAN
    BY <1>0, <1>6 DEF AfterVerify, Applications, Candidate
  <2>2. item.candExecutors \in Seq(Candidate) /\ item.candPinners \in Seq(Candidate)
    BY DEF StoreItem
  <2>3. /\ it \in StoreItem
        /\ it.candExecutors \in Seq(Candidate) /\ it.candPinners \in Seq(Candidate)
    BY <2>1, <2>2, InsertType
  <2> HIDE DEF it, c
  <2>4. ASSUME Ready(N, it.candExecutors, it.candPinners)
        PROVE  /\ Elect(it) \in StoreItem
               /\ Elect(it).executor \in Peers
               /\ Elect(it).pinners \in Seq(Candidate)
    <3>1. Elect(it) \in StoreItem /\ Elect(it).pinners \in Seq(Candidate)
      BY <2>3, <2>4, ElectType
    <3>2. \E x \in Candidate : Elect(it).executor = x.peer
      BY <2>3, <2>4, ElectType
    <3> QED  BY <3>1, <3>2 DEF Candidate
  <2>5. TrySendToExecutor(m, it) =>
          item' \in StoreItem /\ net' \subseteq Message /\ faults' \in Nat
    <3>1. CASE item' = it /\ Handle(m, {}) /\ (NoFault \/ Fault("send"))
      BY <2>3, <3>1 DEF Handle, NoFault, Fault
    <3>2. CASE /\ Ready(N, it.candExecutors, it.candPinners)
               /\ item' = [Elect(it) EXCEPT !.state = "SentToExecutor"]
               /\ Handle(m, {request}) /\ NoFault
      <4>1. item' \in StoreItem
        BY <2>4, <3>2 DEF StoreItem, DelegatorState
      <4>2. request \in Message
        BY <2>4, <3>2 DEF Message, Requests
      <4> QED  BY <3>2, <4>1, <4>2 DEF Handle, NoFault
    <3> QED  BY <3>1, <3>2 DEF TrySendToExecutor
  <2>6. item' \in StoreItem /\ net' \subseteq Message /\ faults' \in Nat
    BY <1>6, <2>5 DEF AfterVerify, Handle, NoFault, it, c
  <2>7. attested' \subseteq Candidate
    BY <1>6, <2>1 DEF AfterVerify, c
  <2> QED  BY <1>6, <2>6, <2>7 DEF AfterVerify, nodeVars
<1>7. CASE ExecutionResult(m)
  <2> DEFINE peers == {m.pinners[i].peer : i \in DOMAIN m.pinners}
             received == [item EXCEPT !.state = "ReceivedExecutionResult", !.key = m.key]
  <2>1. m.pinners \in Seq(Candidate) /\ m.key \in Nat \ {0}
    BY <1>0, <1>7 DEF ExecutionResult, Responses
  <2>2. ASSUME NEW i \in 1 .. Len(m.pinners)  PROVE SliceFor(m, i) \in Message
    <3>1. m.pinners[i] \in Candidate /\ i \in Nat \ {0}
      BY <2>1, PeersOfSeq
    <3>2. SliceFor(m, i) \in Slices
      BY <2>1, <3>1 DEF SliceFor, Candidate, Slices
    <3> QED  BY <3>2 DEF Message
  <2>3. net' \subseteq Message
    BY <1>7, <2>1, <2>2 DEF ExecutionResult, SlicesTo, Handle
  <2>4. peers \subseteq Peers
    BY <2>1, PeersOfSeq
  <2>5. WithoutAnswers(item, peers) \subseteq Deployment
    BY DEF WithoutAnswers, StoreItem
  <2>6. received \in StoreItem
    BY <2>1 DEF StoreItem, DelegatorState
  <2> HIDE DEF peers
  <2>7. [received EXCEPT !.state = "SentToInitialPinner", !.asked = @ \cup peers,
                         !.answers = WithoutAnswers(item, peers)] \in StoreItem
    BY <2>4, <2>5, <2>6 DEF StoreItem, DelegatorState
  <2>8. item' \in StoreItem
    BY <1>7, <2>6, <2>7 DEF ExecutionResult, peers
  <2>9. faults' \in Nat
    BY <1>7 DEF ExecutionResult, NoFault, Fault
  <2> QED  BY <1>7, <2>3, <2>8, <2>9 DEF ExecutionResult, nodeVars
<1>8. CASE SliceDeployed(m)
  <2> DEFINE deployment == [peer |-> m.peer, key |-> m.key, index |-> m.index]
             it == [item EXCEPT !.answers = WithoutAnswers(item, {m.peer}) \cup {deployment}]
             complete == [it EXCEPT !.state = "ReceivedAllPinnerResponse"]
             result == [type |-> "result", key |-> it.key, deployments |-> it.answers]
  <2>1. deployment \in Deployment
    BY <1>0, <1>8 DEF SliceDeployed, Deployments, Deployment
  <2>2. WithoutAnswers(item, {m.peer}) \cup {deployment} \subseteq Deployment
    BY <2>1 DEF WithoutAnswers, StoreItem
  <2> HIDE DEF deployment
  <2>3. it \in StoreItem
    BY <2>2 DEF StoreItem
  <2>4. complete \in StoreItem
    BY <2>3 DEF StoreItem, DelegatorState
  <2>5. item' \in StoreItem
    BY <1>8, <2>3, <2>4 DEF SliceDeployed, WithAnswer, deployment
  <2>6. faults' \in Nat
    BY <1>8 DEF SliceDeployed, NoFault, Fault
  <2>7. result \in Message
    BY <2>3 DEF StoreItem, Results, Message
  <2>8. net' \subseteq Message
    BY <1>8, <2>7 DEF SliceDeployed, WithAnswer, Handle, deployment
  <2> QED  BY <1>8, <2>5, <2>6, <2>8 DEF SliceDeployed, nodeVars
<1>9. CASE Layer1Accepts(m)
  <2>1. m \in Results
    BY <1>0, <1>9 DEF Layer1Accepts
  <2>2. [key |-> m.key, deployments |-> m.deployments]
          \in [key : Nat, deployments : SUBSET Deployment]
    BY <2>1 DEF Results
  <2>3. published' \in Seq([key : Nat, deployments : SUBSET Deployment])
    BY <1>9, <2>2 DEF Layer1Accepts
  <2>4. [type |-> "updated"] \in Message
    BY DEF Message, Updates
  <2>5. [type : {"asset"}, peer : Peers, key : {m.key}] \subseteq Message
    BY <2>1 DEF Message, Assets, Results
  <2>6. net' \subseteq Message
    BY <1>9, <2>4, <2>5 DEF Layer1Accepts, Handle
  <2> QED  BY <1>9, <2>3, <2>6 DEF Layer1Accepts, nodeVars, NoFault
<1>10. CASE CloseConnections(m)
  <2>1. item.pinners \in Seq(Candidate) /\ item.executor \in Peers \cup {NoPeer}
    BY DEF StoreItem
  <2>2. ASSUME NEW n \in 0 .. Len(item.pinners)  PROVE FirstPinners(n) \subseteq Peers
    <3>1. FirstPinners(n) \subseteq {item.pinners[i].peer : i \in DOMAIN item.pinners}
      BY <2>1, <2>2 DEF FirstPinners
    <3> QED  BY <2>1, <3>1, PeersOfSeq
  <2>3. Len(item.pinners) \in 0 .. Len(item.pinners)
    BY <2>1
  <2>4. net' \subseteq Message
    BY <1>10 DEF CloseConnections, Handle
  <2>5. ASSUME closed' = closed \cup FirstPinners(Len(item.pinners))
                                \cup ({item.executor} \ {NoPeer})
        PROVE  closed' \subseteq Peers
    BY <2>1, <2>2, <2>3, <2>5
  <2>6. ASSUME NEW n \in 0 .. Len(item.pinners), closed' = closed \cup FirstPinners(n)
        PROVE  closed' \subseteq Peers
    BY <2>2, <2>6
  <2>7. closed' \subseteq Peers
    BY <1>10, <2>5, <2>6 DEF CloseConnections
  <2>8. faults' \in Nat
    BY <1>10 DEF CloseConnections, Fault, NoFault
  <2> QED  BY <1>10, <2>4, <2>7, <2>8 DEF CloseConnections, nodeVars
<1> QED
  BY <1>1, <1>2, <1>3, <1>4, <1>5, <1>6, <1>7, <1>8, <1>9, <1>10 DEF DelegatorHandles

LEMMA NodeTypeOK ==
  ASSUME TypeOK, NEW m \in net, NodeHandles(m), UNCHANGED delegatorVars
  PROVE  TypeOK'
<1> USE MessageFields DEF TypeOK
<1>0. m \in Message /\ net \subseteq Message
  OBVIOUS
<1>1. CASE CandidateRequest(m)
  <2>1. Verify(m) \in Message
    BY <1>0, <1>1 DEF CandidateRequest, Verify, Invitations, Message
  <2>2. net' \subseteq Message
    BY <1>1, <2>1 DEF CandidateRequest, Handle
  <2> QED  BY <1>1, <2>2 DEF CandidateRequest, nodeVars, delegatorVars, NoFault
<1>2. CASE ApplyAsCandidate(m)
  <2>1. m.peer \in Peers /\ m.exec \in BOOLEAN
    BY <1>0, <1>2 DEF ApplyAsCandidate, Invitations
  <2>2. rsaKeys[m.peer] + 1 \in Nat \ {0}
    BY <2>1
  <2>3. [type |-> "apply", peer |-> m.peer, exec |-> m.exec, rsa |-> rsaKeys[m.peer] + 1]
          \in Message
    BY <2>1, <2>2 DEF Applications, Message
  <2>4. net' \subseteq Message
    BY <1>2, <2>3 DEF ApplyAsCandidate, Application, Handle
  <2>5. exe' \in [Peers -> ExecutorState] /\ pin' \in [Peers -> PinnerState]
    BY <1>2 DEF ApplyAsCandidate, SetRole, ExecutorState, PinnerState
  <2>6. rsaKeys' \in [Peers -> Nat] /\ rsaKey' \in [Peers -> Nat]
    BY <1>2, <2>2 DEF ApplyAsCandidate
  <2>7. faults' \in Nat
    BY <1>2 DEF ApplyAsCandidate, NoFault, Fault
  <2> QED  BY <1>2, <2>4, <2>5, <2>6, <2>7 DEF ApplyAsCandidate, delegatorVars
<1>3. CASE Execute(m)
  <2>1. m \in Requests
    BY <1>0, <1>3 DEF Execute
  <2>2. [type |-> "executed", peer |-> m.peer, key |-> keys + 1, pinners |-> m.pinners]
          \in Message
    BY <2>1 DEF Requests, Responses, Message
  <2>3. net' \subseteq Message
    BY <1>3, <2>2 DEF Execute, Handle
  <2>4. exe' \in [Peers -> ExecutorState]
    BY <1>3 DEF Execute, ExecutorState
  <2>5. keys' \in Nat
    BY <1>3 DEF Execute
  <2>6. faults' \in Nat
    BY <1>3 DEF Execute, NoFault, Fault
  <2> QED  BY <1>3, <2>3, <2>4, <2>5, <2>6 DEF Execute, delegatorVars
<1>4. CASE StartUpload(m)
  <2>1. [m EXCEPT !.type = "upload"] \in Message
    BY <1>0, <1>4 DEF StartUpload, Slices, Message
  <2>2. net' \subseteq Message
    BY <1>4, <2>1 DEF StartUpload, Handle
  <2>3. pin' \in [Peers -> PinnerState]
    BY <1>4 DEF StartUpload, PinnerState
  <2>4. faults' \in Nat
    BY <1>4 DEF StartUpload, NoFault, Fault
  <2> QED  BY <1>4, <2>2, <2>3, <2>4 DEF StartUpload, delegatorVars
<1>5. CASE StoreSlice(m)
  <2>1. m \in Slices
    BY <1>0, <1>5 DEF StoreSlice
  <2>2. [type |-> "uploaded", peer |-> m.peer, key |-> m.key, index |-> m.index] \in Message
    BY <2>1 DEF Slices, Deployments, Message
  <2>3. net' \subseteq Message
    BY <1>5, <2>2 DEF StoreSlice, Handle
  <2>4. Put(dataCid, m.peer, m.key, m.index) \subseteq Deployment
    BY <2>1 DEF Put, Slices, Deployment
  <2>5. dataCid' \subseteq Deployment
    BY <1>5, <2>4 DEF StoreSlice
  <2>6. faults' \in Nat
    BY <1>5 DEF StoreSlice, NoFault, Fault
  <2> QED  BY <1>5, <2>3, <2>5, <2>6 DEF StoreSlice, delegatorVars
<1>6. CASE SliceUploaded(m)
  <2>1. m \in Deployments
    BY <1>0, <1>6 DEF SliceUploaded
  <2>2. [m EXCEPT !.type = "deployed"] \in Message
    BY <2>1 DEF Deployments, Message
  <2>3. net' \subseteq Message
    BY <1>6, <2>2 DEF SliceUploaded, Handle
  <2>4. Put(deployId, m.peer, m.key, m.index) \subseteq Deployment
    BY <2>1 DEF Put, Deployments, Deployment
  <2>5. deployId' \subseteq Deployment /\ pin' \in [Peers -> PinnerState]
    BY <1>6, <2>4 DEF SliceUploaded, PinnerState
  <2>6. faults' \in Nat
    BY <1>6 DEF SliceUploaded, NoFault, Fault
  <2> QED  BY <1>6, <2>3, <2>5, <2>6 DEF SliceUploaded, delegatorVars
<1>7. CASE AssetGenerated(m)
  <2>1. [cid : Entry(dataCid, m.peer, m.key), deployment : Entry(deployId, m.peer, m.key)]
          \subseteq [cid : Deployment, deployment : Deployment]
    BY DEF Entry
  <2>2. committed' \subseteq [cid : Deployment, deployment : Deployment]
    BY <1>7, <2>1 DEF AssetGenerated
  <2>3. net' \subseteq Message
    BY <1>7 DEF AssetGenerated, Handle
  <2> QED  BY <1>7, <2>2, <2>3 DEF AssetGenerated, delegatorVars, NoFault
<1> QED
  BY <1>1, <1>2, <1>3, <1>4, <1>5, <1>6, <1>7 DEF NodeHandles

LEMMA EnvironmentTypeOK ==
  ASSUME TypeOK, Environment
  PROVE  TypeOK'
<1> USE DEF TypeOK
<1>1. CASE PortalEvent /\ UNCHANGED nodeVars
  <2>1. [type |-> "nodeReady", ev |-> events + 1] \in Message
    BY DEF EventAnswers, Message
  <2> QED  BY <1>1, <2>1 DEF PortalEvent, nodeVars
<1>2. ASSUME NEW m \in net, Lose(m), UNCHANGED <<delegatorVars, nodeVars>>
      PROVE  TypeOK'
  BY <1>2 DEF Lose, Fault, Handle, delegatorVars, nodeVars
<1>3. ASSUME NEW p \in Peers, Expire(p), UNCHANGED delegatorVars
      PROVE  TypeOK'
  <2>1. /\ rsaKey' \in [Peers -> Nat]
        /\ dataCid' \subseteq Deployment
        /\ deployId' \subseteq Deployment
    BY <1>3 DEF Expire
  <2>2. faults' \in Nat
    BY <1>3 DEF Expire, Fault
  <2> QED  BY <1>3, <2>1, <2>2 DEF Expire, delegatorVars
<1> QED  BY <1>1, <1>2, <1>3 DEF Environment

LEMMA NextTypeOK == TypeOK /\ [Next]_vars => TypeOK'
<1> SUFFICES ASSUME TypeOK, [Next]_vars  PROVE TypeOK'
  OBVIOUS
<1>1. CASE Deliver
  <2> PICK m \in net : \/ DelegatorHandles(m) /\ UNCHANGED nodeVars
                       \/ NodeHandles(m) /\ UNCHANGED delegatorVars
    BY <1>1 DEF Deliver
  <2> QED  BY DelegatorTypeOK, NodeTypeOK
<1>2. CASE Environment
  BY <1>2, EnvironmentTypeOK
<1>3. CASE UNCHANGED vars
  BY <1>3 DEF TypeOK, vars, delegatorVars, nodeVars
<1> QED  BY <1>1, <1>2, <1>3 DEF Next

\* Type correctness: every variable keeps its type, messages included.
THEOREM TypeCorrect == Spec => []TypeOK
  BY InitTypeOK, NextTypeOK, PTL DEF Spec
-----------------------------------------------------------------------------
(* Whoever is addressed took a role and was attested *)

\* Attestations and roles are never taken back.
RolesKept ==
  /\ attested \subseteq attested'
  /\ \A p \in Peers : exe[p] # "None" => exe'[p] # "None"
  /\ \A p \in Peers : pin[p] # "None" => pin'[p] # "None"

LEMMA NextRolesKept == TypeOK /\ [Next]_vars => RolesKept
<1> SUFFICES ASSUME TypeOK, [Next]_vars  PROVE RolesKept
  OBVIOUS
<1> USE DEF TypeOK, RolesKept
<1>1. ASSUME NEW m \in net, DelegatorHandles(m), UNCHANGED nodeVars
      PROVE  RolesKept
  <2>1. attested \subseteq attested'
    BY <1>1 DEF DelegatorHandles, NodeReady, BecomeDelegator, Delegates, Profile,
         StartAttestation, AfterVerify, ExecutionResult, SliceDeployed, Layer1Accepts,
         CloseConnections, delegatorVars
  <2> QED  BY <1>1, <2>1 DEF nodeVars
<1>2. ASSUME NEW m \in net, NodeHandles(m), UNCHANGED delegatorVars
      PROVE  RolesKept
  <2>1. \A p \in Peers : exe[p] # "None" => exe'[p] # "None"
    BY <1>2 DEF NodeHandles, CandidateRequest, ApplyAsCandidate, SetRole, Execute,
         StartUpload, StoreSlice, SliceUploaded, AssetGenerated, nodeVars
  <2>2. \A p \in Peers : pin[p] # "None" => pin'[p] # "None"
    BY <1>2 DEF NodeHandles, CandidateRequest, ApplyAsCandidate, SetRole, Execute,
         StartUpload, StoreSlice, SliceUploaded, AssetGenerated, nodeVars
  <2> QED  BY <1>2, <2>1, <2>2 DEF delegatorVars
<1>3. CASE Environment
  BY <1>3 DEF Environment, PortalEvent, Lose, Expire, delegatorVars, nodeVars
<1>4. CASE UNCHANGED vars
  BY <1>4 DEF vars, delegatorVars, nodeVars
<1> QED  BY <1>1, <1>2, <1>3, <1>4 DEF Next, Deliver

LEMMA MembersKept ==
  ASSUME TypeOK, RolesKept
  PROVE  Executors \subseteq Executors' /\ Members \subseteq Members'
  BY DEF TypeOK, RolesKept, Executors, Members, Candidate

LEMMA ExecutorsAreMembers ==
  ASSUME TypeOK
  PROVE  Executors \subseteq Members /\ Members \subseteq Candidate
  BY DEF TypeOK, Executors, Members

\* A message that names members goes on naming members.
LEMMA NamesMembersKept ==
  ASSUME TypeOK, RolesKept, NEW m \in Message, NamesMembers(m)
  PROVE  NamesMembers(m)'
<1>1. Members \subseteq Members'
  BY MembersKept
<1>2. m.type \in {"execute", "executed"} => m.pinners \in Seq(Members')
  BY <1>1, SeqMonotone DEF NamesMembers
<1>3. m.type \in {"slice", "upload"} => [peer |-> m.peer, rsa |-> m.rsa] \in Members'
  BY <1>1 DEF NamesMembers
<1>4. m.type \in {"apply", "attest"} =>
        m.peer \in Peers /\ IF m.exec THEN exe'[m.peer] # "None" ELSE pin'[m.peer] # "None"
  BY MessageFields DEF NamesMembers, RolesKept, Applications
<1>5. m.type = "execute" => exe'[m.peer] # "None"
  BY MessageFields DEF NamesMembers, RolesKept, Requests
<1> QED  BY <1>2, <1>3, <1>4, <1>5 DEF NamesMembers

\* So a step only has to look at the messages it sends and the item it saves.
LEMMA OnlyMembersKept ==
  ASSUME TypeOK, RolesKept, OnlyMembers,
         \A m \in net' : m \in net \/ NamesMembers(m)',
         UNCHANGED item \/ CandidatesAreMembers'
  PROVE  OnlyMembers'
<1>1. \A m \in net : NamesMembers(m)'
  BY NamesMembersKept DEF OnlyMembers, TypeOK
<1>2. CASE UNCHANGED item
  <2>1. item.candExecutors \in Seq(Executors') /\ item.candPinners \in Seq(Members')
    BY MembersKept, SeqMonotone DEF OnlyMembers, CandidatesAreMembers
  <2>2. CandidatesAreMembers'
    BY <1>2, <2>1 DEF CandidatesAreMembers
  <2> QED  BY <1>1, <2>2 DEF OnlyMembers
<1>3. CASE CandidatesAreMembers'
  BY <1>1, <1>3 DEF OnlyMembers
<1> QED  BY <1>2, <1>3

\* The same when the vectors of candidates are those of before, or empty.
LEMMA CandidatesKept ==
  ASSUME TypeOK, RolesKept, OnlyMembers,
         \/ item'.candExecutors = item.candExecutors /\ item'.candPinners = item.candPinners
         \/ item'.candExecutors = <<>> /\ item'.candPinners = <<>>
  PROVE  CandidatesAreMembers'
<1>1. item.candExecutors \in Seq(Executors') /\ item.candPinners \in Seq(Members')
  BY MembersKept, SeqMonotone DEF OnlyMembers, CandidatesAreMembers
<1>2. <<>> \in Seq(Executors') /\ <<>> \in Seq(Members')
  OBVIOUS
<1> QED  BY <1>1, <1>2 DEF CandidatesAreMembers

LEMMA DelegatorOnlyMembers ==
  ASSUME TypeOK, TypeOK', RolesKept, OnlyMembers,
         NEW m \in net, DelegatorHandles(m), UNCHANGED nodeVars
  PROVE  OnlyMembers'
<1>0. m \in Message /\ NamesMembers(m) /\ item \in StoreItem
  BY DEF TypeOK, OnlyMembers
<1>1. CASE NodeReady(m)
  BY <1>1, OnlyMembersKept DEF NodeReady, Handle, NamesMembers, delegatorVars
<1>2. CASE BecomeDelegator(m)
  <2>1. UNCHANGED item \/ CandidatesAreMembers'
    <3>1. CASE UNCHANGED item
      BY <3>1
    <3>2. CASE item'.candExecutors = <<>> /\ item'.candPinners = <<>>
      BY <3>2, CandidatesKept
    <3> QED  BY <1>2, <3>1, <3>2 DEF BecomeDelegator, NewRound, Fresh
  <2>2. NamesMembers([type |-> "delegates", ev |-> m.ev])'
    BY DEF NamesMembers
  <2>3. net' \subseteq net \cup {[type |-> "delegates", ev |-> m.ev]}
    BY <1>2 DEF BecomeDelegator, Handle
  <2> QED  BY <2>1, <2>2, <2>3, OnlyMembersKept
<1>3. CASE Delegates(m)
  <2>1. PICK executors \in SUBSET Peers, pinners \in SUBSET Peers :
          Handle(m, {[type |-> "profile", ev |-> m.ev, peer |-> p] : p \in executors}
                 \cup [type : {"candidate"}, ev : {m.ev}, peer : pinners, exec : {FALSE}])
    BY <1>3 DEF Delegates, SwarmPeers
  <2>2. \A x \in {[type |-> "profile", ev |-> m.ev, peer |-> p] : p \in executors} :
          x.type = "profile"
    OBVIOUS
  <2>3. \A x \in [type : {"candidate"}, ev : {m.ev}, peer : pinners, exec : {FALSE}] :
          x.type = "candidate"
    OBVIOUS
  <2>4. \A x \in net' : x \in net \/ NamesMembers(x)'
    BY <2>1, <2>2, <2>3 DEF Handle, NamesMembers
  <2>5. UNCHANGED item
    BY <1>3 DEF Delegates
  <2> QED  BY <2>4, <2>5, OnlyMembersKept
<1>4. CASE Profile(m)
  BY <1>4, OnlyMembersKept DEF Profile, Handle, NamesMembers, delegatorVars
<1>5. CASE StartAttestation(m)
  <2> DEFINE x == [m EXCEPT !.type = "attest"]
  <2>1. m \in Applications
    BY <1>0, <1>5, MessageFields DEF StartAttestation
  <2>2. x.type = "attest" /\ x.peer = m.peer /\ x.exec = m.exec
    BY <2>1 DEF Applications
  <2>3. NamesMembers(m)'
    BY <1>0, NamesMembersKept
  <2>4. \A y : y = x => NamesMembers(y)'
    BY <1>5, <2>2, <2>3 DEF NamesMembers, StartAttestation
  <2>5. net' \subseteq net \cup {x} /\ UNCHANGED item
    BY <1>5 DEF StartAttestation, Handle, delegatorVars
  <2> QED  BY <2>4, <2>5, OnlyMembersKept
<1>6. CASE AfterVerify(m)
  <2> DEFINE c == [peer |-> m.peer, rsa |-> m.rsa]
             it == Insert(item, m.exec, c)
             elected == Elect(it)
             request == [type |-> "execute", peer |-> elected.executor,
                         pinners |-> elected.pinners]
             E == Executors'
             M == Members'
  <2>1. m.type = "attest" /\ m \in Applications
    BY <1>0, <1>6, MessageFields DEF AfterVerify
  <2>2. c \in Candidate /\ c \in attested' /\ m.exec \in BOOLEAN /\ c.peer = m.peer
    BY <1>6, <2>1 DEF AfterVerify, Applications, Candidate
  <2>3. IF m.exec THEN exe'[m.peer] # "None" ELSE pin'[m.peer] # "None"
    BY <1>0, <2>1, NamesMembersKept DEF NamesMembers
  <2>4. c \in M /\ (m.exec => c \in E)
    BY <2>2, <2>3 DEF Executors, Members
  <2>5. E \subseteq M /\ M \subseteq Candidate
    BY DEF Executors, Members, TypeOK
  <2>6. item.candExecutors \in Seq(E) /\ item.candPinners \in Seq(M)
    BY MembersKept, SeqMonotone DEF OnlyMembers, CandidatesAreMembers
  <2> HIDE DEF c, E, M
  <2>7. /\ it \in StoreItem
        /\ it.candExecutors \in Seq(E) /\ it.candPinners \in Seq(M)
    BY <1>0, <2>2, <2>4, <2>5, <2>6, InsertType
  <2> HIDE DEF it
  <2>8. CASE UNCHANGED item /\ Handle(m, {})
    BY <2>8, OnlyMembersKept DEF Handle
  <2>9. CASE item' = it /\ Handle(m, {})
    <3>1. CandidatesAreMembers'
      BY <2>7, <2>9 DEF CandidatesAreMembers, E, M
    <3> QED  BY <2>9, <3>1, OnlyMembersKept DEF Handle
  <2>10. CASE /\ Ready(N, it.candExecutors, it.candPinners)
              /\ item' = [elected EXCEPT !.state = "SentToExecutor"]
              /\ Handle(m, {request})
    <3>1. /\ elected \in StoreItem
          /\ elected.pinners \in Seq(M)
          /\ elected.candExecutors \in Seq(E)
          /\ elected.candPinners \in Seq(M)
      BY <2>5, <2>7, <2>10, ElectType
    <3>2. PICK x \in E : elected.executor = x.peer
      BY <2>5, <2>7, <2>10, ElectType
    <3> HIDE DEF elected
    <3>3. exe'[elected.executor] # "None"
      BY <3>2 DEF Executors, E
    <3>4. request.type = "execute" /\ request.peer = elected.executor
          /\ request.pinners = elected.pinners
      OBVIOUS
    <3> HIDE DEF request
    <3>5. \A y : y = request => NamesMembers(y)'
      BY <3>1, <3>3, <3>4 DEF NamesMembers, M
    <3>6. CandidatesAreMembers'
      BY <2>10, <3>1 DEF CandidatesAreMembers, StoreItem, E, M
    <3>7. net' \subseteq net \cup {request}
      BY <2>10 DEF Handle
    <3> QED  BY <3>5, <3>6, <3>7, OnlyMembersKept
  <2>11. TrySendToExecutor(m, it) =>
           \/ item' = it /\ Handle(m, {})
           \/ /\ Ready(N, it.candExecutors, it.candPinners)
              /\ item' = [elected EXCEPT !.state = "SentToExecutor"]
              /\ Handle(m, {request})
    BY DEF TrySendToExecutor
  <2> QED  BY <1>6, <2>8, <2>9, <2>10, <2>11 DEF AfterVerify, it, c
<1>7. CASE ExecutionResult(m)
  <2>1. m \in Responses
    BY <1>0, <1>7, MessageFields DEF ExecutionResult
  <2>2. m.type = "executed" /\ m.pinners \in Seq(Members')
    BY <1>0, <1>7, NamesMembersKept DEF ExecutionResult, NamesMembers
  <2>3. ASSUME NEW i \in 1 .. Len(m.pinners)  PROVE NamesMembers(SliceFor(m, i))'
    <3>1. m.pinners[i] \in Members'
      BY <2>2
    <3>2. m.pinners[i] \in Candidate
      BY <3>1, <2>1, PeersOfSeq DEF Responses
    <3>3. [peer |-> m.pinners[i].peer, rsa |-> m.pinners[i].rsa] = m.pinners[i]
      BY <3>2 DEF Candidate
    <3>4. /\ SliceFor(m, i).type = "slice"
          /\ SliceFor(m, i).peer = m.pinners[i].peer
          /\ SliceFor(m, i).rsa = m.pinners[i].rsa
      BY DEF SliceFor
    <3> QED  BY <3>1, <3>3, <3>4 DEF NamesMembers
  <2>4. net' \subseteq net \cup {SliceFor(m, i) : i \in 1 .. Len(m.pinners)}
    BY <1>7, <2>2 DEF ExecutionResult, SlicesTo, Handle
  <2>5. item'.candExecutors = item.candExecutors /\ item'.candPinners = item.candPinners
    BY <1>0, <1>7 DEF ExecutionResult, StoreItem
  <2>6. CandidatesAreMembers'
    BY <2>5, CandidatesKept
  <2> QED  BY <2>3, <2>4, <2>6, OnlyMembersKept
<1>8. CASE SliceDeployed(m)
  <2> DEFINE it == [item EXCEPT !.answers = WithoutAnswers(item, {m.peer}) \cup
                      {[peer |-> m.peer, key |-> m.key, index |-> m.index]}]
             result == [type |-> "result", key |-> it.key, deployments |-> it.answers]
  <2>1. item'.candExecutors = item.candExecutors /\ item'.candPinners = item.candPinners
    BY <1>0, <1>8 DEF SliceDeployed, WithAnswer, StoreItem
  <2>2. CandidatesAreMembers'
    BY <2>1, CandidatesKept
  <2>3. net' \subseteq net \cup {result}
    BY <1>8 DEF SliceDeployed, WithAnswer, Handle
  <2>4. \A y : y = result => NamesMembers(y)'
    BY DEF NamesMembers
  <2> HIDE DEF result
  <2> QED  BY <2>2, <2>3, <2>4, OnlyMembersKept
<1>9. CASE Layer1Accepts(m)
  <2> DEFINE out == {[type |-> "updated"]}
                      \cup [type : {"asset"}, peer : Peers, key : {m.key}]
  <2>1. net' \subseteq net \cup out /\ UNCHANGED item
    BY <1>9 DEF Layer1Accepts, Handle
  <2>2. \A x \in out : x.type \in {"updated", "asset"}
    OBVIOUS
  <2> HIDE DEF out
  <2>3. \A x \in out : NamesMembers(x)'
    BY <2>2 DEF NamesMembers
  <2> QED  BY <2>1, <2>3, OnlyMembersKept
<1>10. CASE CloseConnections(m)
  BY <1>10, OnlyMembersKept DEF CloseConnections, Handle
<1> QED
  BY <1>1, <1>2, <1>3, <1>4, <1>5, <1>6, <1>7, <1>8, <1>9, <1>10 DEF DelegatorHandles

LEMMA NodeOnlyMembers ==
  ASSUME TypeOK, RolesKept, OnlyMembers,
         NEW m \in net, NodeHandles(m), UNCHANGED delegatorVars
  PROVE  OnlyMembers'
<1>0. m \in Message /\ NamesMembers(m) /\ UNCHANGED item
  BY DEF TypeOK, OnlyMembers, delegatorVars
<1>1. CASE CandidateRequest(m)
  <2>1. Verify(m).type = "verify"
    BY <1>0, <1>1, MessageFields DEF CandidateRequest, Verify, Invitations
  <2>2. NamesMembers(Verify(m))'
    BY <2>1 DEF NamesMembers
  <2>3. net' \subseteq net \cup {Verify(m)}
    BY <1>1 DEF CandidateRequest, Handle
  <2> QED  BY <1>0, <2>2, <2>3, OnlyMembersKept
<1>2. CASE ApplyAsCandidate(m)
  <2> DEFINE x == [type |-> "apply", peer |-> m.peer, exec |-> m.exec,
                   rsa |-> rsaKeys[m.peer] + 1]
  <2>1. m.peer \in Peers
    BY <1>0, <1>2, MessageFields DEF ApplyAsCandidate, Invitations
  <2>2. IF m.exec THEN exe'[m.peer] # "None" ELSE pin'[m.peer] # "None"
    BY <1>2, <2>1 DEF ApplyAsCandidate, SetRole, TypeOK
  <2>3. x.type = "apply" /\ x.peer = m.peer /\ x.exec = m.exec
    OBVIOUS
  <2>4. \A y : y = x => NamesMembers(y)'
    BY <2>2, <2>3 DEF NamesMembers
  <2>5. net' \subseteq net \cup {x}
    BY <1>2 DEF ApplyAsCandidate, Application, Handle
  <2> HIDE DEF x
  <2> QED  BY <1>0, <2>4, <2>5, OnlyMembersKept
<1>3. CASE Execute(m)
  <2> DEFINE x == [type |-> "executed", peer |-> m.peer, key |-> keys + 1,
                   pinners |-> m.pinners]
  <2>1. m.type = "execute" /\ m.pinners \in Seq(Members')
    BY <1>0, <1>3, NamesMembersKept DEF Execute, NamesMembers
  <2>2. x.type = "executed" /\ x.pinners = m.pinners
    OBVIOUS
  <2>3. \A y : y = x => NamesMembers(y)'
    BY <2>1, <2>2 DEF NamesMembers
  <2>4. net' \subseteq net \cup {x}
    BY <1>3 DEF Execute, Handle
  <2> HIDE DEF x
  <2> QED  BY <1>0, <2>3, <2>4, OnlyMembersKept
<1>4. CASE StartUpload(m)
  <2> DEFINE x == [m EXCEPT !.type = "upload"]
  <2>1. m.type = "slice" /\ m \in Slices
    BY <1>0, <1>4, MessageFields DEF StartUpload
  <2>2. x.type = "upload" /\ x.peer = m.peer /\ x.rsa = m.rsa
    BY <2>1 DEF Slices
  <2>3. [peer |-> m.peer, rsa |-> m.rsa] \in Members'
    BY <1>0, <2>1, NamesMembersKept DEF NamesMembers
  <2>4. \A y : y = x => NamesMembers(y)'
    BY <2>2, <2>3 DEF NamesMembers
  <2>5. net' \subseteq net \cup {x}
    BY <1>4 DEF StartUpload, Handle
  <2> HIDE DEF x
  <2> QED  BY <1>0, <2>4, <2>5, OnlyMembersKept
<1>5. CASE StoreSlice(m)
  <2> DEFINE x == [type |-> "uploaded", peer |-> m.peer, key |-> m.key, index |-> m.index]
  <2>1. net' \subseteq net \cup {x}
    BY <1>5 DEF StoreSlice, Handle
  <2>2. \A y : y = x => NamesMembers(y)'
    BY DEF NamesMembers
  <2> QED  BY <1>0, <2>1, <2>2, OnlyMembersKept
<1>6. CASE SliceUploaded(m)
  <2> DEFINE x == [m EXCEPT !.type = "deployed"]
  <2>1. m \in Deployments
    BY <1>0, <1>6, MessageFields DEF SliceUploaded
  <2>2. x.type = "deployed"
    BY <2>1 DEF Deployments
  <2>3. \A y : y = x => NamesMembers(y)'
    BY <2>2 DEF NamesMembers
  <2>4. net' \subseteq net \cup {x}
    BY <1>6 DEF SliceUploaded, Handle
  <2> HIDE DEF x
  <2> QED  BY <1>0, <2>3, <2>4, OnlyMembersKept
<1>7. CASE AssetGenerated(m)
  BY <1>0, <1>7, OnlyMembersKept DEF AssetGenerated, Handle
<1> QED
  BY <1>1, <1>2, <1>3, <1>4, <1>5, <1>6, <1>7 DEF NodeHandles

LEMMA NextOnlyMembers == TypeOK /\ TypeOK' /\ OnlyMembers /\ [Next]_vars => OnlyMembers'
<1> SUFFICES ASSUME TypeOK, TypeOK', OnlyMembers, [Next]_vars  PROVE OnlyMembers'
  OBVIOUS
<1>0. RolesKept
  BY NextRolesKept
<1>1. CASE Deliver
  <2> PICK m \in net : \/ DelegatorHandles(m) /\ UNCHANGED nodeVars
                       \/ NodeHandles(m) /\ UNCHANGED delegatorVars
    BY <1>1 DEF Deliver
  <2> QED  BY <1>0, DelegatorOnlyMembers, NodeOnlyMembers
<1>2. CASE Environment
  <2>1. CASE PortalEvent
    BY <1>0, <2>1, OnlyMembersKept DEF PortalEvent, NamesMembers
  <2>2. ASSUME NEW m \in net, Lose(m), UNCHANGED <<delegatorVars, nodeVars>>
        PROVE  OnlyMembers'
    BY <1>0, <2>2, OnlyMembersKept DEF Lose, Handle, delegatorVars
  <2>3. ASSUME NEW p \in Peers, Expire(p), UNCHANGED delegatorVars
        PROVE  OnlyMembers'
    BY <1>0, <2>3, OnlyMembersKept DEF Expire, delegatorVars
  <2> QED  BY <1>2, <2>1, <2>2, <2>3 DEF Environment
<1>3. CASE UNCHANGED vars
  BY <1>0, <1>3, OnlyMembersKept DEF vars, delegatorVars
<1> QED  BY <1>1, <1>2, <1>3 DEF Next

LEMMA InitOnlyMembers == Init => OnlyMembers
  BY DEF Init, DelegatorInit, Fresh, OnlyMembers, CandidatesAreMembers

\* The inductive invariant: the stored candidates, the members of every request
\* and response, and the addressees of every slice were attested and took a role.
THEOREM MembersOnly == Spec => []OnlyMembers
<1>1. Init => TypeOK /\ OnlyMembers
  BY InitTypeOK, InitOnlyMembers
<1>2. (TypeOK /\ OnlyMembers) /\ [Next]_vars => (TypeOK /\ OnlyMembers)'
  BY NextTypeOK, NextOnlyMembers
<1> QED  BY <1>1, <1>2, PTL DEF Spec

\* Key slices go only to nodes the pinner actor attested, for the attested RSA
\* key, whatever fails, is lost, expires or is redelivered.
THEOREM SlicesReachOnlyAttested == Spec => []SlicesOnlyToAttested
<1>1. OnlyMembers => SlicesOnlyToAttested
  BY DEF OnlyMembers, NamesMembers, Members, SlicesOnlyToAttested
<1> QED  BY <1>1, MembersOnly, PTL

\* A node that is asked to execute or to pin has the item it needs for it, so
\* the error answers of those two handlers never occur.
THEOREM MembersAlwaysHaveItems == Spec => []MembersHaveItems
<1>1. OnlyMembers => MembersHaveItems
  BY DEF OnlyMembers, NamesMembers, Members, MembersHaveItems
<1> QED  BY <1>1, MembersOnly, PTL
-----------------------------------------------------------------------------
(* The delegator does not go on waiting with enough candidates *)

LEMMA AppendedCounts ==
  ASSUME NEW S, NEW e \in Seq(S), NEW p \in Seq(S), NEW c \in S, NEW e1, NEW p1,
         \/ e1 = Append(e, c) /\ p1 = p
         \/ e1 = e /\ p1 = Append(p, c)
  PROVE  /\ e1 \in Seq(S) /\ p1 \in Seq(S)
         /\ Len(e1) + Len(p1) = Len(e) + Len(p) + 1
         /\ e = <<>> /\ e1 # <<>> => Len(e1) = 1
<1>1. CASE e1 = Append(e, c) /\ p1 = p
  BY <1>1
<1>2. CASE e1 = e /\ p1 = Append(p, c)
  BY <1>2
<1> QED  BY <1>1, <1>2

LEMMA CountsBelow256 == (N + 1) % 256 = N + 1 /\ N \in Nat /\ N \in 1 .. 254
BY NetAssumption

\* Enough candidates are there only when the one just inserted made it so; then
\* the election is a first one.
LEMMA InsertMakesFirstElection ==
  ASSUME NEW it \in StoreItem, ~Ready(N, it.candExecutors, it.candPinners),
         NEW exec \in BOOLEAN, NEW c \in Candidate, NEW ins, ins = Insert(it, exec, c),
         Ready(N, ins.candExecutors, ins.candPinners)
  PROVE  Constructible(N, ins.candExecutors, ins.candPinners)
<1> DEFINE e == it.candExecutors
           p == it.candPinners
           e1 == ins.candExecutors
           p1 == ins.candPinners
<1>1. e \in Seq(Candidate) /\ p \in Seq(Candidate)
  BY DEF StoreItem
<1>2. \/ e1 = Append(e, c) /\ p1 = p
      \/ e1 = e /\ p1 = Append(p, c)
  BY DEF Insert, StoreItem
<1>3. e = <<>> \/ ~(Len(e) + Len(p) >= N + 1)
  BY CountsBelow256 DEF Ready, U8
<1>4. e1 # <<>> /\ Len(e1) + Len(p1) >= N + 1
  BY CountsBelow256 DEF Ready, U8
<1> Ready(N, e1, p1)
  OBVIOUS
<1> SUFFICES Constructible(N, e1, p1)
  OBVIOUS
<1> HIDE DEF e, p, e1, p1
<1>5. /\ e1 \in Seq(Candidate) /\ p1 \in Seq(Candidate)
      /\ Len(e1) + Len(p1) = Len(e) + Len(p) + 1
      /\ e = <<>> /\ e1 # <<>> => Len(e1) = 1
  <2>1. CASE e1 = Append(e, c) /\ p1 = p
    BY <1>1, <2>1, AppendedCounts
  <2>2. CASE e1 = e /\ p1 = Append(p, c)
    BY <1>1, <2>2, AppendedCounts
  <2> QED  BY <1>2, <2>1, <2>2
<1>6. Len(e) \in Nat /\ Len(p) \in Nat
  BY <1>1
<1>7. CASE e = <<>>
  BY <1>4, <1>5, <1>7, CountsBelow256, FirstElectionConstructible
<1>8. CASE ~(Len(e) + Len(p) >= N + 1)
  <2>1. Len(e1) + Len(p1) = N + 1
    BY <1>4, <1>5, <1>6, <1>8, CountsBelow256
  <2> QED  BY <1>4, <1>5, <2>1, CountsBelow256, FirstElectionConstructible
<1> QED  BY <1>3, <1>7, <1>8

LEMMA NextNobodyWaits ==
  TypeOK /\ NobodyWaitsInVain /\ [Next]_vars => NobodyWaitsInVain'
<1> SUFFICES ASSUME TypeOK, NobodyWaitsInVain, [Next]_vars,
                    item'.state = "InvitedCandidates", faults' = 0
             PROVE  ~Ready(N, item'.candExecutors, item'.candPinners)
  BY DEF NobodyWaitsInVain
<1>0. item \in StoreItem /\ faults \in Nat
  BY DEF TypeOK
<1>1. CASE UNCHANGED item /\ UNCHANGED faults
  BY <1>1 DEF NobodyWaitsInVain
<1>2. ASSUME NEW k, Fault(k)  PROVE FALSE
  BY <1>0, <1>2 DEF Fault
<1>3. ASSUME NEW m \in net, DelegatorHandles(m)
      PROVE  ~Ready(N, item'.candExecutors, item'.candPinners)
  <2>1. CASE NodeReady(m) \/ Delegates(m) \/ Profile(m) \/ StartAttestation(m)
             \/ Layer1Accepts(m)
    BY <1>1, <2>1 DEF NodeReady, Delegates, Profile, StartAttestation, Layer1Accepts,
         delegatorVars, NoFault
  <2>6. CASE CloseConnections(m)
    BY <1>1, <1>2, <2>6 DEF CloseConnections, NoFault
  <2>2. CASE BecomeDelegator(m)
    <3>1. CASE item' = Fresh("InvitedCandidates")
      BY <3>1 DEF Fresh, Ready
    <3> QED  BY <1>1, <1>2, <2>2, <3>1 DEF BecomeDelegator, NewRound, NoFault
  <2>3. CASE AfterVerify(m)
    <3> DEFINE c == [peer |-> m.peer, rsa |-> m.rsa]
               it == Insert(item, m.exec, c)
    <3>1. c \in Candidate /\ m.exec \in BOOLEAN
      BY <2>3, MessageFields DEF AfterVerify, TypeOK, Applications, Candidate
    <3>2. CASE UNCHANGED item /\ NoFault
      BY <1>1, <3>2 DEF NoFault
    <3>3. CASE item.state = "InvitedCandidates" /\ TrySendToExecutor(m, it)
      <4>1. faults = 0
        BY <1>2, <3>3 DEF TrySendToExecutor, NoFault
      <4>2. ~Ready(N, item.candExecutors, item.candPinners)
        BY <3>3, <4>1 DEF NobodyWaitsInVain
      <4> HIDE DEF c
      <4>3. Ready(N, it.candExecutors, it.candPinners) =>
              Constructible(N, it.candExecutors, it.candPinners)
        BY <1>0, <3>1, <4>2, InsertMakesFirstElection
      <4>4. /\ it \in StoreItem
            /\ it.candExecutors \in Seq(Candidate) /\ it.candPinners \in Seq(Candidate)
        <5>1. item.candExecutors \in Seq(Candidate) /\ item.candPinners \in Seq(Candidate)
          BY <1>0 DEF StoreItem
        <5> QED  BY <1>0, <3>1, <5>1, InsertType
      <4> HIDE DEF it
      <4>5. CASE Ready(N, it.candExecutors, it.candPinners)
        <5>1. item' = [Elect(it) EXCEPT !.state = "SentToExecutor"]
          BY <1>2, <3>3, <4>3, <4>5 DEF TrySendToExecutor
        <5>2. Elect(it) \in StoreItem
          BY <4>4, <4>5, ElectType
        <5>3. item'.state = "SentToExecutor"
          BY <5>1, <5>2 DEF StoreItem
        <5> QED  BY <5>3
      <4>6. CASE ~Ready(N, it.candExecutors, it.candPinners)
        <5>1. item' = it
          BY <3>3, <4>6 DEF TrySendToExecutor
        <5> QED  BY <4>6, <5>1
      <4> QED  BY <4>5, <4>6
    <3> QED  BY <2>3, <3>2, <3>3 DEF AfterVerify
  <2>4. CASE ExecutionResult(m)
    BY <1>0, <1>2, <2>4 DEF ExecutionResult, StoreItem
  <2>5. CASE SliceDeployed(m)
    <3>1. CASE UNCHANGED item /\ NoFault
      BY <1>1, <3>1 DEF NoFault
    <3>2. CASE item'.state = "ReceivedAllPinnerResponse"
      BY <3>2
    <3>3. CASE /\ item'.candExecutors = item.candExecutors
               /\ item'.candPinners = item.candPinners
               /\ item'.state = item.state /\ NoFault
      BY <3>3 DEF NobodyWaitsInVain, NoFault
    <3> QED  BY <1>0, <2>5, <3>1, <3>2, <3>3 DEF SliceDeployed, WithAnswer, StoreItem
  <2> QED  BY <1>3, <2>1, <2>2, <2>3, <2>4, <2>5, <2>6 DEF DelegatorHandles
<1>4. ASSUME NEW m \in net, NodeHandles(m), UNCHANGED delegatorVars
      PROVE  ~Ready(N, item'.candExecutors, item'.candPinners)
  BY <1>1, <1>2, <1>4 DEF NodeHandles, CandidateRequest, ApplyAsCandidate, Execute, StartUpload,
     StoreSlice, SliceUploaded, AssetGenerated, NoFault, delegatorVars
<1>5. CASE Environment
  BY <1>1, <1>2, <1>5 DEF Environment, PortalEvent, Lose, Expire
<1>6. CASE UNCHANGED vars
  BY <1>1, <1>6 DEF vars, delegatorVars
<1> QED  BY <1>3, <1>4, <1>5, <1>6 DEF Next, Deliver

\* As long as nothing failed, an InvitedCandidates item holds too few candidates:
\* whoever arrives last among those that suffice starts the election.
THEOREM NobodyEverWaitsInVain == Spec => []NobodyWaitsInVain
<1>1. Init => NobodyWaitsInVain
  BY DEF Init, DelegatorInit, Fresh, NobodyWaitsInVain
<1> QED  BY <1>1, InitTypeOK, NextTypeOK, NextNobodyWaits, PTL DEF Spec
-----------------------------------------------------------------------------
(* What is published is held, however often the event is delivered *)

\* An entry under an account stays there, for some slice, whatever is put, and the
\* entry that is put is there.
LEMMA PutKeeps ==
  ASSUME NEW E, NEW q, NEW l, NEW i, NEW p, NEW k
  PROVE  /\ Entry(E, p, k) # {} => Entry(Put(E, q, l, i), p, k) # {}
         /\ Entry(Put(E, q, l, i), q, l) # {}
<1> DEFINE new == [peer |-> q, key |-> l, index |-> i]
<1>1. new \in Entry(Put(E, q, l, i), q, l)
  BY DEF Entry, Put
<1>2. ASSUME NEW d \in Entry(E, p, k), ~(p = q /\ k = l)  PROVE d \in Entry(Put(E, q, l, i), p, k)
  BY <1>2 DEF Entry, Put
<1> QED  BY <1>1, <1>2

\* Attestations, roles and entries stay, unless an entry expires.
HoldersStay ==
  /\ RolesKept
  /\ NothingExpired' => NothingExpired
  /\ NothingExpired' => \A p \in Peers, k \in Nat :
       /\ Entry(dataCid, p, k) # {} => Entry(dataCid', p, k) # {}
       /\ Entry(deployId, p, k) # {} => Entry(deployId', p, k) # {}

LEMMA NextHoldersStay == TypeOK /\ [Next]_vars => HoldersStay
<1> SUFFICES ASSUME TypeOK, [Next]_vars  PROVE HoldersStay
  OBVIOUS
<1>1. RolesKept
  BY NextRolesKept
<1>2. faults' = faults \/ faults' = faults + 1
  BY DEF Next, Deliver, Environment, DelegatorHandles, NodeHandles, NodeReady, BecomeDelegator,
         Delegates, Profile, StartAttestation, AfterVerify, TrySendToExecutor, ExecutionResult,
         SliceDeployed, Layer1Accepts, CloseConnections, CandidateRequest, ApplyAsCandidate,
         Execute, StartUpload, StoreSlice, SliceUploaded, AssetGenerated, PortalEvent, Lose,
         Expire, NoFault, Fault, vars
<1>3. NothingExpired' => NothingExpired
  BY <1>2 DEF NothingExpired, TypeOK
<1> DEFINE Stays(E, F) == \A p \in Peers, k \in Nat : Entry(E, p, k) # {} => Entry(F, p, k) # {}
<1>4. CASE UNCHANGED <<dataCid, deployId>>
  BY <1>1, <1>3, <1>4 DEF HoldersStay
<1>5. ASSUME NEW m \in net, StoreSlice(m)  PROVE HoldersStay
  <2>1. deployId' = deployId
    BY <1>5 DEF StoreSlice
  <2>2. CASE dataCid' = dataCid
    BY <1>4, <2>1, <2>2
  <2>3. CASE dataCid' = Put(dataCid, m.peer, m.key, m.index)
    <3>1. Stays(dataCid, dataCid')
      BY <2>3, PutKeeps
    <3> QED  BY <1>1, <1>3, <2>1, <3>1 DEF HoldersStay
  <2> QED  BY <1>5, <2>2, <2>3 DEF StoreSlice
<1>6. ASSUME NEW m \in net, SliceUploaded(m)  PROVE HoldersStay
  <2>1. dataCid' = dataCid /\ deployId' = Put(deployId, m.peer, m.key, m.index)
    BY <1>6 DEF SliceUploaded
  <2>2. Stays(deployId, deployId')
    BY <2>1, PutKeeps
  <2> QED  BY <1>1, <1>3, <2>1, <2>2 DEF HoldersStay
<1>7. ASSUME NEW p \in Peers, Expire(p)  PROVE HoldersStay
  <2>1. ~NothingExpired'
    BY <1>7 DEF Expire, Fault, CanFail, NothingExpired, TypeOK
  <2> QED  BY <1>1, <2>1 DEF HoldersStay
<1>8. CASE Deliver
  <2>1. ASSUME NEW m \in net, DelegatorHandles(m), UNCHANGED nodeVars  PROVE HoldersStay
    BY <1>4, <2>1 DEF nodeVars
  <2>2. ASSUME NEW m \in net, NodeHandles(m)  PROVE HoldersStay
    <3>1. UNCHANGED <<dataCid, deployId>> \/ StoreSlice(m) \/ SliceUploaded(m)
      BY <2>2 DEF NodeHandles, CandidateRequest, ApplyAsCandidate, Execute, StartUpload,
           AssetGenerated, nodeVars
    <3> QED  BY <1>4, <1>5, <1>6, <3>1
  <2> QED  BY <1>8, <2>1, <2>2 DEF Deliver
<1>9. CASE Environment
  BY <1>4, <1>7, <1>9 DEF Environment, nodeVars
<1>10. CASE UNCHANGED vars
  BY <1>4, <1>10 DEF vars, nodeVars
<1> QED  BY <1>8, <1>9, <1>10 DEF Next

\* So what is held stays held.
LEMMA HeldStays ==
  ASSUME HoldersStay, NEW d, d.peer \in Peers, d.key \in Nat
  PROVE  /\ Serves(d) => Serves(d)'
         /\ StoredBy(d) => StoredBy(d)'
         /\ DeployedBy(d) => DeployedBy(d)'
         /\ HeldBy(d) => HeldBy(d)'
<1>1. Serves(d) => Serves(d)'
  BY DEF HoldersStay, RolesKept, Serves
<1>2. StoredBy(d) => StoredBy(d)'
  BY DEF HoldersStay, StoredBy
<1>3. DeployedBy(d) => DeployedBy(d)'
  BY DEF HoldersStay, DeployedBy
<1> QED  BY <1>1, <1>2, <1>3 DEF HeldBy

LEMMA DeploymentFields ==
  ASSUME NEW d \in Deployment
  PROVE  d.peer \in Peers /\ d.key \in Nat
  BY DEF Deployment

LEMMA NamesHeldStays ==
  ASSUME HoldersStay, NEW m \in Message, NamesHeld(m)
  PROVE  NamesHeld(m)'
<1>1. m.type \in {"upload", "uploaded", "deployed"} => m.peer \in Peers /\ m.key \in Nat
  BY MessageFields DEF Slices, Deployments
<1>2. m.type = "result" => m.deployments \in SUBSET Deployment
  BY MessageFields DEF Results
<1>3. m.type \in {"upload", "uploaded", "deployed"} => Serves(m)'
  BY <1>1, HeldStays DEF NamesHeld
<1>4. m.type \in {"uploaded", "deployed"} => StoredBy(m)'
  BY <1>1, HeldStays DEF NamesHeld
<1>5. m.type = "deployed" => DeployedBy(m)'
  BY <1>1, HeldStays DEF NamesHeld
<1>6. m.type = "result" => \A d \in m.deployments : HeldBy(d)'
  BY <1>2, HeldStays, DeploymentFields DEF NamesHeld
<1> QED  BY <1>3, <1>4, <1>5, <1>6 DEF NamesHeld

\* A step only has to look at the messages it sends, the answer it takes and the
\* result it publishes.
LEMMA OnlyHeldKept ==
  ASSUME TypeOK, HoldersStay, OnlyHeld,
         \A x \in net' : x \in net \/ NamesHeld(x)',
         \A d \in item'.answers : d \in item.answers \/ HeldBy(d)',
         published' = published \/ PublishedIsHeld'
  PROVE  OnlyHeld'
<1>1. \A x \in net : NamesHeld(x)'
  BY NamesHeldStays DEF OnlyHeld, TypeOK
<1>2. \A d \in item.answers : HeldBy(d)'
  <2>1. item.answers \subseteq Deployment
    BY DEF TypeOK, StoreItem
  <2> QED  BY <2>1, HeldStays, DeploymentFields DEF OnlyHeld
<1>3. PublishedIsHeld'
  <2> SUFFICES ASSUME published' = published, NEW i \in DOMAIN published,
                      NEW d \in published[i].deployments
               PROVE  HeldBy(d)'
    BY DEF PublishedIsHeld
  <2>0. published \in Seq([key : Nat, deployments : SUBSET Deployment])
    BY DEF TypeOK
  <2>1. published[i] \in [key : Nat, deployments : SUBSET Deployment]
    BY <2>0, ElementOfSeq
  <2>2. d \in Deployment /\ HeldBy(d)
    BY <2>1 DEF OnlyHeld, PublishedIsHeld
  <2> QED  BY <2>2, HeldStays, DeploymentFields
<1> QED  BY <1>1, <1>2, <1>3 DEF OnlyHeld

\* Messages of the other types say nothing of what is held.
LEMMA OthersHeld ==
  ASSUME TypeOK, HoldersStay, OnlyHeld,
         \A x \in net' : x \in net \/ x.type \notin {"upload", "uploaded", "deployed", "result"},
         item'.answers \subseteq item.answers,
         published' = published
  PROVE  OnlyHeld'
<1>1. \A x \in net' : x \in net \/ NamesHeld(x)'
  BY DEF NamesHeld
<1> QED  BY <1>1, OnlyHeldKept

LEMMA SliceDeployedHeld ==
  ASSUME TypeOK, HoldersStay, OnlyHeld, NEW m \in net, SliceDeployed(m), UNCHANGED nodeVars
  PROVE  OnlyHeld'
<1> DEFINE d == [peer |-> m.peer, key |-> m.key, index |-> m.index]
           it == WithAnswer(item, d)
           complete == [it EXCEPT !.state = "ReceivedAllPinnerResponse"]
           result == [type |-> "result", key |-> it.key, deployments |-> it.answers]
<1>1. m \in Deployments /\ item \in StoreItem
  BY MessageFields DEF SliceDeployed, TypeOK
<1>2. published' = published
  BY DEF SliceDeployed
<1>3. CASE UNCHANGED item /\ Handle(m, {})
  BY <1>2, <1>3, OthersHeld DEF Handle
<1>4. ASSUME item' \in {it, complete}, net' \subseteq net \cup {result}  PROVE OnlyHeld'
  <2>1. it.answers \subseteq item.answers \cup {d} /\ item'.answers = it.answers
    BY <1>1, <1>4 DEF WithAnswer, WithoutAnswers, StoreItem
  <2>2. HeldBy(d)'
    <3>1. Serves(m) /\ StoredBy(m) /\ DeployedBy(m)
      BY DEF SliceDeployed, OnlyHeld, NamesHeld
    <3>2. HeldBy(d)
      BY <3>1 DEF HeldBy, Serves, StoredBy, DeployedBy
    <3>3. d.peer \in Peers /\ d.key \in Nat
      BY <1>1 DEF Deployments
    <3> QED  BY <3>2, <3>3, HeldStays
  <2>3. \A e \in item.answers : HeldBy(e)'
    <3>1. item.answers \subseteq Deployment
      BY <1>1 DEF StoreItem
    <3> QED  BY <3>1, HeldStays, DeploymentFields DEF OnlyHeld
  <2>4. \A e \in it.answers : HeldBy(e)'
    BY <2>1, <2>2, <2>3
  <2>5. ASSUME NEW x, x = result  PROVE NamesHeld(x)'
    <3>1. x.type = "result" /\ x.deployments = it.answers
      BY <2>5
    <3> HIDE DEF it, result
    <3> QED  BY <2>4, <3>1 DEF NamesHeld
  <2>6. \A x \in net' : x \in net \/ NamesHeld(x)'
    <3> HIDE DEF it, result
    <3> QED  BY <1>4, <2>5
  <2>7. \A e \in item'.answers : HeldBy(e)'
    <3> HIDE DEF it, result
    <3> QED  BY <2>1, <2>4
  <2> HIDE DEF it, result
  <2> QED  BY <1>2, <2>6, <2>7, OnlyHeldKept
<1>5. CASE item' = it /\ Handle(m, {})
  BY <1>4, <1>5 DEF Handle
<1>6. CASE item' = complete /\ Handle(m, {result})
  <2>1. net' \subseteq net \cup {result}
    BY <1>6 DEF Handle
  <2> HIDE DEF it, complete, result
  <2> QED  BY <1>4, <1>6, <2>1
<1>7. CASE item' = complete /\ Handle(m, {})
  <2>1. net' \subseteq net \cup {result}
    BY <1>7 DEF Handle
  <2> HIDE DEF it, complete, result
  <2> QED  BY <1>4, <1>7, <2>1
<1> QED  BY <1>3, <1>5, <1>6, <1>7 DEF SliceDeployed

LEMMA Layer1AcceptsHeld ==
  ASSUME TypeOK, HoldersStay, OnlyHeld, NEW m \in net, Layer1Accepts(m), UNCHANGED nodeVars
  PROVE  OnlyHeld'
<1> DEFINE new == [key |-> m.key, deployments |-> m.deployments]
<1>1. m \in Results /\ item' = item /\ published' = Append(published, new)
  BY MessageFields DEF Layer1Accepts, TypeOK
<1>2. \A x \in net' : x \in net \/ x.type \in {"updated", "asset"}
  BY DEF Layer1Accepts, Handle
<1>3. \A x \in net' : x \in net \/ NamesHeld(x)'
  BY <1>2 DEF NamesHeld
<1>4. \A d \in m.deployments : HeldBy(d)'
  <2>1. \A d \in m.deployments : d \in Deployment /\ HeldBy(d)
    BY <1>1 DEF Layer1Accepts, OnlyHeld, NamesHeld, Results
  <2> QED  BY <2>1, HeldStays, DeploymentFields
<1>5. PublishedIsHeld'
  <2> SUFFICES ASSUME NEW i \in DOMAIN published', NEW d \in published'[i].deployments
               PROVE  HeldBy(d)'
    BY DEF PublishedIsHeld
  <2>1. published \in Seq([key : Nat, deployments : SUBSET Deployment])
    BY DEF TypeOK
  <2>2. CASE i \in DOMAIN published /\ published'[i] = published[i]
    <3>1. published[i] \in [key : Nat, deployments : SUBSET Deployment]
      BY <2>1, <2>2, ElementOfSeq
    <3>2. d \in Deployment /\ HeldBy(d)
      BY <2>2, <3>1 DEF OnlyHeld, PublishedIsHeld
    <3> QED  BY <3>2, HeldStays, DeploymentFields
  <2>3. CASE published'[i] = new
    BY <1>4, <2>3
  <2> QED
    <3> HIDE DEF new
    <3> QED  BY <1>1, <2>1, <2>2, <2>3, ElementOfAppended
<1> QED  BY <1>1, <1>3, <1>5, OnlyHeldKept

LEMMA DelegatorOnlyHeld ==
  ASSUME TypeOK, HoldersStay, OnlyHeld, NEW m \in net, DelegatorHandles(m), UNCHANGED nodeVars
  PROVE  OnlyHeld'
<1>t. item \in StoreItem /\ m \in Message
  BY DEF TypeOK
<1>1. CASE NodeReady(m)
  BY <1>1, OthersHeld DEF NodeReady, Handle, delegatorVars
<1>2. CASE BecomeDelegator(m)
  <2>1. \A x \in net' : x \in net \/ x.type = "delegates"
    BY <1>2 DEF BecomeDelegator, Handle
  <2>2. item'.answers \subseteq item.answers /\ published' = published
    BY <1>2 DEF BecomeDelegator, NewRound, Fresh
  <2> QED  BY <2>1, <2>2, OthersHeld
<1>3. CASE Delegates(m)
  <2>1. PICK executors, pinners :
          Handle(m, {[type |-> "profile", ev |-> m.ev, peer |-> p] : p \in executors}
                 \cup [type : {"candidate"}, ev : {m.ev}, peer : pinners, exec : {FALSE}])
    BY <1>3 DEF Delegates
  <2>2. \A x \in [type : {"candidate"}, ev : {m.ev}, peer : pinners, exec : {FALSE}] :
          x.type = "candidate"
    OBVIOUS
  <2>3. \A x \in {[type |-> "profile", ev |-> m.ev, peer |-> p] : p \in executors} :
          x.type = "profile"
    OBVIOUS
  <2>4. \A x \in net' : x \in net \/ x.type \in {"profile", "candidate"}
    BY <2>1, <2>2, <2>3 DEF Handle
  <2> QED  BY <1>3, <2>4, OthersHeld DEF Delegates
<1>4. CASE Profile(m)
  BY <1>4, OthersHeld DEF Profile, Handle, delegatorVars
<1>5. CASE StartAttestation(m)
  <2>1. m \in Applications
    BY <1>5, <1>t, MessageFields DEF StartAttestation
  <2>2. [m EXCEPT !.type = "attest"].type = "attest"
    BY <2>1 DEF Applications
  <2> QED  BY <1>5, <2>2, OthersHeld DEF StartAttestation, Handle, delegatorVars
<1>6. CASE AfterVerify(m)
  <2>1. \A x \in net' : x \in net \/ x.type = "execute"
    BY <1>6 DEF AfterVerify, TrySendToExecutor, Handle
  <2>2. item'.answers = item.answers
    BY <1>6, <1>t DEF AfterVerify, TrySendToExecutor, Insert, Elect, StoreItem
  <2> QED  BY <1>6, <2>1, <2>2, OthersHeld DEF AfterVerify
<1>7. CASE ExecutionResult(m)
  <2>1. \A x \in net' : x \in net \/ x.type = "slice"
    BY <1>7 DEF ExecutionResult, SlicesTo, SliceFor, Handle
  <2>2. item'.answers \subseteq item.answers
    <3> DEFINE peers == {m.pinners[i].peer : i \in DOMAIN m.pinners}
    <3>1. \/ item'.answers = WithoutAnswers(item, peers)
          \/ item'.answers = item.answers
      BY <1>7, <1>t DEF ExecutionResult, StoreItem
    <3> HIDE DEF peers
    <3> QED  BY <3>1 DEF WithoutAnswers
  <2> QED  BY <1>7, <2>1, <2>2, OthersHeld DEF ExecutionResult
<1>8. CASE SliceDeployed(m)
  BY <1>8, SliceDeployedHeld
<1>9. CASE Layer1Accepts(m)
  BY <1>9, Layer1AcceptsHeld
<1>10. CASE CloseConnections(m)
  BY <1>10, OthersHeld DEF CloseConnections, Handle
<1> QED
  BY <1>1, <1>2, <1>3, <1>4, <1>5, <1>6, <1>7, <1>8, <1>9, <1>10 DEF DelegatorHandles

LEMMA NodeOnlyHeld ==
  ASSUME TypeOK, OnlyMembers, HoldersStay, OnlyHeld, NEW m \in net, NodeHandles(m),
         UNCHANGED delegatorVars
  PROVE  OnlyHeld'
<1>t. item' = item /\ published' = published /\ attested' = attested /\ m \in Message
  BY DEF TypeOK, delegatorVars
<1>n. ASSUME NEW x, net' \subseteq net \cup {x}, NamesHeld(x)'  PROVE OnlyHeld'
  BY <1>n, <1>t, OnlyHeldKept
<1>1. CASE CandidateRequest(m)
  <2>1. m \in Invitations
    BY <1>1, <1>t, MessageFields DEF CandidateRequest
  <2>2. Verify(m).type = "verify"
    BY <2>1 DEF Invitations, Verify
  <2>3. \A x \in net' : x \in net \/ x.type = "verify"
    BY <1>1, <2>2 DEF CandidateRequest, Handle
  <2> QED  BY <1>t, <2>3, OthersHeld
<1>2. CASE ApplyAsCandidate(m)
  <2>1. \A x \in net' : x \in net \/ x.type = "apply"
    BY <1>2 DEF ApplyAsCandidate, Application, Handle
  <2> QED  BY <1>t, <2>1, OthersHeld
<1>3. CASE Execute(m)
  <2>1. \A x \in net' : x \in net \/ x.type = "executed"
    BY <1>3 DEF Execute, Handle
  <2> QED  BY <1>t, <2>1, OthersHeld
<1>4. CASE StartUpload(m)
  <2> DEFINE x == [m EXCEPT !.type = "upload"]
  <2>1. m \in Slices /\ m.type = "slice"
    BY <1>4, <1>t, MessageFields DEF StartUpload
  <2>2. x.type = "upload" /\ x.peer = m.peer /\ m.peer \in Peers
    BY <2>1 DEF Slices
  <2>3. [peer |-> m.peer, rsa |-> m.rsa] \in attested
    BY <2>1 DEF OnlyMembers, NamesMembers, Members
  <2>4. pin'[m.peer] # "None"
    BY <1>4, <2>2 DEF StartUpload, TypeOK
  <2>5. net' \subseteq net \cup {x}
    BY <1>4 DEF StartUpload, Handle
  <2> HIDE DEF x
  <2>6. Serves(x)'
    BY <1>t, <2>2, <2>3, <2>4 DEF Serves
  <2>7. NamesHeld(x)'
    BY <2>2, <2>6 DEF NamesHeld
  <2> QED  BY <1>n, <2>5, <2>7
<1>5. CASE StoreSlice(m)
  <2> DEFINE x == [type |-> "uploaded", peer |-> m.peer, key |-> m.key, index |-> m.index]
  <2>1. m \in Slices /\ m.type = "upload"
    BY <1>5, <1>t, MessageFields DEF StoreSlice
  <2>2. CASE Handle(m, {})
    BY <1>t, <2>2, OthersHeld DEF Handle
  <2>3. CASE Handle(m, {x}) /\ dataCid' = Put(dataCid, m.peer, m.key, m.index)
    <3>1. net' \subseteq net \cup {x}
      BY <2>3 DEF Handle
    <3>2. x.type = "uploaded" /\ x.peer = m.peer /\ x.key = m.key
      OBVIOUS
    <3> HIDE DEF x
    <3>3. Serves(m)'
      <4>1. Serves(m) /\ m.peer \in Peers /\ m.key \in Nat
        BY <2>1 DEF OnlyHeld, NamesHeld, Slices
      <4> QED  BY <4>1, HeldStays
    <3>4. Serves(x)'
      BY <3>2, <3>3 DEF Serves
    <3>5. StoredBy(x)'
      BY <2>3, <3>2, PutKeeps DEF StoredBy
    <3>6. NamesHeld(x)'
      BY <3>2, <3>4, <3>5 DEF NamesHeld
    <3> QED  BY <1>n, <3>1, <3>6
  <2> QED  BY <1>5, <2>2, <2>3 DEF StoreSlice
<1>6. CASE SliceUploaded(m)
  <2> DEFINE x == [m EXCEPT !.type = "deployed"]
  <2>1. m \in Deployments /\ m.type = "uploaded"
    BY <1>6, <1>t, MessageFields DEF SliceUploaded
  <2>2. x.type = "deployed" /\ x.peer = m.peer /\ x.key = m.key
    BY <2>1 DEF Deployments
  <2>3. net' \subseteq net \cup {x} /\ deployId' = Put(deployId, m.peer, m.key, m.index)
    BY <1>6 DEF SliceUploaded, Handle
  <2> HIDE DEF x
  <2>4. Serves(m)' /\ StoredBy(m)'
    <3>1. Serves(m) /\ StoredBy(m) /\ m.peer \in Peers /\ m.key \in Nat
      BY <2>1 DEF OnlyHeld, NamesHeld, Deployments
    <3> QED  BY <3>1, HeldStays
  <2>5. Serves(x)' /\ StoredBy(x)'
    BY <2>2, <2>4 DEF Serves, StoredBy
  <2>6. DeployedBy(x)'
    BY <2>2, <2>3, PutKeeps DEF DeployedBy
  <2>7. NamesHeld(x)'
    BY <2>2, <2>5, <2>6 DEF NamesHeld
  <2> QED  BY <1>n, <2>3, <2>7
<1>7. CASE AssetGenerated(m)
  BY <1>7, <1>t, OthersHeld DEF AssetGenerated, Handle
<1> QED  BY <1>1, <1>2, <1>3, <1>4, <1>5, <1>6, <1>7 DEF NodeHandles

\* The inductive invariant: what was reported, answered or published is held.
LEMMA HeldAlways == Spec => []OnlyHeld
<1>1. Init => OnlyHeld
  BY DEF Init, DelegatorInit, Fresh, OnlyHeld, PublishedIsHeld
<1>2. TypeOK /\ OnlyMembers /\ OnlyHeld /\ [Next]_vars => OnlyHeld'
  <2> SUFFICES ASSUME TypeOK, OnlyMembers, OnlyHeld, [Next]_vars  PROVE OnlyHeld'
    OBVIOUS
  <2>1. HoldersStay
    BY NextHoldersStay
  <2>2. CASE Deliver
    BY <2>1, <2>2, DelegatorOnlyHeld, NodeOnlyHeld DEF Deliver
  <2>3. CASE Environment
    <3>1. item' = item /\ published' = published
      BY <2>3 DEF Environment, PortalEvent, delegatorVars
    <3>2. \A x \in net' : x \in net \/ x.type = "nodeReady"
      BY <2>3 DEF Environment, PortalEvent, Lose, Handle, Expire
    <3> QED  BY <2>1, <3>1, <3>2, OthersHeld
  <2>4. CASE UNCHANGED vars
    BY <2>1, <2>4, OthersHeld DEF vars, delegatorVars
  <2> QED  BY <2>2, <2>3, <2>4 DEF Next
<1> QED  BY <1>1, <1>2, TypeCorrect, MembersOnly, PTL DEF Spec

\* Of whatever round a deployment is that layer1 was told of, and whatever was lost
\* or failed: its node was attested, keeps the item of an initial pinner, and, unless
\* they expired, both entries that the asset event makes it commit.
THEOREM PublishedIsAlwaysHeld == Spec => []PublishedIsHeld
<1>1. OnlyHeld => PublishedIsHeld
  BY DEF OnlyHeld
<1> QED  BY <1>1, HeldAlways, PTL
=============================================================================
