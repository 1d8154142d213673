----------------------------- MODULE SignProofs -----------------------------
(***************************************************************************)
(* Theorems about signing, for all sets of nodes and deployments and any   *)
(* faults; where they say so, for a single delivery of the event.          *)
(***************************************************************************)
EXTENDS Sign, FiniteSetTheorems, TLAPS

-----------------------------------------------------------------------------
(* Messages *)

\* The type of a message tells its fields.
LEMMA MessageFields ==
  ASSUME NEW m \in Message
  PROVE  /\ m.type \in EventTypes => m \in EventAnswers
         /\ m.type = "delegates" => m \in DelegateLists
         /\ m.type \in {"profile", "candidate"} => m \in Invitations
         /\ m.type \in {"apply", "attest"} => m \in Applications
         /\ m.type = "find" => m \in Searches
         /\ m.type = "found" => m \in Discoveries
         /\ m.type \in {"get", "info", "slice"} => m \in SliceMessages
         /\ m.type = "sign" => m \in SignRequests
         /\ m.type = "commit" => m \in Commits
  BY DEF Message, EventTypes, EventAnswers, DelegateLists, Invitations, Applications, Searches,
         Discoveries, SliceMessages, SignRequests, Commits

\* Handling a message keeps the network well-typed if what it sends is.
LEMMA HandleType ==
  ASSUME net \subseteq Message, NEW m, NEW out, out \subseteq Message, Handle(m, out)
  PROVE  net' \subseteq Message
  BY DEF Handle

\* What try_send_to_executor leaves and sends, for a well-typed saved item.
LEMMA SendToExecutorType ==
  ASSUME TypeOK, NEW m \in net, NEW it \in StoreItem, TrySendToExecutor(m, it)
  PROVE  item' \in StoreItem /\ net' \subseteq Message /\ faults' \in Nat
<1> DEFINE request == [type |-> "sign", peer |-> it.executor.peer, slices |-> it.slices]
<1>1. CASE item' = it /\ Handle(m, {}) /\ (NoFault \/ Fault("send"))
  BY <1>1 DEF TypeOK, Handle, NoFault, Fault
<1>2. CASE /\ it.executor # NoExecutor
           /\ item' = [it EXCEPT !.state = "SentToExecutor"]
           /\ Handle(m, {request}) /\ NoFault
  <2>1. item' \in StoreItem
    BY <1>2 DEF StoreItem, DelegatorState
  <2>2. request \in SignRequests
    BY <1>2 DEF StoreItem, ExecutorInfo, SignRequests
  <2>3. net' \subseteq Message
    BY <1>2, <2>2 DEF TypeOK, Handle, Message
  <2> QED  BY <1>2, <2>1, <2>3 DEF TypeOK, NoFault
<1> QED  BY <1>1, <1>2 DEF TrySendToExecutor

\* The requests for slices are well-typed once there is an executor.
LEMMA GetSlicesType ==
  ASSUME NEW it, it.executor \in ExecutorInfo, NEW holders \in SUBSET Holder
  PROVE  GetSlices(it, holders) \subseteq Message
<1>1. GetSlices(it, holders) \subseteq SliceMessages
  BY DEF GetSlices, SliceMessages, Holder
<1> QED  BY <1>1 DEF Message
-----------------------------------------------------------------------------
(* Type correctness *)

LEMMA InitTypeOK == Init => TypeOK
  BY DEF Init, DelegatorInit, NodeInit, TypeOK, NewItem, StoreItem, DelegatorState,
         ExecutorState

LEMMA DelegatorTypeOK ==
  ASSUME TypeOK, NEW m \in net, DelegatorHandles(m), UNCHANGED nodeVars
  PROVE  TypeOK'
<1> USE DEF TypeOK
<1>0. m \in Message /\ net \subseteq Message
  OBVIOUS
<1>n. exe' = exe /\ rsaKey' = rsaKey /\ rsaKeys' = rsaKeys /\ recovered' = recovered
  BY DEF nodeVars
<1>1. CASE NodeReady(m)
  <2>1. [type |-> "delegatorKey", ev |-> m.ev] \in Message
    BY <1>0, <1>1, MessageFields DEF NodeReady, EventTypes, EventAnswers, Message
  <2>2. net' \subseteq Message
    BY <1>1, <2>1 DEF NodeReady, Handle
  <2> QED  BY <1>1, <1>n, <2>2 DEF NodeReady, delegatorVars, NoFault
<1>2. CASE BecomeDelegator(m)
  <2>1. [type |-> "deploymentIds", ev |-> m.ev] \in Message
    BY <1>0, <1>2, MessageFields DEF BecomeDelegator, EventTypes, EventAnswers, Message
  <2>2. net' \subseteq Message
    BY <1>2, <2>1 DEF BecomeDelegator, Handle
  <2> QED  BY <1>2, <1>n, <2>2 DEF BecomeDelegator, delegatorVars, NoFault
<1>3. CASE BeginRound(m)
  <2>1. PICK ids \in SUBSET DeploymentIds :
          /\ item' = NewItem("Initialized", ids)
          /\ \/ Handle(m, {[type |-> "delegates", ev |-> m.ev, ids |-> ids]}) /\ NoFault
             \/ Handle(m, {}) /\ Fault("send")
    BY <1>3 DEF BeginRound
  <2>2. m.ev \in Nat
    BY <1>0, <1>3, MessageFields DEF BeginRound, EventTypes, EventAnswers
  <2>3. [type |-> "delegates", ev |-> m.ev, ids |-> ids] \in Message
    BY <2>2 DEF Message, DelegateLists
  <2>4. net' \subseteq Message /\ faults' \in Nat
    BY <2>1, <2>3 DEF Handle, NoFault, Fault
  <2>5. item' \in StoreItem
    BY <2>1 DEF NewItem, StoreItem, DelegatorState
  <2> QED  BY <1>3, <1>n, <2>4, <2>5 DEF BeginRound
<1>4. CASE InviteAndFind(m)
  <2>1. m \in DelegateLists
    BY <1>0, <1>4, MessageFields DEF InviteAndFind
  <2>2. ASSUME NEW peers \in SUBSET Delegates, NEW ids \in SUBSET m.ids
        PROVE  Lookups(m, peers) \cup FindPinners(m, ids) \subseteq Message
    <3>1. Lookups(m, peers) \subseteq Invitations
      BY <2>1 DEF DelegateLists, Lookups, Invitations
    <3>2. FindPinners(m, ids) \subseteq Searches
      BY <2>1 DEF DelegateLists, FindPinners, Searches
    <3> QED  BY <3>1, <3>2 DEF Message
  <2>3. net' \subseteq Message
    BY <1>4, <2>2 DEF InviteAndFind, Handle
  <2>4. item' \in {item, [item EXCEPT !.state = "FindingDeployments"]}
    BY <1>4 DEF InviteAndFind
  <2>5. item' \in StoreItem
    BY <2>4 DEF StoreItem, DelegatorState
  <2>6. faults' \in Nat
    <3>1. NoFault \/ Fault("send")
      BY <1>4 DEF InviteAndFind
    <3> QED  BY <3>1 DEF NoFault, Fault
  <2>7. invited' \subseteq Delegates
    BY <1>4 DEF InviteAndFind
  <2> QED  BY <1>4, <1>n, <2>3, <2>5, <2>6, <2>7 DEF InviteAndFind
<1>5. CASE InviteExecutor(m)
  <2>1. [m EXCEPT !.type = "candidate"] \in Message
    BY <1>0, <1>5, MessageFields DEF InviteExecutor, Invitations, Message
  <2>2. net' \subseteq Message
    BY <1>5, <2>1 DEF InviteExecutor, Handle
  <2> QED  BY <1>5, <1>n, <2>2 DEF InviteExecutor, delegatorVars, NoFault
<1>6. CASE PinnersAttested(m)
  <2>1. m \in Searches
    BY <1>0, <1>6, MessageFields DEF PinnersAttested
  <2>2. ASSUME NEW peers \in SUBSET Pinners
        PROVE  {[type |-> "found", ev |-> m.ev, id |-> m.id, peer |-> p] : p \in peers}
                 \subseteq Message
    BY <2>1 DEF Searches, Discoveries, Message
  <2>3. net' \subseteq Message
    BY <1>6, <2>2 DEF PinnersAttested, Handle
  <2> QED  BY <1>6, <1>n, <2>3 DEF PinnersAttested, delegatorVars, NoFault
<1>7. CASE StartAttestation(m)
  <2>1. [m EXCEPT !.type = "attest"] \in Message
    BY <1>0, <1>7, MessageFields DEF StartAttestation, Applications, Message
  <2>2. net' \subseteq Message
    BY <1>7, <2>1 DEF StartAttestation, Handle
  <2> QED  BY <1>7, <1>n, <2>2 DEF StartAttestation, delegatorVars, NoFault
<1>8. CASE ExecutorAttested(m)
  <2> DEFINE executor == [peer |-> m.peer, rsa |-> m.rsa]
             it == [item EXCEPT !.executor = executor, !.waiting = {}]
             holders == item.waiting
  <2>1. executor \in ExecutorInfo
    BY <1>0, <1>8, MessageFields DEF ExecutorAttested, Applications, ExecutorInfo
  <2>2. it \in StoreItem /\ it.executor = executor /\ holders \in SUBSET Holder
    BY <2>1 DEF StoreItem
  <2>3. attested' \subseteq ExecutorInfo /\ UNCHANGED <<events, invited, found>>
    BY <1>8, <2>1 DEF ExecutorAttested
  <2> HIDE DEF executor
  <2>4. CASE item.executor # NoExecutor /\ Handle(m, {}) /\ UNCHANGED <<item, asked>> /\ NoFault
    BY <1>n, <2>3, <2>4 DEF Handle, NoFault
  <2>5. CASE TrySendToExecutor(m, it) /\ UNCHANGED asked
    BY <1>n, <2>2, <2>3, <2>5, SendToExecutorType
  <2>6. ASSUME item' = it, NEW sent \in SUBSET holders, Handle(m, GetSlices(it, sent)),
               asked' = asked \cup sent, NoFault \/ Fault("send")
        PROVE  TypeOK'
    <3>1. net' \subseteq Message
      BY <2>1, <2>2, <2>6, GetSlicesType, HandleType
    <3>2. faults' \in Nat /\ asked' \subseteq Holder
      BY <2>2, <2>6 DEF NoFault, Fault
    <3> QED  BY <1>n, <2>2, <2>3, <2>6, <3>1, <3>2
  <2> QED  BY <1>8, <2>4, <2>5, <2>6 DEF ExecutorAttested, Interrupted, executor
<1>9. CASE PinnerAttested(m)
  <2> DEFINE holder == [id |-> m.id, peer |-> m.peer]
  <2>1. holder \in Holder
    BY <1>0, <1>9, MessageFields DEF PinnerAttested, Discoveries, Holder
  <2>2. item' \in StoreItem
    BY <1>9, <2>1 DEF PinnerAttested, StoreItem
  <2>3. item.executor # NoExecutor => GetSlices(item, {holder}) \subseteq Message
    BY <2>1, GetSlicesType DEF StoreItem
  <2>4. net' \subseteq Message
    BY <1>9, <2>3 DEF PinnerAttested, Handle
  <2>5. found' \subseteq Holder /\ asked' \subseteq Holder
    BY <1>9, <2>1 DEF PinnerAttested
  <2> QED  BY <1>9, <1>n, <2>2, <2>4, <2>5 DEF PinnerAttested, NoFault
<1>10. CASE SliceReturned(m)
  <2> DEFINE slice == [id |-> m.id, peer |-> m.peer, key |-> m.key]
             it == [item EXCEPT !.slices = @ \cup {slice}]
  <2>1. slice \in KeySlice
    BY <1>0, <1>10, MessageFields DEF SliceReturned, SliceMessages, KeySlice
  <2>2. it \in StoreItem
    BY <2>1 DEF StoreItem
  <2> HIDE DEF slice
  <2>3. UNCHANGED <<events, invited, attested, found, asked>>
    BY <1>10 DEF SliceReturned
  <2>4. CASE TrySendToExecutor(m, it)
    BY <1>n, <2>2, <2>3, <2>4, SendToExecutorType
  <2>5. CASE item' \in {item, it} /\ Handle(m, {}) /\ (NoFault \/ Fault("send"))
    <3>1. item' \in StoreItem
      BY <2>2, <2>5
    <3>2. net' \subseteq Message /\ faults' \in Nat
      BY <2>5 DEF Handle, NoFault, Fault
    <3> QED  BY <1>n, <2>3, <3>1, <3>2
  <2> QED  BY <1>10, <2>4, <2>5 DEF SliceReturned, slice
<1>11. CASE CommitResult(m)
  BY <1>11, <1>n DEF CommitResult, StoreItem, DelegatorState, Handle, NoFault
<1> QED  BY <1>1, <1>2, <1>3, <1>4, <1>5, <1>6, <1>7, <1>8, <1>9, <1>10, <1>11
         DEF DelegatorHandles

LEMMA NodeTypeOK ==
  ASSUME TypeOK, NEW m \in net, NodeHandles(m), UNCHANGED delegatorVars
  PROVE  TypeOK'
<1> USE DEF TypeOK
<1>0. m \in Message /\ net \subseteq Message
  OBVIOUS
<1>1. CASE ApplyAsExecutor(m)
  <2>1. m.peer \in Delegates
    BY <1>0, <1>1, MessageFields DEF ApplyAsExecutor, Invitations
  <2>2. rsaKeys[m.peer] + 1 \in Nat \ {0}
    BY <2>1
  <2>3. [type |-> "apply", peer |-> m.peer, rsa |-> rsaKeys[m.peer] + 1] \in Message
    BY <2>1, <2>2 DEF Applications, Message
  <2>4. net' \subseteq Message /\ faults' \in Nat
    BY <1>1, <2>3 DEF ApplyAsExecutor, Handle, NoFault, Fault
  <2>5. /\ exe' \in [Delegates -> ExecutorState]
        /\ rsaKey' \in [Delegates -> Nat] /\ rsaKeys' \in [Delegates -> Nat]
    BY <1>1, <2>2 DEF ApplyAsExecutor, ExecutorState
  <2> QED  BY <1>1, <2>4, <2>5 DEF ApplyAsExecutor, delegatorVars
<1>2. CASE LookUpDeployment(m)
  <2>1. [m EXCEPT !.type = "info"] \in Message
    BY <1>0, <1>2, MessageFields DEF LookUpDeployment, SliceMessages, Message
  <2>2. net' \subseteq Message
    BY <1>2, <2>1 DEF LookUpDeployment, Handle
  <2> QED  BY <1>2, <2>2 DEF LookUpDeployment, nodeVars, delegatorVars, NoFault
<1>3. CASE ReturnSlice(m)
  <2>1. [m EXCEPT !.type = "slice"] \in Message
    BY <1>0, <1>3, MessageFields DEF ReturnSlice, SliceMessages, Message
  <2>2. net' \subseteq Message
    BY <1>3, <2>1 DEF ReturnSlice, Handle
  <2> QED  BY <1>3, <2>2 DEF ReturnSlice, nodeVars, delegatorVars, NoFault
<1>4. CASE Sign(m)
  <2>1. m.peer \in Delegates
    BY <1>0, <1>4, MessageFields DEF Sign, SignRequests
  <2>2. [type |-> "commit", peer |-> m.peer] \in Message
    BY <2>1 DEF Commits, Message
  <2>3. net' \subseteq Message /\ faults' \in Nat
    BY <1>4, <2>2 DEF Sign, Handle, NoFault, Fault
  <2>4. exe' \in [Delegates -> ExecutorState] /\ recovered' \subseteq Delegates
    BY <1>4, <2>1 DEF Sign, ExecutorState
  <2> QED  BY <1>4, <2>3, <2>4 DEF Sign, delegatorVars
<1> QED  BY <1>1, <1>2, <1>3, <1>4 DEF NodeHandles

LEMMA EnvironmentTypeOK == TypeOK /\ Environment => TypeOK'
<1> SUFFICES ASSUME TypeOK, Environment  PROVE TypeOK'
  OBVIOUS
<1> USE DEF TypeOK
<1>1. CASE PortalEvent /\ UNCHANGED nodeVars
  BY <1>1 DEF PortalEvent, EventAnswers, Message, nodeVars, NoFault
<1>2. CASE \E m \in net : Lose(m) /\ UNCHANGED <<delegatorVars, nodeVars>>
  BY <1>2 DEF Lose, Fault, Handle, delegatorVars, nodeVars
<1>3. CASE \E p \in Delegates : Expire(p) /\ UNCHANGED delegatorVars
  BY <1>3 DEF Expire, Fault, delegatorVars
<1> QED  BY <1>1, <1>2, <1>3 DEF Environment

LEMMA NextTypeOK == TypeOK /\ [Next]_vars => TypeOK'
<1> SUFFICES ASSUME TypeOK, [Next]_vars  PROVE TypeOK'
  OBVIOUS
<1>1. CASE Next
  BY <1>1, DelegatorTypeOK, NodeTypeOK, EnvironmentTypeOK DEF Next, Deliver
<1>2. CASE UNCHANGED vars
  BY <1>2 DEF vars, delegatorVars, nodeVars, TypeOK
<1> QED  BY <1>1, <1>2

\* Every variable keeps its type: whatever is delivered, lost or fails, the item
\* and the messages are ones the handlers can load and read.
THEOREM TypeCorrect == Spec => []TypeOK
<1>1. Init => TypeOK
  BY InitTypeOK
<1> QED  BY <1>1, NextTypeOK, PTL DEF Spec
-----------------------------------------------------------------------------
(* Only attested executors, however often the event is delivered *)

\* What was named stays attested.
LEMMA NamesAttestedStays ==
  ASSUME NEW m, NamesAttested(m), attested \subseteq attested'
  PROVE  NamesAttested(m)'
  BY DEF NamesAttested

\* Handling a message keeps the messages well-named if those it sends are.
LEMMA HandleAttested ==
  ASSUME \A n \in net : NamesAttested(n), attested \subseteq attested',
         NEW m, NEW out, Handle(m, out), \A n \in out : NamesAttested(n)'
  PROVE  \A n \in net' : NamesAttested(n)'
<1> SUFFICES ASSUME NEW n \in net'  PROVE NamesAttested(n)'
  OBVIOUS
<1>1. n \in net \/ n \in out
  BY DEF Handle
<1> QED  BY <1>1, NamesAttestedStays

\* try_send_to_executor addresses and sends what the saved item names.
LEMMA SendToAttested ==
  ASSUME \A n \in net : NamesAttested(n), attested \subseteq attested',
         NEW m \in net, NEW it \in StoreItem, TrySendToExecutor(m, it),
         it.executor \in attested' \cup {NoExecutor}, \A s \in it.slices : s.key \in attested'
  PROVE  ItemNamesAttested' /\ \A n \in net' : NamesAttested(n)'
<1> DEFINE request == [type |-> "sign", peer |-> it.executor.peer, slices |-> it.slices]
<1>1. item'.executor = it.executor /\ item'.slices = it.slices
  BY DEF TrySendToExecutor, StoreItem
<1>2. PICK out \in {{}, {request}} :
        Handle(m, out) /\ (out # {} => it.executor # NoExecutor)
  BY DEF TrySendToExecutor
<1>3. \A n \in out : NamesAttested(n)'
  BY <1>2 DEF NamesAttested
<1>4. ItemNamesAttested'
  BY <1>1 DEF ItemNamesAttested
<1> QED  BY <1>2, <1>3, <1>4, HandleAttested

\* So do the requests for slices.
LEMMA GetForAttested ==
  ASSUME NEW it, it.executor \in attested', NEW holders
  PROVE  \A n \in GetSlices(it, holders) : NamesAttested(n)'
  BY DEF GetSlices, NamesAttested

LEMMA DelegatorAttested ==
  ASSUME TypeOK, AttestedInv, NEW m \in net, DelegatorHandles(m), UNCHANGED nodeVars
  PROVE  AttestedInv'
<1> USE DEF AttestedInv
<1>n. recovered' = recovered
  BY DEF nodeVars
<1>t. item \in StoreItem /\ m \in Message
  BY DEF TypeOK
<1>u. ASSUME attested' = attested, ItemNamesAttested',
             NEW out, Handle(m, out), \A n \in out : NamesAttested(n)'
      PROVE  AttestedInv'
  BY <1>n, <1>u, HandleAttested
<1>v. item'.executor = item.executor /\ item'.slices = item.slices /\ attested' = attested
        => ItemNamesAttested'
  BY DEF ItemNamesAttested
<1>1. CASE NodeReady(m)
  <2>1. PICK out \in {{}, {[type |-> "delegatorKey", ev |-> m.ev]}} : Handle(m, out)
    BY <1>1 DEF NodeReady
  <2>2. \A n \in out : NamesAttested(n)'
    BY DEF NamesAttested
  <2> QED  BY <1>1, <1>u, <1>v, <2>1, <2>2 DEF NodeReady, delegatorVars
<1>2. CASE BecomeDelegator(m)
  <2>1. PICK out \in {{}, {[type |-> "deploymentIds", ev |-> m.ev]}} : Handle(m, out)
    BY <1>2 DEF BecomeDelegator
  <2>2. \A n \in out : NamesAttested(n)'
    BY DEF NamesAttested
  <2> QED  BY <1>2, <1>u, <1>v, <2>1, <2>2 DEF BecomeDelegator, delegatorVars
<1>3. CASE BeginRound(m)
  <2>1. PICK ids \in SUBSET DeploymentIds :
          /\ item' = NewItem("Initialized", ids)
          /\ \/ Handle(m, {[type |-> "delegates", ev |-> m.ev, ids |-> ids]}) /\ NoFault
             \/ Handle(m, {}) /\ Fault("send")
    BY <1>3 DEF BeginRound
  <2>2. PICK out \in {{}, {[type |-> "delegates", ev |-> m.ev, ids |-> ids]}} : Handle(m, out)
    BY <2>1
  <2>3. \A n \in out : NamesAttested(n)'
    BY DEF NamesAttested
  <2>4. ItemNamesAttested'
    BY <2>1 DEF ItemNamesAttested, NewItem
  <2> QED  BY <1>3, <1>u, <2>2, <2>3, <2>4 DEF BeginRound
<1>4. CASE InviteAndFind(m)
  <2>1. PICK peers \in SUBSET Delegates, ids \in SUBSET m.ids :
          Handle(m, Lookups(m, peers) \cup FindPinners(m, ids))
    BY <1>4 DEF InviteAndFind
  <2>2. \A n \in Lookups(m, peers) \cup FindPinners(m, ids) : NamesAttested(n)'
    BY DEF Lookups, FindPinners, NamesAttested
  <2>3. item'.executor = item.executor /\ item'.slices = item.slices
    BY <1>4, <1>t DEF InviteAndFind, StoreItem
  <2> QED  BY <1>4, <1>u, <1>v, <2>1, <2>2, <2>3 DEF InviteAndFind
<1>5. CASE InviteExecutor(m)
  <2>1. m \in Invitations
    BY <1>5, <1>t, MessageFields DEF InviteExecutor
  <2>2. NamesAttested([m EXCEPT !.type = "candidate"])'
    BY <2>1 DEF NamesAttested, Invitations
  <2> QED  BY <1>5, <1>u, <1>v, <2>2 DEF InviteExecutor, delegatorVars
<1>6. CASE PinnersAttested(m)
  <2>1. PICK peers \in SUBSET Pinners :
          Handle(m, {[type |-> "found", ev |-> m.ev, id |-> m.id, peer |-> p] : p \in peers})
    BY <1>6 DEF PinnersAttested
  <2>2. \A n \in {[type |-> "found", ev |-> m.ev, id |-> m.id, peer |-> p] : p \in peers} :
          NamesAttested(n)'
    BY DEF NamesAttested
  <2> QED  BY <1>6, <1>u, <1>v, <2>1, <2>2 DEF PinnersAttested, delegatorVars
<1>7. CASE StartAttestation(m)
  <2>1. m \in Applications
    BY <1>7, <1>t, MessageFields DEF StartAttestation
  <2>2. \A n \in IF item.executor = NoExecutor THEN {[m EXCEPT !.type = "attest"]} ELSE {} :
          NamesAttested(n)'
    BY <2>1 DEF NamesAttested, Applications
  <2> QED  BY <1>7, <1>u, <1>v, <2>2 DEF StartAttestation, delegatorVars
<1>8. CASE ExecutorAttested(m)
  <2> DEFINE executor == [peer |-> m.peer, rsa |-> m.rsa]
             it == [item EXCEPT !.executor = executor, !.waiting = {}]
             holders == item.waiting
  <2>0. executor \in ExecutorInfo
    BY <1>t, <1>8, MessageFields DEF ExecutorAttested, Applications, ExecutorInfo
  <2>1. it \in StoreItem /\ it.executor = executor /\ it.slices = item.slices
    BY <1>t, <2>0 DEF StoreItem
  <2>2. attested' = attested \cup {executor}
    BY <1>8 DEF ExecutorAttested
  <2> HIDE DEF executor
  <2>3. it.executor \in attested' /\ \A s \in it.slices : s.key \in attested'
    BY <2>1, <2>2 DEF ItemNamesAttested
  <2>t. attested \subseteq attested'
    BY <2>2
  <2>4. recovered' \subseteq {k.peer : k \in attested'}
    BY <1>n, <2>2
  <2>5. CASE Handle(m, {}) /\ UNCHANGED item
    <3>1. ItemNamesAttested'
      BY <2>2, <2>5 DEF ItemNamesAttested
    <3> QED  BY <2>2, <2>4, <2>5, <3>1, HandleAttested
  <2>6. CASE TrySendToExecutor(m, it)
    <3> HIDE DEF it
    <3> QED  BY <2>1, <2>3, <2>4, <2>6, <2>t, SendToAttested
  <2>7. ASSUME item' = it, NEW sent, Handle(m, GetSlices(it, sent))
        PROVE  AttestedInv'
    <3>1. ItemNamesAttested'
      BY <2>1, <2>2, <2>3, <2>7 DEF ItemNamesAttested
    <3>2. \A n \in GetSlices(it, sent) : NamesAttested(n)'
      <4> HIDE DEF it
      <4> QED  BY <2>3, GetForAttested
    <3> QED  BY <2>2, <2>4, <2>7, <3>1, <3>2, HandleAttested
  <2> QED  BY <1>8, <2>5, <2>6, <2>7 DEF ExecutorAttested, executor
<1>9. CASE PinnerAttested(m)
  <2> DEFINE holder == [id |-> m.id, peer |-> m.peer]
  <2>1. item'.executor = item.executor /\ item'.slices = item.slices
    BY <1>9, <1>t DEF PinnerAttested, StoreItem
  <2>2. attested' = attested
    BY <1>9 DEF PinnerAttested
  <2>3. PICK out \in {{}, GetSlices(item, {holder})} :
          Handle(m, out) /\ (out # {} => item.executor # NoExecutor)
    BY <1>9 DEF PinnerAttested
  <2>4. item.executor # NoExecutor => item.executor \in attested'
    BY <2>2 DEF ItemNamesAttested
  <2>5. \A n \in out : NamesAttested(n)'
    BY <2>3, <2>4, GetForAttested
  <2> QED  BY <1>u, <1>v, <2>1, <2>2, <2>3, <2>5
<1>10. CASE SliceReturned(m)
  <2> DEFINE slice == [id |-> m.id, peer |-> m.peer, key |-> m.key]
             it == [item EXCEPT !.slices = @ \cup {slice}]
  <2>0. m.type = "slice" /\ m \in SliceMessages
    BY <1>10, <1>t, MessageFields DEF SliceReturned
  <2>1. slice \in KeySlice
    BY <2>0 DEF SliceMessages, KeySlice
  <2>2. /\ it \in StoreItem /\ it.executor = item.executor
        /\ it.slices = item.slices \cup {slice}
    BY <1>t, <2>1 DEF StoreItem
  <2>3. slice.key \in attested
    BY <2>0 DEF NamesAttested
  <2>4. attested' = attested
    BY <1>10 DEF SliceReturned
  <2> HIDE DEF slice
  <2>5. it.executor \in attested' \cup {NoExecutor} /\ \A s \in it.slices : s.key \in attested'
    BY <2>2, <2>3, <2>4 DEF ItemNamesAttested
  <2>6. CASE TrySendToExecutor(m, it)
    BY <1>n, <2>2, <2>4, <2>5, <2>6, SendToAttested
  <2>7. CASE item' \in {item, it} /\ Handle(m, {})
    <3>1. ItemNamesAttested'
      BY <2>4, <2>5, <2>7 DEF ItemNamesAttested
    <3> QED  BY <1>u, <2>4, <2>7, <3>1
  <2> QED  BY <1>10, <2>6, <2>7 DEF SliceReturned, slice
<1>11. CASE CommitResult(m)
  <2>1. item'.executor = item.executor /\ item'.slices = item.slices
    BY <1>11, <1>t DEF CommitResult, StoreItem
  <2> QED  BY <1>11, <1>u, <1>v, <2>1 DEF CommitResult
<1> QED  BY <1>1, <1>2, <1>3, <1>4, <1>5, <1>6, <1>7, <1>8, <1>9, <1>10, <1>11
         DEF DelegatorHandles

LEMMA NodeAttested ==
  ASSUME TypeOK, AttestedInv, NEW m \in net, NodeHandles(m), UNCHANGED delegatorVars
  PROVE  AttestedInv'
<1> USE DEF AttestedInv
<1>d. item' = item /\ attested' = attested
  BY DEF delegatorVars
<1>i. ItemNamesAttested'
  BY <1>d DEF ItemNamesAttested
<1>t. m \in Message
  BY DEF TypeOK
<1>1. CASE ApplyAsExecutor(m)
  <2>1. PICK out \in {{}, {[type |-> "apply", peer |-> m.peer, rsa |-> rsaKeys[m.peer] + 1]}} :
          Handle(m, out)
    BY <1>1 DEF ApplyAsExecutor
  <2>2. \A n \in out : NamesAttested(n)'
    BY DEF NamesAttested
  <2> QED  BY <1>1, <1>d, <1>i, <2>1, <2>2, HandleAttested DEF ApplyAsExecutor
<1>2. CASE LookUpDeployment(m)
  <2>1. m \in SliceMessages
    BY <1>2, <1>t, MessageFields DEF LookUpDeployment
  <2>2. NamesAttested([m EXCEPT !.type = "info"])'
    BY <1>2, <1>d, <2>1 DEF LookUpDeployment, NamesAttested, SliceMessages
  <2> QED  BY <1>2, <1>d, <1>i, <2>2, HandleAttested DEF LookUpDeployment, nodeVars
<1>3. CASE ReturnSlice(m)
  <2>1. m \in SliceMessages
    BY <1>3, <1>t, MessageFields DEF ReturnSlice
  <2>2. NamesAttested([m EXCEPT !.type = "slice"])'
    BY <1>3, <1>d, <2>1 DEF ReturnSlice, NamesAttested, SliceMessages
  <2> QED  BY <1>3, <1>d, <1>i, <2>2, HandleAttested DEF ReturnSlice, nodeVars
<1>4. CASE Sign(m)
  <2>1. PICK out \in {{}, {[type |-> "commit", peer |-> m.peer]}} : Handle(m, out)
    BY <1>4 DEF Sign
  <2>2. \A n \in out : NamesAttested(n)'
    BY DEF NamesAttested
  <2>3. m.peer \in {k.peer : k \in attested}
    BY <1>4 DEF Sign, NamesAttested
  <2>4. recovered' \subseteq {k.peer : k \in attested'}
    BY <1>4, <1>d, <2>3 DEF Sign
  <2> QED  BY <1>d, <1>i, <2>1, <2>2, <2>4, HandleAttested
<1> QED  BY <1>1, <1>2, <1>3, <1>4 DEF NodeHandles

LEMMA EnvironmentAttested ==
  ASSUME TypeOK, AttestedInv, Environment
  PROVE  AttestedInv'
<1> USE DEF AttestedInv
<1>1. item' = item /\ attested' = attested /\ recovered' = recovered
  BY DEF Environment, PortalEvent, Expire, delegatorVars, nodeVars
<1>2. ItemNamesAttested'
  BY <1>1 DEF ItemNamesAttested
<1>3. ASSUME NEW n \in net', n \notin net
      PROVE  n.type = "nodeReady"
  BY <1>3 DEF Environment, PortalEvent, Lose, Handle, Expire
<1>4. \A n \in net' : NamesAttested(n)'
  BY <1>1, <1>3 DEF NamesAttested
<1> QED  BY <1>1, <1>2, <1>4

\* Whatever is lost, fails, expires or is redelivered, a holder encrypts its
\* slice, and a slice is stored, sent or decrypted, only for an executor and a
\* key that were attested.
THEOREM SignsOnlyWhenAttested == Spec => []OnlyForAttested
<1>1. Init => AttestedInv
  BY DEF Init, DelegatorInit, NodeInit, NewItem, AttestedInv, ItemNamesAttested
<1>2. TypeOK /\ AttestedInv /\ [Next]_vars => AttestedInv'
  <2> SUFFICES ASSUME TypeOK, AttestedInv, [Next]_vars  PROVE AttestedInv'
    OBVIOUS
  <2>1. CASE Next
    BY <2>1, DelegatorAttested, NodeAttested, EnvironmentAttested DEF Next, Deliver
  <2>2. CASE UNCHANGED vars
    BY <2>2 DEF vars, delegatorVars, nodeVars, AttestedInv, ItemNamesAttested, NamesAttested
  <2> QED  BY <2>1, <2>2
<1>3. AttestedInv => OnlyForAttested
  BY DEF AttestedInv, ItemNamesAttested, NamesAttested, OnlyForAttested, SlicesUnderWay
<1> QED  BY <1>1, <1>2, <1>3, TypeCorrect, PTL DEF Spec
-----------------------------------------------------------------------------
(* The start of the round, when the event is delivered once *)

\* What the delegator handles when the delegates are known.
LaterHandles(m) ==
  \/ InviteExecutor(m)
  \/ PinnersAttested(m)
  \/ StartAttestation(m)
  \/ ExecutorAttested(m)
  \/ PinnerAttested(m)
  \/ SliceReturned(m)
  \/ CommitResult(m)

StartTypes == EventTypes \cup {"delegates"}

\* None of them starts the round again, or loads an item that is not there.
LEMMA LaterMessages ==
  ASSUME TypeOK, NEW m \in net, LaterHandles(m)
  PROVE  /\ m.type \notin StartTypes
         /\ \A n \in net' : n \in net \/ n.type \notin StartTypes
         /\ item'.state \in {item.state, "SentToExecutor", "CommitResult"}
         /\ item'.ids = item.ids
         /\ events' = events
<1> USE DEF StartTypes, EventTypes
<1>t. item \in StoreItem /\ m \in Message
  BY DEF TypeOK
<1>s. ASSUME NEW it, it \in StoreItem, it.state = item.state, it.ids = item.ids,
             TrySendToExecutor(m, it)
      PROVE  /\ \A n \in net' : n \in net \/ n.type = "sign"
             /\ item'.state \in {item.state, "SentToExecutor"}
             /\ item'.ids = item.ids
  BY <1>s DEF TrySendToExecutor, Handle, StoreItem
<1>1. CASE InviteExecutor(m)
  <2>1. m \in Invitations
    BY <1>1, <1>t, MessageFields DEF InviteExecutor
  <2>2. [m EXCEPT !.type = "candidate"].type = "candidate"
    BY <2>1 DEF Invitations
  <2> QED  BY <1>1, <2>2 DEF InviteExecutor, Handle, delegatorVars
<1>2. CASE PinnersAttested(m)
  BY <1>2 DEF PinnersAttested, Handle, delegatorVars
<1>3. CASE StartAttestation(m)
  <2>1. m \in Applications
    BY <1>3, <1>t, MessageFields DEF StartAttestation
  <2>2. [m EXCEPT !.type = "attest"].type = "attest"
    BY <2>1 DEF Applications
  <2> QED  BY <1>3, <2>2 DEF StartAttestation, Handle, delegatorVars
<1>4. CASE ExecutorAttested(m)
  <2> DEFINE it == [item EXCEPT !.executor = [peer |-> m.peer, rsa |-> m.rsa], !.waiting = {}]
  <2>1. /\ it.state = item.state /\ it.ids = item.ids /\ m.type = "attest"
        /\ events' = events
    BY <1>4, <1>t DEF StoreItem, ExecutorAttested
  <2>2. it \in StoreItem
    BY <1>4, <1>t, MessageFields DEF ExecutorAttested, Applications, ExecutorInfo, StoreItem
  <2>3. CASE Handle(m, {}) /\ UNCHANGED item
    BY <2>1, <2>3 DEF Handle
  <2>4. CASE TrySendToExecutor(m, it)
    BY <1>s, <2>1, <2>2, <2>4
  <2>5. ASSUME item' = it, NEW sent, Handle(m, GetSlices(it, sent))
        PROVE  /\ \A n \in net' : n \in net \/ n.type = "get"
               /\ item'.state = item.state /\ item'.ids = item.ids
    BY <2>1, <2>5 DEF Handle, GetSlices
  <2> QED  BY <1>4, <2>1, <2>3, <2>4, <2>5 DEF ExecutorAttested
<1>5. CASE PinnerAttested(m)
  <2>1. \A n \in net' : n \in net \/ n.type = "get"
    BY <1>5 DEF PinnerAttested, Handle, GetSlices
  <2>2. item'.state = item.state /\ item'.ids = item.ids
    BY <1>5, <1>t DEF PinnerAttested, StoreItem
  <2> QED  BY <1>5, <2>1, <2>2 DEF PinnerAttested
<1>6. CASE SliceReturned(m)
  <2> DEFINE slice == [id |-> m.id, peer |-> m.peer, key |-> m.key]
             it == [item EXCEPT !.slices = @ \cup {slice}]
  <2>1. it.state = item.state /\ it.ids = item.ids /\ m.type = "slice" /\ events' = events
    BY <1>6, <1>t DEF StoreItem, SliceReturned
  <2>2. it \in StoreItem
    BY <1>6, <1>t, MessageFields DEF SliceReturned, SliceMessages, KeySlice, StoreItem
  <2>3. CASE Handle(m, {}) /\ item' \in {item, it}
    BY <2>1, <2>3 DEF Handle
  <2>4. CASE TrySendToExecutor(m, it)
    BY <1>s, <2>1, <2>2, <2>4
  <2> QED  BY <1>6, <2>1, <2>3, <2>4 DEF SliceReturned
<1>7. CASE CommitResult(m)
  BY <1>7, <1>t DEF CommitResult, StoreItem, Handle
<1> QED  BY <1>1, <1>2, <1>3, <1>4, <1>5, <1>6, <1>7 DEF LaterHandles

LEMMA DelegatorOneStart ==
  ASSUME TypeOK, OneStart, NEW m \in net, DelegatorHandles(m)
  PROVE  OneStart'
<1> USE DEF OneStart
<1>1. CASE NodeReady(m)
  <2>1. net = {m} /\ item.state = "None" /\ events # 0
    BY <1>1 DEF NodeReady, EventTypes
  <2>2. net' \subseteq {[type |-> "delegatorKey", ev |-> m.ev]}
    BY <1>1, <2>1 DEF NodeReady, Handle
  <2> QED  BY <1>1, <2>1, <2>2 DEF NodeReady, delegatorVars, EventTypes
<1>2. CASE BecomeDelegator(m)
  <2>1. net = {m} /\ item.state = "None" /\ events # 0
    BY <1>2 DEF BecomeDelegator, EventTypes
  <2>2. net' \subseteq {[type |-> "deploymentIds", ev |-> m.ev]}
    BY <1>2, <2>1 DEF BecomeDelegator, Handle
  <2> QED  BY <1>2, <2>1, <2>2 DEF BecomeDelegator, delegatorVars, EventTypes
<1>3. CASE BeginRound(m)
  <2>1. PICK ids \in SUBSET DeploymentIds :
          /\ item' = NewItem("Initialized", ids)
          /\ \/ Handle(m, {[type |-> "delegates", ev |-> m.ev, ids |-> ids]}) /\ NoFault
             \/ Handle(m, {}) /\ Fault("send")
    BY <1>3 DEF BeginRound
  <2>2. net = {m} /\ events # 0
    BY <1>3 DEF BeginRound, EventTypes
  <2>3. net' \subseteq {[type |-> "delegates", ev |-> m.ev, ids |-> ids]}
    BY <2>1, <2>2 DEF Handle
  <2> QED  BY <1>3, <2>1, <2>2, <2>3 DEF BeginRound, NewItem, EventTypes
<1>4. CASE InviteAndFind(m)
  <2>1. net = {m} /\ item.state = "Initialized" /\ events # 0
    BY <1>4 DEF InviteAndFind
  <2>2. \A n \in net' : n.type \in {"profile", "find"}
    BY <1>4, <2>1 DEF InviteAndFind, Handle, Lookups, FindPinners
  <2>3. item'.state \in {"Initialized", "FindingDeployments"} /\ events' = events
    BY <1>4, <2>1 DEF InviteAndFind, TypeOK, StoreItem
  <2> QED  BY <2>1, <2>2, <2>3 DEF EventTypes
<1>5. CASE LaterHandles(m)
  <2>1. item.state # "None" /\ events # 0 /\ \A n \in net : n.type \notin StartTypes
    BY <1>5, LaterMessages DEF StartTypes
  <2>2. item'.state # "None" /\ events' # 0 /\ \A n \in net' : n.type \notin StartTypes
    BY <1>5, <2>1, LaterMessages
  <2> QED  BY <2>2 DEF StartTypes
<1> QED  BY <1>1, <1>2, <1>3, <1>4, <1>5 DEF DelegatorHandles, LaterHandles

LEMMA NodeOneStart ==
  ASSUME TypeOK, OneStart, NEW m \in net, NodeHandles(m), UNCHANGED delegatorVars
  PROVE  OneStart'
<1>t. m \in Message
  BY DEF TypeOK
<1>1. m.type \in {"candidate", "get", "info", "sign"}
  BY DEF NodeHandles, ApplyAsExecutor, LookUpDeployment, ReturnSlice, Sign
<1>2. m.type \in {"get", "info"} =>
        [m EXCEPT !.type = "info"].type = "info" /\ [m EXCEPT !.type = "slice"].type = "slice"
  BY <1>t, MessageFields DEF SliceMessages
<1>3. \A n \in net' : n \in net \/ n.type \in {"apply", "info", "slice", "commit"}
  <2>1. ApplyAsExecutor(m) => \A n \in net' : n \in net \/ n.type = "apply"
    BY DEF ApplyAsExecutor, Handle
  <2>2. LookUpDeployment(m) => \A n \in net' : n \in net \/ n.type = "info"
    BY <1>2 DEF LookUpDeployment, Handle
  <2>3. ReturnSlice(m) => \A n \in net' : n \in net \/ n.type = "slice"
    BY <1>2 DEF ReturnSlice, Handle
  <2>4. Sign(m) => \A n \in net' : n \in net \/ n.type = "commit"
    BY DEF Sign, Handle
  <2> QED  BY <2>1, <2>2, <2>3, <2>4 DEF NodeHandles
<1>4. item.state # "None" /\ events # 0 /\ \A n \in net : n.type \notin StartTypes
  BY <1>1 DEF OneStart, StartTypes, EventTypes
<1> QED  BY <1>3, <1>4 DEF OneStart, StartTypes, EventTypes, delegatorVars

LEMMA EnvironmentOneStart ==
  ASSUME MaxEvents = 1, TypeOK, OneStart, Environment
  PROVE  OneStart'
<1> USE DEF OneStart
<1>1. CASE PortalEvent /\ UNCHANGED nodeVars
  <2>1. events = 0
    BY <1>1 DEF PortalEvent, TypeOK
  <2>2. net' = {[type |-> "nodeReady", ev |-> events + 1]} /\ events' = 1
    BY <1>1, <2>1 DEF PortalEvent
  <2> QED  BY <1>1, <2>1, <2>2 DEF PortalEvent, EventTypes
<1>2. CASE \E m \in net : Lose(m) /\ UNCHANGED <<delegatorVars, nodeVars>>
  BY <1>2 DEF Lose, Handle, delegatorVars
<1>3. CASE \E p \in Delegates : Expire(p) /\ UNCHANGED delegatorVars
  BY <1>3 DEF Expire, delegatorVars
<1> QED  BY <1>1, <1>2, <1>3 DEF Environment
-----------------------------------------------------------------------------
(* One executor, when the event is delivered once *)

\* A message of OnlyForExecutor, read on its own.
ForExecutor(m) ==
  /\ m.type \in {"get", "info", "slice"} => m.key = item.executor
  /\ m.type = "sign" => /\ m.peer = item.executor.peer
                        /\ m.slices \subseteq item.slices /\ EnoughSlices(m)
  /\ m.type = "commit" => m.peer \in recovered

\* Without an executor nothing was asked for, collected or recovered.
LEMMA NothingYet ==
  ASSUME TypeOK, OnlyForExecutor, item.executor = NoExecutor
  PROVE  /\ item.slices = {} /\ recovered = {} /\ item.state # "CommitResult"
         /\ \A m \in net : m.type \notin {"get", "info", "slice", "sign", "commit"}
<1>1. NoExecutor \notin ExecutorInfo /\ NoPeer \notin Delegates
  BY SignNetAssumption DEF NoExecutor, ExecutorInfo
<1>2. item.slices = {}
  BY <1>1 DEF OnlyForExecutor, TypeOK, StoreItem, KeySlice
<1>3. recovered = {}
  BY <1>1 DEF OnlyForExecutor, TypeOK, NoExecutor
<1>4. ASSUME NEW m \in net  PROVE m.type \notin {"get", "info", "slice", "sign", "commit"}
  <2>1. m \in Message
    BY DEF TypeOK
  <2>2. m.type \in {"get", "info", "slice"} => m.key \in ExecutorInfo
    BY <2>1, MessageFields DEF SliceMessages
  <2>3. m.type = "sign" => m.peer \in Delegates
    BY <2>1, MessageFields DEF SignRequests
  <2> QED  BY <1>1, <1>3, <2>2, <2>3 DEF OnlyForExecutor, NoExecutor
<1> QED  BY <1>2, <1>3, <1>4 DEF OnlyForExecutor

\* Whoever is asked for or sends a slice does so for an executor that is there.
LEMMA ExecutorIsThere ==
  ASSUME TypeOK, OnlyForExecutor, NEW m \in net,
         m.type \in {"get", "info", "slice", "sign", "commit"}
  PROVE  item.executor \in ExecutorInfo
  BY NothingYet DEF TypeOK, StoreItem

\* ready_send_to_executor of an item without slices.
LEMMA NotEnough == ASSUME NEW it, it.slices = {} PROVE ~EnoughSlices(it)
<1>1. {s.id : s \in it.slices} = {}
  OBVIOUS
<1> QED  BY <1>1, FS_EmptySet DEF EnoughSlices, K

LEMMA DelegatorOnlyForExecutor ==
  ASSUME TypeOK, OneStart, OnlyForExecutor,
         NEW m \in net, DelegatorHandles(m), UNCHANGED nodeVars
  PROVE  OnlyForExecutor'
<1>n. recovered' = recovered
  BY DEF nodeVars
<1>t. item \in StoreItem /\ m \in Message
  BY DEF TypeOK
<1>f. \A n \in net : ForExecutor(n)
  BY DEF OnlyForExecutor, ForExecutor
<1>u. ASSUME item'.executor = item.executor, item.slices \subseteq item'.slices,
             \A s \in item'.slices : s.key = item'.executor,
             item'.state = "CommitResult" => recovered # {},
             NEW out, Handle(m, out), \A n \in out : ForExecutor(n)'
      PROVE  OnlyForExecutor'
  <2>1. ASSUME NEW n \in net'  PROVE ForExecutor(n)'
    <3>1. CASE n \in out
      BY <1>u, <3>1
    <3>2. CASE n \in net
      BY <1>f, <1>n, <1>u, <3>2 DEF ForExecutor, EnoughSlices
    <3> QED  BY <1>u, <3>1, <3>2 DEF Handle
  <2> QED  BY <1>n, <1>u, <2>1 DEF OnlyForExecutor, ForExecutor
<1>v. ASSUME item'.executor = item.executor, item'.slices = item.slices,
             item'.state = "CommitResult" => recovered # {}, 
             NEW out, Handle(m, out),
             \A n \in out : n.type \notin {"get", "info", "slice", "sign", "commit"}
      PROVE  OnlyForExecutor'
  <2>1. \A n \in out : ForExecutor(n)'
    BY <1>v DEF ForExecutor
  <2>2. \A s \in item'.slices : s.key = item'.executor
    BY <1>v DEF OnlyForExecutor
  <2> QED  BY <1>u, <1>v, <2>1, <2>2
<1>w. item.state = "CommitResult" => recovered # {}
  BY DEF OnlyForExecutor
<1>1. CASE NodeReady(m)
  <2>1. PICK out \in {{}, {[type |-> "delegatorKey", ev |-> m.ev]}} : Handle(m, out)
    BY <1>1 DEF NodeReady
  <2> QED  BY <1>1, <1>v, <1>w, <2>1 DEF NodeReady, delegatorVars
<1>2. CASE BecomeDelegator(m)
  <2>1. PICK out \in {{}, {[type |-> "deploymentIds", ev |-> m.ev]}} : Handle(m, out)
    BY <1>2 DEF BecomeDelegator
  <2> QED  BY <1>2, <1>v, <1>w, <2>1 DEF BecomeDelegator, delegatorVars
<1>3. CASE BeginRound(m)
  <2>1. PICK ids \in SUBSET DeploymentIds :
          /\ item' = NewItem("Initialized", ids)
          /\ \/ Handle(m, {[type |-> "delegates", ev |-> m.ev, ids |-> ids]}) /\ NoFault
             \/ Handle(m, {}) /\ Fault("send")
    BY <1>3 DEF BeginRound
  <2>2. item = NewItem("None", {})
    BY <1>3 DEF BeginRound, OneStart, EventTypes
  <2>3. item'.executor = item.executor /\ item'.slices = item.slices /\ item'.state = "Initialized"
    BY <2>1, <2>2 DEF NewItem
  <2>4. PICK out \in {{}, {[type |-> "delegates", ev |-> m.ev, ids |-> ids]}} : Handle(m, out)
    BY <2>1
  <2> QED  BY <1>v, <2>3, <2>4
<1>4. CASE InviteAndFind(m)
  <2>1. PICK peers \in SUBSET Delegates, ids \in SUBSET m.ids :
          Handle(m, Lookups(m, peers) \cup FindPinners(m, ids))
    BY <1>4 DEF InviteAndFind
  <2>2. \A n \in Lookups(m, peers) \cup FindPinners(m, ids) : n.type \in {"profile", "find"}
    BY DEF Lookups, FindPinners
  <2>3. /\ item'.executor = item.executor /\ item'.slices = item.slices
        /\ item'.state \in {item.state, "FindingDeployments"}
    BY <1>4, <1>t DEF InviteAndFind, StoreItem
  <2> QED  BY <1>v, <1>w, <2>1, <2>2, <2>3
<1>5. CASE InviteExecutor(m)
  <2>1. [m EXCEPT !.type = "candidate"].type = "candidate"
    BY <1>5, <1>t, MessageFields DEF InviteExecutor, Invitations
  <2>2. item' = item
    BY <1>5 DEF InviteExecutor, delegatorVars
  <2>3. PICK out \in {{[m EXCEPT !.type = "candidate"]}} : Handle(m, out)
    BY <1>5 DEF InviteExecutor
  <2>4. \A n \in out : n.type \notin {"get", "info", "slice", "sign", "commit"}
    BY <2>1
  <2> QED  BY <1>v, <1>w, <2>2, <2>3, <2>4
<1>6. CASE PinnersAttested(m)
  <2>1. PICK peers \in SUBSET Pinners :
          Handle(m, {[type |-> "found", ev |-> m.ev, id |-> m.id, peer |-> p] : p \in peers})
    BY <1>6 DEF PinnersAttested
  <2> QED  BY <1>6, <1>v, <1>w, <2>1 DEF PinnersAttested, delegatorVars
<1>7. CASE StartAttestation(m)
  <2>1. [m EXCEPT !.type = "attest"].type = "attest"
    BY <1>7, <1>t, MessageFields DEF StartAttestation, Applications
  <2>2. PICK out \in {{}, {[m EXCEPT !.type = "attest"]}} : Handle(m, out)
    BY <1>7 DEF StartAttestation
  <2> QED  BY <1>7, <1>v, <1>w, <2>1, <2>2 DEF StartAttestation, delegatorVars
<1>8. CASE ExecutorAttested(m)
  <2> DEFINE executor == [peer |-> m.peer, rsa |-> m.rsa]
             it == [item EXCEPT !.executor = executor, !.waiting = {}]
             holders == item.waiting
  <2>1. CASE item.executor # NoExecutor
    BY <1>8, <1>v, <1>w, <2>1 DEF ExecutorAttested
  <2>2. CASE item.executor = NoExecutor
    <3>1. /\ item.slices = {} /\ recovered = {} /\ item.state # "CommitResult"
          /\ \A n \in net : n.type \notin {"get", "info", "slice", "sign", "commit"}
      BY <2>2, NothingYet
    <3>2. it.slices = {} /\ it.executor = executor /\ it.state = item.state
      BY <1>t, <3>1 DEF StoreItem
    <3>3. ~EnoughSlices(it)
      BY <3>2, NotEnough
    <3>4. item' = it
      BY <1>8, <2>2, <3>3 DEF ExecutorAttested
    <3>5. PICK sent : Handle(m, GetSlices(it, sent))
      BY <1>8, <2>2, <3>3 DEF ExecutorAttested
    <3>6. \A n \in GetSlices(it, sent) : n.type = "get" /\ n.key = it.executor
      BY DEF GetSlices
    <3> HIDE DEF it
    <3>7. \A n \in net' : ForExecutor(n)'
      BY <3>1, <3>4, <3>5, <3>6 DEF ForExecutor, Handle
    <3> QED  BY <1>n, <3>1, <3>2, <3>4, <3>7 DEF OnlyForExecutor, ForExecutor
  <2> QED  BY <2>1, <2>2
<1>9. CASE PinnerAttested(m)
  <2> DEFINE holder == [id |-> m.id, peer |-> m.peer]
  <2>1. item'.executor = item.executor /\ item'.slices = item.slices /\ item'.state = item.state
    BY <1>9, <1>t DEF PinnerAttested, StoreItem
  <2>2. PICK out \in {{}, GetSlices(item, {holder})} : Handle(m, out)
    BY <1>9 DEF PinnerAttested
  <2>3. \A n \in out : ForExecutor(n)'
    BY <2>1, <2>2 DEF GetSlices, ForExecutor
  <2>4. \A s \in item'.slices : s.key = item'.executor
    BY <2>1 DEF OnlyForExecutor
  <2> QED  BY <1>u, <1>w, <2>1, <2>2, <2>3, <2>4
<1>10. CASE SliceReturned(m)
  <2> DEFINE slice == [id |-> m.id, peer |-> m.peer, key |-> m.key]
             it == [item EXCEPT !.slices = @ \cup {slice}]
             request == [type |-> "sign", peer |-> it.executor.peer, slices |-> it.slices]
  <2>1. it.executor = item.executor /\ it.slices = item.slices \cup {slice} /\ it.state = item.state
    BY <1>t DEF StoreItem
  <2>2. slice.key = item.executor
    BY <1>10 DEF SliceReturned, OnlyForExecutor
  <2>3. \A s \in it.slices : s.key = it.executor
    BY <2>1, <2>2 DEF OnlyForExecutor
  <2> HIDE DEF slice
  <2>4. CASE item' \in {item, it} /\ Handle(m, {})
    <3>1. \A s \in item'.slices : s.key = item'.executor
      BY <2>3, <2>4 DEF OnlyForExecutor
    <3>2. /\ item'.executor = item.executor /\ item.slices \subseteq item'.slices
          /\ item'.state = item.state
      BY <2>1, <2>4
    <3> QED  BY <1>u, <1>w, <2>4, <3>1, <3>2
  <2>5. CASE /\ item' = [it EXCEPT !.state = "SentToExecutor"]
             /\ Handle(m, {request}) /\ EnoughSlices(it)
    <3>1. /\ item'.executor = it.executor /\ item'.slices = it.slices
          /\ item'.state = "SentToExecutor"
      BY <1>t, <2>5 DEF StoreItem
    <3>2. ForExecutor(request)'
      BY <2>5, <3>1 DEF ForExecutor, EnoughSlices
    <3> QED  BY <1>u, <2>1, <2>3, <2>5, <3>1, <3>2
  <2> QED  BY <1>10, <2>4, <2>5 DEF SliceReturned, TrySendToExecutor, slice
<1>11. CASE CommitResult(m)
  <2>1. item'.executor = item.executor /\ item'.slices = item.slices
    BY <1>11, <1>t DEF CommitResult, StoreItem
  <2>2. recovered # {}
    BY <1>11 DEF CommitResult, OnlyForExecutor
  <2> QED  BY <1>11, <1>v, <2>1, <2>2 DEF CommitResult
<1> QED  BY <1>1, <1>2, <1>3, <1>4, <1>5, <1>6, <1>7, <1>8, <1>9, <1>10, <1>11
         DEF DelegatorHandles

LEMMA NodeOnlyForExecutor ==
  ASSUME TypeOK, OnlyForExecutor, NEW m \in net, NodeHandles(m), UNCHANGED delegatorVars
  PROVE  OnlyForExecutor'
<1>d. item' = item
  BY DEF delegatorVars
<1>t. m \in Message
  BY DEF TypeOK
<1>f. \A n \in net : ForExecutor(n)
  BY DEF OnlyForExecutor, ForExecutor
<1>u. ASSUME recovered \subseteq recovered', recovered' \subseteq {item.executor.peer},
             NEW out, Handle(m, out), \A n \in out : ForExecutor(n)'
      PROVE  OnlyForExecutor'
  <2>1. \A n \in net' : ForExecutor(n)'
    BY <1>d, <1>f, <1>u DEF ForExecutor, Handle, EnoughSlices
  <2>2. item'.state = "CommitResult" => recovered' # {}
    BY <1>d, <1>u DEF OnlyForExecutor
  <2> QED  BY <1>d, <1>u, <2>1, <2>2 DEF OnlyForExecutor, ForExecutor
<1>v. recovered' = recovered => recovered' \subseteq {item.executor.peer}
  BY DEF OnlyForExecutor
<1>1. CASE ApplyAsExecutor(m)
  <2>1. PICK out \in {{}, {[type |-> "apply", peer |-> m.peer, rsa |-> rsaKeys[m.peer] + 1]}} :
          Handle(m, out)
    BY <1>1 DEF ApplyAsExecutor
  <2>2. \A n \in out : ForExecutor(n)'
    BY DEF ForExecutor
  <2> QED  BY <1>1, <1>u, <1>v, <2>1, <2>2 DEF ApplyAsExecutor
<1>2. CASE LookUpDeployment(m)
  <2>1. m \in SliceMessages /\ m.key = item.executor
    BY <1>2, <1>t, <1>f, MessageFields DEF LookUpDeployment, ForExecutor
  <2>2. ForExecutor([m EXCEPT !.type = "info"])'
    BY <1>d, <2>1 DEF ForExecutor, SliceMessages
  <2> QED  BY <1>2, <1>u, <1>v, <2>2 DEF LookUpDeployment, nodeVars
<1>3. CASE ReturnSlice(m)
  <2>1. m \in SliceMessages /\ m.key = item.executor
    BY <1>3, <1>t, <1>f, MessageFields DEF ReturnSlice, ForExecutor
  <2>2. ForExecutor([m EXCEPT !.type = "slice"])'
    BY <1>d, <2>1 DEF ForExecutor, SliceMessages
  <2> QED  BY <1>3, <1>u, <1>v, <2>2 DEF ReturnSlice, nodeVars
<1>4. CASE Sign(m)
  <2>1. m.peer = item.executor.peer
    BY <1>4 DEF Sign, OnlyForExecutor
  <2>2. PICK out \in {{}, {[type |-> "commit", peer |-> m.peer]}} :
          Handle(m, out) /\ (out # {} => m.peer \in recovered')
    BY <1>4 DEF Sign
  <2>3. \A n \in out : ForExecutor(n)'
    BY <2>2 DEF ForExecutor
  <2>4. recovered \subseteq recovered' /\ recovered' \subseteq {item.executor.peer}
    BY <1>4, <2>1 DEF Sign, OnlyForExecutor
  <2> QED  BY <1>u, <2>2, <2>3, <2>4
<1> QED  BY <1>1, <1>2, <1>3, <1>4 DEF NodeHandles

LEMMA EnvironmentOnlyForExecutor ==
  ASSUME TypeOK, OnlyForExecutor, Environment
  PROVE  OnlyForExecutor'
<1>1. item' = item /\ recovered' = recovered
  BY DEF Environment, PortalEvent, Expire, delegatorVars, nodeVars
<1>2. ASSUME NEW n \in net', n \notin net
      PROVE  n.type = "nodeReady"
  BY <1>2 DEF Environment, PortalEvent, Lose, Handle, Expire
<1> QED  BY <1>1, <1>2 DEF OnlyForExecutor, EnoughSlices
-----------------------------------------------------------------------------
(* One RSA key per delegate, when the event is delivered once *)

InvitationTypes == {"apply", "attest", "profile", "candidate"}

\* Steps that neither invite nor apply nor choose an executor.
LEMMA OtherMessages ==
  ASSUME OneInvitation,
         rsaKeys' = rsaKeys, \A p \in Delegates : rsaKey'[p] \in {0, rsaKey[p]},
         item'.executor \in {item.executor, NoExecutor},
         \A n \in net' : n \in net \/ n.type \notin InvitationTypes,
         item'.state = "None" \/ (\E n \in net' : n.type = "delegates") =>
           item.state = "None" \/ (\E n \in net : n.type = "delegates")
  PROVE  OneInvitation'
<1>1. item'.state = "None" \/ (\E n \in net' : n.type = "delegates") =>
        \A p \in Delegates : rsaKeys[p] = 0
  BY DEF OneInvitation
<1>2. item'.executor # NoExecutor => item'.executor.rsa = rsaKeys'[item'.executor.peer]
  BY DEF OneInvitation
<1>3. \A p \in Delegates : rsaKey'[p] \in {0, rsaKeys[p]}
  BY DEF OneInvitation
<1>4. \A n \in net' : n.type \in InvitationTypes => n \in net
  OBVIOUS
<1>5. \A n \in net' : n.type \in {"apply", "attest"} => n.rsa = rsaKeys[n.peer]
  BY <1>4 DEF OneInvitation, InvitationTypes
<1>6. \A n \in net' : n.type \in {"profile", "candidate"} =>
        /\ rsaKeys[n.peer] = 0
        /\ \A o \in net' : o.type \in {"profile", "candidate"} /\ o.peer = n.peer => o = n
  BY <1>4 DEF OneInvitation, InvitationTypes
<1> QED  BY <1>1, <1>2, <1>3, <1>5, <1>6 DEF OneInvitation

LEMMA DelegatorOneInvitation ==
  ASSUME TypeOK, OneStart, OnlyForExecutor, OneInvitation,
         NEW m \in net, DelegatorHandles(m), UNCHANGED nodeVars
  PROVE  OneInvitation'
<1>k. rsaKeys' = rsaKeys /\ rsaKey' = rsaKey /\ \A p \in Delegates : rsaKey'[p] \in {0, rsaKey[p]}
  BY DEF nodeVars
<1>t. item \in StoreItem /\ m \in Message
  BY DEF TypeOK
<1>l. LaterHandles(m) => /\ item'.state # "None"
                         /\ \A n \in net' : n.type # "delegates"
  <2> SUFFICES ASSUME LaterHandles(m)
               PROVE  item'.state # "None" /\ \A n \in net' : n.type # "delegates"
    OBVIOUS
  <2>1. item.state # "None" /\ \A n \in net : n.type # "delegates"
    BY LaterMessages DEF OneStart, StartTypes, EventTypes
  <2> QED  BY <2>1, LaterMessages DEF StartTypes
<1>1. CASE NodeReady(m)
  <2>1. \A n \in net' : n \in net \/ n.type = "delegatorKey"
    BY <1>1 DEF NodeReady, Handle
  <2>2. item' = item
    BY <1>1 DEF NodeReady, delegatorVars
  <2> QED  BY <1>k, <2>1, <2>2, OtherMessages DEF InvitationTypes
<1>2. CASE BecomeDelegator(m)
  <2>1. \A n \in net' : n \in net \/ n.type = "deploymentIds"
    BY <1>2 DEF BecomeDelegator, Handle
  <2>2. item' = item
    BY <1>2 DEF BecomeDelegator, delegatorVars
  <2> QED  BY <1>k, <2>1, <2>2, OtherMessages DEF InvitationTypes
<1>3. CASE BeginRound(m)
  <2>1. \A n \in net' : n \in net \/ n.type = "delegates"
    BY <1>3 DEF BeginRound, Handle
  <2>2. item.state = "None" /\ item'.executor = NoExecutor
    BY <1>3 DEF BeginRound, OneStart, EventTypes, NewItem
  <2> QED  BY <1>k, <2>1, <2>2, OtherMessages DEF InvitationTypes
<1>4. CASE InviteAndFind(m)
  <2>1. net = {m} /\ m.type = "delegates" /\ item.state = "Initialized" /\ m \in DelegateLists
    BY <1>4, <1>t, MessageFields DEF InviteAndFind, OneStart
  <2>2. PICK peers \in SUBSET Delegates, ids \in SUBSET m.ids :
          net' = Lookups(m, peers) \cup FindPinners(m, ids)
    BY <1>4, <2>1 DEF InviteAndFind, Handle
  <2>3. \A n \in net' :
          \/ n.type = "profile" /\ n.peer \in Delegates /\ n = [type |-> "profile", ev |-> m.ev, peer |-> n.peer]
          \/ n.type = "find"
    BY <2>2 DEF Lookups, FindPinners
  <2>4. item'.executor = item.executor /\ item'.state # "None"
    BY <1>4, <1>t, <2>1 DEF InviteAndFind, StoreItem
  <2>5. \A p \in Delegates : rsaKeys[p] = 0
    BY <2>1 DEF OneInvitation
  <2>6. \A n \in net' : n.type \in {"profile", "candidate"} =>
          /\ rsaKeys[n.peer] = 0
          /\ \A o \in net' : o.type \in {"profile", "candidate"} /\ o.peer = n.peer => o = n
    BY <2>3, <2>5
  <2>7. \A n \in net' : n.type \notin {"apply", "attest", "delegates"}
    BY <2>3
  <2> QED  BY <1>k, <2>4, <2>6, <2>7 DEF OneInvitation
<1>5. CASE InviteExecutor(m)
  <2> DEFINE c == [m EXCEPT !.type = "candidate"]
  <2>1. m.type = "profile" /\ item' = item /\ net' = (net \ {m}) \cup {c}
    BY <1>5 DEF InviteExecutor, delegatorVars, Handle
  <2>2. m \in Invitations
    BY <1>t, <2>1, MessageFields
  <2>3. c.type = "candidate" /\ c.peer = m.peer
    BY <2>2 DEF Invitations
  <2> HIDE DEF c
  <2>4. \A n \in net' : n.type \in {"apply", "attest"} => n.rsa = rsaKeys[n.peer]
    BY <2>1, <2>3 DEF OneInvitation
  <2>5. \A n \in net' : n.type \in {"profile", "candidate"} =>
          /\ rsaKeys[n.peer] = 0
          /\ \A o \in net' : o.type \in {"profile", "candidate"} /\ o.peer = n.peer => o = n
    BY <2>1, <2>3 DEF OneInvitation
  <2>6. item'.state # "None" /\ \A n \in net' : n.type # "delegates"
    BY <1>5, <1>l DEF LaterHandles
  <2> QED  BY <1>k, <2>1, <2>4, <2>5, <2>6 DEF OneInvitation
<1>6. CASE PinnersAttested(m)
  <2>1. \A n \in net' : n \in net \/ n.type = "found"
    BY <1>6 DEF PinnersAttested, Handle
  <2>2. item' = item
    BY <1>6 DEF PinnersAttested, delegatorVars
  <2> QED  BY <1>6, <1>k, <1>l, <2>1, <2>2, OtherMessages DEF InvitationTypes, LaterHandles
<1>7. CASE StartAttestation(m)
  <2> DEFINE c == [m EXCEPT !.type = "attest"]
  <2>1. m.type = "apply" /\ item' = item /\ net' \subseteq net \cup {c}
    BY <1>7 DEF StartAttestation, delegatorVars, Handle
  <2>2. m \in Applications
    BY <1>t, <2>1, MessageFields
  <2>3. c.type = "attest" /\ c.peer = m.peer /\ c.rsa = m.rsa
    BY <2>2 DEF Applications
  <2> HIDE DEF c
  <2>4. \A n \in net' : n.type \in {"apply", "attest"} => n.rsa = rsaKeys[n.peer]
    BY <2>1, <2>3 DEF OneInvitation
  <2>5. \A n \in net' : n.type \in {"profile", "candidate"} =>
          /\ rsaKeys[n.peer] = 0
          /\ \A o \in net' : o.type \in {"profile", "candidate"} /\ o.peer = n.peer => o = n
    BY <2>1, <2>3 DEF OneInvitation
  <2>6. item'.state # "None" /\ \A n \in net' : n.type # "delegates"
    BY <1>7, <1>l DEF LaterHandles
  <2> QED  BY <1>k, <2>1, <2>4, <2>5, <2>6 DEF OneInvitation
<1>8. CASE ExecutorAttested(m)
  <2> DEFINE executor == [peer |-> m.peer, rsa |-> m.rsa]
             it == [item EXCEPT !.executor = executor, !.waiting = {}]
  <2>1. executor.rsa = rsaKeys[executor.peer] /\ it.executor = executor
    BY <1>8, <1>t DEF ExecutorAttested, OneInvitation, StoreItem
  <2>2. \A n \in net' : n \in net \/ n.type \in {"get", "sign"}
    BY <1>8 DEF ExecutorAttested, TrySendToExecutor, GetSlices, Handle
  <2>3. item'.executor \in {item.executor, executor}
    <3>1. \A i : TrySendToExecutor(m, i) /\ i \in StoreItem => item'.executor = i.executor
      BY DEF TrySendToExecutor, StoreItem
    <3>2. it \in StoreItem
      BY <1>8, <1>t, MessageFields DEF ExecutorAttested, Applications, ExecutorInfo, StoreItem
    <3>3. item' \in {item, it} \/ TrySendToExecutor(m, it)
      BY <1>8 DEF ExecutorAttested
    <3> QED  BY <2>1, <3>1, <3>2, <3>3
  <2>4. item'.state # "None" /\ \A n \in net' : n.type # "delegates"
    BY <1>8, <1>l DEF LaterHandles
  <2>5. \A n \in net' : n.type \in InvitationTypes => n \in net
    BY <2>2 DEF InvitationTypes
  <2> QED  BY <1>k, <2>1, <2>3, <2>4, <2>5 DEF OneInvitation, InvitationTypes
<1>9. CASE PinnerAttested(m)
  <2>1. \A n \in net' : n \in net \/ n.type = "get"
    BY <1>9 DEF PinnerAttested, Handle, GetSlices
  <2>2. item'.executor = item.executor
    BY <1>9, <1>t DEF PinnerAttested, StoreItem
  <2> QED  BY <1>9, <1>k, <1>l, <2>1, <2>2, OtherMessages DEF InvitationTypes, LaterHandles
<1>10. CASE SliceReturned(m)
  <2>1. \A n \in net' : n \in net \/ n.type = "sign"
    BY <1>10 DEF SliceReturned, TrySendToExecutor, Handle
  <2>2. item'.executor = item.executor
    BY <1>10, <1>t DEF SliceReturned, TrySendToExecutor, StoreItem
  <2> QED  BY <1>10, <1>k, <1>l, <2>1, <2>2, OtherMessages DEF InvitationTypes, LaterHandles
<1>11. CASE CommitResult(m)
  <2>1. net' \subseteq net /\ item'.executor = item.executor
    BY <1>11, <1>t DEF CommitResult, StoreItem, Handle
  <2> QED  BY <1>11, <1>k, <1>l, <2>1, OtherMessages DEF LaterHandles
<1> QED  BY <1>1, <1>2, <1>3, <1>4, <1>5, <1>6, <1>7, <1>8, <1>9, <1>10, <1>11
         DEF DelegatorHandles

LEMMA NodeOneInvitation ==
  ASSUME TypeOK, OneStart, OneInvitation,
         NEW m \in net, NodeHandles(m), UNCHANGED delegatorVars
  PROVE  OneInvitation'
<1>d. item' = item
  BY DEF delegatorVars
<1>t. m \in Message
  BY DEF TypeOK
<1>1. CASE ApplyAsExecutor(m)
  <2> DEFINE a == [type |-> "apply", peer |-> m.peer, rsa |-> rsaKeys[m.peer] + 1]
  <2>1. m.type = "candidate" /\ m.peer \in Delegates
    BY <1>1, <1>t, MessageFields DEF ApplyAsExecutor, Invitations
  <2>2. /\ rsaKeys' = [rsaKeys EXCEPT ![m.peer] = rsaKeys[m.peer] + 1]
        /\ rsaKey' = [rsaKey EXCEPT ![m.peer] = rsaKeys[m.peer] + 1]
        /\ net' \subseteq (net \ {m}) \cup {a}
    BY <1>1 DEF ApplyAsExecutor, Handle
  <2>3. rsaKeys[m.peer] = 0 /\ \A n \in net \ {m} :
          n.type \in {"profile", "candidate"} => n.peer # m.peer
    BY <2>1 DEF OneInvitation
  <2>4. \A p \in Delegates : rsaKey'[p] \in {0, rsaKeys'[p]}
    BY <2>1, <2>2 DEF TypeOK, OneInvitation
  <2>5. item.executor # NoExecutor => item.executor.rsa = rsaKeys'[item.executor.peer]
    <3>1. item.executor # NoExecutor => item.executor.rsa # 0
      BY DEF TypeOK, StoreItem, ExecutorInfo
    <3>2. item.executor # NoExecutor => item.executor.peer # m.peer
      BY <2>3, <3>1 DEF OneInvitation
    <3>3. item.executor # NoExecutor => item.executor.peer \in Delegates
      BY DEF TypeOK, StoreItem, ExecutorInfo
    <3> QED  BY <2>2, <3>2, <3>3 DEF TypeOK, OneInvitation
  <2>6. ASSUME NEW n \in net', n.type \in {"apply", "attest"}
        PROVE  n.rsa = rsaKeys'[n.peer]
    <3>1. CASE n = a
      BY <2>1, <2>2, <3>1 DEF TypeOK
    <3>2. CASE n \in net \ {m}
      <4>1. n \in Applications /\ n.rsa = rsaKeys[n.peer]
        BY <2>6, <3>2, MessageFields DEF TypeOK, OneInvitation
      <4>2. n.peer # m.peer /\ n.peer \in Delegates
        BY <2>3, <4>1 DEF Applications
      <4> QED  BY <2>2, <4>1, <4>2 DEF TypeOK
    <3> QED  BY <2>2, <3>1, <3>2
  <2>7. ASSUME NEW n \in net', n.type \in {"profile", "candidate"}
        PROVE  /\ rsaKeys'[n.peer] = 0
               /\ \A o \in net' : o.type \in {"profile", "candidate"} /\ o.peer = n.peer => o = n
    <3>1. \A o \in net' : o.type \in {"profile", "candidate"} => o \in net \ {m}
      BY <2>2
    <3>2. n \in net \ {m} /\ n \in Invitations
      BY <2>7, <3>1, MessageFields DEF TypeOK
    <3>3. n.peer # m.peer /\ n.peer \in Delegates
      BY <2>3, <2>7, <3>2 DEF Invitations
    <3>4. rsaKeys'[n.peer] = 0
      BY <2>2, <2>7, <3>2, <3>3 DEF TypeOK, OneInvitation
    <3> QED  BY <2>7, <3>1, <3>2, <3>4 DEF OneInvitation
  <2>8. item.state # "None" /\ \A n \in net' : n.type # "delegates"
    BY <2>1, <2>2 DEF OneStart, EventTypes
  <2> QED  BY <1>d, <2>4, <2>5, <2>6, <2>7, <2>8 DEF OneInvitation
<1>2. ASSUME LookUpDeployment(m) \/ ReturnSlice(m) \/ Sign(m)
      PROVE  OneInvitation'
  <2>1. rsaKeys' = rsaKeys /\ rsaKey' = rsaKey
    BY <1>2 DEF LookUpDeployment, ReturnSlice, Sign, nodeVars
  <2>2. m.type \in {"get", "info"} =>
          [m EXCEPT !.type = "info"].type = "info" /\ [m EXCEPT !.type = "slice"].type = "slice"
    BY <1>t, MessageFields DEF SliceMessages
  <2>3. LookUpDeployment(m) \/ ReturnSlice(m) =>
          \A n \in net' : n \in net \/ n.type \in {"info", "slice"}
    BY <2>2 DEF LookUpDeployment, ReturnSlice, Handle
  <2>4. Sign(m) => \A n \in net' : n \in net \/ n.type = "commit"
    BY DEF Sign, Handle
  <2>5. \A n \in net' : n \in net \/ n.type \in {"info", "slice", "commit"}
    BY <1>2, <2>3, <2>4
  <2> QED  BY <1>d, <2>1, <2>5, OtherMessages DEF InvitationTypes
<1> QED  BY <1>1, <1>2 DEF NodeHandles

LEMMA EnvironmentOneInvitation ==
  ASSUME TypeOK, OneInvitation, Environment
  PROVE  OneInvitation'
<1>1. item' = item /\ rsaKeys' = rsaKeys
  BY DEF Environment, PortalEvent, Expire, delegatorVars, nodeVars
<1>2. ASSUME NEW n \in net', n \notin net
      PROVE  n.type = "nodeReady"
  BY <1>2 DEF Environment, PortalEvent, Lose, Handle, Expire
<1>3. \A p \in Delegates : rsaKey'[p] \in {0, rsaKey[p]}
  BY DEF Environment, PortalEvent, Expire, delegatorVars, nodeVars, TypeOK
<1> QED  BY <1>1, <1>2, <1>3, OtherMessages DEF InvitationTypes
-----------------------------------------------------------------------------
(* No holder is forgotten, when the event is delivered once *)

\* Where a holder that was found may be.
Kept(h) == h \in item.waiting \cup asked \/ HasSlice(item, h.id)

\* Steps that add no candidate and drop none.
LEMMA KeptStays ==
  ASSUME HoldersKept, item'.ids = item.ids,
         item'.executor = item.executor, item'.waiting = item.waiting,
         item.slices \subseteq item'.slices, found' = found, asked \subseteq asked',
         faults' = 0 => faults = 0,
         \A n \in net' : n \in net \/ n.type \notin {"find", "found"}
  PROVE  HoldersKept'
<1>1. \A h \in found : Kept(h) => Kept(h)'
  BY DEF Kept, HasSlice
<1>2. faults' = 0 => \A h \in found' : Kept(h)'
  BY <1>1 DEF HoldersKept, Kept
<1> QED  BY <1>2 DEF HoldersKept, Kept

LEMMA DelegatorHoldersKept ==
  ASSUME TypeOK, OneStart, OnlyForExecutor, HoldersKept, NEW m \in net, DelegatorHandles(m)
  PROVE  HoldersKept'
<1>t. item \in StoreItem /\ m \in Message /\ faults \in Nat
  BY DEF TypeOK
<1>k. NoFault \/ Fault("send") => (faults' = 0 => faults = 0)
  BY <1>t DEF NoFault, Fault
<1>s. Fault("send") => faults' # 0
  BY <1>t DEF Fault
<1>1. ASSUME NodeReady(m) \/ BecomeDelegator(m) \/ InviteExecutor(m) \/ StartAttestation(m)
      PROVE  HoldersKept'
  <2>1. UNCHANGED delegatorVars /\ NoFault
    BY <1>1 DEF NodeReady, BecomeDelegator, InviteExecutor, StartAttestation
  <2>2. m.type \in {"profile", "apply"} =>
          [m EXCEPT !.type = "candidate"].type = "candidate" /\ [m EXCEPT !.type = "attest"].type = "attest"
    BY <1>t, MessageFields DEF Invitations, Applications
  <2>3. \A n \in net' : n \in net \/ n.type \in {"delegatorKey", "deploymentIds", "candidate", "attest"}
    <3>1. NodeReady(m) => \A n \in net' : n \in net \/ n.type = "delegatorKey"
      BY DEF NodeReady, Handle
    <3>2. BecomeDelegator(m) => \A n \in net' : n \in net \/ n.type = "deploymentIds"
      BY DEF BecomeDelegator, Handle
    <3>3. InviteExecutor(m) => \A n \in net' : n \in net \/ n.type = "candidate"
      BY <2>2 DEF InviteExecutor, Handle
    <3>4. StartAttestation(m) => \A n \in net' : n \in net \/ n.type = "attest"
      BY <2>2 DEF StartAttestation, Handle
    <3> QED  BY <1>1, <3>1, <3>2, <3>3, <3>4
  <2> QED  BY <2>1, <2>3, KeptStays DEF delegatorVars, NoFault
<1>2. CASE BeginRound(m)
  <2>1. net = {m}
    BY <1>2 DEF BeginRound, OneStart, EventTypes
  <2>2. \A n \in net' : n.type = "delegates"
    BY <1>2, <2>1 DEF BeginRound, Handle
  <2>3. item'.executor = NoExecutor /\ found' = {}
    BY <1>2 DEF BeginRound, NewItem
  <2> QED  BY <2>2, <2>3 DEF HoldersKept
<1>3. CASE InviteAndFind(m)
  <2>1. /\ item'.ids = item.ids /\ item'.executor = item.executor
        /\ item'.waiting = item.waiting /\ item'.slices = item.slices
    BY <1>3, <1>t DEF InviteAndFind, StoreItem
  <2>2. PICK peers \in SUBSET Delegates, ids \in SUBSET m.ids :
          Handle(m, Lookups(m, peers) \cup FindPinners(m, ids))
    BY <1>3 DEF InviteAndFind
  <2>3. m.ids = item.ids
    BY <1>3 DEF InviteAndFind, OneStart
  <2>4. \A n \in net' : n.type \in {"find", "found"} => n \in net \/ n.id \in item.ids
    BY <2>2, <2>3 DEF Handle, Lookups, FindPinners
  <2>5. \A n \in net' : n.type \in {"find", "found"} => n.id \in item'.ids
    BY <2>1, <2>4 DEF HoldersKept
  <2>6. found' = found /\ asked' = asked /\ (faults' = 0 => faults = 0)
    BY <1>3, <1>k DEF InviteAndFind
  <2>7. faults' = 0 => \A h \in found' : h \in item'.waiting \cup asked' \/ HasSlice(item, h.id)'
    BY <2>1, <2>6 DEF HoldersKept, HasSlice
  <2> QED  BY <2>1, <2>5, <2>7 DEF HoldersKept
<1>4. CASE PinnersAttested(m)
  <2>1. item' = item /\ found' = found /\ asked' = asked /\ faults' = faults
    BY <1>4 DEF PinnersAttested, delegatorVars, NoFault
  <2>2. \A n \in net' : n.type \in {"find", "found"} => n \in net \/ n.id = m.id
    BY <1>4 DEF PinnersAttested, Handle
  <2>3. \A n \in net' : n.type \in {"find", "found"} => n.id \in item.ids
    BY <1>4, <2>2 DEF PinnersAttested, HoldersKept
  <2> QED  BY <2>1, <2>3 DEF HoldersKept, HasSlice
<1>5. CASE ExecutorAttested(m)
  <2> DEFINE executor == [peer |-> m.peer, rsa |-> m.rsa]
             it == [item EXCEPT !.executor = executor, !.waiting = {}]
             holders == item.waiting
  <2>0. found' = found
    BY <1>5 DEF ExecutorAttested
  <2>1. CASE item.executor # NoExecutor
    <3>1. Handle(m, {}) /\ UNCHANGED <<item, asked>> /\ NoFault
      BY <1>5, <2>1 DEF ExecutorAttested
    <3> QED  BY <2>0, <3>1, KeptStays DEF Handle, NoFault
  <2>2. CASE item.executor = NoExecutor
    <3>1. item.slices = {}
      BY <2>2, NothingYet
    <3>2. /\ it.slices = {} /\ it.waiting = {} /\ it.ids = item.ids
      BY <1>t, <3>1 DEF StoreItem
    <3>3. ~EnoughSlices(it)
      BY <3>2, NotEnough
    <3>4. item' = it
      BY <1>5, <2>2, <3>3 DEF ExecutorAttested
    <3>5. \/ asked' = asked \cup holders /\ NoFault
          \/ Fault("send")
      BY <1>5, <2>2, <3>3 DEF ExecutorAttested
    <3>6. \A n \in net' : n \in net \/ n.type = "get"
      BY <1>5, <2>2, <3>3 DEF ExecutorAttested, GetSlices, Handle
    <3>7. faults' = 0 => asked' = asked \cup holders /\ faults = 0
      BY <1>k, <1>s, <3>5
    <3>8. \A n \in net' : n.type \in {"find", "found"} => n.id \in item'.ids
      BY <3>2, <3>4, <3>6 DEF HoldersKept
    <3>9. faults' = 0 => \A h \in found : h \in asked'
      BY <3>1, <3>7 DEF HoldersKept, HasSlice
    <3> HIDE DEF it
    <3> QED  BY <2>0, <3>2, <3>4, <3>8, <3>9 DEF HoldersKept
  <2> QED  BY <2>1, <2>2
<1>6. CASE PinnerAttested(m)
  <2> DEFINE holder == [id |-> m.id, peer |-> m.peer]
  <2>1. /\ item'.ids = item.ids /\ item'.executor = item.executor /\ item'.slices = item.slices
        /\ item.waiting \subseteq item'.waiting /\ asked \subseteq asked'
        /\ item.executor # NoExecutor => item'.waiting = item.waiting
    BY <1>6, <1>t DEF PinnerAttested, StoreItem
  <2>2. found' = found \cup {holder} /\ faults' = faults
    BY <1>6 DEF PinnerAttested, NoFault
  <2>3. m.id \in item.ids
    BY <1>6 DEF PinnerAttested, HoldersKept
  <2>4. Kept(holder)'
    <3>1. CASE HasSlice(item, m.id)
      BY <2>1, <3>1 DEF Kept, HasSlice
    <3>2. CASE ~HasSlice(item, m.id) /\ item.executor = NoExecutor
      <4>1. item' = [item EXCEPT !.waiting = @ \cup {holder}]
        BY <1>6, <2>3, <3>2 DEF PinnerAttested
      <4>2. holder \in item'.waiting
        BY <1>t, <4>1 DEF StoreItem
      <4> QED  BY <4>2 DEF Kept
    <3>3. CASE ~HasSlice(item, m.id) /\ item.executor # NoExecutor
      <4>1. holder \in asked'
        BY <1>6, <3>3 DEF PinnerAttested
      <4> QED  BY <4>1 DEF Kept
    <3> QED  BY <3>1, <3>2, <3>3
  <2>5. \A h \in found : Kept(h) => Kept(h)'
    BY <2>1 DEF Kept, HasSlice
  <2>6. \A n \in net' : n \in net \/ n.type = "get"
    BY <1>6 DEF PinnerAttested, Handle, GetSlices
  <2>7. \A n \in net' : n.type \in {"find", "found"} => n.id \in item'.ids
    BY <2>1, <2>6 DEF HoldersKept
  <2>8. faults' = 0 => \A h \in found' : Kept(h)'
    BY <2>2, <2>4, <2>5 DEF HoldersKept, Kept
  <2>9. item'.executor # NoExecutor => item'.waiting = {}
    BY <2>1 DEF HoldersKept
  <2> QED  BY <2>7, <2>8, <2>9 DEF HoldersKept, Kept
<1>7. CASE SliceReturned(m)
  <2>1. \A n \in net' : n \in net \/ n.type = "sign"
    BY <1>7 DEF SliceReturned, TrySendToExecutor, Handle
  <2>2. /\ item'.ids = item.ids /\ item'.executor = item.executor
        /\ item'.waiting = item.waiting /\ item.slices \subseteq item'.slices
    BY <1>7, <1>t DEF SliceReturned, TrySendToExecutor, StoreItem
  <2>3. found' = found /\ asked' = asked /\ (faults' = 0 => faults = 0)
    BY <1>7, <1>k DEF SliceReturned, TrySendToExecutor
  <2> QED  BY <2>1, <2>2, <2>3, KeptStays
<1>8. CASE CommitResult(m)
  <2>1. /\ item'.ids = item.ids /\ item'.executor = item.executor
        /\ item'.waiting = item.waiting /\ item'.slices = item.slices
    BY <1>8, <1>t DEF CommitResult, StoreItem
  <2> QED  BY <1>8, <2>1, KeptStays DEF CommitResult, Handle, NoFault
<1> QED  BY <1>1, <1>2, <1>3, <1>4, <1>5, <1>6, <1>7, <1>8 DEF DelegatorHandles

LEMMA NodeHoldersKept ==
  ASSUME TypeOK, HoldersKept, NEW m \in net, NodeHandles(m), UNCHANGED delegatorVars
  PROVE  HoldersKept'
<1>t. m \in Message /\ faults \in Nat
  BY DEF TypeOK
<1>1. m.type \in {"get", "info"} =>
        [m EXCEPT !.type = "info"].type = "info" /\ [m EXCEPT !.type = "slice"].type = "slice"
  BY <1>t, MessageFields DEF SliceMessages
<1>2. ApplyAsExecutor(m) => \A n \in net' : n \in net \/ n.type = "apply"
  BY DEF ApplyAsExecutor, Handle
<1>3. LookUpDeployment(m) \/ ReturnSlice(m) =>
        \A n \in net' : n \in net \/ n.type \in {"info", "slice"}
  BY <1>1 DEF LookUpDeployment, ReturnSlice, Handle
<1>4. Sign(m) => \A n \in net' : n \in net \/ n.type = "commit"
  BY DEF Sign, Handle
<1>5. \A n \in net' : n \in net \/ n.type \notin {"find", "found"}
  BY <1>2, <1>3, <1>4 DEF NodeHandles
<1>6. NoFault \/ Fault("send")
  BY DEF NodeHandles, ApplyAsExecutor, LookUpDeployment, ReturnSlice, Sign
<1>7. faults' = 0 => faults = 0
  BY <1>t, <1>6 DEF NoFault, Fault
<1> QED  BY <1>5, <1>7, KeptStays DEF delegatorVars

LEMMA EnvironmentHoldersKept ==
  ASSUME TypeOK, HoldersKept, Environment
  PROVE  HoldersKept'
<1>1. item' = item /\ found' = found /\ asked' = asked
  BY DEF Environment, PortalEvent, Expire, delegatorVars
<1>2. ASSUME NEW n \in net', n \notin net
      PROVE  n.type = "nodeReady"
  BY <1>2 DEF Environment, PortalEvent, Lose, Handle, Expire
<1>3. NoFault \/ Fault("loss") \/ Fault("expire")
  BY DEF Environment, PortalEvent, Lose, Expire
<1>4. faults' = 0 => faults = 0
  BY <1>3 DEF TypeOK, NoFault, Fault
<1> QED  BY <1>1, <1>2, <1>4, KeptStays
-----------------------------------------------------------------------------
(* The theorems for a single delivery *)

SingleDeliveryInv ==
  TypeOK /\ OneStart /\ OnlyForExecutor /\ OneInvitation /\ HoldersKept

LEMMA SingleDelivery == MaxEvents = 1 => (Spec => []SingleDeliveryInv)
<1> SUFFICES ASSUME MaxEvents = 1  PROVE Spec => []SingleDeliveryInv
  OBVIOUS
<1> USE DEF SingleDeliveryInv
<1>1. Init => SingleDeliveryInv
  <2> SUFFICES ASSUME Init  PROVE SingleDeliveryInv
    OBVIOUS
  <2> USE DEF Init, DelegatorInit, NodeInit, NewItem, NoExecutor
  <2>1. OneStart
    BY DEF OneStart
  <2>2. OnlyForExecutor
    BY DEF OnlyForExecutor
  <2>3. OneInvitation
    BY DEF OneInvitation
  <2>4. HoldersKept
    BY DEF HoldersKept
  <2> QED  BY <2>1, <2>2, <2>3, <2>4, InitTypeOK
<1>2. SingleDeliveryInv /\ [Next]_vars => SingleDeliveryInv'
  <2> SUFFICES ASSUME SingleDeliveryInv, [Next]_vars  PROVE SingleDeliveryInv'
    OBVIOUS
  <2>1. TypeOK'
    BY NextTypeOK
  <2>2. CASE UNCHANGED vars
    <3> USE <2>2 DEF vars, delegatorVars, nodeVars
    <3>1. OneStart' /\ HoldersKept'
      BY DEF OneStart, HoldersKept, HasSlice
    <3>2. OnlyForExecutor' /\ OneInvitation'
      BY DEF OnlyForExecutor, OneInvitation, EnoughSlices
    <3> QED  BY <2>1, <3>1, <3>2
  <2>3. ASSUME NEW m \in net, DelegatorHandles(m), UNCHANGED nodeVars
        PROVE  SingleDeliveryInv'
    BY <2>1, <2>3, DelegatorOneStart, DelegatorOnlyForExecutor, DelegatorOneInvitation,
       DelegatorHoldersKept
  <2>4. ASSUME NEW m \in net, NodeHandles(m), UNCHANGED delegatorVars
        PROVE  SingleDeliveryInv'
    BY <2>1, <2>4, NodeOneStart, NodeOnlyForExecutor, NodeOneInvitation, NodeHoldersKept
  <2>5. CASE Environment
    BY <2>1, <2>5, EnvironmentOneStart, EnvironmentOnlyForExecutor, EnvironmentOneInvitation,
       EnvironmentHoldersKept
  <2> QED  BY <2>2, <2>3, <2>4, <2>5 DEF Next, Deliver
<1> QED  BY <1>1, <1>2, PTL DEF Spec

\* However many delegates are under attestation at once, the one that is taken
\* is the only node that ever recovers the private key.
THEOREM OnlyTheExecutorRecovers == MaxEvents = 1 => (Spec => []OneNodeRecovers)
<1> SUFFICES ASSUME MaxEvents = 1  PROVE Spec => []OneNodeRecovers
  OBVIOUS
<1>1. SingleDeliveryInv => OneNodeRecovers
  <2> SUFFICES ASSUME SingleDeliveryInv  PROVE OneNodeRecovers
    OBVIOUS
  <2>1. TypeOK /\ OnlyForExecutor /\ OneInvitation
    BY DEF SingleDeliveryInv
  <2>2. ASSUME NEW m \in net, m.type = "sign", rsaKey[m.peer] # 0
        PROVE  CanDecrypt(m)
    <3>1. item.executor \in ExecutorInfo /\ item.executor # NoExecutor
      BY <2>1, <2>2, ExecutorIsThere, SignNetAssumption DEF ExecutorInfo, NoExecutor
    <3>2. m.peer = item.executor.peer /\ m.slices \subseteq item.slices
      BY <2>1, <2>2 DEF OnlyForExecutor
    <3>3. rsaKey[m.peer] = item.executor.rsa
      BY <2>1, <2>2, <3>1, <3>2 DEF OneInvitation, ExecutorInfo
    <3>4. item.executor = [peer |-> m.peer, rsa |-> rsaKey[m.peer]]
      BY <3>1, <3>2, <3>3 DEF ExecutorInfo
    <3> QED  BY <2>1, <3>2, <3>4 DEF OnlyForExecutor, CanDecrypt
  <2> QED  BY <2>1, <2>2 DEF OnlyForExecutor, OneNodeRecovers
<1> QED  BY <1>1, SingleDelivery, PTL

\* A candidate deferred while there is no executor is still known when there is
\* one: as long as no call failed every holder was asked or is not needed.
THEOREM EveryHolderIsAsked == MaxEvents = 1 => (Spec => []NoHolderForgotten)
<1> SUFFICES ASSUME MaxEvents = 1  PROVE Spec => []NoHolderForgotten
  OBVIOUS
<1>1. SingleDeliveryInv => NoHolderForgotten
  BY DEF SingleDeliveryInv, HoldersKept, NoHolderForgotten
<1> QED  BY <1>1, SingleDelivery, PTL
-----------------------------------------------------------------------------
(* The refinement of SignPromise, when the event is delivered once *)

Collected == {s.id : s \in item.slices}

\* A step that changes nothing the promise is about.
LEMMA Stutters ==
  ASSUME item'.executor = item.executor, item'.slices = item.slices,
         (item'.state = "CommitResult") <=> (item.state = "CommitResult"), recovered' = recovered
  PROVE  UNCHANGED Promise!promiseVars
  BY DEF Promise!promiseVars

LEMMA DelegatorSimulates ==
  ASSUME TypeOK, OneStart, OnlyForExecutor, NEW m \in net, DelegatorHandles(m), UNCHANGED nodeVars
  PROVE  [Promise!Next]_(Promise!promiseVars)
<1>n. recovered' = recovered
  BY DEF nodeVars
<1>t. item \in StoreItem /\ m \in Message
  BY DEF TypeOK
<1>1. ASSUME \/ NodeReady(m) \/ BecomeDelegator(m) \/ InviteExecutor(m)
             \/ PinnersAttested(m) \/ StartAttestation(m)
      PROVE  UNCHANGED Promise!promiseVars
  <2>1. item' = item
    BY <1>1 DEF NodeReady, BecomeDelegator, InviteExecutor, PinnersAttested, StartAttestation,
                delegatorVars
  <2> QED  BY <1>n, <2>1, Stutters
<1>2. CASE BeginRound(m)
  <2>1. item = NewItem("None", {})
    BY <1>2 DEF BeginRound, OneStart, EventTypes
  <2>2. PICK ids : item' = NewItem("Initialized", ids)
    BY <1>2 DEF BeginRound
  <2>3. item'.executor = item.executor /\ item'.slices = item.slices
    BY <2>1, <2>2 DEF NewItem
  <2>4. item'.state = "Initialized" /\ item.state = "None"
    BY <2>1, <2>2 DEF NewItem
  <2> QED  BY <1>n, <2>3, <2>4, Stutters
<1>3. CASE InviteAndFind(m)
  <2>1. /\ item'.executor = item.executor /\ item'.slices = item.slices
        /\ item'.state \in {item.state, "FindingDeployments"}
    BY <1>3, <1>t DEF InviteAndFind, StoreItem
  <2>2. item.state = "Initialized"
    BY <1>3 DEF InviteAndFind, OneStart
  <2> QED  BY <1>n, <2>1, <2>2, Stutters
<1>4. CASE ExecutorAttested(m)
  <2> DEFINE executor == [peer |-> m.peer, rsa |-> m.rsa]
             it == [item EXCEPT !.executor = executor, !.waiting = {}]
  <2>1. CASE item.executor # NoExecutor
    <3>1. item' = item
      BY <1>4, <2>1 DEF ExecutorAttested
    <3> QED  BY <1>n, <3>1, Stutters
  <2>2. CASE item.executor = NoExecutor
    <3>1. item.slices = {}
      BY <2>2, NothingYet
    <3>2. it.slices = {} /\ it.executor = executor /\ it.state = item.state
      BY <1>t, <3>1 DEF StoreItem
    <3>3. item' = it
      BY <1>4, <2>2, <3>2, NotEnough DEF ExecutorAttested
    <3>4. m.peer \in Delegates
      BY <1>4, <1>t, MessageFields DEF ExecutorAttested, Applications
    <3>5. item.executor.peer = NoPeer /\ item'.executor.peer = m.peer
      BY <2>2, <3>2, <3>3 DEF NoExecutor
    <3>6. item'.slices = item.slices /\ item'.state = item.state
      BY <3>1, <3>2, <3>3
    <3>7. Promise!Choose(m.peer)
      BY <1>n, <3>5, <3>6 DEF Promise!Choose
    <3> QED  BY <3>4, <3>7 DEF Promise!Next
  <2> QED  BY <2>1, <2>2
<1>5. CASE PinnerAttested(m)
  <2>1. /\ item'.executor = item.executor /\ item'.slices = item.slices
        /\ item'.state = item.state
    BY <1>5, <1>t DEF PinnerAttested, StoreItem
  <2> QED  BY <1>n, <2>1, Stutters
<1>6. CASE SliceReturned(m)
  <2> DEFINE slice == [id |-> m.id, peer |-> m.peer, key |-> m.key]
             it == [item EXCEPT !.slices = @ \cup {slice}]
             wanted == m.id \in item.ids /\ ~HasSlice(item, m.id)
  <2>0. m.type = "slice" /\ m.id \in DeploymentIds
    BY <1>6, <1>t, MessageFields DEF SliceReturned, SliceMessages
  <2>1. CASE item' = item
    BY <1>n, <2>1, Stutters
  <2>2. CASE item' # item
    <3>1. ~HasSlice(item, m.id) /\ item' \in {it, [it EXCEPT !.state = "SentToExecutor"]}
      BY <1>6, <2>2 DEF SliceReturned, TrySendToExecutor
    <3>2. /\ item'.executor = item.executor /\ item'.slices = item.slices \cup {slice}
          /\ item'.state \in {item.state, "SentToExecutor"}
      BY <1>t, <3>1 DEF StoreItem
    <3>3. Collected' = Collected \cup {m.id}
      <4>1. slice.id = m.id
        OBVIOUS
      <4> HIDE DEF slice
      <4> QED  BY <3>2, <4>1 DEF Collected
    <3>4. m.id \notin Collected
      BY <3>1 DEF HasSlice, Collected
    <3>5. item.executor.peer # NoPeer
      BY <2>0, ExecutorIsThere, SignNetAssumption DEF ExecutorInfo
    <3>6. Promise!Collect(m.id)
      BY <1>n, <3>2, <3>3, <3>4, <3>5 DEF Promise!Collect, Collected
    <3> QED  BY <2>0, <3>6 DEF Promise!Next
  <2> QED  BY <2>1, <2>2
<1>7. CASE CommitResult(m)
  <2>1. /\ item'.executor = item.executor /\ item'.slices = item.slices
        /\ item'.state = "CommitResult"
    BY <1>7, <1>t DEF CommitResult, StoreItem
  <2>2. recovered = {item.executor.peer}
    BY <1>7 DEF CommitResult, OnlyForExecutor
  <2>3. item.executor.peer # NoPeer
    BY <2>2, SignNetAssumption DEF TypeOK
  <2>4. Promise!Commit
    BY <1>n, <2>1, <2>2, <2>3 DEF Promise!Commit
  <2> QED  BY <2>4 DEF Promise!Next
<1> QED  BY <1>1, <1>2, <1>3, <1>4, <1>5, <1>6, <1>7 DEF DelegatorHandles

LEMMA NodeSimulates ==
  ASSUME TypeOK, OnlyForExecutor, NEW m \in net, NodeHandles(m), UNCHANGED delegatorVars
  PROVE  [Promise!Next]_(Promise!promiseVars)
<1>d. item' = item
  BY DEF delegatorVars
<1>1. CASE recovered' = recovered
  BY <1>d, <1>1, Stutters
<1>2. CASE recovered' # recovered
  <2>1. Sign(m) /\ recovered' = recovered \cup {m.peer} /\ m.type = "sign"
    BY <1>2 DEF NodeHandles, ApplyAsExecutor, LookUpDeployment, ReturnSlice, Sign, nodeVars
  <2>2. /\ m.peer = item.executor.peer /\ m.slices \subseteq item.slices /\ EnoughSlices(m)
        /\ recovered \subseteq {item.executor.peer}
    BY <2>1 DEF OnlyForExecutor
  <2>3. item.executor.peer # NoPeer
    BY <2>1, ExecutorIsThere, SignNetAssumption DEF ExecutorInfo
  <2>4. Collected \subseteq DeploymentIds
    BY DEF Collected, TypeOK, StoreItem, KeySlice
  <2>5. IsFiniteSet(Collected)
    BY <2>4, SignNetAssumption, FS_Subset
  <2>6. {s.id : s \in m.slices} \subseteq Collected
    BY <2>2 DEF Collected
  <2>7. /\ IsFiniteSet({s.id : s \in m.slices})
        /\ Cardinality({s.id : s \in m.slices}) <= Cardinality(Collected)
    BY <2>5, <2>6, FS_Subset
  <2>8. /\ Cardinality({s.id : s \in m.slices}) \in Nat
        /\ Cardinality(Collected) \in Nat
    BY <2>5, <2>7, FS_CardinalityType
  <2>9. Cardinality(Collected) >= K
    BY <2>2, <2>7, <2>8 DEF EnoughSlices, K
  <2>10. recovered' = {item.executor.peer}
    BY <2>1, <2>2
  <2>11. Promise!Recover
    BY <1>d, <2>3, <2>4, <2>9, <2>10 DEF Promise!Recover, Collected
  <2> QED  BY <2>11 DEF Promise!Next
<1> QED  BY <1>1, <1>2

\* Signing implements SignPromise: for every number of delegates, holders and
\* deployments, and whatever is lost, fails or expires, one executor is chosen for
\* good, it alone recovers the key, not before K slices are there, and a result
\* is committed only afterwards.
THEOREM SigningKeepsPromise == MaxEvents = 1 => (Spec => KeepsPromise)
<1> SUFFICES ASSUME MaxEvents = 1  PROVE Spec => KeepsPromise
  OBVIOUS
<1>1. Init => Promise!Init
  BY DEF Init, DelegatorInit, NodeInit, NewItem, NoExecutor, Promise!Init
<1>2. SingleDeliveryInv /\ [Next]_vars => [Promise!Next]_(Promise!promiseVars)
  <2> SUFFICES ASSUME SingleDeliveryInv, [Next]_vars
               PROVE  [Promise!Next]_(Promise!promiseVars)
    OBVIOUS
  <2>1. TypeOK /\ OneStart /\ OnlyForExecutor
    BY DEF SingleDeliveryInv
  <2>2. CASE Deliver
    BY <2>1, <2>2, DelegatorSimulates, NodeSimulates DEF Deliver
  <2>3. CASE Environment \/ UNCHANGED vars
    <3>1. item' = item /\ recovered' = recovered
      BY <2>3 DEF Environment, PortalEvent, Expire, vars, delegatorVars, nodeVars
    <3> QED  BY <3>1, Stutters
  <2> QED  BY <2>2, <2>3 DEF Next
<1> QED  BY <1>1, <1>2, SingleDelivery, PTL DEF Spec, KeepsPromise, Promise!Spec
=============================================================================
