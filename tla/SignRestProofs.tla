--------------------------- MODULE SignRestProofs ---------------------------
(***************************************************************************)
(* A signing task finds the item of its executor, it does not go on for    *)
(* ever, and where nothing fails it comes to rest only when it is done:    *)
(* for all sets of nodes and deployments, whatever the order in which the  *)
(* messages are handled.                                                   *)
(***************************************************************************)
EXTENDS SignProofs

-----------------------------------------------------------------------------
(* The executor has its item, however often the event is delivered *)

\* What try_send_to_executor saves and sends is about the executor it was given.
LEMMA SendsToExecutor ==
  ASSUME NEW m, NEW it \in StoreItem, TrySendToExecutor(m, it)
  PROVE  /\ item'.executor = it.executor
         /\ \A x \in net' : x \in net \/ /\ x.type = "sign" /\ x.peer = it.executor.peer
                                         /\ it.executor # NoExecutor
  BY DEF TrySendToExecutor, Handle, StoreItem

\* Items of nodes are never removed, so only new messages and executors matter.
LEMMA ItemsStay ==
  ASSUME TypeOK, ApplicantsHaveItems,
         \A p \in Delegates : exe[p] # "None" => exe'[p] # "None",
         \A x \in net' : \/ x \in net
                         \/ x.type \notin {"apply", "attest", "sign"}
                         \/ exe'[x.peer] # "None",
         \/ item'.executor \in {item.executor, NoExecutor}
         \/ exe'[item'.executor.peer] # "None"
  PROVE  ApplicantsHaveItems'
<1>1. ASSUME NEW x \in net, x.type \in {"apply", "attest", "sign"}  PROVE exe'[x.peer] # "None"
  <2>1. x.peer \in Delegates
    BY <1>1, MessageFields DEF TypeOK, Applications, SignRequests
  <2> QED  BY <1>1, <2>1 DEF ApplicantsHaveItems
<1>2. item'.executor # NoExecutor => exe'[item'.executor.peer] # "None"
  <2> SUFFICES ASSUME item'.executor = item.executor, item.executor # NoExecutor
               PROVE  exe'[item.executor.peer] # "None"
    OBVIOUS
  <2>1. item.executor.peer \in Delegates
    BY DEF TypeOK, StoreItem, ExecutorInfo
  <2> QED  BY <2>1 DEF ApplicantsHaveItems
<1> QED  BY <1>1, <1>2 DEF ApplicantsHaveItems

LEMMA DelegatorHasItems ==
  ASSUME TypeOK, ApplicantsHaveItems, NEW m \in net, DelegatorHandles(m), UNCHANGED nodeVars
  PROVE  ApplicantsHaveItems'
<1>t. item \in StoreItem /\ m \in Message /\ exe' = exe
  BY DEF TypeOK, nodeVars
<1>s. ASSUME \A x \in net' : \/ x \in net
                             \/ x.type \notin {"apply", "attest", "sign"}
                             \/ exe[x.peer] # "None",
             \/ item'.executor \in {item.executor, NoExecutor}
             \/ exe[item'.executor.peer] # "None"
      PROVE  ApplicantsHaveItems'
  BY <1>s, <1>t, ItemsStay
<1>1. CASE NodeReady(m) \/ BecomeDelegator(m) \/ PinnersAttested(m)
  <2>1. \A x \in net' : x \in net \/ x.type \in {"delegatorKey", "deploymentIds", "found"}
    BY <1>1 DEF NodeReady, BecomeDelegator, PinnersAttested, Handle
  <2>2. item' = item
    BY <1>1 DEF NodeReady, BecomeDelegator, PinnersAttested, delegatorVars
  <2> QED  BY <1>s, <2>1, <2>2
<1>2. CASE InviteExecutor(m)
  <2>1. m \in Invitations
    BY <1>2, <1>t, MessageFields DEF InviteExecutor
  <2>2. \A x \in net' : x \in net \/ x.type = "candidate"
    BY <1>2, <2>1 DEF InviteExecutor, Handle, Invitations
  <2> QED  BY <1>2, <1>s, <2>2 DEF InviteExecutor, delegatorVars
<1>3. CASE BeginRound(m)
  <2>1. \A x \in net' : x \in net \/ x.type = "delegates"
    BY <1>3 DEF BeginRound, Handle
  <2>2. item'.executor = NoExecutor
    BY <1>3 DEF BeginRound, NewItem
  <2> QED  BY <1>s, <2>1, <2>2
<1>4. CASE InviteAndFind(m)
  <2>1. \A x \in net' : x \in net \/ x.type \in {"profile", "find"}
    BY <1>4 DEF InviteAndFind, Handle, Lookups, FindPinners
  <2>2. item'.executor = item.executor
    BY <1>4, <1>t DEF InviteAndFind, StoreItem
  <2> QED  BY <1>s, <2>1, <2>2
<1>5. CASE StartAttestation(m)
  <2>1. m \in Applications /\ exe[m.peer] # "None"
    BY <1>5, <1>t, MessageFields DEF StartAttestation, ApplicantsHaveItems
  <2>2. [m EXCEPT !.type = "attest"].peer = m.peer
    BY <2>1 DEF Applications
  <2>3. \A x \in net' : x \in net \/ x.peer = m.peer
    BY <1>5, <2>2 DEF StartAttestation, Handle
  <2> QED  BY <1>5, <1>s, <2>1, <2>3 DEF StartAttestation, delegatorVars
<1>6. CASE ExecutorAttested(m)
  <2> DEFINE it == [item EXCEPT !.executor = [peer |-> m.peer, rsa |-> m.rsa], !.waiting = {}]
  <2>1. exe[m.peer] # "None"
    BY <1>6 DEF ExecutorAttested, ApplicantsHaveItems
  <2>2. it \in StoreItem /\ it.executor.peer = m.peer
    BY <1>6, <1>t, MessageFields DEF ExecutorAttested, Applications, ExecutorInfo, StoreItem
  <2>3. CASE Handle(m, {}) /\ UNCHANGED item
    BY <1>s, <2>3 DEF Handle
  <2>4. CASE TrySendToExecutor(m, it)
    <3> HIDE DEF it
    <3>1. item'.executor.peer = m.peer /\ \A x \in net' : x \in net \/ x.peer = m.peer
      BY <2>2, <2>4, SendsToExecutor
    <3> QED  BY <1>s, <2>1, <3>1
  <2>5. ASSUME item' = it, NEW sent, Handle(m, GetSlices(it, sent))  PROVE ApplicantsHaveItems'
    <3>1. \A x \in net' : x \in net \/ x.type = "get"
      BY <2>5 DEF Handle, GetSlices
    <3>2. item'.executor.peer = m.peer
      BY <2>2, <2>5
    <3> QED  BY <1>s, <2>1, <3>1, <3>2
  <2> QED  BY <1>6, <2>3, <2>4, <2>5 DEF ExecutorAttested
<1>7. CASE PinnerAttested(m)
  <2>1. \A x \in net' : x \in net \/ x.type = "get"
    BY <1>7 DEF PinnerAttested, Handle, GetSlices
  <2>2. item'.executor = item.executor
    BY <1>7, <1>t DEF PinnerAttested, StoreItem
  <2> QED  BY <1>s, <2>1, <2>2
<1>8. CASE SliceReturned(m)
  <2> DEFINE it == [item EXCEPT !.slices = @ \cup {[id |-> m.id, peer |-> m.peer, key |-> m.key]}]
  <2>1. it \in StoreItem /\ it.executor = item.executor
    BY <1>8, <1>t, MessageFields DEF SliceReturned, SliceMessages, KeySlice, StoreItem
  <2>2. CASE Handle(m, {}) /\ item' \in {item, it}
    BY <1>s, <2>1, <2>2 DEF Handle
  <2>3. CASE TrySendToExecutor(m, it)
    <3> HIDE DEF it
    <3>1. /\ item'.executor = item.executor
          /\ \A x \in net' : x \in net \/ /\ x.peer = item.executor.peer
                                          /\ item.executor # NoExecutor
      BY <2>1, <2>3, SendsToExecutor
    <3>2. item.executor # NoExecutor => exe[item.executor.peer] # "None"
      BY DEF ApplicantsHaveItems
    <3> QED  BY <1>s, <3>1, <3>2
  <2> QED  BY <1>8, <2>2, <2>3 DEF SliceReturned
<1>9. CASE CommitResult(m)
  <2>1. item'.executor = item.executor /\ net' \subseteq net
    BY <1>9, <1>t DEF CommitResult, StoreItem, Handle
  <2> QED  BY <1>s, <2>1
<1> QED
  BY <1>1, <1>2, <1>3, <1>4, <1>5, <1>6, <1>7, <1>8, <1>9 DEF DelegatorHandles

LEMMA NodeHasItems ==
  ASSUME TypeOK, ApplicantsHaveItems, NEW m \in net, NodeHandles(m), UNCHANGED delegatorVars
  PROVE  ApplicantsHaveItems'
<1>t. m \in Message /\ item' = item /\ exe \in [Delegates -> ExecutorState]
  BY DEF TypeOK, delegatorVars
<1>1. \A p \in Delegates : exe[p] # "None" => exe'[p] # "None"
  BY <1>t DEF NodeHandles, ApplyAsExecutor, LookUpDeployment, ReturnSlice, Sign, nodeVars
<1>2. CASE ApplyAsExecutor(m)
  <2>1. m.peer \in Delegates
    BY <1>2, <1>t, MessageFields DEF ApplyAsExecutor, Invitations
  <2>2. exe'[m.peer] # "None" /\ \A x \in net' : x \in net \/ x.peer = m.peer
    BY <1>2, <1>t, <2>1 DEF ApplyAsExecutor, Handle
  <2> QED  BY <1>1, <1>t, <2>2, ItemsStay
<1>3. CASE LookUpDeployment(m) \/ ReturnSlice(m)
  <2>1. m \in SliceMessages
    BY <1>3, <1>t, MessageFields DEF LookUpDeployment, ReturnSlice
  <2>2. \A x \in net' : x \in net \/ x.type \in {"info", "slice"}
    BY <1>3, <2>1 DEF LookUpDeployment, ReturnSlice, Handle, SliceMessages
  <2> QED  BY <1>1, <1>t, <2>2, ItemsStay
<1>4. CASE Sign(m)
  <2>1. \A x \in net' : x \in net \/ x.type = "commit"
    BY <1>4 DEF Sign, Handle
  <2> QED  BY <1>1, <1>t, <2>1, ItemsStay
<1> QED  BY <1>2, <1>3, <1>4 DEF NodeHandles

\* A node that is sent the slices of a key always has the item of its own
\* application, whatever is lost, fails, expires or is redelivered, so that
\* task_sign_with_key_slices_response_handler does not fail for the lack of it.
THEOREM ExecutorAlwaysHasItem == Spec => []ExecutorHasItem
<1>1. Init => ApplicantsHaveItems
  BY DEF Init, DelegatorInit, NodeInit, NewItem, ApplicantsHaveItems
<1>2. TypeOK /\ ApplicantsHaveItems /\ [Next]_vars => ApplicantsHaveItems'
  <2> SUFFICES ASSUME TypeOK, ApplicantsHaveItems, [Next]_vars  PROVE ApplicantsHaveItems'
    OBVIOUS
  <2>1. CASE Deliver
    BY <2>1, DelegatorHasItems, NodeHasItems DEF Deliver
  <2>2. CASE Environment
    <3>1. item' = item /\ exe' = exe /\ \A x \in net' : x \in net \/ x.type = "nodeReady"
      BY <2>2 DEF Environment, PortalEvent, Lose, Handle, Expire, delegatorVars, nodeVars
    <3> QED  BY <3>1, ItemsStay
  <2>3. CASE UNCHANGED vars
    BY <2>3 DEF vars, delegatorVars, nodeVars, ApplicantsHaveItems
  <2> QED  BY <2>1, <2>2, <2>3 DEF Next
<1>3. ApplicantsHaveItems => ExecutorHasItem
  BY DEF ApplicantsHaveItems, ExecutorHasItem
<1> QED  BY <1>1, <1>2, <1>3, TypeCorrect, PTL DEF Spec
-----------------------------------------------------------------------------
(* What a step leaves under way *)

\* Once a call failed, it has failed.
LEMMA NoFaultBefore == TypeOK /\ [Next]_vars /\ faults' = 0 => faults = 0
<1> SUFFICES ASSUME TypeOK, [Next]_vars, faults' = 0, faults # 0  PROVE FALSE
  OBVIOUS
<1>1. faults' = faults \/ faults' = faults + 1
  BY DEF Next, Deliver, Environment, DelegatorHandles, NodeHandles, NodeReady, BecomeDelegator,
         BeginRound, InviteAndFind, InviteExecutor, PinnersAttested, StartAttestation,
         ExecutorAttested, PinnerAttested, SliceReturned, CommitResult, TrySendToExecutor,
         ApplyAsExecutor, LookUpDeployment, ReturnSlice, Sign, PortalEvent, Lose, Expire,
         NoFault, Fault, vars
<1> QED  BY <1>1 DEF TypeOK

\* A message that is handled without a change of the item is followed by one
\* with the same purpose, if it has one.
LEMMA FollowedUp ==
  ASSUME UnderWay, UNCHANGED <<item, invited, asked>>, rsaKey' = rsaKeys',
         NEW m \in net, NEW out, Handle(m, out),
         m.type \in InviteTypes /\ item.executor = NoExecutor =>
           \E y \in out : y.type \in InviteTypes,
         m.type \in SliceTypes =>
           HasSlice(item, m.id) \/ \E y \in out : y.type \in SliceTypes /\ y.id = m.id,
         \A y \in out : y.type \in SliceTypes => m.type \in SliceTypes /\ y.id = m.id,
         m.type \in {"sign", "commit"} => \E y \in out : y.type = "commit"
  PROVE  UnderWay'
<1>1. net' = (net \ {m}) \cup out
  BY DEF Handle
<1>2. ExecutorUnderWay'
  BY <1>1 DEF UnderWay, ExecutorUnderWay
<1>3. ASSUME NEW h \in asked  PROVE HasSlice(item, h.id)' \/
                                    \E y \in net' : y.type \in SliceTypes /\ y.id = h.id
  <2>1. HasSlice(item, h.id)' <=> HasSlice(item, h.id)
    BY DEF HasSlice
  <2> SUFFICES ASSUME ~HasSlice(item, h.id)
               PROVE  \E y \in net' : y.type \in SliceTypes /\ y.id = h.id
    BY <2>1
  <2>2. PICK x \in net : x.type \in SliceTypes /\ x.id = h.id
    BY DEF UnderWay, HoldersUnderWay
  <2> QED  BY <1>1, <2>2
<1>4. \A y \in net' : y.type \in SliceTypes => y.id \in item.ids
  BY <1>1 DEF UnderWay, HoldersUnderWay
<1>5. HoldersUnderWay'
  BY <1>3, <1>4 DEF UnderWay, HoldersUnderWay
<1>6. SignatureUnderWay'
  BY <1>1 DEF UnderWay, SignatureUnderWay
<1> QED  BY <1>2, <1>5, <1>6 DEF UnderWay

\* The same when it is followed by one message.
LEMMA FollowedByOne ==
  ASSUME UnderWay, UNCHANGED <<item, invited, asked>>, rsaKey' = rsaKeys',
         NEW m \in net, NEW y, Handle(m, {y}),
         m.type \in InviteTypes => y.type \in InviteTypes,
         m.type \in SliceTypes => y.type \in SliceTypes /\ y.id = m.id,
         y.type \in SliceTypes => m.type \in SliceTypes,
         m.type \in {"sign", "commit"} => y.type = "commit"
  PROVE  UnderWay'
<1> DEFINE out == {y}
<1>1. y \in out /\ \A x \in out : x = y
  OBVIOUS
<1>2. Handle(m, out)
  OBVIOUS
<1> HIDE DEF out
<1> QED  BY <1>1, <1>2, FollowedUp

\* A message with none of these purposes leaves what is under way alone.
LEMMA OtherHandled ==
  ASSUME UnderWay, UNCHANGED <<item, invited, asked, rsaKey, rsaKeys>>,
         NEW m \in net, NEW out, Handle(m, out),
         m.type \notin InviteTypes \cup SliceTypes \cup {"sign", "commit"},
         \A y \in out : y.type \notin SliceTypes
  PROVE  UnderWay'
<1>1. rsaKey' = rsaKeys'
  BY DEF UnderWay
<1> QED  BY <1>1, FollowedUp

-----------------------------------------------------------------------------
(* The steps of the delegator *)

LEMMA BeginRoundUnderWay ==
  ASSUME TypeOK, OneStart, UnderWay, faults = 0, faults' = 0,
         NEW m \in net, BeginRound(m), UNCHANGED nodeVars
  PROVE  UnderWay'
<1>1. ~Fault("send")
  BY DEF Fault
<1>2. PICK ids \in SUBSET DeploymentIds :
        /\ item' = NewItem("Initialized", ids)
        /\ Handle(m, {[type |-> "delegates", ev |-> m.ev, ids |-> ids]})
  BY <1>1 DEF BeginRound
<1>3. net = {m}
  BY DEF BeginRound, OneStart, EventTypes
<1>4. \A x \in net' : x.type = "delegates"
  BY <1>2, <1>3 DEF Handle
<1>5. /\ item'.state = "Initialized" /\ item'.slices = {} /\ item'.waiting = {}
      /\ invited' = {} /\ asked' = {}
  BY <1>2 DEF BeginRound, NewItem
<1>6. ExecutorUnderWay' /\ SignatureUnderWay'
  BY <1>5 DEF ExecutorUnderWay, SignatureUnderWay
<1>7. HoldersUnderWay'
  BY <1>4, <1>5 DEF HoldersUnderWay, SliceTypes
<1> QED  BY <1>6, <1>7 DEF UnderWay, nodeVars

LEMMA InviteAndFindUnderWay ==
  ASSUME TypeOK, OneStart, UnderWay, faults = 0, faults' = 0,
         NEW m \in net, InviteAndFind(m), UNCHANGED nodeVars
  PROVE  UnderWay'
<1>1. ~Fault("send")
  BY DEF Fault
<1>2. /\ Handle(m, Lookups(m, invited') \cup FindPinners(m, m.ids))
      /\ item' = [item EXCEPT !.state = "FindingDeployments"]
  BY <1>1 DEF InviteAndFind
<1>3. net = {m} /\ m.type = "delegates" /\ item.state = "Initialized" /\ asked' = asked
  BY DEF InviteAndFind, OneStart
<1>4. item.slices = {}
  BY <1>3 DEF UnderWay, SignatureUnderWay
<1>5. /\ item'.state = "FindingDeployments" /\ item'.slices = {}
      /\ item'.waiting = item.waiting /\ item'.ids = item.ids
  BY <1>2, <1>4 DEF TypeOK, StoreItem
<1>6. \A x \in net' : x.type \in {"profile", "find"}
  BY <1>2, <1>3 DEF Handle, Lookups, FindPinners
<1>7. asked = {}
  <2>1. \A h \in asked : \E x \in net : x.type \in SliceTypes
    BY <1>4 DEF UnderWay, HoldersUnderWay, HasSlice
  <2> QED  BY <1>3, <2>1 DEF SliceTypes
<1>8. ExecutorUnderWay'
  <2> SUFFICES ASSUME NEW p \in invited'  PROVE \E x \in net' : x.type \in InviteTypes
    BY DEF ExecutorUnderWay
  <2> DEFINE x == [type |-> "profile", ev |-> m.ev, peer |-> p]
  <2>1. x \in net' /\ x.type = "profile"
    BY <1>2 DEF Handle, Lookups
  <2> QED  BY <2>1 DEF InviteTypes
<1>9. HoldersUnderWay'
  BY <1>3, <1>5, <1>6, <1>7 DEF UnderWay, HoldersUnderWay, SliceTypes
<1>10. SignatureUnderWay'
  BY <1>5 DEF SignatureUnderWay
<1> QED  BY <1>8, <1>9, <1>10 DEF UnderWay, nodeVars

\* The first executor: every holder that waited is asked.
LEMMA ExecutorAttestedUnderWay ==
  ASSUME TypeOK, OneStart, OnlyForExecutor, UnderWay, faults = 0, faults' = 0,
         NEW m \in net, ExecutorAttested(m), UNCHANGED nodeVars
  PROVE  UnderWay'
<1>t. item \in StoreItem /\ m.type = "attest" /\ m \in Message
  BY DEF TypeOK, ExecutorAttested
<1>k. rsaKey' = rsaKeys'
  BY DEF UnderWay, nodeVars
<1>1. CASE item.executor # NoExecutor
  <2>1. Handle(m, {}) /\ UNCHANGED <<item, invited, asked>>
    BY <1>1 DEF ExecutorAttested
  <2> QED  BY <1>1, <1>k, <1>t, <2>1, FollowedUp DEF SliceTypes
<1>2. CASE item.executor = NoExecutor
  <2> DEFINE it == [item EXCEPT !.executor = [peer |-> m.peer, rsa |-> m.rsa], !.waiting = {}]
  <2>1. item.slices = {} /\ \A x \in net : x.type \notin SliceTypes \cup {"sign", "commit"}
    BY <1>2, NothingYet DEF SliceTypes
  <2>2. /\ it.slices = {} /\ it.state = item.state /\ it.ids = item.ids /\ it.waiting = {}
        /\ it.executor.peer = m.peer
    BY <1>t, <2>1 DEF StoreItem
  <2>3. ~EnoughSlices(it)
    BY <2>2, NotEnough
  <2>4. ~Fault("send")
    BY DEF Fault
  <2>5. item' = it /\ Handle(m, GetSlices(it, item.waiting)) /\ asked' = asked \cup item.waiting
    BY <1>2, <2>3, <2>4 DEF ExecutorAttested
  <2> HIDE DEF it
  <2>6. asked = {}
    BY <2>1 DEF UnderWay, HoldersUnderWay, HasSlice
  <2>7. ExecutorUnderWay'
    <3>1. m.peer \in Delegates
      BY <1>t, MessageFields DEF Applications
    <3>2. item'.executor # NoExecutor
      BY <2>2, <2>5, <3>1, SignNetAssumption DEF NoExecutor
    <3> QED  BY <3>2 DEF ExecutorUnderWay
  <2>8. ASSUME NEW h \in item.waiting
        PROVE  \E x \in net' : x.type \in SliceTypes /\ x.id = h.id
    <3> DEFINE x == [type |-> "get", id |-> h.id, peer |-> h.peer, key |-> it.executor]
    <3>1. x \in net' /\ x.type = "get" /\ x.id = h.id
      BY <2>5 DEF Handle, GetSlices
    <3> QED  BY <3>1 DEF SliceTypes
  <2>9. ASSUME NEW x \in net', x.type \in SliceTypes  PROVE x.id \in item.ids
    <3>1. PICK h \in item.waiting : x.id = h.id
      BY <2>1, <2>5, <2>9 DEF Handle, GetSlices
    <3> QED  BY <3>1 DEF UnderWay, HoldersUnderWay
  <2>10. HoldersUnderWay'
    BY <2>2, <2>5, <2>6, <2>8, <2>9 DEF HoldersUnderWay
  <2>11. SignatureUnderWay'
    BY <2>1, <2>2, <2>5 DEF UnderWay, SignatureUnderWay
  <2> QED  BY <1>k, <2>7, <2>10, <2>11 DEF UnderWay
<1> QED  BY <1>1, <1>2

\* A holder waits for the executor, or is asked at once.
LEMMA PinnerAttestedUnderWay ==
  ASSUME TypeOK, HoldersKept, UnderWay, NEW m \in net, PinnerAttested(m), UNCHANGED nodeVars
  PROVE  UnderWay'
<1> DEFINE holder == [id |-> m.id, peer |-> m.peer]
<1>t. item \in StoreItem /\ m.type = "found" /\ m.id \in item.ids
  BY DEF TypeOK, PinnerAttested, HoldersKept
<1>k. rsaKey' = rsaKeys' /\ invited' = invited
  BY DEF UnderWay, nodeVars, PinnerAttested
<1>1. CASE HasSlice(item, m.id)
  <2>1. Handle(m, {}) /\ UNCHANGED <<item, asked>>
    BY <1>1 DEF PinnerAttested
  <2> QED  BY <1>k, <1>t, <2>1, FollowedUp DEF InviteTypes, SliceTypes
<1>2. CASE ~HasSlice(item, m.id) /\ item.executor = NoExecutor
  <2>1. /\ item' = [item EXCEPT !.waiting = @ \cup {holder}]
        /\ net' = net \ {m} /\ asked' = asked
    BY <1>2, <1>t DEF PinnerAttested, Handle
  <2>2. /\ item'.executor = item.executor /\ item'.slices = item.slices /\ item'.ids = item.ids
        /\ item'.state = item.state /\ item'.waiting = item.waiting \cup {holder}
    BY <1>t, <2>1 DEF StoreItem
  <2>3. \A x \in net : x \in net' \/ x.type = "found"
    BY <1>t, <2>1
  <2>4. ExecutorUnderWay'
    BY <1>k, <2>2, <2>3 DEF UnderWay, ExecutorUnderWay, InviteTypes
  <2>5. \A h \in item'.waiting : h.id \in item'.ids
    BY <1>t, <2>2 DEF UnderWay, HoldersUnderWay
  <2>6. \A id : HasSlice(item, id)' <=> HasSlice(item, id)
    BY <2>2 DEF HasSlice
  <2>7. \A x \in net' : x.type \in SliceTypes => x.id \in item'.ids
    BY <2>1, <2>2 DEF UnderWay, HoldersUnderWay
  <2>8. ASSUME NEW h \in asked', ~HasSlice(item, h.id)'
        PROVE  \E x \in net' : x.type \in SliceTypes /\ x.id = h.id
    <3>1. PICK x \in net : x.type \in SliceTypes /\ x.id = h.id
      BY <2>1, <2>6, <2>8 DEF UnderWay, HoldersUnderWay
    <3> QED  BY <2>3, <3>1 DEF SliceTypes
  <2>9. HoldersUnderWay'
    BY <2>5, <2>7, <2>8 DEF HoldersUnderWay
  <2>10. SignatureUnderWay'
    BY <2>2, <2>3 DEF UnderWay, SignatureUnderWay
  <2> QED  BY <1>k, <2>4, <2>9, <2>10 DEF UnderWay
<1>3. CASE ~HasSlice(item, m.id) /\ item.executor # NoExecutor
  <2>1. item' = item /\ asked' = asked \cup {holder} /\ Handle(m, GetSlices(item, {holder}))
    BY <1>3 DEF PinnerAttested
  <2> DEFINE get == [type |-> "get", id |-> m.id, peer |-> m.peer, key |-> item.executor]
  <2>2. net' = (net \ {m}) \cup {get}
    BY <2>1 DEF Handle, GetSlices
  <2>3. get.type = "get" /\ get.id = m.id /\ holder.id = m.id
    OBVIOUS
  <2> HIDE DEF get, holder
  <2>4. \A x \in net : x \in net' \/ x.type = "found"
    BY <1>t, <2>2
  <2>5. ExecutorUnderWay'
    BY <1>3, <2>1 DEF ExecutorUnderWay
  <2>6. \A x \in net' : x.type \in SliceTypes => x.id \in item.ids
    BY <1>t, <2>2, <2>3 DEF UnderWay, HoldersUnderWay
  <2>7. \A id : HasSlice(item, id)' <=> HasSlice(item, id)
    BY <2>1 DEF HasSlice
  <2>8. ASSUME NEW h \in asked', ~HasSlice(item, h.id)'
        PROVE  \E x \in net' : x.type \in SliceTypes /\ x.id = h.id
    <3>1. CASE h = holder
      BY <2>2, <2>3, <3>1 DEF SliceTypes
    <3>2. CASE h \in asked
      <4>1. PICK x \in net : x.type \in SliceTypes /\ x.id = h.id
        BY <2>7, <2>8, <3>2 DEF UnderWay, HoldersUnderWay
      <4> QED  BY <2>4, <4>1 DEF SliceTypes
    <3> QED  BY <2>1, <3>1, <3>2
  <2>9. HoldersUnderWay'
    BY <2>1, <2>6, <2>8 DEF UnderWay, HoldersUnderWay
  <2>10. SignatureUnderWay'
    BY <2>1, <2>4 DEF UnderWay, SignatureUnderWay
  <2> QED  BY <1>k, <2>5, <2>9, <2>10 DEF UnderWay
<1> QED  BY <1>1, <1>2, <1>3

\* One slice is enough for ready_send_to_executor.
LEMMA OneIsEnough ==
  ASSUME NEW it \in StoreItem, NEW s \in it.slices
  PROVE  EnoughSlices(it)
<1> DEFINE S == {x.id : x \in it.slices}
<1>1. S \subseteq DeploymentIds /\ s.id \in S
  BY DEF StoreItem, KeySlice
<1>2. IsFiniteSet(S)
  BY <1>1, SignNetAssumption, FS_Subset
<1>3. Cardinality(S) \in Nat /\ (Cardinality(S) = 0 <=> S = {})
  BY <1>2, FS_CardinalityType, FS_EmptySet
<1>4. S # {}
  BY <1>1
<1> HIDE DEF S
<1>5. Cardinality(S) >= 1
  BY <1>3, <1>4
<1> QED  BY <1>5 DEF EnoughSlices, K, S

\* A slice that is wanted is saved and the executor gets all there are.
LEMMA SliceReturnedUnderWay ==
  ASSUME TypeOK, OnlyForExecutor, UnderWay, faults = 0, faults' = 0,
         NEW m \in net, SliceReturned(m), UNCHANGED nodeVars
  PROVE  UnderWay'
<1> DEFINE slice == [id |-> m.id, peer |-> m.peer, key |-> m.key]
           it == [item EXCEPT !.slices = @ \cup {slice}]
<1>t. item \in StoreItem /\ m \in Message /\ m.type = "slice" /\ m.id \in item.ids
  BY DEF TypeOK, SliceReturned, UnderWay, HoldersUnderWay, SliceTypes
<1>k. rsaKey' = rsaKeys' /\ invited' = invited /\ asked' = asked
  BY DEF UnderWay, nodeVars, SliceReturned
<1>f. ~Fault("send")
  BY DEF Fault
<1>1. CASE HasSlice(item, m.id)
  <2>1. Handle(m, {}) /\ item' = item
    BY <1>1 DEF SliceReturned
  <2> QED  BY <1>1, <1>k, <1>t, <2>1, FollowedUp DEF InviteTypes
<1>2. CASE ~HasSlice(item, m.id)
  <2>1. TrySendToExecutor(m, it)
    BY <1>2, <1>f, <1>t DEF SliceReturned
  <2>2. slice \in KeySlice /\ slice.id = m.id
    BY <1>t, MessageFields DEF SliceMessages, KeySlice
  <2> HIDE DEF slice
  <2>3. /\ it \in StoreItem /\ it.executor = item.executor /\ it.slices = item.slices \cup {slice}
        /\ it.ids = item.ids /\ it.waiting = item.waiting
    BY <1>t, <2>2 DEF StoreItem
  <2>4. EnoughSlices(it)
    BY <2>3, OneIsEnough
  <2>5. it.executor # NoExecutor
    <3>1. item.executor \in ExecutorInfo
      BY <1>t, ExecutorIsThere
    <3> QED  BY <2>3, <3>1, SignNetAssumption DEF ExecutorInfo, NoExecutor
  <2> HIDE DEF it
  <2> DEFINE request == [type |-> "sign", peer |-> it.executor.peer, slices |-> it.slices]
  <2>6. item' = [it EXCEPT !.state = "SentToExecutor"] /\ net' = (net \ {m}) \cup {request}
    BY <1>f, <2>1, <2>4, <2>5 DEF TrySendToExecutor, Handle
  <2>7. request.type = "sign"
    OBVIOUS
  <2> HIDE DEF request
  <2>8. /\ item'.state = "SentToExecutor" /\ item'.executor = item.executor
        /\ item'.slices = item.slices \cup {slice}
        /\ item'.ids = item.ids /\ item'.waiting = item.waiting
    BY <2>3, <2>6 DEF StoreItem
  <2>9. ExecutorUnderWay'
    BY <2>3, <2>5, <2>8 DEF ExecutorUnderWay
  <2>10. \A x \in net' : x.type \in SliceTypes => x.id \in item'.ids
    BY <2>6, <2>7, <2>8 DEF UnderWay, HoldersUnderWay, SliceTypes
  <2>11. \A id : id = m.id \/ HasSlice(item, id) => HasSlice(item, id)'
    BY <2>2, <2>8 DEF HasSlice
  <2>12. ASSUME NEW h \in asked', ~HasSlice(item, h.id)'
         PROVE  \E x \in net' : x.type \in SliceTypes /\ x.id = h.id
    <3>1. PICK x \in net : x.type \in SliceTypes /\ x.id = h.id
      BY <1>k, <2>11, <2>12 DEF UnderWay, HoldersUnderWay
    <3>2. x # m
      BY <2>11, <2>12, <3>1
    <3> QED  BY <2>6, <3>1, <3>2
  <2>13. HoldersUnderWay'
    BY <2>8, <2>10, <2>12 DEF UnderWay, HoldersUnderWay
  <2>14. SignatureUnderWay'
    BY <2>6, <2>7, <2>8 DEF SignatureUnderWay
  <2> QED  BY <1>k, <2>9, <2>13, <2>14 DEF UnderWay
<1> QED  BY <1>1, <1>2

LEMMA CommitResultUnderWay ==
  ASSUME TypeOK, UnderWay, NEW m \in net, CommitResult(m), UNCHANGED nodeVars
  PROVE  UnderWay'
<1>1. /\ m.type = "commit" /\ net' = net \ {m} /\ UNCHANGED <<invited, asked>>
      /\ item' = [item EXCEPT !.state = "CommitResult"]
  BY DEF CommitResult, Handle
<1>2. /\ item'.state = "CommitResult" /\ item'.executor = item.executor
      /\ item'.slices = item.slices /\ item'.ids = item.ids /\ item'.waiting = item.waiting
  BY <1>1 DEF TypeOK, StoreItem
<1>3. \A x \in net : x \in net' \/ x.type = "commit"
  BY <1>1
<1>4. ExecutorUnderWay'
  BY <1>1, <1>2, <1>3 DEF UnderWay, ExecutorUnderWay, InviteTypes
<1>5. \A id : HasSlice(item, id)' <=> HasSlice(item, id)
  BY <1>2 DEF HasSlice
<1>6. ASSUME NEW h \in asked', ~HasSlice(item, h.id)'
      PROVE  \E x \in net' : x.type \in SliceTypes /\ x.id = h.id
  <2>1. PICK x \in net : x.type \in SliceTypes /\ x.id = h.id
    BY <1>1, <1>5, <1>6 DEF UnderWay, HoldersUnderWay
  <2> QED  BY <1>3, <2>1 DEF SliceTypes
<1>7. HoldersUnderWay'
  BY <1>1, <1>2, <1>6 DEF UnderWay, HoldersUnderWay
<1>8. SignatureUnderWay'
  BY <1>2 DEF SignatureUnderWay
<1> QED  BY <1>4, <1>7, <1>8 DEF UnderWay, nodeVars

LEMMA DelegatorUnderWay ==
  ASSUME SingleDeliveryInv, UnderWay, faults = 0, faults' = 0,
         NEW m \in net, DelegatorHandles(m), UNCHANGED nodeVars
  PROVE  UnderWay'
<1>t. TypeOK /\ OneStart /\ OnlyForExecutor /\ OneInvitation /\ HoldersKept /\ m \in Message
  BY DEF SingleDeliveryInv, TypeOK
<1>n. UNCHANGED <<rsaKey, rsaKeys>> /\ rsaKey' = rsaKeys'
  BY DEF nodeVars, UnderWay
<1>d. InviteTypes \cap SliceTypes = {} /\ "sign" \notin InviteTypes \cup SliceTypes
  BY DEF InviteTypes, SliceTypes
<1>1. CASE NodeReady(m)
  BY <1>1, <1>n, OtherHandled DEF NodeReady, delegatorVars, InviteTypes, SliceTypes
<1>2. CASE BecomeDelegator(m)
  BY <1>2, <1>n, OtherHandled DEF BecomeDelegator, delegatorVars, InviteTypes, SliceTypes
<1>3. CASE InviteExecutor(m)
  <2>1. m.type = "profile" /\ Handle(m, {[m EXCEPT !.type = "candidate"]}) /\ UNCHANGED delegatorVars
    BY <1>3 DEF InviteExecutor
  <2>2. [m EXCEPT !.type = "candidate"].type = "candidate"
    BY <1>t, <2>1, MessageFields DEF Invitations
  <2> QED  BY <1>n, <2>1, <2>2, FollowedByOne DEF delegatorVars, InviteTypes, SliceTypes
<1>4. CASE PinnersAttested(m)
  <2>1. PICK peers \in SUBSET Pinners :
          Handle(m, {[type |-> "found", ev |-> m.ev, id |-> m.id, peer |-> p] : p \in peers})
    BY <1>4 DEF PinnersAttested
  <2> DEFINE out == {[type |-> "found", ev |-> m.ev, id |-> m.id, peer |-> p] : p \in peers}
  <2>2. \A y \in out : y.type \notin SliceTypes
    BY DEF SliceTypes
  <2>3. Handle(m, out)
    BY <2>1
  <2> HIDE DEF out
  <2> QED  BY <1>4, <1>n, <2>2, <2>3, OtherHandled
           DEF PinnersAttested, delegatorVars, InviteTypes, SliceTypes
<1>5. CASE StartAttestation(m)
  <2>1. m.type = "apply" /\ UNCHANGED delegatorVars
    BY <1>5 DEF StartAttestation
  <2>2. [m EXCEPT !.type = "attest"].type = "attest"
    BY <1>t, <2>1, MessageFields DEF Applications
  <2>3. CASE item.executor = NoExecutor
    <3>1. Handle(m, {[m EXCEPT !.type = "attest"]})
      BY <1>5, <2>3 DEF StartAttestation
    <3> QED  BY <1>n, <2>1, <2>2, <3>1, FollowedByOne DEF delegatorVars, InviteTypes, SliceTypes
  <2>4. CASE item.executor # NoExecutor
    <3>1. Handle(m, {})
      BY <1>5, <2>4 DEF StartAttestation
    <3> QED  BY <1>n, <2>1, <2>4, <3>1, FollowedUp DEF delegatorVars, SliceTypes
  <2> QED  BY <2>3, <2>4
<1> QED
  BY <1>t, <1>1, <1>2, <1>3, <1>4, <1>5, BeginRoundUnderWay, InviteAndFindUnderWay,
     ExecutorAttestedUnderWay, PinnerAttestedUnderWay, SliceReturnedUnderWay, CommitResultUnderWay
  DEF DelegatorHandles
-----------------------------------------------------------------------------
(* The steps of the nodes, and of the environment *)

\* The executor decrypts all the slices: they are for its own stored key.
LEMMA SignUnderWay ==
  ASSUME SingleDeliveryInv, UnderWay, faults = 0, faults' = 0,
         NEW m \in net, Sign(m), UNCHANGED delegatorVars
  PROVE  UnderWay'
<1>t. TypeOK /\ OnlyForExecutor /\ OneInvitation
  BY DEF SingleDeliveryInv
<1>1. m.type = "sign" /\ UNCHANGED <<rsaKey, rsaKeys>>
  BY DEF Sign
<1>2. item.executor \in ExecutorInfo /\ item.executor # NoExecutor
  BY <1>1, <1>t, ExecutorIsThere, SignNetAssumption DEF ExecutorInfo, NoExecutor
<1>3. m.peer = item.executor.peer /\ m.slices \subseteq item.slices
  BY <1>1, <1>t DEF OnlyForExecutor
<1>4. item.executor = [peer |-> m.peer, rsa |-> rsaKey[m.peer]]
  BY <1>2, <1>3, <1>t DEF OneInvitation, UnderWay, ExecutorInfo
<1>5. CanDecrypt(m)
  BY <1>3, <1>4, <1>t DEF OnlyForExecutor, CanDecrypt
<1>6. ~Fault("send")
  BY DEF Fault
<1>7. Handle(m, {[type |-> "commit", peer |-> m.peer]})
  BY <1>5, <1>6 DEF Sign
<1>8. rsaKey' = rsaKeys'
  BY <1>1 DEF UnderWay
<1> QED  BY <1>1, <1>7, <1>8, FollowedByOne DEF delegatorVars, InviteTypes, SliceTypes

LEMMA NodeUnderWay ==
  ASSUME SingleDeliveryInv, UnderWay, faults = 0, faults' = 0,
         NEW m \in net, NodeHandles(m), UNCHANGED delegatorVars
  PROVE  UnderWay'
<1>t. TypeOK /\ m \in Message
  BY DEF SingleDeliveryInv, TypeOK
<1>d. UNCHANGED <<item, invited, asked>>
  BY DEF delegatorVars
<1>1. CASE ApplyAsExecutor(m)
  <2>1. ~Fault("send")
    BY DEF Fault
  <2>2. PICK rsa : Handle(m, {[type |-> "apply", peer |-> m.peer, rsa |-> rsa]})
    BY <1>1, <2>1 DEF ApplyAsExecutor
  <2>3. rsaKey' = rsaKeys'
    BY <1>1, <1>t DEF ApplyAsExecutor, UnderWay, TypeOK
  <2>4. m.type = "candidate"
    BY <1>1 DEF ApplyAsExecutor
  <2> QED  BY <1>d, <2>2, <2>3, <2>4, FollowedByOne DEF InviteTypes, SliceTypes
<1>2. CASE LookUpDeployment(m) \/ ReturnSlice(m)
  <2>1. PICK type \in {"info", "slice"} : Handle(m, {[m EXCEPT !.type = type]})
    BY <1>2 DEF LookUpDeployment, ReturnSlice
  <2>2. m.type \in {"get", "info"} /\ UNCHANGED nodeVars
    BY <1>2 DEF LookUpDeployment, ReturnSlice
  <2>3. [m EXCEPT !.type = type].type = type /\ [m EXCEPT !.type = type].id = m.id
    BY <1>t, <2>2, MessageFields DEF SliceMessages
  <2>4. rsaKey' = rsaKeys'
    BY <2>2 DEF nodeVars, UnderWay
  <2> QED  BY <1>d, <2>1, <2>2, <2>3, <2>4, FollowedByOne DEF InviteTypes, SliceTypes
<1> QED  BY <1>1, <1>2, SignUnderWay DEF NodeHandles

LEMMA EnvironmentUnderWay ==
  ASSUME UnderWay, faults = 0, faults' = 0, Environment
  PROVE  UnderWay'
<1>1. ~Fault("loss") /\ ~Fault("expire")
  BY DEF Fault
<1>2. PortalEvent /\ UNCHANGED nodeVars
  BY <1>1 DEF Environment, Lose, Expire
<1>3. UNCHANGED <<item, invited, asked>> /\ UNCHANGED <<rsaKey, rsaKeys>>
  BY <1>2 DEF PortalEvent, nodeVars
<1>4. \A x \in net' : x \in net \/ x.type = "nodeReady"
  BY <1>2 DEF PortalEvent
<1>5. net \subseteq net'
  BY <1>2 DEF PortalEvent
<1>6. ExecutorUnderWay' /\ SignatureUnderWay'
  BY <1>3, <1>5 DEF UnderWay, ExecutorUnderWay, SignatureUnderWay
<1>7. HoldersUnderWay'
  BY <1>3, <1>4, <1>5 DEF UnderWay, HoldersUnderWay, HasSlice, SliceTypes
<1> QED  BY <1>3, <1>6, <1>7 DEF UnderWay
-----------------------------------------------------------------------------
(* Nothing is missing, and the rest is the end *)

\* As long as nothing failed, what is still to be done for the signature has a
\* message under way, and no handler that is to take it will drop it.
THEOREM NothingIsMissing == MaxEvents = 1 => (Spec => []AllUnderWay)
<1> SUFFICES ASSUME MaxEvents = 1  PROVE Spec => []AllUnderWay
  OBVIOUS
<1>1. Init => AllUnderWay
  BY DEF Init, DelegatorInit, NodeInit, NewItem, AllUnderWay, UnderWay, ExecutorUnderWay,
         HoldersUnderWay, SignatureUnderWay
<1>2. SingleDeliveryInv /\ AllUnderWay /\ [Next]_vars => AllUnderWay'
  <2> SUFFICES ASSUME SingleDeliveryInv, AllUnderWay, [Next]_vars, faults' = 0  PROVE UnderWay'
    BY DEF AllUnderWay
  <2>1. faults = 0 /\ UnderWay
    BY NoFaultBefore DEF SingleDeliveryInv, AllUnderWay
  <2>2. CASE Deliver
    BY <2>1, <2>2, DelegatorUnderWay, NodeUnderWay DEF Deliver
  <2>3. CASE Environment
    BY <2>1, <2>3, EnvironmentUnderWay
  <2>4. CASE UNCHANGED vars
    BY <2>1, <2>4 DEF vars, delegatorVars, nodeVars, UnderWay, ExecutorUnderWay,
       HoldersUnderWay, SignatureUnderWay, HasSlice
  <2> QED  BY <2>2, <2>3, <2>4 DEF Next
<1> QED  BY <1>1, <1>2, SingleDelivery, PTL DEF Spec

LEMMA RestIsDone == SingleDeliveryInv /\ AllUnderWay => RestsOnlyWhenDone
<1> SUFFICES ASSUME SingleDeliveryInv, UnderWay, net = {}, faults = 0, invited # {}, found # {}
             PROVE  /\ item.state = "CommitResult"
                    /\ \A h \in found : HasSlice(item, h.id)
  BY DEF AllUnderWay, RestsOnlyWhenDone
<1>1. item.executor # NoExecutor
  BY DEF UnderWay, ExecutorUnderWay
<1>2. \A h \in found : h \in asked \/ HasSlice(item, h.id)
  BY <1>1 DEF SingleDeliveryInv, HoldersKept
<1>3. \A h \in found : HasSlice(item, h.id)
  BY <1>2 DEF UnderWay, HoldersUnderWay
<1>4. item.slices # {}
  BY <1>3 DEF HasSlice
<1> QED  BY <1>3, <1>4 DEF UnderWay, SignatureUnderWay

\* A signing task in which nothing failed comes to rest only when it is done:
\* once a delegate is invited and a holder attested, the result is committed,
\* and every deployment with an attested holder has contributed its slice.
THEOREM RestsWhenDone == MaxEvents = 1 => (Spec => []RestsOnlyWhenDone)
<1> SUFFICES ASSUME MaxEvents = 1  PROVE Spec => []RestsOnlyWhenDone
  OBVIOUS
<1> QED  BY SingleDelivery, NothingIsMissing, RestIsDone, PTL
-----------------------------------------------------------------------------
(* Nothing goes on for ever, however often the event is delivered *)

\* How far each kind of message is.
LEMMA Stages ==
  /\ Stage["nodeReady"] = 1 /\ Stage["delegatorKey"] = 2 /\ Stage["deploymentIds"] = 3
  /\ Stage["delegates"] = 4 /\ Stage["profile"] = 5 /\ Stage["candidate"] = 6
  /\ Stage["apply"] = 7 /\ Stage["attest"] = 8 /\ Stage["find"] = 9 /\ Stage["found"] = 10
  /\ Stage["get"] = 11 /\ Stage["info"] = 12 /\ Stage["slice"] = 13 /\ Stage["sign"] = 14
  /\ Stage["commit"] = 15
  BY DEF Stage

LEMMA StageType == ASSUME NEW m \in Message PROVE Stage[m.type] \in 1 .. 15
<1>1. m.type \in {"nodeReady", "delegatorKey", "deploymentIds", "delegates", "profile",
                  "candidate", "apply", "attest", "find", "found", "get", "info", "slice",
                  "sign", "commit"}
  BY DEF Message, EventAnswers, DelegateLists, Invitations, Applications, Searches,
         Discoveries, SliceMessages, SignRequests, Commits
<1> QED  BY <1>1, Stages

\* A step that uses something up and adds to later stages only.
UsesUp ==
  \E i \in 0 .. 15 : /\ Left(i)' \in 0 .. Left(i) - 1
                     /\ \A j \in 0 .. i - 1 : Left(j)' = Left(j)

\* What a handler of m may do: send finitely many messages, all of later stages, or
\* fail in one of the faults that are left.
GoesOn(m) ==
  \E out : /\ Handle(m, out) /\ IsFiniteSet(out) /\ events' = events
           /\ \/ NoFault /\ \A x \in out : Stage[x.type] > Stage[m.type]
              \/ faults < MaxFaults /\ faults' = faults + 1

\* An event or a fault leaves one less of these.
LEMMA BudgetUsed ==
  ASSUME TypeOK, Bounded,
         \/ events < MaxEvents /\ events' = events + 1 /\ faults' = faults
         \/ faults < MaxFaults /\ faults' = faults + 1 /\ events' = events
  PROVE  UsesUp
<1>1. /\ events \in Nat /\ faults \in Nat /\ MaxEvents \in Nat /\ MaxFaults \in Nat
      /\ events <= MaxEvents /\ faults <= MaxFaults
  BY NetworkAssumption DEF TypeOK, Bounded
<1>2. Left(0) = (MaxEvents - events) + (MaxFaults - faults)
      /\ Left(0)' = (MaxEvents - events') + (MaxFaults - faults')
  BY DEF Left
<1>3. Left(0)' = Left(0) - 1 /\ Left(0) \in Nat /\ Left(0)' \in Nat
  BY <1>1, <1>2
<1>4. Left(0)' \in 0 .. Left(0) - 1
  BY <1>3
<1> QED  BY <1>4 DEF UsesUp

\* Handling a message leaves one less of its stage, and none more of an earlier one.
LEMMA MessageUsed ==
  ASSUME TypeOK, Bounded, NEW m \in net, NEW out, Handle(m, out), NoFault, events' = events,
         \A x \in out : Stage[x.type] > Stage[m.type]
  PROVE  UsesUp
<1> DEFINE i == Stage[m.type]
           Now(j) == {x \in net : Stage[x.type] = j}
           Next_(j) == {x \in net' : Stage[x.type] = j}
<1>1. i \in 1 .. 15 /\ net' = (net \ {m}) \cup out
  BY StageType DEF TypeOK, Handle
<1>2. Next_(i) = Now(i) \ {m} /\ m \in Now(i)
  BY <1>1
<1>3. \A j \in 1 .. i - 1 : Next_(j) = Now(j)
  BY <1>1
<1>4. IsFiniteSet(Now(i))
  BY FS_Subset, Now(i) \in SUBSET net DEF Bounded
<1>5. Left(i) = Cardinality(Now(i)) /\ Left(i)' = Cardinality(Next_(i))
  BY <1>1 DEF Left
<1>6. \A j \in 1 .. i - 1 : Left(j)' = Left(j)
  <2> SUFFICES ASSUME NEW j \in 1 .. i - 1  PROVE Left(j)' = Left(j)
    OBVIOUS
  <2>1. j # 0 /\ Next_(j) = Now(j)
    BY <1>1, <1>3
  <2>2. Left(j) = Cardinality(Now(j)) /\ Left(j)' = Cardinality(Next_(j))
    BY <2>1 DEF Left
  <2> QED  BY <2>1, <2>2
<1>7. Left(0)' = Left(0)
  BY DEF Left, NoFault
<1>8. Left(i)' = Left(i) - 1 /\ Left(i) \in Nat /\ Left(i)' \in Nat
  <2> HIDE DEF Now, Next_, i
  <2> QED  BY <1>2, <1>4, <1>5, FS_RemoveElement, FS_CardinalityType
<1>9. \A j \in 0 .. i - 1 : Left(j)' = Left(j)
  <2> SUFFICES ASSUME NEW j \in 0 .. i - 1  PROVE Left(j)' = Left(j)
    OBVIOUS
  <2>1. j = 0 \/ j \in 1 .. i - 1
    BY <1>1
  <2> QED  BY <2>1, <1>6, <1>7
<1>10. i \in 0 .. 15 /\ Left(i)' \in 0 .. Left(i) - 1
  BY <1>1, <1>8
<1> HIDE DEF i
<1> QED  BY <1>9, <1>10 DEF UsesUp

LEMMA HandledUsed ==
  ASSUME TypeOK, Bounded, NEW m \in net, GoesOn(m)
  PROVE  UsesUp /\ Bounded'
<1>1. PICK out : /\ Handle(m, out) /\ IsFiniteSet(out) /\ events' = events
                 /\ \/ NoFault /\ \A x \in out : Stage[x.type] > Stage[m.type]
                    \/ faults < MaxFaults /\ faults' = faults + 1
  BY DEF GoesOn
<1>2. IsFiniteSet(net')
  <2>1. IsFiniteSet(net \ {m})
    BY FS_RemoveElement DEF Bounded
  <2> QED  BY <1>1, <2>1, FS_Union DEF Handle
<1>3. events' <= MaxEvents /\ faults' <= MaxFaults
  BY <1>1, NetworkAssumption DEF TypeOK, Bounded, NoFault
<1>4. UsesUp
  BY <1>1, BudgetUsed, MessageUsed
<1> QED  BY <1>2, <1>3, <1>4 DEF Bounded

\* The messages named in a handler are finitely many.
LEMMA FiniteImage ==
  ASSUME NEW S, IsFiniteSet(S), NEW f, DOMAIN f = S
  PROVE  IsFiniteSet({f[x] : x \in S})
<1> DEFINE g == [x \in S |-> f[x]]
<1>2. g \in Surjection(S, {f[x] : x \in S})
  BY DEF Surjection
<1> QED  BY <1>2, FS_Surjection

\* A message that nothing follows, one that one of a later stage follows, and a
\* call that fails.
LEMMA OneFollows ==
  ASSUME NEW m, NEW out, Handle(m, out), events' = events,
         out = {} \/ \E x : out = {x} /\ Stage[x.type] > Stage[m.type],
         NoFault \/ Fault("send")
  PROVE  GoesOn(m)
<1>1. IsFiniteSet(out)
  BY FS_EmptySet, FS_Singleton
<1>2. \A x \in out : Stage[x.type] > Stage[m.type]
  OBVIOUS
<1> QED  BY <1>1, <1>2 DEF GoesOn, Fault, CanFail

LEMMA ManyFollow ==
  ASSUME NEW m, NEW out, Handle(m, out), events' = events, IsFiniteSet(out),
         \A x \in out : Stage[x.type] > Stage[m.type],
         NoFault \/ Fault("send")
  PROVE  GoesOn(m)
  BY DEF GoesOn, Fault, CanFail

LEMMA RequestsFinite ==
  ASSUME NEW it, NEW holders, IsFiniteSet(holders)
  PROVE  IsFiniteSet(GetSlices(it, holders))
<1> DEFINE f == [h \in holders |-> [type |-> "get", id |-> h.id, peer |-> h.peer, key |-> it.executor]]
<1>1. IsFiniteSet({f[h] : h \in holders})
  BY FiniteImage
<1>2. GetSlices(it, holders) = {f[h] : h \in holders}
  BY DEF GetSlices
<1> QED  BY <1>1, <1>2

LEMMA HoldersFinite == IsFiniteSet(Pinners) => IsFiniteSet(Holder)
<1> SUFFICES ASSUME IsFiniteSet(Pinners)  PROVE IsFiniteSet(Holder)
  OBVIOUS
<1> DEFINE S == DeploymentIds \X Pinners
           f == [x \in S |-> [id |-> x[1], peer |-> x[2]]]
<1>1. IsFiniteSet(S)
  BY FS_Product, SignNetAssumption
<1>2. IsFiniteSet({f[x] : x \in S})
  <2>1. DOMAIN f = S
    OBVIOUS
  <2> HIDE DEF f, S
  <2> QED  BY <1>1, <2>1, FiniteImage
<1>3. Holder = {f[x] : x \in S}
  <2>1. \A x \in S : f[x] \in Holder
    BY DEF Holder
  <2>2. ASSUME NEW h \in Holder  PROVE h \in {f[x] : x \in S}
    <3>1. <<h.id, h.peer>> \in S /\ h = f[<<h.id, h.peer>>]
      BY DEF Holder
    <3> QED  BY <3>1
  <2> QED  BY <2>1, <2>2
<1> QED  BY <1>2, <1>3

LEMMA SendGoesOn ==
  ASSUME NEW m, NEW it, TrySendToExecutor(m, it), events' = events,
         Stage[m.type] < Stage["sign"]
  PROVE  GoesOn(m)
<1> DEFINE request == [type |-> "sign", peer |-> it.executor.peer, slices |-> it.slices]
<1>1. CASE Handle(m, {}) /\ (NoFault \/ Fault("send"))
  BY <1>1, OneFollows
<1>2. CASE Handle(m, {request}) /\ NoFault
  <2>1. Stage[request.type] > Stage[m.type]
    BY Stages
  <2> HIDE DEF request
  <2> QED  BY <1>2, <2>1, OneFollows
<1> QED  BY <1>1, <1>2 DEF TrySendToExecutor

LEMMA InviteAndFindGoesOn ==
  ASSUME TypeOK, IsFiniteSet(Delegates), NEW m \in net, InviteAndFind(m)
  PROVE  GoesOn(m)
<1>1. m \in DelegateLists /\ m.type = "delegates" /\ events' = events
  BY MessageFields DEF InviteAndFind, TypeOK
<1>2. ASSUME NEW peers \in SUBSET Delegates, NEW ids \in SUBSET m.ids,
             Handle(m, Lookups(m, peers) \cup FindPinners(m, ids)), NoFault \/ Fault("send")
      PROVE  GoesOn(m)
  <2> DEFINE l == [p \in peers |-> [type |-> "profile", ev |-> m.ev, peer |-> p]]
             f == [id \in ids |-> [type |-> "find", ev |-> m.ev, id |-> id]]
             out == Lookups(m, peers) \cup FindPinners(m, ids)
  <2>1. IsFiniteSet(peers) /\ IsFiniteSet(ids)
    <3>1. ids \in SUBSET DeploymentIds
      BY <1>1 DEF DelegateLists
    <3> QED  BY <3>1, FS_Subset, SignNetAssumption
  <2>2. IsFiniteSet({l[p] : p \in peers}) /\ IsFiniteSet({f[id] : id \in ids})
    BY <2>1, FiniteImage
  <2>3. Lookups(m, peers) = {l[p] : p \in peers} /\ FindPinners(m, ids) = {f[id] : id \in ids}
    BY DEF Lookups, FindPinners
  <2>4. IsFiniteSet(out)
    BY <2>2, <2>3, FS_Union
  <2>5. \A x \in out : x.type \in {"profile", "find"}
    BY DEF Lookups, FindPinners
  <2>6. \A x \in out : Stage[x.type] > Stage[m.type]
    BY <1>1, <2>5, Stages
  <2> QED  BY <1>1, <1>2, <2>4, <2>6, ManyFollow
<1> QED  BY <1>2 DEF InviteAndFind

LEMMA DelegatorGoesOn ==
  ASSUME TypeOK, IsFiniteSet(Delegates), IsFiniteSet(Pinners),
         NEW m \in net, DelegatorHandles(m)
  PROVE  GoesOn(m)
<1>t. m \in Message
  BY DEF TypeOK
<1>e. events' = events
  BY DEF DelegatorHandles, NodeReady, BecomeDelegator, BeginRound, InviteAndFind, InviteExecutor,
         PinnersAttested, StartAttestation, ExecutorAttested, PinnerAttested, SliceReturned,
         CommitResult, delegatorVars
<1>1. CASE NodeReady(m)
  BY <1>1, <1>e, OneFollows, Stages DEF NodeReady
<1>2. CASE BecomeDelegator(m)
  BY <1>2, <1>e, OneFollows, Stages DEF BecomeDelegator
<1>3. CASE BeginRound(m)
  <2> SUFFICES ASSUME NEW ids,
                      \/ Handle(m, {[type |-> "delegates", ev |-> m.ev, ids |-> ids]}) /\ NoFault
                      \/ Handle(m, {}) /\ Fault("send")
               PROVE  GoesOn(m)
    BY <1>3 DEF BeginRound
  <2>1. Stage[[type |-> "delegates", ev |-> m.ev, ids |-> ids].type] > Stage[m.type]
    BY <1>3, Stages DEF BeginRound
  <2> QED  BY <1>e, <2>1, OneFollows
<1>4. CASE InviteAndFind(m)
  BY <1>4, InviteAndFindGoesOn
<1>5. CASE InviteExecutor(m)
  <2>1. m \in Invitations /\ m.type = "profile"
    BY <1>5, <1>t, MessageFields DEF InviteExecutor
  <2> DEFINE x == [m EXCEPT !.type = "candidate"]
  <2>2. Stage[x.type] > Stage[m.type]
    BY <2>1, Stages DEF Invitations
  <2>3. Handle(m, {x}) /\ NoFault
    BY <1>5 DEF InviteExecutor
  <2> HIDE DEF x
  <2> QED  BY <1>e, <2>2, <2>3, OneFollows
<1>6. CASE PinnersAttested(m)
  <2> PICK peers \in SUBSET Pinners :
             Handle(m, {[type |-> "found", ev |-> m.ev, id |-> m.id, peer |-> p] : p \in peers})
    BY <1>6 DEF PinnersAttested
  <2> DEFINE f == [p \in peers |-> [type |-> "found", ev |-> m.ev, id |-> m.id, peer |-> p]]
  <2>1. IsFiniteSet({f[p] : p \in peers})
    <3>1. IsFiniteSet(peers) /\ DOMAIN f = peers
      BY FS_Subset
    <3> HIDE DEF f
    <3> QED  BY <3>1, FiniteImage
  <2>2. \A x \in {f[p] : p \in peers} : Stage[x.type] > Stage[m.type]
    BY <1>6, Stages DEF PinnersAttested
  <2>3. Handle(m, {f[p] : p \in peers})
    OBVIOUS
  <2> HIDE DEF f
  <2> QED  BY <1>6, <1>e, <2>1, <2>2, <2>3, ManyFollow DEF PinnersAttested
<1>7. CASE StartAttestation(m)
  <2>1. m \in Applications /\ m.type = "apply"
    BY <1>7, <1>t, MessageFields DEF StartAttestation
  <2> DEFINE x == [m EXCEPT !.type = "attest"]
  <2>2. Stage[x.type] > Stage[m.type]
    BY <2>1, Stages DEF Applications
  <2>3. (Handle(m, {x}) \/ Handle(m, {})) /\ NoFault
    BY <1>7 DEF StartAttestation
  <2> HIDE DEF x
  <2> QED  BY <1>e, <2>2, <2>3, OneFollows
<1>8. CASE ExecutorAttested(m)
  <2> DEFINE it == [item EXCEPT !.executor = [peer |-> m.peer, rsa |-> m.rsa], !.waiting = {}]
  <2>1. m.type = "attest" /\ IsFiniteSet(item.waiting)
    BY <1>8, HoldersFinite, FS_Subset DEF ExecutorAttested, TypeOK, StoreItem
  <2>2. CASE Handle(m, {}) /\ NoFault
    BY <1>e, <2>2, OneFollows
  <2>3. CASE TrySendToExecutor(m, it)
    BY <1>e, <2>1, <2>3, SendGoesOn, Stages
  <2>4. ASSUME NEW sent \in SUBSET item.waiting, Handle(m, GetSlices(it, sent)), NoFault \/ Fault("send")
        PROVE  GoesOn(m)
    <3> HIDE DEF it
    <3>1. IsFiniteSet(GetSlices(it, sent))
      BY <2>1, FS_Subset, RequestsFinite
    <3>2. \A x \in GetSlices(it, sent) : x.type = "get"
      BY DEF GetSlices
    <3>3. \A x \in GetSlices(it, sent) : Stage[x.type] > Stage[m.type]
      BY <2>1, <3>2, Stages
    <3> QED  BY <1>e, <2>4, <3>1, <3>3, ManyFollow
  <2> QED  BY <1>8, <2>2, <2>3, <2>4 DEF ExecutorAttested, Interrupted
<1>9. CASE PinnerAttested(m)
  <2> DEFINE h == [id |-> m.id, peer |-> m.peer]
  <2>1. CASE Handle(m, {}) /\ NoFault
    BY <1>e, <2>1, OneFollows
  <2>2. CASE Handle(m, GetSlices(item, {h})) /\ NoFault
    <3>1. IsFiniteSet(GetSlices(item, {h}))
      BY FS_Singleton, RequestsFinite
    <3>2. \A x \in GetSlices(item, {h}) : x.type = "get"
      BY DEF GetSlices
    <3>3. \A x \in GetSlices(item, {h}) : Stage[x.type] > Stage[m.type]
      BY <1>9, <3>2, Stages DEF PinnerAttested
    <3> QED  BY <1>e, <2>2, <3>1, <3>3, ManyFollow
  <2> QED  BY <1>9, <2>1, <2>2 DEF PinnerAttested
<1>10. CASE SliceReturned(m)
  <2>1. CASE Handle(m, {}) /\ (NoFault \/ Fault("send"))
    BY <1>e, <2>1, OneFollows
  <2>2. ASSUME NEW it, TrySendToExecutor(m, it)  PROVE GoesOn(m)
    BY <1>10, <1>e, <2>2, SendGoesOn, Stages DEF SliceReturned
  <2> QED  BY <1>10, <2>1, <2>2 DEF SliceReturned
<1>11. CASE CommitResult(m)
  BY <1>11, <1>e, OneFollows DEF CommitResult
<1> QED
  BY <1>1, <1>2, <1>3, <1>4, <1>5, <1>6, <1>7, <1>8, <1>9, <1>10, <1>11 DEF DelegatorHandles

LEMMA NodeGoesOn ==
  ASSUME TypeOK, NEW m \in net, NodeHandles(m), UNCHANGED delegatorVars
  PROVE  GoesOn(m)
<1>t. m \in Message /\ events' = events
  BY DEF TypeOK, delegatorVars
<1>1. CASE ApplyAsExecutor(m)
  <2> DEFINE apply == [type |-> "apply", peer |-> m.peer, rsa |-> rsaKeys[m.peer] + 1]
  <2>1. Stage[apply.type] > Stage[m.type]
    BY <1>1, Stages DEF ApplyAsExecutor
  <2>2. \/ Handle(m, {apply}) /\ NoFault
        \/ Handle(m, {}) /\ Fault("send")
    BY <1>1 DEF ApplyAsExecutor
  <2> HIDE DEF apply
  <2> QED  BY <1>t, <2>1, <2>2, OneFollows
<1>2. CASE LookUpDeployment(m) \/ ReturnSlice(m)
  <2>1. m \in SliceMessages
    BY <1>2, <1>t, MessageFields DEF LookUpDeployment, ReturnSlice
  <2>2. ASSUME NEW x, Handle(m, {x}), NoFault, Stage[x.type] > Stage[m.type]  PROVE GoesOn(m)
    BY <1>t, <2>2, OneFollows
  <2>3. CASE LookUpDeployment(m)
    <3> DEFINE x == [m EXCEPT !.type = "info"]
    <3>1. x.type = "info"
      BY <2>1 DEF SliceMessages
    <3>2. Handle(m, {x}) /\ NoFault
      BY <2>3 DEF LookUpDeployment
    <3>3. Stage[x.type] > Stage[m.type]
      BY <2>3, <3>1, Stages DEF LookUpDeployment
    <3> HIDE DEF x
    <3> QED  BY <2>2, <3>2, <3>3
  <2>4. CASE ReturnSlice(m)
    <3> DEFINE x == [m EXCEPT !.type = "slice"]
    <3>1. x.type = "slice"
      BY <2>1 DEF SliceMessages
    <3>2. Handle(m, {x}) /\ NoFault
      BY <2>4 DEF ReturnSlice
    <3>3. Stage[x.type] > Stage[m.type]
      BY <2>4, <3>1, Stages DEF ReturnSlice
    <3> HIDE DEF x
    <3> QED  BY <2>2, <3>2, <3>3
  <2> QED  BY <1>2, <2>3, <2>4
<1>3. CASE Sign(m)
  <2> DEFINE commit == [type |-> "commit", peer |-> m.peer]
  <2>1. Stage[commit.type] > Stage[m.type]
    BY <1>3, Stages DEF Sign
  <2>2. \/ Handle(m, {commit}) /\ NoFault
        \/ Handle(m, {}) /\ (NoFault \/ Fault("send"))
    BY <1>3 DEF Sign
  <2> HIDE DEF commit
  <2> QED  BY <1>t, <2>1, <2>2, OneFollows
<1> QED  BY <1>1, <1>2, <1>3 DEF NodeHandles

LEMMA EnvironmentUsesUp ==
  ASSUME TypeOK, Bounded, Environment
  PROVE  UsesUp /\ Bounded'
<1> USE NetworkAssumption DEF TypeOK
<1>1. CASE PortalEvent /\ UNCHANGED nodeVars
  <2>1. UsesUp
    BY <1>1, BudgetUsed DEF PortalEvent, NoFault
  <2>2. IsFiniteSet(net')
    BY <1>1, FS_AddElement DEF PortalEvent, Bounded
  <2>3. events' <= MaxEvents /\ faults' <= MaxFaults
    BY <1>1 DEF PortalEvent, Bounded, NoFault
  <2> QED  BY <2>1, <2>2, <2>3 DEF Bounded
<1>2. CASE \E m \in net : Lose(m) /\ UNCHANGED <<delegatorVars, nodeVars>>
  <2> PICK m \in net : Lose(m) /\ UNCHANGED <<delegatorVars, nodeVars>>
    BY <1>2
  <2>1. GoesOn(m)
    BY FS_EmptySet DEF GoesOn, Lose, Fault, CanFail, delegatorVars
  <2> QED  BY <2>1, HandledUsed
<1>3. CASE \E p \in Delegates : Expire(p) /\ UNCHANGED delegatorVars
  <2>1. faults < MaxFaults /\ faults' = faults + 1 /\ events' = events /\ net' = net
    BY <1>3 DEF Expire, Fault, CanFail, delegatorVars
  <2>2. Bounded'
    BY <2>1 DEF Bounded
  <2> QED  BY <2>1, <2>2, BudgetUsed
<1> QED  BY <1>1, <1>2, <1>3 DEF Environment

\* Every step of a signing task uses something up, whatever is lost, fails, expires
\* or is redelivered: no handler puts a message back, and none goes back to an
\* earlier stage to wait or to try again.
THEOREM SigningRunsOut == IsFiniteSet(Delegates) /\ IsFiniteSet(Pinners) => (Spec => RunsOut)
<1> SUFFICES ASSUME IsFiniteSet(Delegates), IsFiniteSet(Pinners)  PROVE Spec => RunsOut
  OBVIOUS
<1>1. Init => Bounded
  BY FS_EmptySet, NetworkAssumption DEF Init, DelegatorInit, Bounded
<1>2. TypeOK /\ Bounded /\ Next => UsesUp /\ Bounded'
  <2>1. ASSUME TypeOK, Bounded, Deliver  PROVE UsesUp /\ Bounded'
    BY <2>1, DelegatorGoesOn, NodeGoesOn, HandledUsed DEF Deliver
  <2> QED  BY <2>1, EnvironmentUsesUp DEF Next
<1>3. TypeOK /\ Bounded /\ [Next]_vars => Bounded'
  BY <1>2 DEF vars, delegatorVars, Bounded
<1>4. TypeOK /\ Bounded /\ [Next]_vars => [UsesUp]_vars
  BY <1>2
<1>5. [UsesUp]_vars => [\E i \in 0 .. 15 : /\ Left(i)' \in 0 .. Left(i) - 1
                                           /\ \A j \in 0 .. i - 1 : Left(j)' = Left(j)]_vars
  BY DEF UsesUp
<1> QED  BY <1>1, <1>3, <1>4, <1>5, TypeCorrect, PTL DEF Spec, RunsOut
=============================================================================
