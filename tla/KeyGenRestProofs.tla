-------------------------- MODULE KeyGenRestProofs --------------------------
(***************************************************************************)
(* A round in which nothing fails comes to rest only when it is done, and  *)
(* no behaviour goes on for ever, whatever fails or comes twice: for all   *)
(* sets of nodes and every n up to 254, whatever the order in which the    *)
(* messages are handled.                                                   *)
(***************************************************************************)
EXTENDS KeyGenRoundProofs

-----------------------------------------------------------------------------
(* What a step leaves under way *)

\* Once there is an executor the invitations do not matter any more.
LEMMA InvitedAfterElection ==
  ASSUME InvitedUnderWay, OneRound', item'.executor # NoPeer, invited' = invited
  PROVE  InvitedUnderWay'
<1>1. item'.state # "None" /\ \A m \in net' : m.type \notin StartTypes
  BY DEF OneRound, OneElection, Undecided
<1> QED  BY <1>1 DEF InvitedUnderWay

\* Without new candidacies and RSA keys, whoever is served stays so.
LEMMA ServedStay ==
  ASSUME rsaKey' = rsaKey,
         \A x \in net' : x.type \in CandidateTypes =>
           \E y \in net : y.type \in CandidateTypes /\ y.peer = x.peer
  PROVE  Served \subseteq Served'
  BY DEF Served

LEMMA KeysStay ==
  ASSUME KeysHeld, Served \subseteq Served',
         item'.candExecutors = item.candExecutors, item'.candPinners = item.candPinners,
         item'.pinners = item.pinners,
         \A x \in net' :
           \/ x \in net /\ (x.type \in {"apply", "attest"} => rsaKey'[x.peer] = rsaKey[x.peer])
           \/ KeyFits(x)'
  PROVE  KeysHeld'
<1>1. {item'.candExecutors, item'.candPinners, item'.pinners} \subseteq Seq(Served')
  BY SeqMonotone DEF KeysHeld
<1>2. \A x \in net' : KeyFits(x)'
  <2> SUFFICES ASSUME NEW x \in net', x \in net,
                      x.type \in {"apply", "attest"} => rsaKey'[x.peer] = rsaKey[x.peer]
               PROVE  KeyFits(x)'
    OBVIOUS
  <2>1. KeyFits(x)
    BY DEF KeysHeld
  <2> QED  BY <2>1 DEF KeyFits
<1> QED  BY <1>1, <1>2 DEF KeysHeld

LEMMA ExecutionStays ==
  ASSUME ExecutionUnderWay, item' = item,
         \A x \in net : x.type \in ExecutionTypes => x \in net'
  PROVE  ExecutionUnderWay'
  BY DEF ExecutionUnderWay

LEMMA AnswersStay ==
  ASSUME AnswersUnderWay, item' = item,
         \A x \in net : x.type \in SliceTypes =>
           \E y \in net' : y.type \in SliceTypes /\ y.peer = x.peer
  PROVE  AnswersUnderWay'
  BY DEF AnswersUnderWay, AllAnswered, Answered

LEMMA RememberedStay ==
  ASSUME TypeOK, RolesKept, SlicesRemembered, UNCHANGED <<item, dataCid, deployId>>,
         \A x \in net' : x \in net \/ x.type \notin {"uploaded", "deployed"}
  PROVE  SlicesRemembered'
<1>1. \A d \in deployId' : pin'[d.peer] # "None"
  BY DEF TypeOK, Deployment, RolesKept, SlicesRemembered
<1>2. \A x \in net' : RememberedBy(x)'
  BY DEF SlicesRemembered, RememberedBy
<1> QED  BY <1>1, <1>2 DEF SlicesRemembered

LEMMA ResultStays ==
  ASSUME ResultUnderWay, UNCHANGED <<item, published, committed>>,
         \A x \in net : x.type \in ResultTypes => x \in net'
  PROVE  ResultUnderWay'
<1>1. \A x \in net : x.type \in {"result", "asset"} => x \in net'
  BY DEF ResultTypes
<1>2. FirstSlices' = FirstSlices /\ \A d : Committed(d)' = Committed(d)
  BY DEF FirstSlices, Committed
<1> QED  BY <1>1, <1>2 DEF ResultUnderWay

\* Without a key nothing has been distributed.
LEMMA BeforeSlices ==
  ASSUME TypeOK, RolesKept, SlicesRemembered, OneRound', item'.key = NoKey,
         deployId' = deployId
  PROVE  AnswersUnderWay' /\ SlicesRemembered' /\ ResultUnderWay'
<1>1. /\ item'.state \in Undecided \cup {"SentToExecutor"} /\ item'.answers = {}
      /\ \A x \in net' : x.type \notin SliceTypes
  BY DEF OneRound, OneExecution
<1>2. item'.state \notin {"SentToInitialPinner", "ReceivedAllPinnerResponse"}
  BY <1>1 DEF Undecided
<1>3. published' = <<>>
  BY <1>2 DEF OneRound, OnePublication
<1>4. \A x \in net' : RememberedBy(x)'
  BY <1>1 DEF RememberedBy, SliceTypes
<1>5. \A d \in deployId' : pin'[d.peer] # "None"
  BY DEF TypeOK, Deployment, RolesKept, SlicesRemembered
<1> QED  BY <1>1, <1>2, <1>3, <1>4, <1>5 DEF AnswersUnderWay, SlicesRemembered, ResultUnderWay

\* Before the election no execution is under way, and none is missing.
LEMMA BeforeExecution ==
  ASSUME TypeOK, RolesKept, SlicesRemembered, OneRound', item'.executor = NoPeer,
         item'.state # "Init", deployId' = deployId
  PROVE  ExecutionUnderWay' /\ AnswersUnderWay' /\ SlicesRemembered' /\ ResultUnderWay'
<1>1. item'.key = NoKey /\ item'.state \in Undecided
  BY DEF OneRound, OneElection
<1>2. ExecutionUnderWay'
  BY <1>1 DEF ExecutionUnderWay, Undecided
<1> QED  BY <1>1, <1>2, BeforeSlices
-----------------------------------------------------------------------------
(* The start of the round *)

\* A step of the start invites nobody.
LEMMA StartGoesOn ==
  ASSUME TypeOK, InvitedUnderWay, item.executor = NoPeer, invited = {}, invited' = {},
         item'.candExecutors = <<>>, item'.candPinners = <<>>, item'.pinners = <<>>,
         exe' = exe, pin' = pin, \A x \in net' : x.type \in StartTypes
  PROVE  InvitedUnderWay' /\ KeysHeld'
<1>1. \A x \in net' : x.type \notin CandidateTypes \cup {"apply", "attest", "slice", "upload"}
  BY DEF StartTypes, CandidateTypes
<1>2. \A p \in Peers : exe[p] = "None" /\ pin[p] = "None"
  BY DEF InvitedUnderWay
<1>3. InvitedUnderWay'
  BY <1>1, <1>2 DEF InvitedUnderWay
<1>4. KeysHeld'
  <2>1. \A x \in net' : KeyFits(x)'
    BY <1>1 DEF KeyFits
  <2>2. <<>> \in Seq(Served')
    OBVIOUS
  <2> QED  BY <2>1, <2>2 DEF KeysHeld
<1> QED  BY <1>3, <1>4

LEMMA PortalEventUnderWay ==
  ASSUME MaxEvents = 1, TypeOK, RolesKept, OneRound, OneRound', UnderWay,
         PortalEvent, UNCHANGED nodeVars
  PROVE  UnderWay'
<1>1. net = {} /\ item = Fresh("None") /\ events = 0
  BY DEF PortalEvent, TypeOK, OneRound, OneStart
<1>2. net' = {[type |-> "nodeReady", ev |-> events + 1]} /\ UNCHANGED <<item, invited>>
  BY <1>1 DEF PortalEvent
<1>3. invited = {}
  BY <1>1 DEF UnderWay, InvitedUnderWay, Fresh
<1>4. InvitedUnderWay' /\ KeysHeld'
  BY <1>1, <1>2, <1>3, StartGoesOn DEF UnderWay, Fresh, StartTypes, nodeVars
<1>5. deployId' = deployId /\ item'.executor = NoPeer /\ item'.state # "Init"
  BY <1>1, <1>2 DEF Fresh, nodeVars
<1> QED  BY <1>4, <1>5, BeforeExecution DEF UnderWay

LEMMA StartUnderWay ==
  ASSUME TypeOK, RolesKept, OneRound, OneRound', UnderWay, faults = 0, faults' = 0,
         NEW m \in net, NodeReady(m) \/ BecomeDelegator(m), UNCHANGED nodeVars
  PROVE  UnderWay'
<1>1. m.type \in {"nodeReady", "delegatorKey"} /\ m.type \in StartTypes
  BY DEF NodeReady, BecomeDelegator, StartTypes
<1>2. net = {m} /\ item = Fresh("None")
  BY <1>1 DEF OneRound, OneStart
<1>3. invited = {}
  BY <1>2 DEF UnderWay, InvitedUnderWay, Fresh
<1>4. \A x \in net' : x.type \in StartTypes
  <2>1. \/ net' \subseteq net
        \/ net' \subseteq (net \ {m}) \cup {[type |-> "delegatorKey", ev |-> m.ev]}
        \/ net' \subseteq (net \ {m}) \cup {[type |-> "delegates", ev |-> m.ev]}
    BY DEF NodeReady, BecomeDelegator, Handle
  <2> QED  BY <1>1, <1>2, <2>1 DEF StartTypes
<1>5. invited' = {} /\ item' \in {Fresh("None"), Fresh("InvitedCandidates")}
  <2>1. CASE NodeReady(m)
    BY <1>2, <1>3, <2>1 DEF NodeReady, delegatorVars
  <2>2. CASE BecomeDelegator(m)
    <3>1. ~Fault("send")
      BY DEF Fault
    <3> QED  BY <1>2, <1>3, <2>2, <3>1 DEF BecomeDelegator, NewRound
  <2> QED  BY <2>1, <2>2
<1>6. /\ item'.executor = NoPeer /\ item'.state # "Init" /\ item.executor = NoPeer
      /\ item'.candExecutors = <<>> /\ item'.candPinners = <<>> /\ item'.pinners = <<>>
      /\ invited' = {}
  BY <1>2, <1>5 DEF Fresh
<1>7. InvitedUnderWay' /\ KeysHeld'
  BY <1>3, <1>4, <1>6, StartGoesOn DEF UnderWay, nodeVars
<1> QED  BY <1>6, <1>7, BeforeExecution DEF UnderWay, nodeVars

\* Whoever is invited has a message under way, and nobody is invited twice.
LEMMA DelegatesUnderWay ==
  ASSUME ProfilesAgree, TypeOK, RolesKept, OneRound, OneRound', UnderWay,
         NEW m \in net, Delegates(m), UNCHANGED nodeVars
  PROVE  UnderWay'
<1>1. m.type \in StartTypes /\ m.type = "delegates"
  BY DEF Delegates, StartTypes
<1>2. net = {m} /\ item = Fresh("InvitedCandidates") /\ invited = {} /\ item' = item
  BY <1>1 DEF OneRound, OneStart, UnderWay, InvitedUnderWay, Delegates
<1>3. /\ item.executor = NoPeer /\ item.state = "InvitedCandidates"
      /\ item.candExecutors = <<>> /\ item.candPinners = <<>> /\ item.pinners = <<>>
  BY <1>2 DEF Fresh
<1>4. PICK executors \in SUBSET Peers, pinners \in SUBSET Peers :
        /\ executors \cap pinners = {}
        /\ net' = {[type |-> "profile", ev |-> m.ev, peer |-> p] : p \in executors}
             \cup [type : {"candidate"}, ev : {m.ev}, peer : pinners, exec : {FALSE}]
        /\ invited' = [peer : executors, exec : {TRUE}] \cup [peer : pinners, exec : {FALSE}]
  BY <1>2 DEF Delegates, SwarmPeers, Handle
<1> DEFINE A == {[type |-> "profile", ev |-> m.ev, peer |-> p] : p \in executors}
           B == [type : {"candidate"}, ev : {m.ev}, peer : pinners, exec : {FALSE}]
           I == [peer : executors, exec : {TRUE}]
           J == [peer : pinners, exec : {FALSE}]
<1>5. \A x \in A : x.type = "profile" /\ x.peer \in executors
  OBVIOUS
<1>6. \A x \in B : x.type = "candidate" /\ x.peer \in pinners /\ x.exec = FALSE
  OBVIOUS
<1>7. \A i \in I : i.peer \in executors /\ i.exec = TRUE
                   /\ [type |-> "profile", ev |-> m.ev, peer |-> i.peer] \in A
  OBVIOUS
<1>8. \A j \in J : j.peer \in pinners /\ j.exec = FALSE
                   /\ [type |-> "candidate", ev |-> m.ev, peer |-> j.peer, exec |-> FALSE] \in B
  OBVIOUS
<1>9. /\ \A p \in executors : [peer |-> p, exec |-> TRUE] \in I
      /\ \A p \in pinners : [peer |-> p, exec |-> FALSE] \in J
  OBVIOUS
<1>10. net' = A \cup B /\ invited' = I \cup J
  BY <1>4
<1>11. \A i, j \in invited' : i.peer = j.peer => i = j
  <2>1. ASSUME NEW i \in I \cup J  PROVE i = [peer |-> i.peer, exec |-> i.exec]
    <3>1. i \in I => i = [peer |-> i.peer, exec |-> i.exec]
      OBVIOUS
    <3>2. i \in J => i = [peer |-> i.peer, exec |-> i.exec]
      OBVIOUS
    <3> QED  BY <3>1, <3>2
  <2> HIDE DEF I, J
  <2> SUFFICES ASSUME NEW i \in I \cup J, NEW j \in I \cup J, i.peer = j.peer
               PROVE  i = j
    BY <1>10
  <2>2. i.exec = j.exec
    BY <1>4, <1>7, <1>8
  <2> QED  BY <2>1, <2>2
<1> HIDE DEF A, B, I, J
<1>12. \A x \in net' : x.type \in {"profile", "candidate"}
  BY <1>5, <1>6, <1>10
<1>13. \A x \in net' :
         /\ x.type \in CandidateTypes /\ x.type \notin StartTypes
         /\ x.type \notin {"apply", "attest", "slice", "upload"}
  BY <1>12 DEF CandidateTypes, StartTypes
<1>14. ASSUME NEW i \in invited'  PROVE \E x \in net' : Follows(x, i)
  <2>1. CASE i \in I
    <3> DEFINE x == [type |-> "profile", ev |-> m.ev, peer |-> i.peer]
    <3>1. x \in net' /\ x.type = "profile" /\ x.peer = i.peer /\ i.exec = TRUE
      BY <1>7, <1>10, <2>1
    <3> QED  BY <3>1 DEF Follows, CandidateTypes
  <2>2. CASE i \in J
    <3> DEFINE x == [type |-> "candidate", ev |-> m.ev, peer |-> i.peer, exec |-> FALSE]
    <3>1. x \in net' /\ x.type = "candidate" /\ x.peer = i.peer /\ i.exec = x.exec
      BY <1>8, <1>10, <2>2
    <3> QED  BY <3>1 DEF Follows, CandidateTypes
  <2> QED  BY <1>10, <2>1, <2>2
<1>15. ASSUME NEW x \in net'  PROVE \E i \in invited' : Follows(x, i)
  <2>1. CASE x \in A
    <3> DEFINE i == [peer |-> x.peer, exec |-> TRUE]
    <3>1. i \in invited' /\ x.type = "profile" /\ x.peer = i.peer /\ i.exec = TRUE
      BY <1>5, <1>9, <1>10, <2>1
    <3> QED  BY <3>1 DEF Follows, CandidateTypes
  <2>2. CASE x \in B
    <3> DEFINE i == [peer |-> x.peer, exec |-> FALSE]
    <3>1. i \in invited' /\ x.type = "candidate" /\ x.peer = i.peer /\ i.exec = x.exec
      BY <1>6, <1>9, <1>10, <2>2
    <3> QED  BY <3>1 DEF Follows, CandidateTypes
  <2> QED  BY <1>10, <2>1, <2>2
<1>16. \A p \in Peers : exe[p] = "None" /\ pin[p] = "None"
  BY <1>2, <1>3 DEF UnderWay, InvitedUnderWay
<1>17. InvitedUnderWay'
  <2>1. item'.state # "None" /\ \A x \in net' : x.type \notin StartTypes
    BY <1>2, <1>3, <1>13
  <2>2. exe' = exe /\ pin' = pin
    BY DEF nodeVars
  <2> QED  BY <1>11, <1>14, <1>15, <1>16, <2>1, <2>2 DEF InvitedUnderWay
<1>18. KeysHeld'
  <2>1. \A x \in net' : KeyFits(x)'
    BY <1>13 DEF KeyFits
  <2>2. <<>> \in Seq(Served')
    OBVIOUS
  <2> QED  BY <1>2, <1>3, <2>1, <2>2 DEF KeysHeld
<1>19. deployId' = deployId /\ item'.executor = NoPeer /\ item'.state # "Init"
  BY <1>2, <1>3 DEF nodeVars
<1> QED  BY <1>17, <1>18, <1>19, BeforeExecution DEF UnderWay
-----------------------------------------------------------------------------
(* Candidacies *)

\* A candidacy follows one invitation.
LEMMA FollowsOne ==
  ASSUME NEW i \in [peer : Peers, exec : BOOLEAN], NEW j \in [peer : Peers, exec : BOOLEAN],
         NEW m, Follows(m, i), Follows(m, j)
  PROVE  i = j
<1>1. i.peer = j.peer
  BY DEF Follows
<1>2. i.exec = j.exec
  BY DEF Follows
<1> QED  BY <1>1, <1>2

\* A step of a candidacy leaves its next message, and gives the node no role but
\* the one it was invited for.
LEMMA InvitedGoOn ==
  ASSUME TypeOK, InvitedUnderWay, OneRound', UNCHANGED <<item, invited>>,
         NEW m \in net, m.type \in CandidateTypes,
         NEW x, x.type \in CandidateTypes, net' = (net \ {m}) \cup {x},
         \A i \in invited : Follows(m, i) => Follows(x, i),
         \A p \in Peers :
           /\ exe'[p] # "None" => exe[p] # "None" \/ Follows(m, [peer |-> p, exec |-> TRUE])
           /\ pin'[p] # "None" => pin[p] # "None" \/ Follows(m, [peer |-> p, exec |-> FALSE])
  PROVE  InvitedUnderWay'
<1>1. CASE item.executor # NoPeer
  BY <1>1, InvitedAfterElection
<1>2. CASE item.executor = NoPeer
  <2>1. /\ \A i \in invited : Stored(i) \/ \E y \in net : Follows(y, i)
        /\ \A y \in net : y.type \in CandidateTypes => \E i \in invited : Follows(y, i)
    BY <1>2 DEF InvitedUnderWay
  <2>2. PICK i \in invited : Follows(m, i)
    BY <2>1
  <2>3. i \in [peer : Peers, exec : BOOLEAN]
    BY DEF TypeOK
  <2>4. ASSUME NEW e \in BOOLEAN, NEW p \in Peers, Follows(m, [peer |-> p, exec |-> e])
        PROVE  [peer |-> p, exec |-> e] \in invited
    <3>1. [peer |-> p, exec |-> e] = i
      BY <2>2, <2>3, <2>4, FollowsOne
    <3> QED  BY <3>1
  <2>5. ASSUME NEW p \in Peers
        PROVE  /\ exe'[p] # "None" => [peer |-> p, exec |-> TRUE] \in invited
               /\ pin'[p] # "None" => [peer |-> p, exec |-> FALSE] \in invited
    <3>1. /\ exe[p] # "None" => [peer |-> p, exec |-> TRUE] \in invited
          /\ pin[p] # "None" => [peer |-> p, exec |-> FALSE] \in invited
      BY <1>2 DEF InvitedUnderWay
    <3> QED  BY <2>4, <3>1
  <2>6. \A j \in invited : Stored(j)' \/ \E y \in net' : Follows(y, j)
    BY <2>1 DEF Stored
  <2>7. \A y \in net' : y.type \in CandidateTypes => \E j \in invited : Follows(y, j)
    BY <2>1, <2>2
  <2>8. x.type \notin StartTypes
    BY DEF StartTypes, CandidateTypes
  <2>9. item'.state = "None" \/ (\E y \in net' : y.type \in StartTypes) => invited' = {}
    BY <2>8 DEF InvitedUnderWay
  <2>10. \A j, k \in invited' : j.peer = k.peer => j = k
    BY DEF InvitedUnderWay
  <2> QED  BY <2>5, <2>6, <2>7, <2>9, <2>10 DEF InvitedUnderWay
<1> QED  BY <1>1, <1>2

LEMMA CandidacyUnderWay ==
  ASSUME TypeOK, RolesKept, OneRound', UnderWay,
         UNCHANGED <<item, invited, dataCid, deployId, published, committed>>,
         NEW m \in net, m.type \in CandidateTypes,
         NEW x, x.type \in CandidateTypes, net' = (net \ {m}) \cup {x},
         \A i \in invited : Follows(m, i) => Follows(x, i),
         \A p \in Peers :
           /\ exe'[p] # "None" => exe[p] # "None" \/ Follows(m, [peer |-> p, exec |-> TRUE])
           /\ pin'[p] # "None" => pin[p] # "None" \/ Follows(m, [peer |-> p, exec |-> FALSE]),
         Served \subseteq Served', KeyFits(x)',
         \A y \in net \ {m} :
           y.type \in {"apply", "attest"} => rsaKey'[y.peer] = rsaKey[y.peer]
  PROVE  UnderWay'
<1>1. m.type \notin ExecutionTypes \cup SliceTypes \cup ResultTypes
      /\ x.type \notin {"uploaded", "deployed"}
  BY DEF CandidateTypes, ExecutionTypes, SliceTypes, ResultTypes
<1>2. InvitedUnderWay'
  BY InvitedGoOn DEF UnderWay
<1>3. KeysHeld'
  <2>1. \A y \in net' :
          \/ y \in net /\ (y.type \in {"apply", "attest"} => rsaKey'[y.peer] = rsaKey[y.peer])
          \/ KeyFits(y)'
    <3> SUFFICES ASSUME NEW y \in net', y # x
                 PROVE  y \in net /\ (y.type \in {"apply", "attest"} =>
                                        rsaKey'[y.peer] = rsaKey[y.peer])
      OBVIOUS
    <3> QED  OBVIOUS
  <2> QED  BY <2>1, KeysStay DEF UnderWay
<1>4. ExecutionUnderWay'
  BY <1>1, ExecutionStays DEF UnderWay
<1>5. AnswersUnderWay'
  BY <1>1, AnswersStay DEF UnderWay
<1>6. SlicesRemembered'
  BY <1>1, RememberedStay DEF UnderWay
<1>7. ResultUnderWay'
  BY <1>1, ResultStays DEF UnderWay
<1> QED  BY <1>2, <1>3, <1>4, <1>5, <1>6, <1>7 DEF UnderWay

\* Steps that generate no RSA key.
LEMMA ProfileUnderWay ==
  ASSUME TypeOK, RolesKept, OneRound', UnderWay,
         NEW m \in net, Profile(m), UNCHANGED nodeVars
  PROVE  UnderWay'
<1> DEFINE x == [type |-> "candidate", ev |-> m.ev, peer |-> m.peer, exec |-> TRUE]
<1>1. /\ m.type = "profile" /\ net' = (net \ {m}) \cup {x}
      /\ UNCHANGED <<item, invited, dataCid, deployId, published, committed, exe, pin, rsaKey>>
  BY DEF Profile, Handle, delegatorVars, nodeVars
<1>2. x.type = "candidate" /\ x.peer = m.peer /\ x.exec = TRUE
  OBVIOUS
<1> HIDE DEF x
<1>3. m.type \in CandidateTypes /\ x.type \in CandidateTypes /\ KeyFits(x)'
  BY <1>1, <1>2 DEF CandidateTypes, KeyFits
<1>4. ASSUME NEW i \in invited, Follows(m, i)  PROVE Follows(x, i)
  <2>1. i.exec \in BOOLEAN
    BY DEF TypeOK
  <2> QED  BY <1>1, <1>2, <1>3, <1>4, <2>1 DEF Follows
<1>5. Served \subseteq Served'
  BY <1>1, <1>2, <1>3, ServedStay
<1> QED  BY <1>1, <1>3, <1>4, <1>5, CandidacyUnderWay

\* An invited node has no item of the other role, so that the request is taken.
LEMMA CandidateRequestUnderWay ==
  ASSUME TypeOK, RolesKept, OneRound, OneRound', UnderWay,
         NEW m \in net, CandidateRequest(m), UNCHANGED delegatorVars
  PROVE  UnderWay'
<1> DEFINE x == Verify(m)
<1>1. /\ m.type = "candidate" /\ m \in Invitations
      /\ UNCHANGED <<item, invited, dataCid, deployId, published, committed, exe, pin, rsaKey>>
  BY MessageFields DEF CandidateRequest, delegatorVars, nodeVars, TypeOK
<1>2. x.type = "verify" /\ x.peer = m.peer /\ x.exec = m.exec
  BY <1>1 DEF Verify, Invitations
<1>3. m.peer \in Peers /\ m.exec \in BOOLEAN
  BY <1>1 DEF Invitations
<1> HIDE DEF x
<1>4. m.type \in CandidateTypes /\ x.type \in CandidateTypes /\ KeyFits(x)'
  BY <1>1, <1>2 DEF CandidateTypes, KeyFits
<1>5. \A i \in invited : Follows(m, i) => Follows(x, i)
  BY <1>1, <1>2, <1>4 DEF Follows
<1>6. Served \subseteq Served'
  <2>1. \A y \in net' : y.type \in CandidateTypes => y \in net \/ y = x
    BY DEF CandidateRequest, Handle, x
  <2> QED  BY <1>1, <1>2, <1>4, <2>1, ServedStay
<1>7. CASE net' = (net \ {m}) \cup {x}
  BY <1>1, <1>4, <1>5, <1>6, <1>7, CandidacyUnderWay
<1>8. ASSUME net' = net \ {m}, item.executor = NoPeer  PROVE net' = (net \ {m}) \cup {x}
  <2>1. PICK i \in invited : Follows(m, i)
    BY <1>4, <1>8 DEF UnderWay, InvitedUnderWay
  <2>2. i \in [peer : Peers, exec : BOOLEAN] /\ i.peer = m.peer /\ i.exec = m.exec
    BY <1>1, <2>1 DEF Follows, TypeOK
  <2>3. \A j \in invited : j.peer = m.peer => j.exec = m.exec
    BY <2>2 DEF UnderWay, InvitedUnderWay
  <2>4. /\ exe[m.peer] # "None" => [peer |-> m.peer, exec |-> TRUE] \in invited
        /\ pin[m.peer] # "None" => [peer |-> m.peer, exec |-> FALSE] \in invited
    BY <1>3, <1>8 DEF UnderWay, InvitedUnderWay
  <2>5. CASE m.exec
    <3>1. pin[m.peer] = "None"
      BY <1>3, <2>3, <2>4, <2>5
    <3> QED  BY <2>5, <3>1 DEF CandidateRequest, Handle, x
  <2>6. CASE ~m.exec
    <3>1. exe[m.peer] = "None"
      BY <1>3, <2>3, <2>4, <2>6
    <3> QED  BY <2>6, <3>1 DEF CandidateRequest, Handle, x
  <2> QED  BY <2>5, <2>6
<1>9. CASE net' = net \ {m} /\ item.executor # NoPeer
  <2>1. m.type \notin ExecutionTypes \cup SliceTypes \cup ResultTypes
    BY <1>1 DEF ExecutionTypes, SliceTypes, ResultTypes
  <2>2. InvitedUnderWay'
    BY <1>1, <1>9, InvitedAfterElection DEF UnderWay
  <2>3. KeysHeld'
    BY <1>1, <1>6, <1>9, KeysStay DEF UnderWay
  <2>4. ExecutionUnderWay' /\ AnswersUnderWay' /\ SlicesRemembered' /\ ResultUnderWay'
    BY <1>1, <1>9, <2>1, ExecutionStays, AnswersStay, RememberedStay, ResultStays DEF UnderWay
  <2> QED  BY <2>2, <2>3, <2>4 DEF UnderWay
<1>10. net' = (net \ {m}) \cup {x} \/ net' = net \ {m}
  BY DEF CandidateRequest, Handle, x
<1> QED  BY <1>7, <1>8, <1>9, <1>10

\* A node generates its only RSA key when it applies.
LEMMA ApplyUnderWay ==
  ASSUME TypeOK, RolesKept, OneRound, OneRound', UnderWay, faults = 0, faults' = 0,
         NEW m \in net, ApplyAsCandidate(m), UNCHANGED delegatorVars
  PROVE  UnderWay'
<1>0. PICK rsa, x : rsa = rsaKeys[m.peer] + 1 /\ x = Application(m, rsa)
  OBVIOUS
<1>1. /\ m.type = "verify" /\ m \in Invitations
      /\ UNCHANGED <<item, invited, dataCid, deployId, published, committed>>
      /\ rsaKey' = [rsaKey EXCEPT ![m.peer] = rsa]
  BY <1>0, MessageFields DEF ApplyAsCandidate, delegatorVars, TypeOK
<1>2. SetRole(m.exec, m.peer, "Requested") /\ net' = (net \ {m}) \cup {x}
  BY <1>0 DEF ApplyAsCandidate, Fault, Handle
<1>3. m.peer \in Peers /\ m.exec \in BOOLEAN
  BY <1>1 DEF Invitations
<1>4. /\ x.type = "apply" /\ x.peer = m.peer /\ x.exec = m.exec /\ x.rsa = rsa
  BY <1>0 DEF Application
<1>5. /\ rsaKey'[m.peer] = rsa
      /\ \A p \in Peers \ {m.peer} : rsaKey'[p] = rsaKey[p]
  BY <1>1, <1>3 DEF TypeOK
<1>6. m.type \in CandidateTypes /\ x.type \in CandidateTypes /\ KeyFits(x)'
  BY <1>1, <1>4, <1>5 DEF CandidateTypes, KeyFits
<1>7. \A i \in invited : Follows(m, i) => Follows(x, i)
  BY <1>1, <1>4, <1>6 DEF Follows
<1>8. ASSUME NEW p \in Peers
      PROVE  /\ exe'[p] # "None" => exe[p] # "None" \/ Follows(m, [peer |-> p, exec |-> TRUE])
             /\ pin'[p] # "None" => pin[p] # "None" \/ Follows(m, [peer |-> p, exec |-> FALSE])
  <2>1. CASE p = m.peer
    <3>1. m.exec => pin'[p] = pin[p] /\ Follows(m, [peer |-> p, exec |-> TRUE])
      BY <1>1, <1>2, <1>6, <2>1 DEF SetRole, Follows
    <3>2. ~m.exec => exe'[p] = exe[p] /\ Follows(m, [peer |-> p, exec |-> FALSE])
      BY <1>1, <1>2, <1>3, <1>6, <2>1 DEF SetRole, Follows
    <3> QED  BY <3>1, <3>2
  <2>2. CASE p # m.peer
    <3>1. exe'[p] = exe[p] /\ pin'[p] = pin[p]
      BY <1>2, <2>2 DEF SetRole, TypeOK
    <3> QED  BY <3>1
  <2> QED  BY <2>1, <2>2
<1>9. Served \subseteq Served'
  <2> SUFFICES ASSUME NEW c \in Served  PROVE c \in Served'
    OBVIOUS
  <2>1. /\ c \in Candidate /\ rsaKey[c.peer] = c.rsa
        /\ \A y \in net : y.type \in CandidateTypes => y.peer # c.peer
    BY DEF Served
  <2>2. c.peer # m.peer /\ c.peer \in Peers
    BY <1>6, <2>1 DEF Candidate
  <2>3. rsaKey'[c.peer] = c.rsa
    BY <1>5, <2>1, <2>2
  <2>4. \A y \in net' : y.type \in CandidateTypes => y.peer # c.peer
    BY <1>2, <1>4, <2>1, <2>2
  <2> QED  BY <2>1, <2>3, <2>4 DEF Served
<1>10. ASSUME NEW y \in net \ {m}, y.type \in {"apply", "attest"}
       PROVE  rsaKey'[y.peer] = rsaKey[y.peer]
  <2>1. y.type \in CandidateTypes
    BY <1>10 DEF CandidateTypes
  <2>2. y.peer # m.peer
    BY <1>6, <2>1 DEF OneRound, OneCandidacy
  <2>3. y.peer \in Peers
    BY <1>10, MessageFields DEF TypeOK, Applications
  <2> QED  BY <1>5, <2>2, <2>3
<1> QED  BY <1>1, <1>2, <1>6, <1>7, <1>8, <1>9, <1>10, CandidacyUnderWay

LEMMA StartAttestationUnderWay ==
  ASSUME TypeOK, RolesKept, OneRound', UnderWay,
         NEW m \in net, StartAttestation(m), UNCHANGED nodeVars
  PROVE  UnderWay'
<1> DEFINE x == [m EXCEPT !.type = "attest"]
<1>1. /\ m.type = "apply" /\ m \in Applications /\ net' = (net \ {m}) \cup {x}
      /\ UNCHANGED <<item, invited, dataCid, deployId, published, committed, exe, pin, rsaKey>>
  BY MessageFields DEF StartAttestation, Handle, delegatorVars, nodeVars, TypeOK
<1>2. x.type = "attest" /\ x.peer = m.peer /\ x.exec = m.exec /\ x.rsa = m.rsa
  BY <1>1 DEF Applications
<1> HIDE DEF x
<1>3. m.type \in CandidateTypes /\ x.type \in CandidateTypes
  BY <1>1, <1>2 DEF CandidateTypes
<1>4. KeyFits(x)'
  <2>1. KeyFits(m)
    BY DEF UnderWay, KeysHeld
  <2> QED  BY <1>1, <1>2, <2>1 DEF KeyFits
<1>5. \A i \in invited : Follows(m, i) => Follows(x, i)
  BY <1>1, <1>2, <1>3 DEF Follows
<1>6. Served \subseteq Served'
  BY <1>1, <1>2, <1>3, ServedStay
<1> QED  BY <1>1, <1>3, <1>4, <1>5, <1>6, CandidacyUnderWay
-----------------------------------------------------------------------------
(* Attestation and election *)

\* Whoever is stored stays so, and the inserted candidate is stored.
LEMMA InsertStores ==
  ASSUME NEW it \in StoreItem, NEW exec \in BOOLEAN, NEW c \in Candidate,
         NEW ins, ins = Insert(it, exec, c)
  PROVE  /\ \A j \in DOMAIN it.candExecutors :
              j \in DOMAIN ins.candExecutors /\ ins.candExecutors[j] = it.candExecutors[j]
         /\ \A j \in DOMAIN it.candPinners :
              j \in DOMAIN ins.candPinners /\ ins.candPinners[j] = it.candPinners[j]
         /\ exec => \E j \in DOMAIN ins.candExecutors : ins.candExecutors[j] = c
         /\ ~exec => \E j \in DOMAIN ins.candPinners : ins.candPinners[j] = c
<1>1. ASSUME NEW s \in Seq(Candidate)
      PROVE  /\ \A j \in DOMAIN s : j \in DOMAIN Append(s, c) /\ Append(s, c)[j] = s[j]
             /\ Len(s) + 1 \in DOMAIN Append(s, c) /\ Append(s, c)[Len(s) + 1] = c
  OBVIOUS
<1>2. it.candExecutors \in Seq(Candidate) /\ it.candPinners \in Seq(Candidate)
  BY DEF StoreItem
<1>3. CASE exec
  <2>1. ins.candExecutors = Append(it.candExecutors, c) /\ ins.candPinners = it.candPinners
    BY <1>3 DEF Insert, StoreItem
  <2>2. PICK s \in Seq(Candidate) : s = it.candExecutors
    BY <1>2
  <2>3. \E j \in DOMAIN Append(s, c) : Append(s, c)[j] = c
    BY <1>1
  <2> QED  BY <1>1, <1>3, <2>1, <2>2, <2>3
<1>4. CASE ~exec
  <2>1. ins.candExecutors = it.candExecutors /\ ins.candPinners = Append(it.candPinners, c)
    BY <1>4 DEF Insert, StoreItem
  <2>2. PICK s \in Seq(Candidate) : s = it.candPinners
    BY <1>2
  <2>3. \E j \in DOMAIN Append(s, c) : Append(s, c)[j] = c
    BY <1>1
  <2> QED  BY <1>1, <1>4, <2>1, <2>2, <2>3
<1> QED  BY <1>3, <1>4

\* The candidacy of an attested node ends: its RSA key is that of its candidate.
LEMMA AttestedIsServed ==
  ASSUME TypeOK, OneRound, KeysHeld, NEW m \in net, m.type = "attest", rsaKey' = rsaKey,
         \A x \in net' : x \in net \ {m} \/ x.type \notin CandidateTypes
  PROVE  /\ Served \subseteq Served'
         /\ [peer |-> m.peer, rsa |-> m.rsa] \in Served'
<1>1. m \in Applications /\ m.type \in CandidateTypes
  BY MessageFields DEF TypeOK, CandidateTypes
<1>2. Served \subseteq Served'
  <2>1. \A x \in net' : x.type \in CandidateTypes => x \in net
    OBVIOUS
  <2> QED  BY <2>1, ServedStay
<1>3. [peer |-> m.peer, rsa |-> m.rsa] \in Candidate
  BY <1>1 DEF Applications, Candidate
<1>4. rsaKey'[m.peer] = m.rsa
  <2>1. KeyFits(m)
    BY DEF KeysHeld
  <2> QED  BY <2>1 DEF KeyFits
<1>5. \A x \in net' : x.type \in CandidateTypes => x.peer # m.peer
  BY <1>1 DEF OneRound, OneCandidacy
<1> QED  BY <1>2, <1>3, <1>4, <1>5 DEF Served

\* An inserted candidate takes the place of the candidacy that it followed.
LEMMA InsertUnderWay ==
  ASSUME TypeOK, RolesKept, OneRound, OneRound', UnderWay,
         UNCHANGED <<invited, exe, pin, rsaKey, dataCid, deployId>>,
         NEW m \in net, m.type = "attest", item.state = "InvitedCandidates",
         item' = Insert(item, m.exec, [peer |-> m.peer, rsa |-> m.rsa]), net' = net \ {m}
  PROVE  UnderWay'
<1>1. PICK c : c = [peer |-> m.peer, rsa |-> m.rsa]
  OBVIOUS
<1>2. m \in Applications /\ m.exec \in BOOLEAN /\ item \in StoreItem
  BY MessageFields DEF TypeOK, Applications
<1>3. c \in Candidate /\ c.peer = m.peer
  BY <1>1, <1>2 DEF Applications, Candidate
<1>4. Served \subseteq Served' /\ c \in Served'
  BY <1>1, AttestedIsServed DEF UnderWay
<1>5. item.executor = NoPeer /\ item.pinners = <<>>
  BY DEF OneRound, OneElection, Undecided
<1>6. /\ item'.executor = NoPeer /\ item'.state = "InvitedCandidates"
      /\ item'.pinners = <<>>
  BY <1>1, <1>2, <1>5 DEF Insert, StoreItem
<1>7. InvitedUnderWay'
  <2>1. \A x \in net' : x.type \notin StartTypes
    <3>1. m.type \notin StartTypes
      BY DEF StartTypes
    <3> QED  BY <3>1 DEF OneRound, OneStart
  <2>2. /\ \A j \in DOMAIN item.candExecutors :
             j \in DOMAIN item'.candExecutors
             /\ item'.candExecutors[j] = item.candExecutors[j]
        /\ \A j \in DOMAIN item.candPinners :
             j \in DOMAIN item'.candPinners /\ item'.candPinners[j] = item.candPinners[j]
        /\ m.exec => \E j \in DOMAIN item'.candExecutors : item'.candExecutors[j] = c
        /\ ~m.exec => \E j \in DOMAIN item'.candPinners : item'.candPinners[j] = c
    BY <1>1, <1>2, <1>3, InsertStores
  <2>3. ASSUME NEW i \in invited  PROVE Stored(i)' \/ \E x \in net' : Follows(x, i)
    <3>1. Stored(i) \/ \E x \in net : Follows(x, i)
      BY <1>5 DEF UnderWay, InvitedUnderWay
    <3>2. CASE Stored(i)
      BY <2>2, <3>2 DEF Stored
    <3>3. CASE Follows(m, i)
      <4>1. i.peer = c.peer /\ i.exec = m.exec
        BY <1>3, <3>3 DEF Follows
      <4> QED  BY <2>2, <4>1 DEF Stored
    <3>4. CASE \E x \in net \ {m} : Follows(x, i)
      BY <3>4
    <3> QED  BY <3>1, <3>2, <3>3, <3>4
  <2>4. /\ \A x \in net' : x.type \in CandidateTypes => \E i \in invited : Follows(x, i)
        /\ \A i, j \in invited : i.peer = j.peer => i = j
        /\ \A p \in Peers : /\ exe[p] # "None" => [peer |-> p, exec |-> TRUE] \in invited
                            /\ pin[p] # "None" => [peer |-> p, exec |-> FALSE] \in invited
    BY <1>5 DEF UnderWay, InvitedUnderWay
  <2> QED  BY <1>6, <2>1, <2>3, <2>4 DEF InvitedUnderWay
<1>8. KeysHeld'
  <2>1. item.candExecutors \in Seq(Served') /\ item.candPinners \in Seq(Served')
    BY <1>4, SeqMonotone DEF UnderWay, KeysHeld
  <2>2. Served' \subseteq Candidate
    BY DEF Served
  <2>3. item'.candExecutors \in Seq(Served') /\ item'.candPinners \in Seq(Served')
    BY <1>1, <1>2, <1>4, <2>1, <2>2, InsertType
  <2>4. \A x \in net' : KeyFits(x)'
    <3> SUFFICES ASSUME NEW x \in net'  PROVE KeyFits(x)'
      OBVIOUS
    <3>1. KeyFits(x)
      BY DEF UnderWay, KeysHeld
    <3> QED  BY <1>4, <3>1 DEF KeyFits
  <2>5. item'.pinners \in Seq(Served')
    <3>1. <<>> \in Seq(Served')
      OBVIOUS
    <3> QED  BY <1>6, <3>1
  <2> QED  BY <2>3, <2>4, <2>5 DEF KeysHeld
<1> QED  BY <1>6, <1>7, <1>8, BeforeExecution DEF UnderWay

\* The election sends the request to execute, and its members have their keys.
LEMMA ElectUnderWay ==
  ASSUME TypeOK, RolesKept, OneRound, OneRound', UnderWay,
         UNCHANGED <<invited, exe, pin, rsaKey, dataCid, deployId>>,
         NEW m \in net, m.type = "attest", item.state = "InvitedCandidates",
         NEW ins, ins = Insert(item, m.exec, [peer |-> m.peer, rsa |-> m.rsa]),
         Ready(N, ins.candExecutors, ins.candPinners),
         item' = [Elect(ins) EXCEPT !.state = "SentToExecutor"],
         net' = (net \ {m}) \cup {[type |-> "execute", peer |-> Elect(ins).executor,
                                  pinners |-> Elect(ins).pinners]}
  PROVE  UnderWay'
<1>1. PICK c : c = [peer |-> m.peer, rsa |-> m.rsa]
  OBVIOUS
<1>2. PICK x : x = [type |-> "execute", peer |-> Elect(ins).executor,
                    pinners |-> Elect(ins).pinners]
  OBVIOUS
<1>3. m \in Applications /\ m.exec \in BOOLEAN /\ item \in StoreItem
  BY MessageFields DEF TypeOK, Applications
<1>4. x.type = "execute" /\ net' = (net \ {m}) \cup {x}
  BY <1>2
<1>5. Served \subseteq Served' /\ c \in Served'
  <2>1. \A y \in net' : y \in net \ {m} \/ y.type \notin CandidateTypes
    BY <1>4 DEF CandidateTypes
  <2> QED  BY <1>1, <2>1, AttestedIsServed DEF UnderWay
<1>6. Served' \subseteq Candidate
  BY DEF Served
<1>7. /\ ins \in StoreItem
      /\ ins.candExecutors \in Seq(Served') /\ ins.candPinners \in Seq(Served')
  <2>1. item.candExecutors \in Seq(Served') /\ item.candPinners \in Seq(Served')
    BY <1>5, SeqMonotone DEF UnderWay, KeysHeld
  <2> QED  BY <1>1, <1>3, <1>5, <1>6, <2>1, InsertType
<1>8. /\ Elect(ins) \in StoreItem
      /\ \E e \in Served' : Elect(ins).executor = e.peer
      /\ Elect(ins).pinners \in Seq(Served')
      /\ Elect(ins).candExecutors \in Seq(Served')
      /\ Elect(ins).candPinners \in Seq(Served')
  BY <1>6, <1>7, ElectType
<1>9. /\ item'.state = "SentToExecutor" /\ item'.executor = Elect(ins).executor
      /\ item'.pinners = Elect(ins).pinners
      /\ item'.candExecutors = Elect(ins).candExecutors
      /\ item'.candPinners = Elect(ins).candPinners
      /\ item'.key = Elect(ins).key
  BY <1>8 DEF StoreItem
<1>10. item'.executor # NoPeer
  <2>1. Elect(ins).executor \in Peers
    BY <1>6, <1>8 DEF Candidate
  <2> QED  BY <1>9, <2>1, NetAssumption
<1>11. item'.key = NoKey
  <2>1. item.key = NoKey
    BY DEF OneRound, OneElection, OneExecution, Undecided
  <2>2. ins.key = item.key
    BY <1>3 DEF Insert, StoreItem
  <2>3. Elect(ins).key = ins.key
    BY <1>7 DEF Elect, StoreItem
  <2> QED  BY <1>9, <2>1, <2>2, <2>3
<1>12. InvitedUnderWay'
  BY <1>10, InvitedAfterElection DEF UnderWay
<1>13. KeysHeld'
  <2>1. \A y \in net' : KeyFits(y)'
    <3> SUFFICES ASSUME NEW y \in net'  PROVE KeyFits(y)'
      OBVIOUS
    <3>1. CASE y = x
      BY <1>4, <3>1 DEF KeyFits
    <3>2. CASE y \in net
      <4>1. KeyFits(y)
        BY <3>2 DEF UnderWay, KeysHeld
      <4> QED  BY <1>5, <4>1 DEF KeyFits
    <3> QED  BY <1>4, <3>1, <3>2
  <2> QED  BY <1>8, <1>9, <2>1 DEF KeysHeld
<1>14. ExecutionUnderWay'
  BY <1>4, <1>9 DEF ExecutionUnderWay, ExecutionTypes
<1> QED  BY <1>11, <1>12, <1>13, <1>14, BeforeSlices DEF UnderWay

LEMMA AfterVerifyUnderWay ==
  ASSUME TypeOK, RolesKept, OneRound, OneRound', UnderWay, faults = 0, faults' = 0,
         NEW m \in net, AfterVerify(m), UNCHANGED nodeVars
  PROVE  UnderWay'
<1> DEFINE c == [peer |-> m.peer, rsa |-> m.rsa]
           it == Insert(item, m.exec, c)
<1>1. m.type = "attest"
  BY DEF AfterVerify
<1>2. /\ UNCHANGED <<invited, exe, pin, rsaKey, dataCid, deployId, published, committed>>
  BY DEF AfterVerify, nodeVars
<1>3. CASE item.state # "InvitedCandidates" /\ net' = net \ {m} /\ item' = item
  <2>1. item'.executor # NoPeer
    <3>1. m.type \notin StartTypes
      BY <1>1 DEF StartTypes
    <3> QED  BY <1>3, <3>1 DEF OneRound, OneStart, OneElection, Undecided
  <2>2. m.type \notin ExecutionTypes \cup SliceTypes \cup ResultTypes
    BY <1>1 DEF ExecutionTypes, SliceTypes, ResultTypes
  <2>3. Served \subseteq Served'
    BY <1>2, <1>3, ServedStay
  <2>4. InvitedUnderWay'
    BY <1>2, <2>1, InvitedAfterElection DEF UnderWay
  <2>5. KeysHeld'
    BY <1>2, <1>3, <2>3, KeysStay DEF UnderWay
  <2>6. ExecutionUnderWay' /\ AnswersUnderWay' /\ SlicesRemembered' /\ ResultUnderWay'
    BY <1>2, <1>3, <2>2, ExecutionStays, AnswersStay, RememberedStay, ResultStays
       DEF UnderWay
  <2> QED  BY <2>4, <2>5, <2>6 DEF UnderWay
<1>4. CASE item.state = "InvitedCandidates" /\ item' = it /\ net' = net \ {m}
  BY <1>1, <1>2, <1>4, InsertUnderWay
<1>5. CASE /\ item.state = "InvitedCandidates"
           /\ Ready(N, it.candExecutors, it.candPinners)
           /\ item' = [Elect(it) EXCEPT !.state = "SentToExecutor"]
           /\ net' = (net \ {m}) \cup {[type |-> "execute", peer |-> Elect(it).executor,
                                       pinners |-> Elect(it).pinners]}
  <2>1. PICK ins : ins = it
    OBVIOUS
  <2> HIDE DEF it
  <2>2. ins = Insert(item, m.exec, c)
    BY <2>1 DEF it
  <2> QED  BY <1>1, <1>2, <1>5, <2>1, <2>2, ElectUnderWay
<1> QED
  <2>1. ~Fault("send")
    BY DEF Fault
  <2> QED  BY <1>3, <1>4, <1>5, <2>1 DEF AfterVerify, TrySendToExecutor, Handle
-----------------------------------------------------------------------------
(* Execution *)

\* The response replaces the request.
LEMMA ExecuteUnderWay ==
  ASSUME TypeOK, RolesKept, OneRound, OneRound', UnderWay, faults = 0, faults' = 0,
         NEW m \in net, Execute(m), UNCHANGED delegatorVars
  PROVE  UnderWay'
<1>1. PICK x : x = [type |-> "executed", peer |-> m.peer, key |-> keys + 1,
                    pinners |-> m.pinners]
  OBVIOUS
<1>2. m.type = "execute" /\ x.type = "executed"
  BY <1>1 DEF Execute
<1>3. /\ net' = (net \ {m}) \cup {x}
      /\ UNCHANGED <<item, invited, pin, rsaKey, dataCid, deployId>>
  BY <1>1 DEF Execute, Fault, Handle, delegatorVars
<1>4. m.type \notin StartTypes \cup CandidateTypes /\ x.type \notin CandidateTypes
      /\ m.type \in ExecutionTypes /\ x.type \in ExecutionTypes
  BY <1>2 DEF StartTypes, CandidateTypes, ExecutionTypes
<1>5. item.executor # NoPeer /\ item.key = NoKey
  BY <1>4 DEF OneRound, OneElection, OneExecution
<1>6. InvitedUnderWay'
  BY <1>3, <1>5, InvitedAfterElection DEF UnderWay
<1>7. KeysHeld'
  <2>1. Served \subseteq Served'
    BY <1>3, <1>4, ServedStay
  <2>2. KeyFits(x)'
    BY <1>2 DEF KeyFits
  <2> QED  BY <1>3, <2>1, <2>2, KeysStay DEF UnderWay
<1>8. ExecutionUnderWay'
  BY <1>3, <1>4 DEF UnderWay, ExecutionUnderWay
<1> QED  BY <1>3, <1>5, <1>6, <1>7, <1>8, BeforeSlices DEF UnderWay

\* The slice of each pinner is sent, encrypted with the key that it holds.
LEMMA ExecutionResultUnderWay ==
  ASSUME TypeOK, RolesKept, OneRound, OneRound', UnderWay, faults = 0, faults' = 0,
         NEW m \in net, ExecutionResult(m), UNCHANGED nodeVars
  PROVE  UnderWay'
<1>1. m.type = "executed" /\ m.type \in ExecutionTypes
  BY DEF ExecutionResult, ExecutionTypes
<1>2. m.type \notin StartTypes \cup CandidateTypes
  BY <1>1 DEF StartTypes, CandidateTypes
<1>3. /\ m.pinners = item.pinners /\ m.key = 1 /\ item.answers = {} /\ item.asked = {}
      /\ item.key = NoKey
  BY <1>1 DEF OneRound, OneExecution
<1>4. item.executor # NoPeer /\ Len(item.pinners) = N
  BY <1>2 DEF OneRound, OneElection
<1>5. /\ item \in StoreItem /\ item.pinners \in Seq(Candidate) /\ DOMAIN item.pinners = 1 .. N
  <2>1. item \in StoreItem
    BY DEF TypeOK
  <2>2. item.pinners \in Seq(Candidate)
    BY <2>1 DEF StoreItem
  <2> QED  BY <1>4, <2>1, <2>2
<1>6. /\ item' = [item EXCEPT !.state = "SentToInitialPinner", !.key = 1,
                              !.asked = PinnerPeers, !.answers = {}]
      /\ net' = (net \ {m}) \cup {SliceFor(m, i) : i \in 1 .. N}
      /\ UNCHANGED <<invited, exe, pin, rsaKey, dataCid, deployId>>
  <2>1. item.asked \cup {m.pinners[i].peer : i \in DOMAIN m.pinners} = PinnerPeers
    BY <1>3 DEF PinnerPeers
  <2>2. WithoutAnswers(item, {m.pinners[i].peer : i \in DOMAIN m.pinners}) = {}
    BY <1>3 DEF WithoutAnswers
  <2>3. ~Fault("send")
    BY DEF Fault
  <2>4. item' = [[item EXCEPT !.state = "ReceivedExecutionResult", !.key = m.key]
                   EXCEPT !.state = "SentToInitialPinner",
                          !.asked = @ \cup {m.pinners[i].peer : i \in DOMAIN m.pinners},
                          !.answers = WithoutAnswers(item, {m.pinners[i].peer : i \in DOMAIN m.pinners})]
        /\ net' = (net \ {m}) \cup SlicesTo(m, Len(m.pinners))
    BY <2>3 DEF ExecutionResult, Handle
  <2>5. item' = [item EXCEPT !.state = "SentToInitialPinner", !.key = 1,
                             !.asked = PinnerPeers, !.answers = {}]
    BY <1>3, <1>5, <2>1, <2>2, <2>4 DEF StoreItem
  <2> QED  BY <1>3, <1>4, <2>4, <2>5 DEF SlicesTo, nodeVars, ExecutionResult
<1>7. /\ item'.state = "SentToInitialPinner" /\ item'.key = 1 /\ item'.asked = PinnerPeers
      /\ item'.answers = {} /\ item'.executor = item.executor /\ item'.pinners = item.pinners
      /\ item'.candExecutors = item.candExecutors /\ item'.candPinners = item.candPinners
  BY <1>5, <1>6 DEF StoreItem
<1>8. ASSUME NEW i \in 1 .. N
      PROVE  /\ SliceFor(m, i) \in net' /\ SliceFor(m, i).type = "slice"
             /\ SliceFor(m, i).peer = item.pinners[i].peer
             /\ [peer |-> SliceFor(m, i).peer, rsa |-> SliceFor(m, i).rsa] = item.pinners[i]
  <2>1. item.pinners[i] \in Candidate
    BY <1>5, ElementOfSeq
  <2>2. item.pinners[i] = [peer |-> item.pinners[i].peer, rsa |-> item.pinners[i].rsa]
    BY <2>1 DEF Candidate
  <2> QED  BY <1>3, <1>6, <2>2 DEF SliceFor
<1>9. \A x \in net' : x \in net \/ \E i \in 1 .. N : x = SliceFor(m, i)
  BY <1>6
<1>10. \A x \in net' : x \in net \/ x.type = "slice"
  BY <1>8, <1>9
<1>11. InvitedUnderWay'
  BY <1>4, <1>6, <1>7, InvitedAfterElection DEF UnderWay
<1>12. Served \subseteq Served'
  <2>1. \A x \in net' : x.type \in CandidateTypes => x \in net
    BY <1>10 DEF CandidateTypes
  <2> QED  BY <1>6, <2>1, ServedStay
<1>13. KeysHeld'
  <2>1. ASSUME NEW i \in 1 .. N  PROVE item.pinners[i] \in Served'
    <3>1. item.pinners \in Seq(Served)
      BY DEF UnderWay, KeysHeld
    <3>2. item.pinners[i] \in Served
      BY <1>5, <3>1, ElementOfSeq
    <3> QED  BY <1>12, <3>2
  <2>2. ASSUME NEW x \in net', x \notin net  PROVE KeyFits(x)'
    <3>1. PICK i \in 1 .. N : x = SliceFor(m, i)
      BY <1>9, <2>2
    <3>2. x.type = "slice" /\ [peer |-> x.peer, rsa |-> x.rsa] \in Served'
      BY <1>8, <2>1, <3>1
    <3> QED  BY <3>2 DEF KeyFits
  <2> QED  BY <1>6, <1>7, <1>12, <2>2, KeysStay DEF UnderWay
<1>14. ExecutionUnderWay'
  BY <1>7 DEF ExecutionUnderWay, NoKey
<1>15. AnswersUnderWay'
  <2>1. Answered(item') = {}
    BY <1>7 DEF Answered
  <2>2. ~AllAnswered(item')
    <3>1. 1 \in 1 .. N
      BY NetAssumption
    <3>2. item.pinners[1].peer \in item'.asked
      BY <1>5, <1>7, <3>1 DEF PinnerPeers
    <3> QED  BY <2>1, <3>2 DEF AllAnswered
  <2>3. ASSUME NEW p \in item'.asked  PROVE \E x \in net' : x.type \in SliceTypes /\ x.peer = p
    <3>1. PICK i \in 1 .. N : p = item.pinners[i].peer
      BY <1>5, <1>7, <2>3 DEF PinnerPeers
    <3> QED  BY <1>8, <3>1 DEF SliceTypes
  <2> QED  BY <2>2, <2>3 DEF AnswersUnderWay
<1>16. SlicesRemembered'
  <2>1. \A x \in net' : x.type \notin {"uploaded", "deployed"}
    <3>1. \A x \in net : x.type \notin {"uploaded", "deployed"}
      BY <1>3 DEF OneRound, OneExecution, SliceTypes
    <3> QED  BY <1>10, <3>1
  <2>2. \A x \in net' : RememberedBy(x)'
    BY <2>1 DEF RememberedBy
  <2>3. \A d \in deployId' : pin'[d.peer] # "None"
    BY <1>6 DEF UnderWay, SlicesRemembered
  <2> QED  BY <1>7, <2>2, <2>3 DEF SlicesRemembered
<1>17. ResultUnderWay'
  <2>1. item'.state # "ReceivedAllPinnerResponse"
    BY <1>7
  <2>2. published' = <<>>
    BY <2>1 DEF OneRound, OnePublication
  <2> QED  BY <2>1, <2>2 DEF ResultUnderWay
<1> QED  BY <1>11, <1>13, <1>14, <1>15, <1>16, <1>17 DEF UnderWay
-----------------------------------------------------------------------------
(* Pinning *)

\* Each step of the pinning of a slice is followed by the next.
LEMMA PinningUnderWay ==
  ASSUME OneRound, OneRound', UnderWay,
         UNCHANGED <<item, invited, rsaKey, published, committed>>,
         NEW m \in net, m.type \in SliceTypes,
         NEW x, x.type \in SliceTypes \ {"slice"}, x.peer = m.peer,
         x.type = "upload" => m.type = "slice" /\ x.rsa = m.rsa,
         net' = (net \ {m}) \cup {x}, SlicesRemembered'
  PROVE  UnderWay'
<1>1. /\ m.type \notin CandidateTypes \cup ExecutionTypes \cup ResultTypes
      /\ x.type \notin CandidateTypes \cup {"slice", "apply", "attest"}
  BY DEF CandidateTypes, ExecutionTypes, ResultTypes, SliceTypes
<1>2. item.executor # NoPeer
  <2>1. m.type \notin StartTypes \cup CandidateTypes
    BY DEF StartTypes, CandidateTypes, SliceTypes
  <2> QED  BY <2>1 DEF OneRound, OneElection
<1>3. InvitedUnderWay'
  BY <1>2, InvitedAfterElection DEF UnderWay
<1>4. Served \subseteq Served'
  BY <1>1, ServedStay
<1>5. KeysHeld'
  <2>1. KeyFits(x)'
    <3>1. x.type = "upload" => [peer |-> m.peer, rsa |-> m.rsa] \in Served
      BY DEF UnderWay, KeysHeld, KeyFits
    <3> QED  BY <1>1, <1>4, <3>1 DEF KeyFits
  <2> QED  BY <1>4, <2>1, KeysStay DEF UnderWay
<1>6. ExecutionUnderWay' /\ AnswersUnderWay' /\ ResultUnderWay'
  BY <1>1, ExecutionStays, AnswersStay, ResultStays DEF UnderWay
<1> QED  BY <1>3, <1>5, <1>6 DEF UnderWay

\* A node has one slice, so its entries are never overwritten with another.
LEMMA PutAdds ==
  ASSUME DistinctPeers(item.pinners), NEW entries, entries \subseteq FirstSlices,
         NEW p, NEW k, NEW i, [peer |-> p, key |-> k, index |-> i] \in FirstSlices
  PROVE  Put(entries, p, k, i) = entries \cup {[peer |-> p, key |-> k, index |-> i]}
<1>1. PICK d : d = [peer |-> p, key |-> k, index |-> i]
  OBVIOUS
<1>2. ASSUME NEW c \in entries, c.peer = p  PROVE c = d
  <2>1. c \in FirstSlices /\ d \in FirstSlices /\ d.peer = p
    BY <1>1
  <2> QED  BY <1>2, <2>1, SlicesDiffer
<1> QED  BY <1>1, <1>2 DEF Put

LEMMA StartUploadUnderWay ==
  ASSUME TypeOK, RolesKept, OneRound, OneRound', UnderWay, faults = 0, faults' = 0,
         NEW m \in net, StartUpload(m), UNCHANGED delegatorVars
  PROVE  UnderWay'
<1> DEFINE x == [m EXCEPT !.type = "upload"]
<1>1. /\ m.type = "slice" /\ m \in Slices /\ net' = (net \ {m}) \cup {x}
      /\ UNCHANGED <<item, invited, rsaKey, published, committed, dataCid, deployId>>
  BY MessageFields DEF StartUpload, Fault, Handle, delegatorVars, TypeOK
<1>2. x.type = "upload" /\ x.peer = m.peer /\ x.rsa = m.rsa
  BY <1>1 DEF Slices
<1> HIDE DEF x
<1>3. m.type \in SliceTypes /\ x.type \in SliceTypes \ {"slice"}
  BY <1>1, <1>2 DEF SliceTypes
<1>4. SlicesRemembered'
  BY <1>1, <1>2, RememberedStay DEF UnderWay
<1> QED  BY <1>1, <1>2, <1>3, <1>4, PinningUnderWay

\* The slice can be decrypted, and its cid is remembered.
LEMMA StoreSliceUnderWay ==
  ASSUME TypeOK, RolesKept, OneRound, OneRound', UnderWay, faults = 0, faults' = 0,
         NEW m \in net, StoreSlice(m), UNCHANGED delegatorVars
  PROVE  UnderWay'
<1> DEFINE d == [peer |-> m.peer, key |-> m.key, index |-> m.index]
           x == [type |-> "uploaded", peer |-> m.peer, key |-> m.key, index |-> m.index]
<1>1. /\ m.type = "upload"
      /\ UNCHANGED <<item, invited, pin, rsaKey, published, committed, deployId>>
  BY DEF StoreSlice, delegatorVars
<1>2. m.type \in SliceTypes /\ m.type \notin StartTypes \cup CandidateTypes
  BY <1>1 DEF SliceTypes, StartTypes, CandidateTypes
<1>3. DistinctPeers(item.pinners) /\ d \in FirstSlices /\ dataCid \subseteq FirstSlices
  BY <1>2 DEF OneRound, OneElection, OneDeployment
<1>4. CanDecrypt(m)
  <2>1. [peer |-> m.peer, rsa |-> m.rsa] \in Served
    BY <1>1 DEF UnderWay, KeysHeld, KeyFits
  <2> QED  BY <2>1 DEF Served, CanDecrypt
<1>5. dataCid' = dataCid \cup {d}
  <2>1. Put(dataCid, m.peer, m.key, m.index) = dataCid \cup {d}
    BY <1>3, PutAdds
  <2> QED  BY <1>4, <2>1 DEF StoreSlice
<1>6. net' = (net \ {m}) \cup {x}
  BY <1>4 DEF StoreSlice, Fault, Handle
<1>7. /\ x.type = "uploaded" /\ x.peer = m.peer
      /\ [peer |-> x.peer, key |-> x.key, index |-> x.index] = d
  OBVIOUS
<1> HIDE DEF d, x
<1>8. x.type \in SliceTypes \ {"slice"}
  BY <1>7 DEF SliceTypes
<1>9. SlicesRemembered'
  <2>1. ASSUME NEW y \in net'  PROVE RememberedBy(y)'
    <3>1. CASE y \in net
      <4>1. RememberedBy(y)
        BY <3>1 DEF UnderWay, SlicesRemembered
      <4> QED  BY <1>1, <1>5, <4>1 DEF RememberedBy
    <3>2. CASE y = x
      BY <1>5, <1>7, <3>2 DEF RememberedBy
    <3> QED  BY <1>6, <3>1, <3>2
  <2> QED  BY <1>1, <1>5, <2>1 DEF UnderWay, SlicesRemembered
<1> QED  BY <1>1, <1>2, <1>6, <1>7, <1>8, <1>9, PinningUnderWay

\* The deployment is remembered before the delegator learns of it.
LEMMA SliceUploadedUnderWay ==
  ASSUME TypeOK, RolesKept, OneRound, OneRound', UnderWay, faults = 0, faults' = 0,
         NEW m \in net, SliceUploaded(m), UNCHANGED delegatorVars
  PROVE  UnderWay'
<1> DEFINE d == [peer |-> m.peer, key |-> m.key, index |-> m.index]
           x == [m EXCEPT !.type = "deployed"]
<1>1. /\ m.type = "uploaded" /\ m \in Deployments
      /\ UNCHANGED <<item, invited, rsaKey, published, committed, dataCid>>
      /\ net' = (net \ {m}) \cup {x}
      /\ pin' = [pin EXCEPT ![m.peer] = "Deployed"]
  BY MessageFields DEF SliceUploaded, Fault, Handle, delegatorVars, TypeOK
<1>2. m.type \in SliceTypes /\ m.type \notin StartTypes \cup CandidateTypes
  BY <1>1 DEF SliceTypes, StartTypes, CandidateTypes
<1>3. DistinctPeers(item.pinners) /\ d \in FirstSlices /\ deployId \subseteq FirstSlices
  BY <1>2 DEF OneRound, OneElection, OneDeployment
<1>4. deployId' = deployId \cup {d}
  <2>1. Put(deployId, m.peer, m.key, m.index) = deployId \cup {d}
    BY <1>3, PutAdds
  <2> QED  BY <2>1 DEF SliceUploaded
<1>5. x.type = "deployed" /\ x.peer = m.peer /\ x.key = m.key /\ x.index = m.index
  BY <1>1 DEF Deployments
<1>6. d \in dataCid /\ d.peer = m.peer
  BY <1>1 DEF UnderWay, SlicesRemembered, RememberedBy
<1>7. [peer |-> x.peer, key |-> x.key, index |-> x.index] = d
  BY <1>5
<1> HIDE DEF d, x
<1>8. x.type \in SliceTypes \ {"slice"}
  BY <1>5 DEF SliceTypes
<1>9. SlicesRemembered'
  <2>1. ASSUME NEW y \in net'  PROVE RememberedBy(y)'
    <3>1. CASE y \in net
      <4>1. RememberedBy(y)
        BY <3>1 DEF UnderWay, SlicesRemembered
      <4> QED  BY <1>1, <1>4, <4>1 DEF RememberedBy
    <3>2. CASE y = x
      BY <1>1, <1>4, <1>6, <1>7, <3>2 DEF RememberedBy
    <3> QED  BY <1>1, <3>1, <3>2
  <2>2. ASSUME NEW e \in deployId'  PROVE pin'[e.peer] # "None"
    <3>1. CASE e \in deployId
      <4>1. e.peer \in Peers /\ pin[e.peer] # "None"
        BY <3>1 DEF TypeOK, Deployment, UnderWay, SlicesRemembered
      <4> QED  BY <4>1 DEF RolesKept
    <3>2. CASE e = d
      <4>1. m.peer \in DOMAIN pin
        BY <1>1 DEF Deployments, TypeOK
      <4> QED  BY <1>1, <1>6, <3>2, <4>1
    <3> QED  BY <1>4, <3>1, <3>2
  <2>3. item'.answers \subseteq dataCid' \cap deployId'
    BY <1>1, <1>4 DEF UnderWay, SlicesRemembered
  <2> QED  BY <2>1, <2>2, <2>3 DEF SlicesRemembered
<1> QED  BY <1>1, <1>2, <1>5, <1>8, <1>9, PinningUnderWay
-----------------------------------------------------------------------------
(* Publication *)

\* An answer that is not the last is stored, the last one publishes.
LEMMA SliceDeployedUnderWay ==
  ASSUME TypeOK, RolesKept, OneRound, OneRound', UnderWay, faults = 0, faults' = 0,
         NEW m \in net, SliceDeployed(m), UNCHANGED nodeVars
  PROVE  UnderWay'
<1> DEFINE d == [peer |-> m.peer, key |-> m.key, index |-> m.index]
           it == WithAnswer(item, d)
           result == [type |-> "result", key |-> it.key, deployments |-> it.answers]
<1>1. /\ m.type = "deployed" /\ item \in StoreItem
      /\ UNCHANGED <<invited, exe, pin, rsaKey, dataCid, deployId, published, committed>>
  BY DEF SliceDeployed, nodeVars, TypeOK
<1>2. m.type \in SliceTypes /\ m.type \notin StartTypes \cup CandidateTypes \cup ExecutionTypes
  BY <1>1 DEF SliceTypes, StartTypes, CandidateTypes, ExecutionTypes
<1>3. /\ d \in FirstSlices /\ m.peer \notin Answered(item)
      /\ \A n \in net : n.type \in SliceTypes /\ n.peer = m.peer => n = m
  BY <1>2 DEF OneRound, OneDeployment
<1>4. /\ item.executor # NoPeer /\ item.key # NoKey
      /\ item.state \in {"SentToInitialPinner", "ReceivedAllPinnerResponse"}
      /\ item.asked = PinnerPeers
  <2>1. item.executor # NoPeer
    BY <1>2 DEF OneRound, OneElection
  <2>2. item.key # NoKey
    BY <1>2 DEF OneRound, OneExecution
  <2>3. item.state \notin Undecided \cup {"SentToExecutor", "ReceivedExecutionResult"}
    BY <2>2 DEF OneRound, OneExecution, UnderWay, ExecutionUnderWay
  <2>4. item.asked = PinnerPeers
    BY <2>2, <2>3 DEF OneRound, OneExecution
  <2>5. item.state \in {"SentToInitialPinner", "ReceivedAllPinnerResponse"}
    BY <1>1, <2>3 DEF StoreItem, DelegatorState, Undecided
  <2> QED  BY <2>1, <2>2, <2>4, <2>5
<1>5. item.state = "SentToInitialPinner" /\ published = <<>>
  <2>1. item.answers # FirstSlices
    BY <1>3 DEF Answered
  <2>2. item.state # "ReceivedAllPinnerResponse"
    BY <2>1 DEF OneRound, OnePublication
  <2> QED  BY <1>4, <2>2 DEF OneRound, OnePublication
<1>6. m.peer \in item.asked
  BY <1>3, <1>4 DEF FirstSlices, PinnerPeers
<1>7. /\ it.state = item.state /\ it.executor = item.executor /\ it.pinners = item.pinners
      /\ it.key = item.key /\ it.asked = item.asked /\ it.answers = item.answers \cup {d}
      /\ it.candExecutors = item.candExecutors /\ it.candPinners = item.candPinners
      /\ it \in [state : DelegatorState, executor : Peers \cup {NoPeer}, pinners : Seq(Candidate),
                 key : Nat, asked : SUBSET Peers, answers : SUBSET (Deployment \cup {d}),
                 candExecutors : Seq(Candidate), candPinners : Seq(Candidate)]
  <2>1. WithoutAnswers(item, {m.peer}) = item.answers
    BY <1>3 DEF WithoutAnswers, Answered
  <2> HIDE DEF d
  <2>2. d.peer = m.peer
    BY DEF d
  <2> QED  BY <1>1, <2>1, <2>2 DEF WithAnswer, StoreItem
<1>8. d.peer = m.peer /\ d \in dataCid /\ d \in deployId
  BY <1>1 DEF UnderWay, SlicesRemembered, RememberedBy
<1> HIDE DEF d, it
<1>9. /\ item'.executor = item.executor /\ item'.pinners = item.pinners
      /\ item'.key = item.key /\ item'.asked = item.asked
      /\ item'.answers = item.answers \cup {d}
      /\ item'.candExecutors = item.candExecutors /\ item'.candPinners = item.candPinners
      /\ \/ ~AllAnswered(it) /\ item'.state = "SentToInitialPinner" /\ net' = net \ {m}
         \/ item'.state = "ReceivedAllPinnerResponse" /\ net' = (net \ {m}) \cup {result}
  <2>1. ~Fault("send")
    BY DEF Fault
  <2>2. \/ ~AllAnswered(it) /\ item' = it /\ net' = net \ {m}
        \/ /\ item' = [it EXCEPT !.state = "ReceivedAllPinnerResponse"]
           /\ net' = (net \ {m}) \cup {result}
    BY <1>6, <2>1 DEF SliceDeployed, Handle, it, d
  <2> HIDE DEF result
  <2> QED  BY <1>5, <1>7, <2>2
<1>10. result.type = "result"
  OBVIOUS
<1> HIDE DEF result
<1>11. \A x \in net' : x \in net \/ x.type = "result"
  BY <1>9, <1>10
<1>12. InvitedUnderWay'
  BY <1>1, <1>4, <1>9, InvitedAfterElection DEF UnderWay
<1>13. Served \subseteq Served'
  <2>1. \A x \in net' : x.type \in CandidateTypes => x \in net
    BY <1>11 DEF CandidateTypes
  <2> QED  BY <1>1, <2>1, ServedStay
<1>14. KeysHeld'
  <2>1. \A x \in net' : x \notin net => KeyFits(x)'
    BY <1>11 DEF KeyFits
  <2> QED  BY <1>1, <1>9, <1>13, <2>1, KeysStay DEF UnderWay
<1>15. ExecutionUnderWay'
  BY <1>4, <1>9 DEF ExecutionUnderWay
<1>16. AnswersUnderWay'
  <2> SUFFICES ASSUME item'.state = "SentToInitialPinner"  PROVE AnswersUnderWay'
    BY DEF AnswersUnderWay
  <2>1. ~AllAnswered(it) /\ net' = net \ {m}
    BY <1>9
  <2>2. Answered(item') = Answered(item) \cup {m.peer} /\ Answered(it) = Answered(item')
    BY <1>7, <1>8, <1>9 DEF Answered
  <2>3. ~AllAnswered(item')
    BY <1>7, <1>9, <2>1, <2>2 DEF AllAnswered
  <2>4. ASSUME NEW p \in item'.asked \ Answered(item')
        PROVE  \E x \in net' : x.type \in SliceTypes /\ x.peer = p
    <3>1. p \in item.asked \ Answered(item) /\ p # m.peer
      BY <1>9, <2>2
    <3>2. PICK x \in net : x.type \in SliceTypes /\ x.peer = p
      BY <1>5, <3>1 DEF UnderWay, AnswersUnderWay
    <3> QED  BY <2>1, <3>1, <3>2
  <2> QED  BY <2>3, <2>4 DEF AnswersUnderWay
<1>17. SlicesRemembered'
  <2>1. \A x \in net' : RememberedBy(x)'
    <3> SUFFICES ASSUME NEW x \in net'  PROVE RememberedBy(x)'
      OBVIOUS
    <3>1. CASE x.type = "result"
      BY <3>1 DEF RememberedBy
    <3>2. CASE x \in net
      <4>1. RememberedBy(x)
        BY <3>2 DEF UnderWay, SlicesRemembered
      <4> QED  BY <1>1, <4>1 DEF RememberedBy
    <3> QED  BY <1>11, <3>1, <3>2
  <2>2. item'.answers \subseteq dataCid' \cap deployId'
    BY <1>1, <1>8, <1>9 DEF UnderWay, SlicesRemembered
  <2>3. \A e \in deployId' : pin'[e.peer] # "None"
    BY <1>1 DEF UnderWay, SlicesRemembered
  <2> QED  BY <2>1, <2>2, <2>3 DEF SlicesRemembered
<1>18. ResultUnderWay'
  BY <1>1, <1>5, <1>9, <1>10 DEF ResultUnderWay
<1> QED  BY <1>12, <1>14, <1>15, <1>16, <1>17, <1>18 DEF UnderWay

\* The steps after the last answer change neither the item nor what is remembered.
LEMMA ResultGoesOn ==
  ASSUME TypeOK, RolesKept, OneRound, OneRound', UnderWay,
         UNCHANGED <<item, invited, rsaKey, dataCid, deployId>>,
         NEW m \in net, m.type \in ResultTypes,
         \A x \in net : x = m \/ x \in net',
         \A x \in net' : x \in net \/ x.type \in ResultTypes, ResultUnderWay'
  PROVE  UnderWay'
<1>1. m.type \notin CandidateTypes \cup ExecutionTypes \cup SliceTypes
  BY DEF CandidateTypes, ExecutionTypes, SliceTypes, ResultTypes
<1>2. \A x \in net' : x \in net \/
        x.type \notin CandidateTypes \cup {"apply", "attest", "slice", "upload", "uploaded", "deployed"}
  BY DEF CandidateTypes, ResultTypes
<1>3. item.executor # NoPeer
  BY DEF OneRound, OnePublication, OneElection, Undecided
<1>4. InvitedUnderWay'
  BY <1>3, InvitedAfterElection DEF UnderWay
<1>5. KeysHeld'
  <2>1. Served \subseteq Served'
    BY <1>2, ServedStay
  <2>2. \A x \in net' : x \notin net => KeyFits(x)'
    BY <1>2 DEF KeyFits
  <2> QED  BY <2>1, <2>2, KeysStay DEF UnderWay
<1>6. ExecutionUnderWay' /\ AnswersUnderWay'
  <2>1. \A x \in net : x.type \in ExecutionTypes \cup SliceTypes => x \in net'
    BY <1>1
  <2> QED  BY <2>1, ExecutionStays, AnswersStay DEF UnderWay
<1>7. SlicesRemembered'
  BY <1>2, RememberedStay DEF UnderWay
<1> QED  BY <1>4, <1>5, <1>6, <1>7 DEF UnderWay

\* layer1 announces the asset to every node.
LEMMA Layer1AcceptsUnderWay ==
  ASSUME TypeOK, RolesKept, OneRound, OneRound', UnderWay,
         NEW m \in net, Layer1Accepts(m), UNCHANGED nodeVars
  PROVE  UnderWay'
<1> DEFINE assets == [type : {"asset"}, peer : Peers, key : {m.key}]
<1>1. m.type = "result" /\ m.type \in ResultTypes
  BY DEF Layer1Accepts, ResultTypes
<1>2. m.key = 1 /\ published = <<>>
  BY <1>1 DEF OneRound, OnePublication
<1>3. /\ net' = (net \ {m}) \cup {[type |-> "updated"]} \cup assets
      /\ UNCHANGED <<item, invited, rsaKey, dataCid, deployId>>
  BY DEF Layer1Accepts, Handle, nodeVars
<1>4. \A x \in assets : x.type = "asset"
  OBVIOUS
<1>5. ASSUME NEW d \in FirstSlices
      PROVE  \E x \in assets : x.type = "asset" /\ x.peer = d.peer /\ x.key = d.key
  <2>1. d.peer \in Peers /\ d.key = 1
    <3>1. item.pinners \in Seq(Candidate)
      BY DEF TypeOK, StoreItem
    <3>2. PICK i \in DOMAIN item.pinners :
            d = [peer |-> item.pinners[i].peer, key |-> 1, index |-> i]
      BY DEF FirstSlices
    <3>3. item.pinners[i] \in Candidate
      BY <3>1, ElementOfSeq
    <3> QED  BY <3>2, <3>3 DEF Candidate
  <2>2. [type |-> "asset", peer |-> d.peer, key |-> d.key] \in assets
    BY <1>2, <2>1
  <2> QED  BY <2>2
<1> HIDE DEF assets
<1>6. \A x \in net' : x \in net \/ x.type \in ResultTypes
  BY <1>3, <1>4 DEF ResultTypes
<1>7. ResultUnderWay'
  <2>1. FirstSlices' = FirstSlices /\ published' # <<>>
    BY <1>2, <1>3 DEF FirstSlices, Layer1Accepts
  <2>2. \A d \in FirstSlices :
          \E x \in net' : x.type = "asset" /\ x.peer = d.peer /\ x.key = d.key
    BY <1>3, <1>5
  <2> QED  BY <2>1, <2>2 DEF ResultUnderWay
<1> QED  BY <1>1, <1>3, <1>6, <1>7, ResultGoesOn

LEMMA CloseConnectionsUnderWay ==
  ASSUME TypeOK, RolesKept, OneRound, OneRound', UnderWay,
         NEW m \in net, CloseConnections(m), UNCHANGED nodeVars
  PROVE  UnderWay'
<1>1. /\ m.type = "updated" /\ net' = net \ {m}
      /\ UNCHANGED <<item, invited, rsaKey, dataCid, deployId, published, committed>>
  BY DEF CloseConnections, Handle, nodeVars
<1>2. m.type \in ResultTypes
  BY <1>1 DEF ResultTypes
<1>3. ResultUnderWay'
  <2>1. \A x \in net : x.type \in {"result", "asset"} => x \in net'
    BY <1>1
  <2>2. FirstSlices' = FirstSlices /\ \A d : Committed(d)' = Committed(d)
    BY <1>1 DEF FirstSlices, Committed
  <2> QED  BY <1>1, <2>1, <2>2 DEF UnderWay, ResultUnderWay
<1> QED  BY <1>1, <1>2, <1>3, ResultGoesOn

\* Both entries are there when the asset is announced, so the pinner commits.
LEMMA AssetGeneratedUnderWay ==
  ASSUME TypeOK, RolesKept, OneRound, OneRound', UnderWay,
         NEW m \in net, AssetGenerated(m), UNCHANGED delegatorVars
  PROVE  UnderWay'
<1>1. /\ m.type = "asset" /\ net' = net \ {m}
      /\ UNCHANGED <<item, invited, rsaKey, dataCid, deployId, published, pin>>
  BY DEF AssetGenerated, Handle, delegatorVars
<1>2. m.type \in ResultTypes
  BY <1>1 DEF ResultTypes
<1>3. FirstSlices' = FirstSlices
  BY <1>1 DEF FirstSlices
<1>4. committed \subseteq committed'
  BY DEF AssetGenerated
<1>5. ASSUME NEW d \in FirstSlices, published # <<>>
      PROVE  \/ Committed(d)'
             \/ \E x \in net' : x.type = "asset" /\ x.peer = d.peer /\ x.key = d.key
  <2>1. CASE Committed(d)
    BY <1>4, <2>1 DEF Committed
  <2>2. CASE \E x \in net \ {m} : x.type = "asset" /\ x.peer = d.peer /\ x.key = d.key
    BY <1>1, <2>2
  <2>3. CASE m.peer = d.peer /\ m.key = d.key
    <3>1. item.answers = FirstSlices
      BY <1>5 DEF OneRound, OnePublication
    <3>2. d \in dataCid /\ d \in deployId /\ pin[d.peer] # "None"
      BY <3>1 DEF UnderWay, SlicesRemembered
    <3>3. d \in Entry(dataCid, m.peer, m.key) /\ d \in Entry(deployId, m.peer, m.key)
      BY <2>3, <3>2 DEF Entry
    <3>4. [cid |-> d, deployment |-> d] \in
            [cid : Entry(dataCid, m.peer, m.key), deployment : Entry(deployId, m.peer, m.key)]
      BY <3>3
    <3> QED  BY <2>3, <3>2, <3>4 DEF AssetGenerated, Committed
  <2> QED  BY <1>5, <2>1, <2>2, <2>3 DEF UnderWay, ResultUnderWay
<1>6. ResultUnderWay'
  <2>1. \A x \in net : x.type = "result" => x \in net'
    BY <1>1
  <2> QED  BY <1>1, <1>3, <1>5, <2>1 DEF UnderWay, ResultUnderWay
<1> QED  BY <1>1, <1>2, <1>6, ResultGoesOn
-----------------------------------------------------------------------------
(* The task rests only when it is done *)

\* A fault is never undone.
LEMMA NoFaultBefore ==
  ASSUME TypeOK, [Next]_vars, faults' = 0
  PROVE  faults = 0
<1>1. ASSUME NEW k  PROVE ~Fault(k)
  BY <1>1 DEF Fault, TypeOK
<1>2. ASSUME NEW m \in net, DelegatorHandles(m)  PROVE faults = 0
  BY <1>1, <1>2 DEF DelegatorHandles, NodeReady, BecomeDelegator, Delegates, Profile,
     StartAttestation, AfterVerify, TrySendToExecutor, ExecutionResult, SliceDeployed,
     Layer1Accepts, CloseConnections, NoFault
<1>3. ASSUME NEW m \in net, NodeHandles(m)  PROVE faults = 0
  BY <1>1, <1>3 DEF NodeHandles, CandidateRequest, ApplyAsCandidate, Execute, StartUpload,
     StoreSlice, SliceUploaded, AssetGenerated, NoFault
<1>4. CASE Environment
  BY <1>1, <1>4 DEF Environment, PortalEvent, Lose, Expire
<1>5. CASE UNCHANGED vars
  BY <1>5 DEF vars
<1> QED  BY <1>2, <1>3, <1>4, <1>5 DEF Next, Deliver

LEMMA InitUnderWay == Init => UnderWay
<1> SUFFICES ASSUME Init  PROVE UnderWay
  OBVIOUS
<1>1. /\ item.state = "None" /\ item.executor = NoPeer /\ item.key = NoKey
      /\ item.pinners = <<>> /\ item.candExecutors = <<>> /\ item.candPinners = <<>>
      /\ item.answers = {}
  BY DEF Init, DelegatorInit, Fresh
<1>2. /\ net = {} /\ invited = {} /\ published = <<>> /\ deployId = {}
      /\ \A p \in Peers : exe[p] = "None" /\ pin[p] = "None"
  BY DEF Init, DelegatorInit, NodeInit
<1>3. InvitedUnderWay
  BY <1>1, <1>2 DEF InvitedUnderWay
<1>4. KeysHeld
  <2>1. <<>> \in Seq(Served)
    OBVIOUS
  <2> QED  BY <1>1, <1>2, <2>1 DEF KeysHeld
<1>5. ExecutionUnderWay /\ AnswersUnderWay /\ SlicesRemembered /\ ResultUnderWay
  BY <1>1, <1>2 DEF ExecutionUnderWay, AnswersUnderWay, SlicesRemembered, ResultUnderWay
<1> QED  BY <1>3, <1>4, <1>5 DEF UnderWay

LEMMA NextUnderWay ==
  ASSUME MaxEvents = 1, ProfilesAgree, TypeOK, OneRound, OneRound', AllUnderWay, [Next]_vars
  PROVE  AllUnderWay'
<1> SUFFICES ASSUME faults' = 0  PROVE UnderWay'
  BY DEF AllUnderWay
<1>1. faults = 0 /\ UnderWay
  BY NoFaultBefore DEF AllUnderWay
<1>2. RolesKept
  BY NextRolesKept
<1>3. ASSUME NEW m \in net, DelegatorHandles(m), UNCHANGED nodeVars  PROVE UnderWay'
  <2>1. CASE NodeReady(m) \/ BecomeDelegator(m)
    BY <1>1, <1>2, <1>3, <2>1, StartUnderWay
  <2>2. CASE Delegates(m)
    BY <1>1, <1>2, <1>3, <2>2, DelegatesUnderWay
  <2>3. CASE Profile(m)
    BY <1>1, <1>2, <1>3, <2>3, ProfileUnderWay
  <2>4. CASE StartAttestation(m)
    BY <1>1, <1>2, <1>3, <2>4, StartAttestationUnderWay
  <2>5. CASE AfterVerify(m)
    BY <1>1, <1>2, <1>3, <2>5, AfterVerifyUnderWay
  <2>6. CASE ExecutionResult(m)
    BY <1>1, <1>2, <1>3, <2>6, ExecutionResultUnderWay
  <2>7. CASE SliceDeployed(m)
    BY <1>1, <1>2, <1>3, <2>7, SliceDeployedUnderWay
  <2>8. CASE Layer1Accepts(m)
    BY <1>1, <1>2, <1>3, <2>8, Layer1AcceptsUnderWay
  <2>9. CASE CloseConnections(m)
    BY <1>1, <1>2, <1>3, <2>9, CloseConnectionsUnderWay
  <2> QED
    BY <1>3, <2>1, <2>2, <2>3, <2>4, <2>5, <2>6, <2>7, <2>8, <2>9 DEF DelegatorHandles
<1>4. ASSUME NEW m \in net, NodeHandles(m), UNCHANGED delegatorVars  PROVE UnderWay'
  <2>1. CASE CandidateRequest(m)
    BY <1>1, <1>2, <1>4, <2>1, CandidateRequestUnderWay
  <2>2. CASE ApplyAsCandidate(m)
    BY <1>1, <1>2, <1>4, <2>2, ApplyUnderWay
  <2>3. CASE Execute(m)
    BY <1>1, <1>2, <1>4, <2>3, ExecuteUnderWay
  <2>4. CASE StartUpload(m)
    BY <1>1, <1>2, <1>4, <2>4, StartUploadUnderWay
  <2>5. CASE StoreSlice(m)
    BY <1>1, <1>2, <1>4, <2>5, StoreSliceUnderWay
  <2>6. CASE SliceUploaded(m)
    BY <1>1, <1>2, <1>4, <2>6, SliceUploadedUnderWay
  <2>7. CASE AssetGenerated(m)
    BY <1>1, <1>2, <1>4, <2>7, AssetGeneratedUnderWay
  <2> QED
    BY <1>4, <2>1, <2>2, <2>3, <2>4, <2>5, <2>6, <2>7 DEF NodeHandles
<1>5. CASE Environment
  <2>1. PortalEvent /\ UNCHANGED nodeVars
    BY <1>1, <1>5 DEF Environment, Lose, Expire, Fault
  <2> QED  BY <1>1, <1>2, <2>1, PortalEventUnderWay
<1>6. CASE UNCHANGED vars
  <2>1. Served' = Served /\ \A x : KeyFits(x)' = KeyFits(x)
    BY <1>6 DEF vars, delegatorVars, nodeVars, Served, KeyFits
  <2>2. InvitedUnderWay'
    BY <1>1, <1>6 DEF UnderWay, InvitedUnderWay, Stored, vars, delegatorVars, nodeVars
  <2>3. KeysHeld'
    BY <1>1, <1>6, <2>1 DEF UnderWay, KeysHeld, vars, delegatorVars, nodeVars
  <2>4. ExecutionUnderWay' /\ AnswersUnderWay' /\ SlicesRemembered' /\ ResultUnderWay'
    BY <1>1, <1>2, <1>6, ExecutionStays, AnswersStay, RememberedStay, ResultStays
       DEF UnderWay, vars, delegatorVars, nodeVars
  <2> QED  BY <2>2, <2>3, <2>4 DEF UnderWay
<1> QED  BY <1>3, <1>4, <1>5, <1>6 DEF Next, Deliver

\* As long as nothing failed, whatever the round still waits for has its message
\* under way, and the message finds what its handler needs.
THEOREM NothingIsMissing == MaxEvents = 1 /\ ProfilesAgree => (Spec => []AllUnderWay)
<1> SUFFICES ASSUME MaxEvents = 1, ProfilesAgree  PROVE Spec => []AllUnderWay
  OBVIOUS
<1>1. Init => TypeOK /\ OneRound /\ AllUnderWay
  BY InitTypeOK, InitOneRound, InitUnderWay DEF AllUnderWay
<1>2. (TypeOK /\ OneRound /\ AllUnderWay) /\ [Next]_vars => (TypeOK /\ OneRound /\ AllUnderWay)'
  BY NextTypeOK, NextOneRound, NextUnderWay
<1> QED  BY <1>1, <1>2, PTL DEF Spec

\* Where every invited node is stored, the vectors are long enough for all of them.
LEMMA StoredCount ==
  ASSUME TypeOK, \A i, j \in invited : i.peer = j.peer => i = j, \A i \in invited : Stored(i)
  PROVE  /\ InvitedAs(TRUE) # {} => item.candExecutors # <<>>
         /\ Cardinality(invited) \in Nat
         /\ Cardinality(invited) <= Len(item.candExecutors) + Len(item.candPinners)
<1> DEFINE e == item.candExecutors
           p == item.candPinners
           L == Len(e) + Len(p)
           place(i) == IF i.exec THEN CHOOSE j \in DOMAIN e : e[j].peer = i.peer
                                 ELSE CHOOSE j \in DOMAIN p : p[j].peer = i.peer
           f == [i \in invited |-> IF i.exec THEN place(i) ELSE Len(e) + place(i)]
<1>1. e \in Seq(Candidate) /\ p \in Seq(Candidate)
  BY DEF TypeOK, StoreItem
<1>2. /\ DOMAIN e = 1 .. Len(e) /\ DOMAIN p = 1 .. Len(p)
      /\ Len(e) \in Nat /\ Len(p) \in Nat /\ L \in Nat
  <2> HIDE DEF e, p
  <2> QED  BY <1>1
<1>3. ASSUME NEW i \in invited
      PROVE  /\ i.exec \in BOOLEAN
             /\ i.exec => place(i) \in DOMAIN e /\ e[place(i)].peer = i.peer
             /\ ~i.exec => place(i) \in DOMAIN p /\ p[place(i)].peer = i.peer
  BY DEF TypeOK, Stored
<1> HIDE DEF place, e, p, L
<1>4. InvitedAs(TRUE) # {} => e # <<>>
  BY <1>3 DEF InvitedAs
<1>5. ASSUME NEW i \in invited
      PROVE  /\ f[i] \in 1 .. L
             /\ i.exec => f[i] = place(i) /\ f[i] <= Len(e)
             /\ ~i.exec => f[i] = Len(e) + place(i) /\ f[i] > Len(e) /\ place(i) \in Nat
  BY <1>2, <1>3 DEF L
<1>6. ASSUME NEW i \in invited, NEW j \in invited, f[i] = f[j]  PROVE i = j
  <2>1. i.exec = j.exec /\ place(i) = place(j)
    <3>1. CASE i.exec /\ j.exec
      BY <1>5, <1>6, <3>1
    <3>2. CASE ~i.exec /\ ~j.exec
      <4>1. i.exec = j.exec
        BY <1>3, <3>2
      <4>2. place(i) = place(j)
        BY <1>2, <1>5, <1>6, <3>2
      <4> QED  BY <4>1, <4>2
    <3>3. CASE i.exec /\ ~j.exec
      BY <1>2, <1>5, <1>6, <3>3
    <3>4. CASE ~i.exec /\ j.exec
      BY <1>2, <1>5, <1>6, <3>4
    <3> QED  BY <3>1, <3>2, <3>3, <3>4
  <2>2. i.peer = j.peer
    BY <1>3, <2>1
  <2> QED  BY <2>2
<1>7. f \in Injection(invited, 1 .. L)
  <2>1. f \in [invited -> 1 .. L]
    BY <1>5
  <2> QED  BY <1>6, <2>1 DEF Injection, IsInjective
<1>8. IsFiniteSet(1 .. L) /\ Cardinality(1 .. L) = L
  <2>1. L \in Nat
    BY <1>2
  <2>2. Cardinality(1 .. L) = IF 1 > L THEN 0 ELSE L - 1 + 1
    BY <2>1, FS_Interval
  <2>3. IsFiniteSet(1 .. L)
    BY <2>1, FS_Interval
  <2> QED  BY <2>1, <2>2, <2>3
<1> HIDE DEF f
<1>9. IsFiniteSet(invited) /\ Cardinality(invited) <= L
  BY <1>7, <1>8, FS_Injection
<1>10. Cardinality(invited) \in Nat
  BY <1>9, FS_CardinalityType
<1> QED  BY <1>4, <1>9, <1>10 DEF e, p, L

LEMMA RestIsDone ==
  TypeOK /\ OneRound /\ NobodyWaitsInVain /\ AllUnderWay => RestsOnlyWhenDone
<1> SUFFICES ASSUME TypeOK, OneRound, NobodyWaitsInVain, UnderWay, net = {}, faults = 0
             PROVE  /\ InvitedAs(TRUE) # {} /\ Cardinality(invited) > N => published # <<>>
                    /\ \A i \in DOMAIN published : \A d \in published[i].deployments : Committed(d)
  BY DEF AllUnderWay, RestsOnlyWhenDone
<1>1. ASSUME InvitedAs(TRUE) # {}, Cardinality(invited) > N, published = <<>>  PROVE FALSE
  <2>1. item.state \notin {"None", "Init", "ReceivedExecutionResult"}
    BY <1>1 DEF UnderWay, InvitedUnderWay, ExecutionUnderWay, InvitedAs
  <2>2. item.state # "ReceivedAllPinnerResponse"
    BY <1>1 DEF UnderWay, ResultUnderWay
  <2>3. item.state # "SentToInitialPinner"
    BY DEF UnderWay, AnswersUnderWay, AllAnswered
  <2>4. item.state # "SentToExecutor"
    BY DEF OneRound, OneElection, OneExecution, Undecided, UnderWay, ExecutionUnderWay
  <2>5. item.state = "InvitedCandidates"
    BY <2>1, <2>2, <2>3, <2>4 DEF TypeOK, StoreItem, DelegatorState
  <2>6. item.executor = NoPeer
    BY <2>5 DEF OneRound, OneElection, Undecided
  <2>7. (\A i, j \in invited : i.peer = j.peer => i = j) /\ \A i \in invited : Stored(i)
    BY <2>6 DEF UnderWay, InvitedUnderWay
  <2>8. /\ item.candExecutors # <<>> /\ Cardinality(invited) \in Nat
        /\ Cardinality(invited) <= Len(item.candExecutors) + Len(item.candPinners)
    BY <1>1, <2>7, StoredCount
  <2>9. Len(item.candExecutors) \in Nat /\ Len(item.candPinners) \in Nat
    <3>1. item.candExecutors \in Seq(Candidate) /\ item.candPinners \in Seq(Candidate)
      BY DEF TypeOK, StoreItem
    <3> QED  BY <3>1
  <2>10. Len(item.candExecutors) + Len(item.candPinners) >= (N + 1) % U8
    <3>1. Len(item.candExecutors) + Len(item.candPinners) >= N + 1
      <4>1. N \in Nat
        BY CountsBelow256
      <4>2. Cardinality(invited) >= N + 1
        BY <1>1, <2>8, <4>1
      <4>3. ASSUME NEW a \in Nat, NEW b \in Nat, NEW c \in Nat, NEW n \in Nat,
                   c >= n + 1, c <= a + b
            PROVE  a + b >= n + 1
        BY <4>3
      <4>4. Cardinality(invited) \in Nat
        BY <2>8
      <4>5. Cardinality(invited) <= Len(item.candExecutors) + Len(item.candPinners)
        BY <2>8
      <4> QED  BY <2>9, <4>1, <4>2, <4>3, <4>4, <4>5, Zenon
    <3> QED  BY <3>1, CountsBelow256 DEF U8
  <2>11. Ready(N, item.candExecutors, item.candPinners)
    BY <2>8, <2>10 DEF Ready
  <2> QED  BY <2>5, <2>11 DEF NobodyWaitsInVain
<1>2. ASSUME NEW i \in DOMAIN published, NEW d \in published[i].deployments  PROVE Committed(d)
  <2>1. published = <<[key |-> 1, deployments |-> FirstSlices]>>
    BY <1>2 DEF OneRound, OnePublication
  <2>2. d \in FirstSlices /\ published # <<>>
    BY <1>2, <2>1
  <2> QED  BY <2>2 DEF UnderWay, ResultUnderWay
<1> QED  BY <1>1, <1>2

\* A task in which nothing failed comes to rest only when it is done: with a
\* delegate and N more nodes invited, its result is published, and every node
\* named in it has committed the slice it was sent with its deployment.
THEOREM RestsWhenDone == MaxEvents = 1 /\ ProfilesAgree => (Spec => []RestsOnlyWhenDone)
<1> SUFFICES ASSUME MaxEvents = 1, ProfilesAgree  PROVE Spec => []RestsOnlyWhenDone
  OBVIOUS
<1>1. Spec => []TypeOK /\ []OneRound /\ []NobodyWaitsInVain /\ []AllUnderWay
  BY TypeCorrect, EachUsedOnce, NobodyEverWaitsInVain, NothingIsMissing
<1> QED  BY <1>1, RestIsDone, PTL
-----------------------------------------------------------------------------
(* Nothing goes on for ever, however often the event is delivered *)

\* How far each kind of message is.
LEMMA Stages ==
  /\ Stage["nodeReady"] = 1 /\ Stage["delegatorKey"] = 2 /\ Stage["delegates"] = 3
  /\ Stage["profile"] = 4 /\ Stage["candidate"] = 5 /\ Stage["verify"] = 6
  /\ Stage["apply"] = 7 /\ Stage["attest"] = 8 /\ Stage["execute"] = 9
  /\ Stage["executed"] = 10 /\ Stage["slice"] = 11 /\ Stage["upload"] = 12
  /\ Stage["uploaded"] = 13 /\ Stage["deployed"] = 14 /\ Stage["result"] = 15
  /\ Stage["updated"] = 16 /\ Stage["asset"] = 17
  BY DEF Stage

LEMMA StageType == ASSUME NEW m \in Message PROVE Stage[m.type] \in 1 .. 17
<1>1. m.type \in {"nodeReady", "delegatorKey", "delegates", "profile", "candidate", "verify",
                  "apply", "attest", "execute", "executed", "slice", "upload", "uploaded",
                  "deployed", "result", "updated", "asset"}
  BY DEF Message, EventAnswers, Profiles, Invitations, Applications, Requests, Responses,
         Slices, Deployments, Results, Updates, Assets
<1> QED  BY <1>1, Stages

\* A step that uses something up and adds to later stages only.
UsesUp ==
  \E i \in 0 .. 17 : /\ Left(i)' \in 0 .. Left(i) - 1
                     /\ \A j \in 0 .. i - 1 : Left(j)' = Left(j)

\* What a handler of m may do: send finitely many messages, all of later stages, or
\* fail in one of the faults that are left.
GoesOn(m) ==
  \E out : /\ Handle(m, out) /\ IsFiniteSet(out) /\ events' = events
           /\ \/ NoFault /\ \A x \in out : Stage[x.type] > Stage[m.type]
              \/ faults < MaxFaults /\ faults' = faults + 1

\* An event or a fault leaves one less of these.
LEMMA BudgetUsed ==
  ASSUME TypeOK, Bounded,
         \/ events < MaxEvents /\ events' = events + 1 /\ faults' = faults
         \/ faults < MaxFaults /\ faults' = faults + 1 /\ events' = events
  PROVE  UsesUp
<1>1. /\ events \in Nat /\ faults \in Nat /\ MaxEvents \in Nat /\ MaxFaults \in Nat
      /\ events <= MaxEvents /\ faults <= MaxFaults
  BY NetworkAssumption DEF TypeOK, Bounded
<1>2. Left(0) = (MaxEvents - events) + (MaxFaults - faults)
      /\ Left(0)' = (MaxEvents - events') + (MaxFaults - faults')
  BY DEF Left
<1>3. Left(0)' = Left(0) - 1 /\ Left(0) \in Nat /\ Left(0)' \in Nat
  BY <1>1, <1>2
<1>4. Left(0)' \in 0 .. Left(0) - 1
  BY <1>3
<1> QED  BY <1>4 DEF UsesUp

\* Handling a message leaves one less of its stage, and none more of an earlier one.
LEMMA MessageUsed ==
  ASSUME TypeOK, Bounded, NEW m \in net, NEW out, Handle(m, out), NoFault, events' = events,
         \A x \in out : Stage[x.type] > Stage[m.type]
  PROVE  UsesUp
<1> DEFINE i == Stage[m.type]
           Now(j) == {x \in net : Stage[x.type] = j}
           Next_(j) == {x \in net' : Stage[x.type] = j}
<1>1. i \in 1 .. 17 /\ net' = (net \ {m}) \cup out
  BY StageType DEF TypeOK, Handle
<1>2. Next_(i) = Now(i) \ {m} /\ m \in Now(i)
  BY <1>1
<1>3. \A j \in 1 .. i - 1 : Next_(j) = Now(j)
  BY <1>1
<1>4. IsFiniteSet(Now(i))
  BY FS_Subset, Now(i) \in SUBSET net DEF Bounded
<1>5. Left(i) = Cardinality(Now(i)) /\ Left(i)' = Cardinality(Next_(i))
  BY <1>1 DEF Left
<1>6. \A j \in 1 .. i - 1 : Left(j)' = Left(j)
  <2> SUFFICES ASSUME NEW j \in 1 .. i - 1  PROVE Left(j)' = Left(j)
    OBVIOUS
  <2>1. j # 0 /\ Next_(j) = Now(j)
    BY <1>1, <1>3
  <2>2. Left(j) = Cardinality(Now(j)) /\ Left(j)' = Cardinality(Next_(j))
    BY <2>1 DEF Left
  <2> QED  BY <2>1, <2>2
<1>7. Left(0)' = Left(0)
  BY DEF Left, NoFault
<1>8. Left(i)' = Left(i) - 1 /\ Left(i) \in Nat /\ Left(i)' \in Nat
  <2> HIDE DEF Now, Next_, i
  <2> QED  BY <1>2, <1>4, <1>5, FS_RemoveElement, FS_CardinalityType
<1>9. \A j \in 0 .. i - 1 : Left(j)' = Left(j)
  <2> SUFFICES ASSUME NEW j \in 0 .. i - 1  PROVE Left(j)' = Left(j)
    OBVIOUS
  <2>1. j = 0 \/ j \in 1 .. i - 1
    BY <1>1
  <2> QED  BY <2>1, <1>6, <1>7
<1>10. i \in 0 .. 17 /\ Left(i)' \in 0 .. Left(i) - 1
  BY <1>1, <1>8
<1> HIDE DEF i
<1> QED  BY <1>9, <1>10 DEF UsesUp

LEMMA HandledUsed ==
  ASSUME TypeOK, Bounded, NEW m \in net, GoesOn(m)
  PROVE  UsesUp /\ Bounded'
<1>1. PICK out : /\ Handle(m, out) /\ IsFiniteSet(out) /\ events' = events
                 /\ \/ NoFault /\ \A x \in out : Stage[x.type] > Stage[m.type]
                    \/ faults < MaxFaults /\ faults' = faults + 1
  BY DEF GoesOn
<1>2. IsFiniteSet(net')
  <2>1. IsFiniteSet(net \ {m})
    BY FS_RemoveElement DEF Bounded
  <2> QED  BY <1>1, <2>1, FS_Union DEF Handle
<1>3. events' <= MaxEvents /\ faults' <= MaxFaults
  BY <1>1, NetworkAssumption DEF TypeOK, Bounded, NoFault
<1>4. UsesUp
  BY <1>1, BudgetUsed, MessageUsed
<1> QED  BY <1>2, <1>3, <1>4 DEF Bounded

\* The messages named in a handler are finitely many.
LEMMA FiniteImage ==
  ASSUME NEW S, IsFiniteSet(S), NEW f, DOMAIN f = S
  PROVE  IsFiniteSet({f[x] : x \in S})
<1> DEFINE g == [x \in S |-> f[x]]
<1>2. g \in Surjection(S, {f[x] : x \in S})
  BY DEF Surjection
<1> QED  BY <1>2, FS_Surjection

\* A message that nothing follows, one that one of a later stage follows, and a
\* call that fails.
LEMMA OneFollows ==
  ASSUME NEW m, NEW out, Handle(m, out), events' = events,
         out = {} \/ \E x : out = {x} /\ Stage[x.type] > Stage[m.type],
         NoFault \/ Fault("send")
  PROVE  GoesOn(m)
<1>1. IsFiniteSet(out)
  BY FS_EmptySet, FS_Singleton
<1>2. \A x \in out : Stage[x.type] > Stage[m.type]
  OBVIOUS
<1> QED  BY <1>1, <1>2 DEF GoesOn, Fault, CanFail

LEMMA ManyFollow ==
  ASSUME NEW m, NEW out, Handle(m, out), events' = events, IsFiniteSet(out),
         \A x \in out : Stage[x.type] > Stage[m.type],
         NoFault \/ Fault("send")
  PROVE  GoesOn(m)
  BY DEF GoesOn, Fault, CanFail

LEMMA DelegatesGoesOn ==
  ASSUME TypeOK, IsFiniteSet(Peers), NEW m \in net, Delegates(m)
  PROVE  GoesOn(m)
<1>1. m.type = "delegates" /\ events' = events /\ NoFault
  BY DEF Delegates
<1>2. PICK executors \in SUBSET Peers, pinners \in SUBSET Peers :
        Handle(m, {[type |-> "profile", ev |-> m.ev, peer |-> p] : p \in executors}
               \cup [type : {"candidate"}, ev : {m.ev}, peer : pinners, exec : {FALSE}])
  BY DEF Delegates, SwarmPeers
<1> DEFINE f == [p \in executors |-> [type |-> "profile", ev |-> m.ev, peer |-> p]]
           g == [p \in pinners |->
                  [type |-> "candidate", ev |-> m.ev, peer |-> p, exec |-> FALSE]]
           lookups == {f[p] : p \in executors}
           invitations == {g[p] : p \in pinners}
<1>3. IsFiniteSet(lookups) /\ IsFiniteSet(invitations)
  <2>1. IsFiniteSet(executors) /\ IsFiniteSet(pinners)
    BY FS_Subset
  <2>2. DOMAIN f = executors /\ DOMAIN g = pinners
    OBVIOUS
  <2> HIDE DEF f, g
  <2> QED  BY <2>1, <2>2, FiniteImage
<1>4. \A x \in lookups \cup invitations : x.type \in {"profile", "candidate"}
  OBVIOUS
<1>5. \A x \in lookups \cup invitations : Stage[x.type] > Stage[m.type]
  <2> HIDE DEF lookups, invitations
  <2> QED  BY <1>1, <1>4, Stages
<1>6. [type : {"candidate"}, ev : {m.ev}, peer : pinners, exec : {FALSE}] = invitations
  <2> DEFINE T == [type : {"candidate"}, ev : {m.ev}, peer : pinners, exec : {FALSE}]
  <2>1. \A p \in pinners : g[p] \in T
    OBVIOUS
  <2>2. ASSUME NEW h \in T  PROVE h \in invitations
    <3>1. h.peer \in pinners /\ h = g[h.peer]
      OBVIOUS
    <3> QED  BY <3>1
  <2> HIDE DEF T, g
  <2>3. T \subseteq invitations /\ invitations \subseteq T
    BY <2>1, <2>2
  <2>4. T = invitations
    BY <2>3
  <2> QED  BY <2>4 DEF T
<1>7. {[type |-> "profile", ev |-> m.ev, peer |-> p] : p \in executors} = lookups
  OBVIOUS
<1>8. Handle(m, lookups \cup invitations)
  <2> HIDE DEF lookups, invitations
  <2> QED  BY <1>2, <1>6, <1>7
<1>9. IsFiniteSet(lookups \cup invitations)
  BY <1>3, FS_Union
<1> HIDE DEF lookups, invitations
<1> QED  BY <1>1, <1>5, <1>8, <1>9, ManyFollow

LEMMA ExecutionResultGoesOn ==
  ASSUME TypeOK, NEW m \in net, ExecutionResult(m)
  PROVE  GoesOn(m)
<1>1. m.type = "executed" /\ events' = events /\ Len(m.pinners) \in Nat
  BY MessageFields DEF ExecutionResult, TypeOK, Responses
<1>2. ASSUME NEW count \in Nat, Handle(m, SlicesTo(m, count)), NoFault \/ Fault("send")
      PROVE  GoesOn(m)
  <2> DEFINE f == [i \in 1 .. count |-> SliceFor(m, i)]
  <2>1. IsFiniteSet({f[i] : i \in 1 .. count})
    <3>1. DOMAIN f = 1 .. count /\ IsFiniteSet(1 .. count)
      BY FS_Interval
    <3> HIDE DEF f
    <3> QED  BY <3>1, FiniteImage
  <2>2. SlicesTo(m, count) = {f[i] : i \in 1 .. count}
    BY DEF SlicesTo
  <2>3. \A x \in SlicesTo(m, count) : x.type = "slice"
    BY DEF SlicesTo, SliceFor
  <2>4. \A x \in SlicesTo(m, count) : Stage[x.type] > Stage[m.type]
    BY <1>1, <2>3, Stages
  <2>5. IsFiniteSet(SlicesTo(m, count))
    BY <2>1, <2>2
  <2> QED  BY <1>1, <1>2, <2>4, <2>5, ManyFollow
<1>3. \A sent \in 0 .. Len(m.pinners) - 1 : sent \in Nat
  BY <1>1
<1> QED  BY <1>1, <1>2, <1>3 DEF ExecutionResult

LEMMA Layer1AcceptsGoesOn ==
  ASSUME TypeOK, IsFiniteSet(Peers), NEW m \in net, Layer1Accepts(m)
  PROVE  GoesOn(m)
<1>1. m.type = "result" /\ events' = events /\ NoFault
      /\ Handle(m, {[type |-> "updated"]} \cup [type : {"asset"}, peer : Peers, key : {m.key}])
  BY DEF Layer1Accepts
<1> DEFINE f == [p \in Peers |-> [type |-> "asset", peer |-> p, key |-> m.key]]
           assets == {f[p] : p \in Peers}
           updates == {[type |-> "updated"]}
<1>2. IsFiniteSet(assets)
  <2>1. DOMAIN f = Peers
    OBVIOUS
  <2> HIDE DEF f
  <2> QED  BY <2>1, FiniteImage
<1>3. [type : {"asset"}, peer : Peers, key : {m.key}] = assets
  <2> DEFINE T == [type : {"asset"}, peer : Peers, key : {m.key}]
  <2>1. \A p \in Peers : f[p] \in T
    OBVIOUS
  <2>2. ASSUME NEW h \in T  PROVE h \in assets
    <3>1. h.peer \in Peers /\ h = f[h.peer]
      OBVIOUS
    <3> QED  BY <3>1
  <2> HIDE DEF T, f
  <2>3. T \subseteq assets /\ assets \subseteq T
    BY <2>1, <2>2
  <2>4. T = assets
    BY <2>3
  <2> QED  BY <2>4 DEF T
<1>4. \A x \in updates \cup assets : x.type \in {"updated", "asset"}
  OBVIOUS
<1>5. Handle(m, updates \cup assets)
  BY <1>1, <1>3
<1>6. IsFiniteSet(updates \cup assets)
  BY <1>2, FS_Singleton, FS_Union
<1> HIDE DEF updates, assets
<1>7. \A x \in updates \cup assets : Stage[x.type] > Stage[m.type]
  BY <1>1, <1>4, Stages
<1> QED  BY <1>1, <1>5, <1>6, <1>7, ManyFollow

LEMMA DelegatorGoesOn ==
  ASSUME TypeOK, IsFiniteSet(Peers), NEW m \in net, DelegatorHandles(m)
  PROVE  GoesOn(m)
<1>t. m \in Message
  BY DEF TypeOK
<1>e. events' = events
  BY DEF DelegatorHandles, NodeReady, BecomeDelegator, Delegates, Profile, StartAttestation,
         AfterVerify, ExecutionResult, SliceDeployed, Layer1Accepts, CloseConnections,
         delegatorVars
<1>n. ASSUME Handle(m, {}), NoFault \/ Fault("send")  PROVE GoesOn(m)
  BY <1>e, <1>n, OneFollows
<1>o. ASSUME NEW x, Handle(m, {x}), NoFault, Stage[x.type] > Stage[m.type]  PROVE GoesOn(m)
  BY <1>e, <1>o, OneFollows
<1>1. CASE NodeReady(m)
  <2> DEFINE x == [type |-> "delegatorKey", ev |-> m.ev]
  <2>1. Stage[x.type] > Stage[m.type]
    BY <1>1, Stages DEF NodeReady
  <2>2. (Handle(m, {x}) \/ Handle(m, {})) /\ NoFault
    BY <1>1 DEF NodeReady
  <2> HIDE DEF x
  <2> QED  BY <1>n, <1>o, <2>1, <2>2
<1>2. CASE BecomeDelegator(m)
  <2> DEFINE x == [type |-> "delegates", ev |-> m.ev]
  <2>1. Stage[x.type] > Stage[m.type]
    BY <1>2, Stages DEF BecomeDelegator
  <2>2. \/ Handle(m, {x}) /\ NoFault
        \/ Handle(m, {}) /\ (NoFault \/ Fault("send"))
    BY <1>2 DEF BecomeDelegator
  <2> HIDE DEF x
  <2> QED  BY <1>n, <1>o, <2>1, <2>2
<1>3. CASE Delegates(m)
  BY <1>3, DelegatesGoesOn
<1>4. CASE Profile(m)
  <2> DEFINE x == [type |-> "candidate", ev |-> m.ev, peer |-> m.peer, exec |-> TRUE]
  <2>1. Stage[x.type] > Stage[m.type]
    BY <1>4, Stages DEF Profile
  <2>2. Handle(m, {x}) /\ NoFault
    BY <1>4 DEF Profile
  <2> HIDE DEF x
  <2> QED  BY <1>o, <2>1, <2>2
<1>5. CASE StartAttestation(m)
  <2> DEFINE x == [m EXCEPT !.type = "attest"]
  <2>1. m \in Applications
    BY <1>5, <1>t, MessageFields DEF StartAttestation
  <2>2. Stage[x.type] > Stage[m.type]
    BY <1>5, <2>1, Stages DEF StartAttestation, Applications
  <2>3. Handle(m, {x}) /\ NoFault
    BY <1>5 DEF StartAttestation
  <2> HIDE DEF x
  <2> QED  BY <1>o, <2>2, <2>3
<1>6. CASE AfterVerify(m)
  <2>1. ASSUME NEW it, TrySendToExecutor(m, it)  PROVE GoesOn(m)
    <3> DEFINE x == [type |-> "execute", peer |-> Elect(it).executor, pinners |-> Elect(it).pinners]
    <3>1. Stage[x.type] > Stage[m.type]
      BY <1>6, Stages DEF AfterVerify
    <3>2. \/ Handle(m, {x}) /\ NoFault
          \/ Handle(m, {}) /\ (NoFault \/ Fault("send"))
      BY <2>1 DEF TrySendToExecutor
    <3> HIDE DEF x
    <3> QED  BY <1>n, <1>o, <3>1, <3>2
  <2> QED  BY <1>6, <1>n, <2>1 DEF AfterVerify
<1>7. CASE ExecutionResult(m)
  BY <1>7, ExecutionResultGoesOn
<1>8. CASE SliceDeployed(m)
  <2>1. \/ \E k, d : Handle(m, {[type |-> "result", key |-> k, deployments |-> d]}) /\ NoFault
        \/ Handle(m, {}) /\ (NoFault \/ Fault("send"))
    BY <1>8 DEF SliceDeployed
  <2>2. ASSUME NEW k, NEW d, Handle(m, {[type |-> "result", key |-> k, deployments |-> d]}), NoFault
        PROVE  GoesOn(m)
    <3> DEFINE x == [type |-> "result", key |-> k, deployments |-> d]
    <3>1. Stage[x.type] > Stage[m.type]
      BY <1>8, Stages DEF SliceDeployed
    <3>2. Handle(m, {x})
      BY <2>2
    <3> HIDE DEF x
    <3> QED  BY <1>o, <2>2, <3>1, <3>2
  <2> QED  BY <1>n, <2>1, <2>2
<1>9. CASE Layer1Accepts(m)
  BY <1>9, Layer1AcceptsGoesOn
<1>10. CASE CloseConnections(m)
  BY <1>10, <1>n DEF CloseConnections
<1> QED
  BY <1>1, <1>2, <1>3, <1>4, <1>5, <1>6, <1>7, <1>8, <1>9, <1>10 DEF DelegatorHandles

LEMMA NodeGoesOn ==
  ASSUME TypeOK, NEW m \in net, NodeHandles(m), UNCHANGED delegatorVars
  PROVE  GoesOn(m)
<1>t. m \in Message /\ events' = events
  BY DEF TypeOK, delegatorVars
<1>n. ASSUME Handle(m, {}), NoFault \/ Fault("send")  PROVE GoesOn(m)
  BY <1>t, <1>n, OneFollows
<1>o. ASSUME NEW x, Handle(m, {x}), NoFault, Stage[x.type] > Stage[m.type]  PROVE GoesOn(m)
  BY <1>t, <1>o, OneFollows
<1>1. CASE CandidateRequest(m)
  <2> DEFINE x == Verify(m)
  <2>1. m \in Invitations
    BY <1>1, <1>t, MessageFields DEF CandidateRequest
  <2>2. Stage[x.type] > Stage[m.type]
    BY <1>1, <2>1, Stages DEF CandidateRequest, Verify, Invitations
  <2>3. (Handle(m, {x}) \/ Handle(m, {})) /\ NoFault
    BY <1>1 DEF CandidateRequest
  <2> HIDE DEF x
  <2> QED  BY <1>n, <1>o, <2>2, <2>3
<1>2. CASE ApplyAsCandidate(m)
  <2> DEFINE x == Application(m, rsaKeys[m.peer] + 1)
  <2>1. Stage[x.type] > Stage[m.type]
    BY <1>2, Stages DEF ApplyAsCandidate, Application
  <2>2. \/ Handle(m, {x}) /\ NoFault
        \/ Handle(m, {}) /\ Fault("send")
    BY <1>2 DEF ApplyAsCandidate
  <2> HIDE DEF x
  <2> QED  BY <1>n, <1>o, <2>1, <2>2
<1>3. CASE Execute(m)
  <2> DEFINE x == [type |-> "executed", peer |-> m.peer, key |-> keys + 1, pinners |-> m.pinners]
  <2>1. Stage[x.type] > Stage[m.type]
    BY <1>3, Stages DEF Execute
  <2>2. \/ Handle(m, {x}) /\ NoFault
        \/ Handle(m, {}) /\ Fault("send")
    BY <1>3 DEF Execute
  <2> HIDE DEF x
  <2> QED  BY <1>n, <1>o, <2>1, <2>2
<1>4. CASE StartUpload(m)
  <2> DEFINE x == [m EXCEPT !.type = "upload"]
  <2>1. m \in Slices
    BY <1>4, <1>t, MessageFields DEF StartUpload
  <2>2. Stage[x.type] > Stage[m.type]
    BY <1>4, <2>1, Stages DEF StartUpload, Slices
  <2>3. \/ Handle(m, {x}) /\ NoFault
        \/ Handle(m, {}) /\ Fault("send")
    BY <1>4 DEF StartUpload
  <2> HIDE DEF x
  <2> QED  BY <1>n, <1>o, <2>2, <2>3
<1>5. CASE StoreSlice(m)
  <2> DEFINE x == [type |-> "uploaded", peer |-> m.peer, key |-> m.key, index |-> m.index]
  <2>1. Stage[x.type] > Stage[m.type]
    BY <1>5, Stages DEF StoreSlice
  <2>2. \/ Handle(m, {x}) /\ NoFault
        \/ Handle(m, {}) /\ (NoFault \/ Fault("send"))
    BY <1>5 DEF StoreSlice
  <2> HIDE DEF x
  <2> QED  BY <1>n, <1>o, <2>1, <2>2
<1>6. CASE SliceUploaded(m)
  <2> DEFINE x == [m EXCEPT !.type = "deployed"]
  <2>1. m \in Deployments
    BY <1>6, <1>t, MessageFields DEF SliceUploaded
  <2>2. Stage[x.type] > Stage[m.type]
    BY <1>6, <2>1, Stages DEF SliceUploaded, Deployments
  <2>3. \/ Handle(m, {x}) /\ NoFault
        \/ Handle(m, {}) /\ Fault("send")
    BY <1>6 DEF SliceUploaded
  <2> HIDE DEF x
  <2> QED  BY <1>n, <1>o, <2>2, <2>3
<1>7. CASE AssetGenerated(m)
  BY <1>7, <1>n DEF AssetGenerated
<1> QED  BY <1>1, <1>2, <1>3, <1>4, <1>5, <1>6, <1>7 DEF NodeHandles

LEMMA EnvironmentUsesUp ==
  ASSUME TypeOK, Bounded, Environment
  PROVE  UsesUp /\ Bounded'
<1> USE NetworkAssumption DEF TypeOK
<1>1. CASE PortalEvent /\ UNCHANGED nodeVars
  <2>1. UsesUp
    BY <1>1, BudgetUsed DEF PortalEvent, NoFault
  <2>2. IsFiniteSet(net')
    BY <1>1, FS_AddElement DEF PortalEvent, Bounded
  <2>3. events' <= MaxEvents /\ faults' <= MaxFaults
    BY <1>1 DEF PortalEvent, Bounded, NoFault
  <2> QED  BY <2>1, <2>2, <2>3 DEF Bounded
<1>2. CASE \E m \in net : Lose(m) /\ UNCHANGED <<delegatorVars, nodeVars>>
  <2> PICK m \in net : Lose(m) /\ UNCHANGED <<delegatorVars, nodeVars>>
    BY <1>2
  <2>1. GoesOn(m)
    BY FS_EmptySet DEF GoesOn, Lose, Fault, CanFail, delegatorVars
  <2> QED  BY <2>1, HandledUsed
<1>3. CASE \E p \in Peers : Expire(p) /\ UNCHANGED delegatorVars
  <2>1. faults < MaxFaults /\ faults' = faults + 1 /\ events' = events /\ net' = net
    BY <1>3 DEF Expire, Fault, CanFail, delegatorVars
  <2>2. Bounded'
    BY <2>1 DEF Bounded
  <2> QED  BY <2>1, <2>2, BudgetUsed
<1> QED  BY <1>1, <1>2, <1>3 DEF Environment

\* Every step of key generation uses something up, whatever is lost, fails, expires
\* or is redelivered: no handler puts a message back, and none goes back to an
\* earlier stage to wait or to try again.
THEOREM KeyGenerationRunsOut == IsFiniteSet(Peers) => (Spec => RunsOut)
<1> SUFFICES ASSUME IsFiniteSet(Peers)  PROVE Spec => RunsOut
  OBVIOUS
<1>1. Init => Bounded
  BY FS_EmptySet, NetworkAssumption DEF Init, DelegatorInit, Bounded
<1>2. TypeOK /\ Bounded /\ Next => UsesUp /\ Bounded'
  <2>1. ASSUME TypeOK, Bounded, Deliver  PROVE UsesUp /\ Bounded'
    BY <2>1, DelegatorGoesOn, NodeGoesOn, HandledUsed DEF Deliver
  <2> QED  BY <2>1, EnvironmentUsesUp DEF Next
<1>3. TypeOK /\ Bounded /\ [Next]_vars => Bounded'
  BY <1>2 DEF vars, delegatorVars, Bounded
<1>4. TypeOK /\ Bounded /\ [Next]_vars => [UsesUp]_vars
  BY <1>2
<1>5. [UsesUp]_vars => [\E i \in 0 .. 17 : /\ Left(i)' \in 0 .. Left(i) - 1
                                           /\ \A j \in 0 .. i - 1 : Left(j)' = Left(j)]_vars
  BY DEF UsesUp
<1> QED  BY <1>1, <1>3, <1>4, <1>5, TypeCorrect, PTL DEF Spec, RunsOut
=============================================================================
