------------------------- MODULE KeyGenRoundProofs -------------------------
(***************************************************************************)
(* Theorems about key generation when the event is delivered once and the  *)
(* profiles name the delegates, for all sets of nodes, every n up to 254   *)
(* and any losses, failed sends and expiries.                              *)
(***************************************************************************)
EXTENDS KeyGenProofs, FiniteSetTheorems

-----------------------------------------------------------------------------
(* Elections *)

\* From candidates of different peers an election takes different members.
LEMMA ElectedDistinct ==
  ASSUME NEW it \in StoreItem, DistinctPeers(it.candExecutors), DistinctPeers(it.candPinners),
         DisjointPeers(it.candExecutors, it.candPinners),
         Ready(N, it.candExecutors, it.candPinners),
         Constructible(N, it.candExecutors, it.candPinners)
  PROVE  /\ Elect(it).executor \in Peers
         /\ Len(Elect(it).pinners) = N /\ DistinctPeers(Elect(it).pinners)
         /\ \A i \in 1 .. N : Elect(it).pinners[i].peer # Elect(it).executor
<1> DEFINE executors == it.candExecutors
           pinners == it.candPinners
           left == Popped(executors)
           Le == Len(executors)
           Lp == Len(pinners)
           p == PinnersTaken(N, left, pinners)
           e == ExecutorsTaken(N, left, pinners)
           f == Elect(it).pinners
           From(i) == IF i <= p THEN pinners[Lp + 1 - i] ELSE executors[Le - (i - p)]
<1>1. N \in 1 .. 254 /\ N \in Nat
  BY NetAssumption
<1>2. executors \in Seq(Candidate) /\ pinners \in Seq(Candidate)
  BY DEF StoreItem
<1>3. executors # <<>>
  BY DEF Ready
<1>4. left \in Seq(Candidate) /\ Len(left) = Le - 1
  BY <1>2, <1>3, PoppedType
<1>5. ~Diverges(N, left, pinners)
  BY <1>1, <1>2, ReadyConverges
<1>6. p \in 0 .. Lp /\ e \in 0 .. Le - 1
  BY <1>1, <1>2, <1>4, <1>5, TakenBounds
<1>7. p + e = N
  BY DEF Constructible
<1>8. Le \in Nat \ {0} /\ Lp \in Nat
  BY <1>2, <1>3
<1>9. \A k \in 1 .. Le - 1 : left[k] = executors[k]
  BY <1>2, <1>8 DEF Popped
<1>10. f = [i \in 1 .. N |-> IF i <= p THEN pinners[Lp + 1 - i]
                              ELSE left[Len(left) + 1 - (i - p)]]
  BY <1>7 DEF Elect, StoreItem, ElectedPinners
<1>11. Elect(it).executor = executors[Le].peer
  BY DEF Elect, StoreItem, ElectedExecutor
<1> HIDE DEF p, e, f, left, Lp, Le
<1>12. ASSUME NEW i \in 1 .. N  PROVE f[i] = From(i)
  <2>1. CASE i <= p
    BY <1>10, <2>1
  <2>2. CASE ~(i <= p)
    <3>1. Le - (i - p) \in 1 .. Le - 1 /\ Len(left) + 1 - (i - p) = Le - (i - p)
      BY <1>1, <1>4, <1>6, <1>7, <1>8, <2>2
    <3> QED  BY <1>9, <1>10, <2>2, <3>1
  <2> QED  BY <2>1, <2>2
<1>13. ASSUME NEW i \in 1 .. N
       PROVE  /\ i <= p => Lp + 1 - i \in DOMAIN pinners
              /\ ~(i <= p) => Le - (i - p) \in DOMAIN executors /\ Le - (i - p) < Le
  <2>1. DOMAIN pinners = 1 .. Lp /\ DOMAIN executors = 1 .. Le
    BY <1>2 DEF Lp, Le
  <2>2. i <= p => Lp + 1 - i \in 1 .. Lp
    BY <1>1, <1>6, <1>8
  <2>3. ~(i <= p) => Le - (i - p) \in 1 .. Le /\ Le - (i - p) < Le
    BY <1>1, <1>6, <1>7, <1>8
  <2> QED  BY <2>1, <2>2, <2>3
<1>14. Le \in DOMAIN executors
  BY <1>2, <1>8 DEF Le
<1> HIDE DEF executors, pinners
<1>15. /\ DistinctPeers(executors) /\ DistinctPeers(pinners)
       /\ DisjointPeers(executors, pinners)
  BY DEF executors, pinners
<1>16. ASSUME NEW i \in 1 .. N, NEW j \in 1 .. N, f[i].peer = f[j].peer  PROVE i = j
  <2>0. From(i).peer = From(j).peer
    BY <1>12, <1>16
  <2>1. CASE i <= p /\ j <= p
    <3>1. Lp + 1 - i = Lp + 1 - j
      BY <1>13, <1>15, <2>0, <2>1 DEF DistinctPeers
    <3> QED  BY <1>8, <3>1
  <2>2. CASE ~(i <= p) /\ ~(j <= p)
    <3>1. Le - (i - p) = Le - (j - p)
      BY <1>13, <1>15, <2>0, <2>2 DEF DistinctPeers
    <3> QED  BY <1>6, <1>8, <3>1
  <2>3. CASE i <= p /\ ~(j <= p)
    BY <1>13, <1>15, <2>0, <2>3 DEF DisjointPeers
  <2>4. CASE ~(i <= p) /\ j <= p
    BY <1>13, <1>15, <2>0, <2>4 DEF DisjointPeers
  <2> QED  BY <2>1, <2>2, <2>3, <2>4
<1>17. ASSUME NEW i \in 1 .. N  PROVE f[i].peer # executors[Le].peer
  <2>1. CASE i <= p
    BY <1>12, <1>13, <1>14, <1>15, <2>1 DEF DisjointPeers
  <2>2. CASE ~(i <= p)
    <3>1. Le - (i - p) # Le
      BY <1>13, <1>8, <2>2
    <3> QED  BY <1>12, <1>13, <1>14, <1>15, <2>2, <3>1 DEF DistinctPeers
  <2> QED  BY <2>1, <2>2
<1>18. f \in Seq(Candidate) /\ Len(f) = N
  <2>1. f \in Seq(Candidate)
    BY ElectType, <1>2 DEF f, executors, pinners
  <2>2. DOMAIN f = 1 .. N
    BY <1>10
  <2> QED  BY <1>1, <2>1, <2>2
<1>19. DistinctPeers(f)
  BY <1>16, <1>10 DEF DistinctPeers
<1>20. executors[Le].peer \in Peers
  <2>1. executors[Le] \in Candidate
    BY <1>2, <1>14
  <2> QED  BY <2>1 DEF Candidate
<1> QED  BY <1>11, <1>17, <1>18, <1>19, <1>20 DEF f, executors
-----------------------------------------------------------------------------
(* Steps that keep the round *)

\* Nothing of the round but its messages and the temporary entries changes.
RoundKept ==
  UNCHANGED <<events, item, published, closed, keys, committed>>

\* A message may be lost, and an entry expire.
LEMMA FewerMessages ==
  ASSUME OneRound, RoundKept,
         net' \subseteq net, dataCid' \subseteq dataCid, deployId' \subseteq deployId
  PROVE  OneRound'
<1> USE DEF RoundKept
<1>1. OneStart'
  BY DEF OneRound, OneStart
<1>2. OneCandidacy'
  BY DEF OneRound, OneCandidacy
<1>3. OneElection'
  BY DEF OneRound, OneElection
<1>4. OneExecution'
  BY DEF OneRound, OneExecution, PinnerPeers
<1>5. OneDeployment'
  BY DEF OneRound, OneDeployment, FirstSlices
<1>6. OnePublication'
  BY DEF OneRound, OnePublication, FirstSlices
<1> QED  BY <1>1, <1>2, <1>3, <1>4, <1>5, <1>6 DEF OneRound

\* A step of a candidacy may follow its predecessor.
LEMMA CandidacyGoesOn ==
  ASSUME OneRound, RoundKept, UNCHANGED <<dataCid, deployId>>,
         NEW m \in net, m.type \in CandidateTypes,
         NEW x, x.type \in CandidateTypes, x.peer = m.peer, net' \subseteq (net \ {m}) \cup {x}
  PROVE  OneRound'
<1> USE DEF RoundKept
<1>0. /\ x.type \notin StartTypes \cup ExecutionTypes \cup SliceTypes \cup ResultTypes
      /\ m.type \notin StartTypes
      /\ x.type \notin {"nodeReady", "delegatorKey", "delegates", "result", "asset"}
  BY DEF StartTypes, CandidateTypes, ExecutionTypes, SliceTypes, ResultTypes
<1>1. OneStart'
  BY <1>0 DEF OneRound, OneStart
<1>2. OneCandidacy'
  BY <1>0 DEF OneRound, OneCandidacy
<1>3. OneElection'
  BY <1>0 DEF OneRound, OneElection
<1>4. OneExecution'
  BY <1>0 DEF OneRound, OneExecution, PinnerPeers, ExecutionTypes
<1>5. OneDeployment'
  BY <1>0 DEF OneRound, OneDeployment, FirstSlices
<1>6. OnePublication'
  BY <1>0 DEF OneRound, OnePublication, FirstSlices, ResultTypes
<1> QED  BY <1>1, <1>2, <1>3, <1>4, <1>5, <1>6 DEF OneRound

\* A step of the pinning of a slice may follow its predecessor.
LEMMA PinningGoesOn ==
  ASSUME OneRound, RoundKept, dataCid' \cup deployId' \subseteq FirstSlices,
         NEW m \in net, m.type \in SliceTypes,
         NEW x, x.type \in SliceTypes,
         x.peer = m.peer, x.key = m.key, x.index = m.index,
         net' \subseteq (net \ {m}) \cup {x}
  PROVE  OneRound'
<1> USE DEF RoundKept
<1>0. /\ x.type \notin StartTypes \cup CandidateTypes \cup ExecutionTypes \cup ResultTypes
      /\ m.type \notin StartTypes \cup CandidateTypes
      /\ x.type \notin {"nodeReady", "delegatorKey", "delegates", "result", "asset"}
  BY DEF StartTypes, CandidateTypes, ExecutionTypes, SliceTypes, ResultTypes
<1>1. OneStart'
  BY <1>0 DEF OneRound, OneStart
<1>2. OneCandidacy'
  BY <1>0 DEF OneRound, OneCandidacy
<1>3. OneElection'
  BY <1>0 DEF OneRound, OneElection
<1>4. OneExecution'
  BY <1>0 DEF OneRound, OneExecution, PinnerPeers, ExecutionTypes
<1>5. OneDeployment'
  BY <1>0 DEF OneRound, OneDeployment, FirstSlices
<1>6. OnePublication'
  BY <1>0 DEF OneRound, OnePublication, FirstSlices, ResultTypes
<1> QED  BY <1>1, <1>2, <1>3, <1>4, <1>5, <1>6 DEF OneRound
-----------------------------------------------------------------------------
(* The nodes *)

\* A node has one slice, so that what it knows of one is about the same slice.
LEMMA SlicesDiffer ==
  ASSUME DistinctPeers(item.pinners),
         NEW c \in FirstSlices, NEW d \in FirstSlices, c.peer = d.peer
  PROVE  c = d
  BY DEF DistinctPeers, FirstSlices

LEMMA ExecuteOneRound ==
  ASSUME TypeOK, OneRound, NEW m \in net, Execute(m), UNCHANGED delegatorVars
  PROVE  OneRound'
<1> DEFINE x == [type |-> "executed", peer |-> m.peer, key |-> keys + 1,
                 pinners |-> m.pinners]
<1>0. /\ m.type = "execute" /\ m.type \in ExecutionTypes
      /\ m.type \notin StartTypes \cup CandidateTypes
  BY DEF Execute, StartTypes, CandidateTypes, ExecutionTypes
<1>1. keys = 0 /\ m.pinners = item.pinners /\ item.key = NoKey
      /\ \A n \in net : n.type \in ExecutionTypes => n = m
  BY <1>0 DEF OneRound, OneExecution
<1>2. item.executor # NoPeer
  BY <1>0 DEF OneRound, OneElection
<1>3. x.type = "executed" /\ x.key = 1 /\ x.pinners = item.pinners
  BY <1>1
<1>4. net' \subseteq (net \ {m}) \cup {x}
  BY DEF Execute, Handle
<1>5. UNCHANGED <<events, item, published, closed, committed, dataCid, deployId>>
  BY DEF Execute, delegatorVars
<1> HIDE DEF x
<1>6. /\ x.type \notin StartTypes \cup CandidateTypes \cup SliceTypes \cup ResultTypes
      /\ x.type \notin {"nodeReady", "delegatorKey", "delegates", "execute", "result", "asset"}
  BY <1>3 DEF StartTypes, CandidateTypes, SliceTypes, ResultTypes
<1>7. OneStart'
  BY <1>0, <1>4, <1>5, <1>6 DEF OneRound, OneStart
<1>8. OneCandidacy'
  BY <1>4, <1>5, <1>6 DEF OneRound, OneCandidacy
<1>9. OneElection'
  BY <1>2, <1>4, <1>5, <1>6 DEF OneRound, OneElection
<1>10. OneExecution'
  BY <1>1, <1>3, <1>4, <1>5, <1>6 DEF OneRound, OneExecution, PinnerPeers, ExecutionTypes
<1>11. OneDeployment'
  BY <1>4, <1>5, <1>6 DEF OneRound, OneDeployment, FirstSlices
<1>12. OnePublication'
  <2>1. item.state # "ReceivedAllPinnerResponse"
    BY <1>1 DEF OneRound, OneExecution, Undecided
  <2> QED  BY <2>1, <1>4, <1>5, <1>6 DEF OneRound, OnePublication, FirstSlices
<1> QED  BY <1>7, <1>8, <1>9, <1>10, <1>11, <1>12 DEF OneRound

LEMMA AssetGeneratedOneRound ==
  ASSUME OneRound, NEW m \in net, AssetGenerated(m), UNCHANGED delegatorVars
  PROVE  OneRound'
<1>1. /\ UNCHANGED <<events, item, published, closed, keys, dataCid, deployId>>
      /\ net' \subseteq net
  BY DEF AssetGenerated, delegatorVars, Handle
<1>2. OneStart'
  BY <1>1 DEF OneRound, OneStart
<1>3. OneCandidacy'
  BY <1>1 DEF OneRound, OneCandidacy
<1>4. OneElection'
  BY <1>1 DEF OneRound, OneElection
<1>5. OneExecution'
  BY <1>1 DEF OneRound, OneExecution, PinnerPeers
<1>6. OneDeployment'
  BY <1>1 DEF OneRound, OneDeployment, FirstSlices
<1>7. OnePublication'
  <2>1. published # <<>>
    BY DEF AssetGenerated, OneRound, OnePublication
  <2>2. DistinctPeers(item.pinners)
    <3>1. m.type = "asset" /\ m.type \notin StartTypes \cup CandidateTypes
      BY DEF AssetGenerated, StartTypes, CandidateTypes
    <3> QED  BY <3>1 DEF OneRound, OneElection
  <2>3. ASSUME NEW c \in Entry(dataCid, m.peer, m.key), NEW d \in Entry(deployId, m.peer, m.key)
        PROVE  c = d /\ d \in FirstSlices
    <3>1. c \in FirstSlices /\ d \in FirstSlices /\ c.peer = d.peer
      BY <2>3 DEF Entry, OneRound, OneDeployment
    <3> QED  BY <2>2, <3>1, SlicesDiffer
  <2>4. committed' \subseteq {[cid |-> d, deployment |-> d] : d \in FirstSlices}
    <3>1. [cid : Entry(dataCid, m.peer, m.key), deployment : Entry(deployId, m.peer, m.key)]
            \subseteq {[cid |-> d, deployment |-> d] : d \in FirstSlices}
      BY <2>3
    <3>2. committed \subseteq {[cid |-> d, deployment |-> d] : d \in FirstSlices}
      BY DEF OneRound, OnePublication
    <3> QED  BY <3>1, <3>2 DEF AssetGenerated
  <2>5. FirstSlices' = FirstSlices
    BY <1>1 DEF FirstSlices
  <2> QED  BY <1>1, <2>1, <2>4, <2>5 DEF OneRound, OnePublication
<1> QED  BY <1>2, <1>3, <1>4, <1>5, <1>6, <1>7 DEF OneRound

LEMMA NodeOneRound ==
  ASSUME TypeOK, OneRound, NEW m \in net, NodeHandles(m), UNCHANGED delegatorVars
  PROVE  OneRound'
<1>0. m \in Message /\ UNCHANGED <<events, item, published, closed>>
  BY DEF TypeOK, delegatorVars
<1>1. CASE CandidateRequest(m)
  <2>1. m \in Invitations /\ m.type = "candidate"
    BY <1>0, <1>1, MessageFields DEF CandidateRequest
  <2>2. Verify(m).type = "verify" /\ Verify(m).peer = m.peer
    BY <2>1 DEF Verify, Invitations
  <2>3. RoundKept /\ UNCHANGED <<dataCid, deployId>>
    BY <1>0, <1>1 DEF CandidateRequest, RoundKept, nodeVars
  <2>4. net' \subseteq (net \ {m}) \cup {Verify(m)}
    BY <1>1 DEF CandidateRequest, Handle
  <2>5. m.type \in CandidateTypes /\ Verify(m).type \in CandidateTypes
    BY <2>1, <2>2 DEF CandidateTypes
  <2> QED  BY <2>2, <2>3, <2>4, <2>5, CandidacyGoesOn
<1>2. CASE ApplyAsCandidate(m)
  <2> DEFINE x == Application(m, rsaKeys[m.peer] + 1)
  <2>1. x.type = "apply" /\ x.peer = m.peer /\ m.type = "verify"
    BY <1>2 DEF ApplyAsCandidate, Application
  <2>2. RoundKept /\ UNCHANGED <<dataCid, deployId>>
    BY <1>0, <1>2 DEF ApplyAsCandidate, RoundKept
  <2>3. net' \subseteq (net \ {m}) \cup {x}
    BY <1>2 DEF ApplyAsCandidate, Handle
  <2> HIDE DEF x
  <2>4. m.type \in CandidateTypes /\ x.type \in CandidateTypes
    BY <2>1 DEF CandidateTypes
  <2> QED  BY <2>1, <2>2, <2>3, <2>4, CandidacyGoesOn
<1>3. CASE Execute(m)
  BY <1>3, ExecuteOneRound
<1>4. CASE StartUpload(m)
  <2> DEFINE x == [m EXCEPT !.type = "upload"]
  <2>1. m \in Slices /\ m.type = "slice"
    BY <1>0, <1>4, MessageFields DEF StartUpload
  <2>2. x.type = "upload" /\ x.peer = m.peer /\ x.key = m.key /\ x.index = m.index
    BY <2>1 DEF Slices
  <2>3. RoundKept /\ dataCid' \cup deployId' \subseteq FirstSlices
    BY <1>0, <1>4 DEF StartUpload, RoundKept, OneRound, OneDeployment
  <2>4. net' \subseteq (net \ {m}) \cup {x}
    BY <1>4 DEF StartUpload, Handle
  <2> HIDE DEF x
  <2>5. m.type \in SliceTypes /\ x.type \in SliceTypes
    BY <2>1, <2>2 DEF SliceTypes
  <2> QED  BY <2>2, <2>3, <2>4, <2>5, PinningGoesOn
<1>5. CASE StoreSlice(m)
  <2> DEFINE x == [type |-> "uploaded", peer |-> m.peer, key |-> m.key, index |-> m.index]
  <2>1. m.type = "upload" /\ m.type \in SliceTypes
    BY <1>5 DEF StoreSlice, SliceTypes
  <2>2. x.type = "uploaded" /\ x.peer = m.peer /\ x.key = m.key /\ x.index = m.index
    OBVIOUS
  <2>3. RoundKept
    BY <1>0, <1>5 DEF StoreSlice, RoundKept
  <2>4. dataCid' \cup deployId' \subseteq FirstSlices
    <3>1. [peer |-> m.peer, key |-> m.key, index |-> m.index] \in FirstSlices
      BY <2>1 DEF OneRound, OneDeployment
    <3> QED  BY <1>5, <3>1 DEF StoreSlice, Put, OneRound, OneDeployment
  <2>5. net' \subseteq (net \ {m}) \cup {x}
    BY <1>5 DEF StoreSlice, Handle
  <2> HIDE DEF x
  <2>6. x.type \in SliceTypes
    BY <2>2 DEF SliceTypes
  <2> QED  BY <2>1, <2>2, <2>3, <2>4, <2>5, <2>6, PinningGoesOn
<1>6. CASE SliceUploaded(m)
  <2> DEFINE x == [m EXCEPT !.type = "deployed"]
  <2>1. m \in Deployments /\ m.type = "uploaded"
    BY <1>0, <1>6, MessageFields DEF SliceUploaded
  <2>2. x.type = "deployed" /\ x.peer = m.peer /\ x.key = m.key /\ x.index = m.index
    BY <2>1 DEF Deployments
  <2>3. m.type \in SliceTypes /\ x.type \in SliceTypes
    BY <2>1, <2>2 DEF SliceTypes
  <2>4. RoundKept
    BY <1>0, <1>6 DEF SliceUploaded, RoundKept
  <2>5. dataCid' \cup deployId' \subseteq FirstSlices
    <3>1. [peer |-> m.peer, key |-> m.key, index |-> m.index] \in FirstSlices
      BY <2>3 DEF OneRound, OneDeployment
    <3> QED  BY <1>6, <3>1 DEF SliceUploaded, Put, OneRound, OneDeployment
  <2>6. net' \subseteq (net \ {m}) \cup {x}
    BY <1>6 DEF SliceUploaded, Handle
  <2> HIDE DEF x
  <2> QED  BY <2>2, <2>3, <2>4, <2>5, <2>6, PinningGoesOn
<1>7. CASE AssetGenerated(m)
  BY <1>7, AssetGeneratedOneRound
<1> QED
  BY <1>1, <1>2, <1>3, <1>4, <1>5, <1>6, <1>7 DEF NodeHandles

LEMMA EnvironmentOneRound ==
  ASSUME MaxEvents = 1, TypeOK, OneRound, Environment
  PROVE  OneRound'
<1>1. CASE PortalEvent /\ UNCHANGED nodeVars
  <2> DEFINE x == [type |-> "nodeReady", ev |-> events + 1]
  <2>1. events = 0 /\ events' = 1
    BY <1>1 DEF PortalEvent, TypeOK
  <2>2. net = {} /\ item = Fresh("None")
    BY <2>1 DEF OneRound, OneStart
  <2>3. net' = {x}
    BY <1>1, <2>2 DEF PortalEvent
  <2>4. x.type = "nodeReady"
    OBVIOUS
  <2> HIDE DEF x
  <2>5. /\ x.type \in StartTypes
        /\ x.type \notin CandidateTypes \cup ExecutionTypes \cup SliceTypes \cup ResultTypes
    BY <2>4 DEF StartTypes, CandidateTypes, ExecutionTypes, SliceTypes, ResultTypes
  <2>6. item.state = "None" /\ item.executor = NoPeer /\ item.key = NoKey
    BY <2>2 DEF Fresh
  <2>7. UNCHANGED <<item, published, closed, keys, committed, dataCid, deployId>>
    BY <1>1 DEF PortalEvent, nodeVars
  <2>8. OneStart'
    BY <2>1, <2>2, <2>3, <2>4, <2>5, <2>6, <2>7 DEF OneStart
  <2>9. OneCandidacy'
    BY <2>3, <2>5, <2>7 DEF OneRound, OneCandidacy
  <2>10. OneElection'
    BY <2>3, <2>5, <2>6, <2>7 DEF OneRound, OneElection
  <2>11. OneExecution'
    BY <2>3, <2>5, <2>6, <2>7 DEF OneRound, OneExecution, PinnerPeers
  <2>12. OneDeployment'
    BY <2>3, <2>5, <2>7 DEF OneRound, OneDeployment, FirstSlices
  <2>13. OnePublication'
    BY <2>3, <2>4, <2>5, <2>7 DEF OneRound, OnePublication, FirstSlices
  <2> QED  BY <2>8, <2>9, <2>10, <2>11, <2>12, <2>13 DEF OneRound
<1>2. ASSUME NEW m \in net, Lose(m), UNCHANGED <<delegatorVars, nodeVars>>
      PROVE  OneRound'
  <2>1. RoundKept /\ net' \subseteq net /\ dataCid' \subseteq dataCid
        /\ deployId' \subseteq deployId
    BY <1>2 DEF Lose, Handle, RoundKept, delegatorVars, nodeVars
  <2> QED  BY <2>1, FewerMessages
<1>3. ASSUME NEW p \in Peers, Expire(p), UNCHANGED delegatorVars
      PROVE  OneRound'
  <2>1. RoundKept /\ net' \subseteq net /\ dataCid' \subseteq dataCid
        /\ deployId' \subseteq deployId
    BY <1>3 DEF Expire, RoundKept, delegatorVars
  <2> QED  BY <2>1, FewerMessages
<1> QED  BY <1>1, <1>2, <1>3 DEF Environment
-----------------------------------------------------------------------------
(* The delegator *)

\* Before its item the delegator has the first message of the round, or none.
LEMMA BecomeDelegatorOneRound ==
  ASSUME OneRound, UNCHANGED nodeVars, NEW m \in net, NodeReady(m) \/ BecomeDelegator(m)
  PROVE  OneRound'
<1>1. m.type \in StartTypes /\ m.type \in {"nodeReady", "delegatorKey"}
  BY DEF NodeReady, BecomeDelegator, StartTypes
<1>2. net = {m} /\ item.state = "None" /\ item = Fresh("None") /\ events # 0
  BY <1>1 DEF OneRound, OneStart
<1>3. item.executor = NoPeer /\ item.key = NoKey /\ item.pinners = <<>>
  BY <1>2 DEF Fresh
<1>4. PICK x : /\ net' \subseteq {x} /\ x.type \in {"delegatorKey", "delegates"}
               /\ \/ UNCHANGED item /\ x.type = "delegatorKey"
                  \/ item' = Fresh("InvitedCandidates") /\ x.type = "delegates"
                  \/ item' = Fresh("Init") /\ net' = {}
  <2> DEFINE d == [type |-> "delegates", ev |-> m.ev]
             k == [type |-> "delegatorKey", ev |-> m.ev]
  <2>1. d.type = "delegates" /\ k.type = "delegatorKey"
    OBVIOUS
  <2>2. CASE NodeReady(m)
    <3>1. net' \subseteq {k} /\ UNCHANGED item
      BY <1>2, <2>2 DEF NodeReady, Handle, delegatorVars
    <3> HIDE DEF k
    <3> QED  BY <2>1, <3>1
  <2>3. CASE BecomeDelegator(m)
    <3>1. \/ net' = {} /\ item' = item
          \/ net' = {d} /\ item' = Fresh("InvitedCandidates")
          \/ net' = {} /\ item' = Fresh("Init")
      BY <1>2, <2>3 DEF BecomeDelegator, Handle, NewRound
    <3> HIDE DEF d, k
    <3> QED  BY <2>1, <3>1
  <2> QED  BY <2>2, <2>3
<1>5. UNCHANGED <<events, published, closed, keys, committed, dataCid, deployId>>
  BY DEF nodeVars, NodeReady, BecomeDelegator, delegatorVars
<1>6. /\ item'.state \in Undecided
      /\ item'.executor = NoPeer /\ item'.pinners = <<>> /\ item'.key = NoKey
      /\ item'.asked = {} /\ item'.answers = {}
      /\ item'.candExecutors = <<>> /\ item'.candPinners = <<>>
  BY <1>2, <1>4 DEF Fresh, Undecided
<1>7. /\ x.type \in StartTypes
      /\ x.type \notin CandidateTypes \cup ExecutionTypes \cup SliceTypes \cup ResultTypes
  BY <1>4 DEF StartTypes, CandidateTypes, ExecutionTypes, SliceTypes, ResultTypes
<1>8. OneStart'
  <2>1. Fresh("Init").state = "Init" /\ Fresh("InvitedCandidates").state = "InvitedCandidates"
    BY DEF Fresh
  <2>2. CASE UNCHANGED item /\ x.type = "delegatorKey"
    BY <1>2, <1>4, <1>5, <1>7, <2>2 DEF OneStart
  <2>4. CASE item' = Fresh("InvitedCandidates") /\ x.type = "delegates"
    BY <1>2, <1>4, <1>5, <1>7, <2>1, <2>4 DEF OneStart
  <2>5. CASE item' = Fresh("Init") /\ net' = {}
    BY <1>2, <1>5, <2>1, <2>5 DEF OneStart
  <2> QED  BY <1>4, <2>2, <2>4, <2>5
<1>9. OneCandidacy'
  BY <1>4, <1>6, <1>7 DEF OneCandidacy, DistinctPeers, DisjointPeers
<1>10. OneElection'
  BY <1>3, <1>4, <1>5, <1>6, <1>7 DEF OneRound, OneElection
<1>11. OneExecution'
  BY <1>4, <1>6, <1>7 DEF OneExecution
<1>12. FirstSlices' = FirstSlices
  BY <1>3, <1>6 DEF FirstSlices
<1>13. OneDeployment'
  BY <1>4, <1>5, <1>6, <1>7, <1>12 DEF OneRound, OneDeployment
<1>14. OnePublication'
  <2>1. published = <<>> /\ closed = {}
    BY <1>2 DEF OneRound, OnePublication
  <2>2. item'.state # "ReceivedAllPinnerResponse"
    BY <1>6 DEF Undecided
  <2> QED  BY <1>4, <1>5, <1>7, <1>12, <2>1, <2>2 DEF OneRound, OnePublication
<1> QED  BY <1>8, <1>9, <1>10, <1>11, <1>13, <1>14 DEF OneRound

\* The invitations go to different peers, as the delegates are not among the
\* swarm peers.
LEMMA DelegatesOneRound ==
  ASSUME ProfilesAgree, OneRound, UNCHANGED nodeVars, NEW m \in net, Delegates(m)
  PROVE  OneRound'
<1>1. m.type \in StartTypes /\ m.type = "delegates"
  BY DEF Delegates, StartTypes
<1>2. net = {m} /\ item = Fresh("InvitedCandidates") /\ events # 0
  BY <1>1 DEF OneRound, OneStart
<1>3. PICK executors \in SUBSET Peers, pinners \in SUBSET Peers :
        /\ executors \cap pinners = {}
        /\ net' = {[type |-> "profile", ev |-> m.ev, peer |-> p] : p \in executors}
             \cup [type : {"candidate"}, ev : {m.ev}, peer : pinners, exec : {FALSE}]
  BY <1>2 DEF Delegates, SwarmPeers, Handle
<1>4. UNCHANGED <<events, item, published, closed, keys, committed, dataCid, deployId>>
  BY DEF Delegates, nodeVars
<1>5. /\ item.state = "InvitedCandidates" /\ item.executor = NoPeer /\ item.key = NoKey
      /\ item.candExecutors = <<>> /\ item.candPinners = <<>>
  BY <1>2 DEF Fresh
<1> DEFINE A == {[type |-> "profile", ev |-> m.ev, peer |-> p] : p \in executors}
           B == [type : {"candidate"}, ev : {m.ev}, peer : pinners, exec : {FALSE}]
<1>a. \A x \in A : x.type = "profile" /\ x.ev = m.ev /\ x.peer \in executors
  OBVIOUS
<1>b. \A x \in B : x.type = "candidate" /\ x.peer \in pinners
  OBVIOUS
<1>6. \A n \in net' : n.type \in {"profile", "candidate"}
  BY <1>3, <1>a, <1>b
<1>7. \A n \in net' :
        /\ n.type \in CandidateTypes
        /\ n.type \notin StartTypes \cup ExecutionTypes \cup SliceTypes \cup ResultTypes
  BY <1>6 DEF StartTypes, CandidateTypes, ExecutionTypes, SliceTypes, ResultTypes
<1>8. ASSUME NEW x \in net', NEW y \in net', x.peer = y.peer  PROVE x = y
  <2>1. ASSUME x \in A, y \in A  PROVE x = y
    BY <1>8, <2>1
  <2>2. ASSUME x \in B, y \in B  PROVE x = y
    <3>1. ASSUME NEW n \in B
          PROVE  n = [type |-> "candidate", ev |-> m.ev, peer |-> n.peer, exec |-> FALSE]
      <4>1. n = [type |-> n.type, ev |-> n.ev, peer |-> n.peer, exec |-> n.exec]
        OBVIOUS
      <4>2. n.type = "candidate" /\ n.ev = m.ev /\ n.exec = FALSE
        OBVIOUS
      <4> HIDE DEF B
      <4> QED  BY <4>1, <4>2
    <3> HIDE DEF B
    <3> QED  BY <1>8, <2>2, <3>1
  <2>3. ~(x \in A /\ y \in B) /\ ~(x \in B /\ y \in A)
    BY <1>3, <1>8, <1>a, <1>b
  <2> QED  BY <1>3, <2>1, <2>2, <2>3
<1>9. OneStart'
  BY <1>2, <1>4, <1>5, <1>6, <1>7 DEF OneRound, OneStart
<1>10. OneCandidacy'
  BY <1>4, <1>5, <1>8 DEF OneCandidacy, DistinctPeers, DisjointPeers
<1>11. OneElection'
  BY <1>4, <1>5, <1>7 DEF OneRound, OneElection
<1>12. OneExecution'
  BY <1>4, <1>5, <1>7 DEF OneRound, OneExecution, PinnerPeers
<1>13. OneDeployment'
  BY <1>4, <1>7 DEF OneRound, OneDeployment, FirstSlices
<1>14. OnePublication'
  BY <1>4, <1>6, <1>7 DEF OneRound, OnePublication, FirstSlices
<1> QED  BY <1>9, <1>10, <1>11, <1>12, <1>13, <1>14 DEF OneRound

\* A candidate of another peer keeps the peers of a vector different.
LEMMA AppendedApart ==
  ASSUME NEW s \in Seq(Candidate), NEW c \in Candidate,
         \A i \in DOMAIN s : s[i].peer # c.peer
  PROVE  /\ DistinctPeers(s) => DistinctPeers(Append(s, c))
         /\ \A p : (\A i \in DOMAIN s : s[i].peer # p) /\ c.peer # p =>
                     \A i \in DOMAIN Append(s, c) : Append(s, c)[i].peer # p
<1> DEFINE t == Append(s, c)
<1>1. \A i \in DOMAIN t : \/ i \in DOMAIN s /\ t[i] = s[i]
                          \/ i = Len(s) + 1 /\ t[i] = c
  <2>1. t \in Seq(Candidate) /\ Len(t) = Len(s) + 1 /\ Len(s) \in Nat
    OBVIOUS
  <2>2. DOMAIN t = 1 .. Len(s) + 1 /\ DOMAIN s = 1 .. Len(s)
    BY <2>1
  <2>3. t[Len(s) + 1] = c /\ \A i \in 1 .. Len(s) : t[i] = s[i]
    OBVIOUS
  <2> HIDE DEF t
  <2> QED  BY <2>1, <2>2, <2>3
<1> HIDE DEF t
<1>2. DistinctPeers(s) => DistinctPeers(t)
  BY <1>1 DEF DistinctPeers
<1>3. \A p : (\A i \in DOMAIN s : s[i].peer # p) /\ c.peer # p =>
               \A i \in DOMAIN t : t[i].peer # p
  BY <1>1
<1> QED  BY <1>2, <1>3 DEF t

\* The candidate just attested is stored with the others, or is elected with N
\* of them, and no candidacy is left over that could follow it.
LEMMA AfterVerifyOneRound ==
  ASSUME TypeOK, OneRound, UNCHANGED nodeVars, NEW m \in net, AfterVerify(m)
  PROVE  OneRound'
<1> DEFINE c == [peer |-> m.peer, rsa |-> m.rsa]
           it == Insert(item, m.exec, c)
           elected == Elect(it)
           request == [type |-> "execute", peer |-> elected.executor,
                       pinners |-> elected.pinners]
<1>0. m.type = "attest" /\ m \in Applications /\ item \in StoreItem
  BY MessageFields DEF AfterVerify, TypeOK
<1>1. m.type \in CandidateTypes /\ m.type \notin StartTypes
  BY <1>0 DEF CandidateTypes, StartTypes
<1>2. UNCHANGED <<events, published, closed, keys, committed, dataCid, deployId>>
  BY DEF AfterVerify, nodeVars
<1>3. CASE UNCHANGED item /\ net' \subseteq net
  <2>1. RoundKept
    BY <1>2, <1>3 DEF RoundKept
  <2> QED  BY <1>2, <1>3, <2>1, FewerMessages
<1>4. ASSUME item.state = "InvitedCandidates", TrySendToExecutor(m, it)
      PROVE  OneRound'
  <2>1. /\ item.executor = NoPeer /\ item.pinners = <<>> /\ item.key = NoKey /\ keys = 0
        /\ \A n \in net : n.type \in StartTypes \cup CandidateTypes
    BY <1>4 DEF OneRound, OneElection, Undecided
  <2>2. item.asked = {} /\ item.answers = {}
    BY <2>1 DEF OneRound, OneExecution
  <2>3. c \in Candidate /\ c.peer = m.peer /\ m.exec \in BOOLEAN
    BY <1>0 DEF Applications, Candidate
  <2>4. \A n \in net \ {m} : n.type \in CandidateTypes /\ n.peer # m.peer
    <3>1. \A n \in net : n.type \notin StartTypes
      BY <1>1 DEF OneRound, OneStart
    <3> QED  BY <1>1, <2>1, <3>1 DEF OneRound, OneCandidacy
  <2>5. /\ it \in StoreItem
        /\ it.state = item.state /\ it.executor = item.executor /\ it.pinners = item.pinners
        /\ it.key = item.key /\ it.asked = item.asked /\ it.answers = item.answers
        /\ \/ /\ it.candExecutors = Append(item.candExecutors, c)
              /\ it.candPinners = item.candPinners
           \/ /\ it.candExecutors = item.candExecutors
              /\ it.candPinners = Append(item.candPinners, c)
    <3>1. item.candExecutors \in Seq(Candidate) /\ item.candPinners \in Seq(Candidate)
      BY <1>0 DEF StoreItem
    <3> HIDE DEF c
    <3>2. it \in StoreItem
      BY <1>0, <2>3, <3>1, InsertType
    <3> QED  BY <1>0, <3>2 DEF Insert, StoreItem
  <2>6. /\ DistinctPeers(it.candExecutors) /\ DistinctPeers(it.candPinners)
        /\ DisjointPeers(it.candExecutors, it.candPinners)
        /\ \A n \in net \ {m} :
             /\ \A i \in DOMAIN it.candExecutors : it.candExecutors[i].peer # n.peer
             /\ \A i \in DOMAIN it.candPinners : it.candPinners[i].peer # n.peer
    <3> DEFINE e == item.candExecutors
               p == item.candPinners
    <3>1. e \in Seq(Candidate) /\ p \in Seq(Candidate)
      BY <1>0 DEF StoreItem
    <3>2. /\ DistinctPeers(e) /\ DistinctPeers(p) /\ DisjointPeers(e, p)
          /\ \A n \in net : n.type \in CandidateTypes =>
               /\ \A i \in DOMAIN e : e[i].peer # n.peer
               /\ \A i \in DOMAIN p : p[i].peer # n.peer
      BY <2>1 DEF OneRound, OneCandidacy
    <3> HIDE DEF c, e, p, it
    <3>3. /\ \A i \in DOMAIN e : e[i].peer # c.peer
          /\ \A i \in DOMAIN p : p[i].peer # c.peer
      BY <1>1, <2>3, <3>2
    <3>4. CASE it.candExecutors = Append(e, c) /\ it.candPinners = p
      <4>1. DisjointPeers(Append(e, c), p)
        BY <2>3, <3>1, <3>2, <3>3, AppendedApart DEF DisjointPeers
      <4>2. \A n \in net \ {m} : \A i \in DOMAIN Append(e, c) : Append(e, c)[i].peer # n.peer
        BY <2>3, <2>4, <3>1, <3>2, <3>3, AppendedApart
      <4> QED  BY <2>3, <2>4, <3>1, <3>2, <3>3, <3>4, <4>1, <4>2, AppendedApart
    <3>5. CASE it.candExecutors = e /\ it.candPinners = Append(p, c)
      <4>1. DisjointPeers(e, Append(p, c))
        BY <2>3, <3>1, <3>2, <3>3, AppendedApart DEF DisjointPeers
      <4>2. \A n \in net \ {m} : \A i \in DOMAIN Append(p, c) : Append(p, c)[i].peer # n.peer
        BY <2>3, <2>4, <3>1, <3>2, <3>3, AppendedApart
      <4> QED  BY <2>3, <2>4, <3>1, <3>2, <3>3, <3>5, <4>1, <4>2, AppendedApart
    <3> QED  BY <2>5, <3>4, <3>5 DEF e, p
  <2> HIDE DEF it, c
  <2>7. CASE item' = it /\ net' \subseteq net \ {m}
    <3>1. OneStart'
      <4>1. it.state = "InvitedCandidates" /\ \A n \in net' : n.type \notin StartTypes
        BY <1>1, <1>4, <2>4, <2>5, <2>7 DEF StartTypes, CandidateTypes
      <4>2. events # 0
        BY DEF OneRound, OneStart
      <4>3. \A n \in net' : n.type \notin {"nodeReady", "delegatorKey", "delegates"}
        BY <4>1 DEF StartTypes
      <4> QED  BY <1>2, <2>7, <4>1, <4>2, <4>3 DEF OneStart
    <3>2. OneCandidacy'
      BY <2>6, <2>7 DEF OneRound, OneCandidacy
    <3>3. OneElection'
      BY <1>2, <1>4, <2>1, <2>5, <2>7 DEF OneElection, Undecided
    <3>4. OneExecution'
      <4>1. \A n \in net' : n.type \notin ExecutionTypes \cup SliceTypes
        BY <2>4, <2>7 DEF CandidateTypes, ExecutionTypes, SliceTypes
      <4>2. item'.key = NoKey /\ item'.asked = {} /\ item'.answers = {} /\ item'.state \in Undecided
        BY <1>4, <2>1, <2>2, <2>5, <2>7 DEF Undecided
      <4> QED  BY <4>1, <4>2 DEF OneExecution
    <3>5. OneDeployment'
      BY <1>2, <2>5, <2>7 DEF OneRound, OneDeployment, FirstSlices, Answered
    <3>6. OnePublication'
      BY <1>2, <2>5, <2>7 DEF OneRound, OnePublication, FirstSlices
    <3> QED  BY <3>1, <3>2, <3>3, <3>4, <3>5, <3>6 DEF OneRound
  <2>8. CASE /\ Ready(N, it.candExecutors, it.candPinners)
             /\ Constructible(N, it.candExecutors, it.candPinners)
             /\ item' = [elected EXCEPT !.state = "SentToExecutor"]
             /\ net' \subseteq (net \ {m}) \cup {request}
    <3>1. /\ elected \in StoreItem
          /\ elected.key = NoKey /\ elected.asked = {} /\ elected.answers = {}
      <4>1. it.candExecutors \in Seq(Candidate) /\ it.candPinners \in Seq(Candidate)
        BY <2>5 DEF StoreItem
      <4>2. elected \in StoreItem
        BY <2>5, <2>8, <4>1, ElectType
      <4> QED  BY <2>1, <2>2, <2>5, <4>2 DEF Elect, StoreItem
    <3>2. /\ elected.executor \in Peers
          /\ Len(elected.pinners) = N /\ DistinctPeers(elected.pinners)
          /\ \A i \in 1 .. N : elected.pinners[i].peer # elected.executor
      BY <2>5, <2>6, <2>8, ElectedDistinct
    <3>3. request.type = "execute" /\ request.pinners = elected.pinners
      OBVIOUS
    <3> HIDE DEF elected, request
    <3>4. /\ item'.state = "SentToExecutor" /\ item'.executor \in Peers
          /\ item'.executor # NoPeer /\ item'.pinners = elected.pinners
          /\ item'.key = NoKey /\ item'.asked = {} /\ item'.answers = {}
      BY <2>8, <3>1, <3>2, NetAssumption DEF StoreItem
    <3>5. /\ request.type \notin StartTypes \cup CandidateTypes \cup SliceTypes \cup ResultTypes
          /\ request.type \notin {"nodeReady", "delegatorKey", "delegates", "executed",
                                  "result", "asset"}
      BY <3>3 DEF StartTypes, CandidateTypes, SliceTypes, ResultTypes
    <3>6. \A n \in net \ {m} :
            n.type \notin StartTypes \cup ExecutionTypes \cup SliceTypes \cup ResultTypes
      BY <2>4 DEF StartTypes, CandidateTypes, ExecutionTypes, SliceTypes, ResultTypes
    <3>7. OneStart'
      <4>1. events # 0
        BY DEF OneRound, OneStart
      <4>2. \A n \in net' : n.type \notin StartTypes
        BY <2>8, <3>5, <3>6
      <4>3. \A n \in net' : n.type \notin {"nodeReady", "delegatorKey", "delegates"}
        BY <4>2 DEF StartTypes
      <4> QED  BY <1>2, <3>4, <4>1, <4>2, <4>3 DEF OneStart
    <3>8. OneCandidacy'
      BY <2>8, <3>4, <3>5 DEF OneRound, OneCandidacy
    <3>9. OneElection'
      BY <2>8, <3>2, <3>4, <3>5, <3>6 DEF OneElection, Undecided
    <3>10. OneExecution'
      BY <1>2, <2>1, <2>8, <3>3, <3>4, <3>5, <3>6 DEF OneExecution, Undecided
    <3>11. FirstSlices = {} /\ committed = {} /\ published = <<>> /\ closed = {}
      BY <1>4, <2>1 DEF FirstSlices, OneRound, OnePublication
    <3>12. OneDeployment'
      BY <1>2, <2>8, <3>4, <3>5, <3>6, <3>11 DEF OneRound, OneDeployment
    <3>13. OnePublication'
      BY <1>2, <2>8, <3>4, <3>5, <3>6, <3>11 DEF OnePublication, ResultTypes
    <3> QED  BY <3>7, <3>8, <3>9, <3>10, <3>12, <3>13 DEF OneRound
  <2> QED
    <3>1. TrySendToExecutor(m, it)
      BY <1>4 DEF it, c
    <3> QED  BY <2>7, <2>8, <3>1 DEF TrySendToExecutor, Handle
<1> QED  BY <1>3, <1>4 DEF AfterVerify, Handle

\* A response is taken once, and by an item without a key: each pinner gets one
\* slice, and no answer is forgotten.
LEMMA ExecutionResultOneRound ==
  ASSUME TypeOK, OneRound, UNCHANGED nodeVars, NEW m \in net, ExecutionResult(m)
  PROVE  OneRound'
<1> DEFINE peers == {m.pinners[i].peer : i \in DOMAIN m.pinners}
<1>0. m.type = "executed" /\ m.type \in ExecutionTypes /\ item \in StoreItem
  BY DEF ExecutionResult, ExecutionTypes, TypeOK
<1>1. /\ m.pinners = item.pinners /\ m.key = 1 /\ item.key = NoKey
      /\ \A n \in net : n.type \in ExecutionTypes => n = m
      /\ \A n \in net : n.type \notin SliceTypes
      /\ item.asked = {} /\ item.answers = {}
  BY <1>0 DEF OneRound, OneExecution
<1>2. item.executor # NoPeer /\ Len(item.pinners) = N /\ DistinctPeers(item.pinners)
  <2>1. m.type \notin StartTypes \cup CandidateTypes
    BY <1>0 DEF StartTypes, CandidateTypes
  <2> QED  BY <2>1 DEF OneRound, OneElection
<1>3. UNCHANGED <<events, published, closed, keys, committed, dataCid, deployId>>
  BY DEF ExecutionResult, nodeVars
<1>4. DOMAIN item.pinners = 1 .. N
  BY <1>0, <1>2 DEF StoreItem
<1>5. \A n \in net' : n \in net \ {m} \/ \E i \in 1 .. N : n = SliceFor(m, i)
  BY <1>1, <1>2, NetAssumption DEF ExecutionResult, SlicesTo, Handle
<1>6. /\ item'.executor = item.executor /\ item'.pinners = item.pinners
      /\ item'.key = 1 /\ item'.answers = {}
      /\ \/ item'.state = "SentToInitialPinner" /\ item'.asked = PinnerPeers
         \/ item'.state = "ReceivedExecutionResult" /\ item'.asked = {}
  <2>1. peers = PinnerPeers
    BY <1>1 DEF PinnerPeers
  <2>2. WithoutAnswers(item, peers) = {}
    BY <1>1 DEF WithoutAnswers
  <2>3. \/ item' = [item EXCEPT !.state = "SentToInitialPinner", !.key = 1,
                                !.asked = PinnerPeers, !.answers = {}]
        \/ item' = [item EXCEPT !.state = "ReceivedExecutionResult", !.key = 1]
    BY <1>0, <1>1, <2>1, <2>2 DEF ExecutionResult, StoreItem
  <2> HIDE DEF peers
  <2> QED  BY <1>0, <1>1, <2>3 DEF StoreItem
<1>7. item'.state # "ReceivedAllPinnerResponse"
      /\ item'.state \notin Undecided \cup {"SentToExecutor"}
  BY <1>6 DEF Undecided
<1>8. ASSUME NEW n \in net', n \notin net \ {m}
      PROVE  /\ n.type = "slice"
             /\ \E i \in 1 .. N : n = SliceFor(m, i)
             /\ [peer |-> n.peer, key |-> n.key, index |-> n.index] \in FirstSlices'
             /\ n.peer \in PinnerPeers
  <2>1. PICK i \in 1 .. N : n = SliceFor(m, i)
    BY <1>5, <1>8
  <2>2. n.type = "slice" /\ n.peer = item.pinners[i].peer /\ n.key = 1 /\ n.index = i
    BY <1>1, <2>1 DEF SliceFor
  <2> QED  BY <1>4, <1>6, <2>1, <2>2 DEF FirstSlices, PinnerPeers
<1>9. ASSUME NEW x \in net', NEW y \in net', x \notin net \ {m}, y \notin net \ {m},
             x.peer = y.peer
      PROVE  x = y
  <2>1. PICK i \in 1 .. N : x = SliceFor(m, i)
    BY <1>8, <1>9
  <2>2. PICK j \in 1 .. N : y = SliceFor(m, j)
    BY <1>8, <1>9
  <2>3. x.peer = item.pinners[i].peer /\ y.peer = item.pinners[j].peer
    BY <1>1, <2>1, <2>2 DEF SliceFor
  <2>4. i = j
    BY <1>2, <1>4, <1>9, <2>3 DEF DistinctPeers
  <2> QED  BY <2>1, <2>2, <2>4
<1>10. \A n \in net' : n \notin net \ {m} =>
         /\ n.type \in SliceTypes
         /\ n.type \notin StartTypes \cup CandidateTypes \cup ExecutionTypes \cup ResultTypes
  BY <1>8 DEF StartTypes, CandidateTypes, ExecutionTypes, SliceTypes, ResultTypes
<1>11. OneStart'
  <2>1. \A n \in net' : n.type \notin StartTypes
    BY <1>2, <1>10 DEF OneRound, OneElection
  <2>2. \A n \in net' : n.type \notin {"nodeReady", "delegatorKey", "delegates"}
    BY <2>1 DEF StartTypes
  <2>3. item'.state \notin {"None", "Init"} /\ events # 0
    BY <1>6 DEF OneRound, OneStart
  <2> QED  BY <1>3, <2>1, <2>2, <2>3 DEF OneStart
<1>12. OneCandidacy'
  BY <1>2, <1>6, <1>10 DEF OneRound, OneCandidacy
<1>13. OneElection'
  <2>1. \A n \in net' : n.type \notin StartTypes
    BY <1>2, <1>10 DEF OneRound, OneElection
  <2> QED  BY <1>2, <1>6, <1>7, <2>1 DEF OneRound, OneElection
<1>14. OneExecution'
  <2>1. \A n \in net' : n.type \notin ExecutionTypes
    BY <1>1, <1>10
  <2>2. PinnerPeers' = PinnerPeers
    BY <1>6 DEF PinnerPeers
  <2> QED  BY <1>6, <1>7, <2>1, <2>2 DEF OneExecution, NoKey
<1>15. FirstSlices' = FirstSlices
  BY <1>6 DEF FirstSlices
<1>16. OneDeployment'
  <2>1. item'.answers \cup dataCid' \cup deployId' \subseteq FirstSlices'
    BY <1>3, <1>6, <1>15 DEF OneRound, OneDeployment
  <2>2. \A n \in net' : n.type \in SliceTypes => n \notin net \ {m}
    BY <1>1
  <2>3. Answered(item)' = {}
    BY <1>6 DEF Answered
  <2> QED  BY <1>8, <1>9, <2>1, <2>2, <2>3 DEF OneDeployment
<1>17. OnePublication'
  <2>1. item.state # "ReceivedAllPinnerResponse"
    BY <1>1 DEF OneRound, OneExecution, Undecided
  <2>2. \A n \in net' : n.type \notin ResultTypes
    BY <1>10, <2>1 DEF OneRound, OnePublication
  <2>3. \A n \in net' : n.type \notin {"result", "asset"}
    BY <2>2 DEF ResultTypes
  <2> QED  BY <1>3, <1>7, <1>15, <2>1, <2>2, <2>3 DEF OneRound, OnePublication
<1> QED  BY <1>11, <1>12, <1>13, <1>14, <1>16, <1>17 DEF OneRound

\* An answer takes the place of its slice; the last one is the only one to
\* complete the set.
LEMMA SliceDeployedOneRound ==
  ASSUME TypeOK, OneRound, UNCHANGED nodeVars, NEW m \in net, SliceDeployed(m)
  PROVE  OneRound'
<1> DEFINE d == [peer |-> m.peer, key |-> m.key, index |-> m.index]
           it == WithAnswer(item, d)
           complete == [it EXCEPT !.state = "ReceivedAllPinnerResponse"]
           result == [type |-> "result", key |-> it.key, deployments |-> it.answers]
<1>0. m.type = "deployed" /\ m.type \in SliceTypes /\ item \in StoreItem
  BY DEF SliceDeployed, SliceTypes, TypeOK
<1>1. UNCHANGED <<events, published, closed, keys, committed, dataCid, deployId>>
  BY DEF SliceDeployed, nodeVars
<1>2. /\ d \in FirstSlices /\ m.peer \notin Answered(item)
      /\ \A n \in net : n.type \in SliceTypes /\ n.peer = m.peer => n = m
  BY <1>0 DEF OneRound, OneDeployment
<1>3. /\ item.key = 1 /\ item.key # NoKey
      /\ item.asked = IF item.state = "ReceivedExecutionResult" THEN {} ELSE PinnerPeers
      /\ item.state \notin Undecided \cup {"SentToExecutor"}
      /\ \A n \in net : n.type \notin ExecutionTypes
  BY <1>0 DEF OneRound, OneExecution
<1>4. /\ item.executor # NoPeer /\ DistinctPeers(item.pinners)
      /\ \A n \in net : n.type \notin StartTypes
  BY <1>3 DEF OneRound, OneElection
<1>5. item.state # "ReceivedAllPinnerResponse"
  <2>1. item.answers # FirstSlices
    BY <1>2 DEF Answered
  <2> QED  BY <2>1 DEF OneRound, OnePublication
<1>6. CASE UNCHANGED item /\ net' \subseteq net
  <2>1. RoundKept
    BY <1>1, <1>6 DEF RoundKept
  <2> QED  BY <1>1, <1>6, <2>1, FewerMessages
<1>7. /\ it.state = item.state /\ it.executor = item.executor /\ it.pinners = item.pinners
      /\ it.key = item.key /\ it.asked = item.asked
      /\ it.answers = item.answers \cup {d}
      /\ complete.state = "ReceivedAllPinnerResponse" /\ complete.executor = item.executor
      /\ complete.pinners = item.pinners /\ complete.key = item.key
      /\ complete.asked = item.asked /\ complete.answers = it.answers
  <2>1. WithoutAnswers(item, {m.peer}) = item.answers
    BY <1>2 DEF WithoutAnswers, Answered
  <2> HIDE DEF d
  <2>2. d.peer = m.peer
    BY DEF d
  <2> QED  BY <1>0, <2>1, <2>2 DEF WithAnswer, StoreItem
<1>8. it.answers \subseteq FirstSlices
  BY <1>2, <1>7 DEF OneRound, OneDeployment
<1>9. ASSUME m.peer \in item.asked, AllAnswered(it)  PROVE it.answers = FirstSlices
  <2>1. item.asked = PinnerPeers
    BY <1>3, <1>9
  <2>2. ASSUME NEW s \in FirstSlices  PROVE s \in it.answers
    <3>1. s.peer \in PinnerPeers
      BY DEF FirstSlices, PinnerPeers
    <3>2. PICK a \in it.answers : a.peer = s.peer
      BY <1>7, <1>9, <2>1, <3>1 DEF AllAnswered, Answered
    <3> QED  BY <1>4, <1>8, <3>2, SlicesDiffer
  <2> QED  BY <1>8, <2>2
<1>10. \A a \in Answered(it) : a \in Answered(item) \/ a = m.peer
  <2>1. d.peer = m.peer
    OBVIOUS
  <2> QED  BY <1>7, <2>1 DEF Answered
<1> HIDE DEF d, it, complete
<1>11. ASSUME NEW x, net' \subseteq (net \ {m}) \cup {x},
              x.type = "result", x.key = 1, x.deployments = it.answers,
              \/ item' = it /\ net' \subseteq net \ {m}
              \/ item' = complete /\ m.peer \in item.asked /\ AllAnswered(it)
       PROVE  OneRound'
  <2>1. x.type \notin StartTypes \cup CandidateTypes \cup ExecutionTypes \cup SliceTypes
        /\ x.type \notin {"nodeReady", "delegatorKey", "delegates", "asset"}
    BY <1>11 DEF StartTypes, CandidateTypes, ExecutionTypes, SliceTypes
  <2>2. /\ item'.executor = item.executor /\ item'.pinners = item.pinners
        /\ item'.key = item.key /\ item'.asked = item.asked /\ item'.answers = it.answers
        /\ \/ item'.state = item.state /\ net' \subseteq net \ {m}
           \/ item'.state = "ReceivedAllPinnerResponse" /\ it.answers = FirstSlices
              /\ m.peer \in item.asked
    BY <1>7, <1>9, <1>11
  <2>3. item'.state \notin Undecided \cup {"SentToExecutor"}
    BY <1>3, <2>2 DEF Undecided
  <2>4. FirstSlices' = FirstSlices /\ PinnerPeers' = PinnerPeers
    BY <2>2 DEF FirstSlices, PinnerPeers
  <2>5. OneStart'
    <3>1. \A n \in net' : n.type \notin StartTypes
      BY <1>4, <1>11, <2>1
    <3>2. \A n \in net' : n.type \notin {"nodeReady", "delegatorKey", "delegates"}
      BY <3>1 DEF StartTypes
    <3>3. events # 0 /\ item'.state \notin {"None", "Init"}
      BY <2>3 DEF OneRound, OneStart, Undecided
    <3> QED  BY <1>1, <3>1, <3>2, <3>3 DEF OneStart
  <2>6. OneCandidacy'
    BY <1>4, <1>11, <2>1, <2>2 DEF OneRound, OneCandidacy
  <2>7. OneElection'
    BY <1>1, <1>4, <1>11, <2>1, <2>2, <2>3 DEF OneRound, OneElection
  <2>8. OneExecution'
    <3>1. \A n \in net' : n.type \notin ExecutionTypes
      BY <1>3, <1>11, <2>1
    <3>2. item'.asked = IF item'.state = "ReceivedExecutionResult" THEN {} ELSE PinnerPeers'
      BY <1>3, <2>2, <2>4
    <3> QED  BY <1>3, <2>2, <2>3, <3>1, <3>2 DEF OneExecution
  <2>9. OneDeployment'
    <3>1. item'.answers \cup dataCid' \cup deployId' \subseteq FirstSlices'
      BY <1>1, <1>8, <2>2, <2>4 DEF OneRound, OneDeployment
    <3>2. Answered(item)' = Answered(it)
      BY <2>2 DEF Answered
    <3>3. ASSUME NEW n \in net', n.type \in SliceTypes
          PROVE  /\ n \in net /\ n.peer # m.peer
                 /\ [peer |-> n.peer, key |-> n.key, index |-> n.index] \in FirstSlices
                 /\ n.peer \notin Answered(item)
      BY <1>2, <1>11, <2>1, <3>3 DEF OneRound, OneDeployment
    <3>4. ASSUME NEW n \in net', n.type \in SliceTypes, NEW k \in net', k.type \in SliceTypes,
                 k.peer = n.peer
          PROVE  k = n
      BY <3>3, <3>4 DEF OneRound, OneDeployment
    <3> QED  BY <1>10, <2>4, <3>1, <3>2, <3>3, <3>4 DEF OneDeployment
  <2>10. OnePublication'
    <3>1. published = <<>> /\ closed = {} /\ \A n \in net : n.type \notin ResultTypes
      BY <1>5 DEF OneRound, OnePublication
    <3>2. \A n \in net' : n.type \in ResultTypes =>
            n = x /\ item'.state = "ReceivedAllPinnerResponse" /\ it.answers = FirstSlices
      BY <1>11, <2>2, <3>1
    <3>3. item'.state = "ReceivedAllPinnerResponse" => item'.answers = FirstSlices
      BY <1>5, <2>2
    <3>4. \A n \in net' : n.type = "result" =>
            n.key = 1 /\ n.deployments = FirstSlices
      BY <1>11, <3>2 DEF ResultTypes
    <3>5. \A n \in net' : n.type # "asset"
      BY <2>1, <3>2 DEF ResultTypes
    <3>6. committed' \subseteq {[cid |-> s, deployment |-> s] : s \in FirstSlices}
          /\ (committed' # {} => published' # <<>>)
      BY <1>1 DEF OneRound, OnePublication
    <3> QED  BY <1>1, <2>4, <3>1, <3>2, <3>3, <3>4, <3>5, <3>6 DEF OnePublication
  <2> QED  BY <2>5, <2>6, <2>7, <2>8, <2>9, <2>10 DEF OneRound
<1>12. result.type = "result" /\ result.key = 1 /\ result.deployments = it.answers
  BY <1>3, <1>7
<1>13. \/ UNCHANGED item /\ net' \subseteq net
       \/ item' = it /\ net' \subseteq net \ {m}
       \/ /\ item' = complete /\ m.peer \in item.asked /\ AllAnswered(it)
          /\ net' \subseteq (net \ {m}) \cup {result}
  BY DEF SliceDeployed, Handle, it, d, complete
<1> HIDE DEF result
<1> QED  BY <1>6, <1>11, <1>12, <1>13

\* layer1 gets one result, and nothing was published before.
LEMMA Layer1AcceptsOneRound ==
  ASSUME TypeOK, OneRound, UNCHANGED nodeVars, NEW m \in net, Layer1Accepts(m)
  PROVE  OneRound'
<1> DEFINE assets == [type : {"asset"}, peer : Peers, key : {m.key}]
           out == {[type |-> "updated"]} \cup assets
<1>0. m.type = "result" /\ m.type \in ResultTypes /\ m \in Results
  BY MessageFields DEF Layer1Accepts, ResultTypes, TypeOK
<1>1. m.key = 1 /\ m.deployments = FirstSlices /\ published = <<>>
  BY <1>0 DEF OneRound, OnePublication
<1>2. published' = <<[key |-> 1, deployments |-> FirstSlices]>> /\ published' # <<>>
  BY <1>1 DEF Layer1Accepts
<1>3. item.state = "ReceivedAllPinnerResponse"
  BY <1>0 DEF OneRound, OnePublication
<1>4. UNCHANGED <<events, item, closed, keys, committed, dataCid, deployId>>
  BY DEF Layer1Accepts, nodeVars
<1>5. \A n \in out : n.type \in {"updated", "asset"}
  OBVIOUS
<1>6. net' = (net \ {m}) \cup out
  BY DEF Layer1Accepts, Handle
<1> HIDE DEF out
<1>7. \A n \in out : n.type \notin StartTypes \cup CandidateTypes \cup ExecutionTypes \cup SliceTypes
  BY <1>5 DEF StartTypes, CandidateTypes, ExecutionTypes, SliceTypes
<1>8. \A n \in net' : n.type \notin StartTypes
  <2>1. item.executor # NoPeer
    BY <1>3 DEF OneRound, OneElection, Undecided
  <2> QED  BY <1>6, <1>7, <2>1 DEF OneRound, OneElection
<1>9. OneStart'
  <2>1. events # 0
    BY DEF OneRound, OneStart
  <2>2. \A n \in net' : n.type \notin {"nodeReady", "delegatorKey", "delegates"}
    BY <1>8 DEF StartTypes
  <2> QED  BY <1>3, <1>4, <1>8, <2>1, <2>2 DEF OneStart
<1>10. OneCandidacy'
  BY <1>4, <1>6, <1>7 DEF OneRound, OneCandidacy
<1>11. OneElection'
  BY <1>3, <1>4, <1>8 DEF OneRound, OneElection, Undecided
<1>12. OneExecution'
  BY <1>4, <1>6, <1>7 DEF OneRound, OneExecution, PinnerPeers
<1>13. OneDeployment'
  BY <1>4, <1>6, <1>7 DEF OneRound, OneDeployment, FirstSlices
<1>14. OnePublication'
  <2>1. ASSUME NEW n \in net', n.type = "result"  PROVE FALSE
    <3>1. n \in net /\ n # m
      BY <1>5, <1>6, <2>1
    <3>2. n \in Results
      BY <2>1, <3>1, MessageFields DEF TypeOK
    <3>3. n.key = 1 /\ n.deployments = FirstSlices
      BY <2>1, <3>1 DEF OneRound, OnePublication
    <3>4. n = m
      BY <1>0, <1>1, <2>1, <3>2, <3>3 DEF Results
    <3> QED  BY <3>1, <3>4
  <2>2. FirstSlices' = FirstSlices
    BY <1>4 DEF FirstSlices
  <2> QED  BY <1>2, <1>3, <1>4, <2>1, <2>2 DEF OneRound, OnePublication
<1> QED  BY <1>9, <1>10, <1>11, <1>12, <1>13, <1>14 DEF OneRound

\* Connections are closed when the update is answered, so the item is complete.
LEMMA CloseConnectionsOneRound ==
  ASSUME OneRound, UNCHANGED nodeVars, NEW m \in net, CloseConnections(m)
  PROVE  OneRound'
<1>1. item.state = "ReceivedAllPinnerResponse"
  BY DEF CloseConnections, OneRound, OnePublication, ResultTypes
<1>2. /\ UNCHANGED <<events, item, published, keys, committed, dataCid, deployId>>
      /\ net' \subseteq net
  BY DEF CloseConnections, nodeVars, Handle
<1>3. OneStart'
  BY <1>2 DEF OneRound, OneStart
<1>4. OneCandidacy'
  BY <1>2 DEF OneRound, OneCandidacy
<1>5. OneElection'
  BY <1>2 DEF OneRound, OneElection
<1>6. OneExecution'
  BY <1>2 DEF OneRound, OneExecution, PinnerPeers
<1>7. OneDeployment'
  BY <1>2 DEF OneRound, OneDeployment, FirstSlices
<1>8. OnePublication'
  BY <1>1, <1>2 DEF OneRound, OnePublication, FirstSlices
<1> QED  BY <1>3, <1>4, <1>5, <1>6, <1>7, <1>8 DEF OneRound

LEMMA DelegatorOneRound ==
  ASSUME ProfilesAgree, TypeOK, OneRound, UNCHANGED nodeVars,
         NEW m \in net, DelegatorHandles(m)
  PROVE  OneRound'
<1>0. m \in Message
  BY DEF TypeOK
<1>1. CASE NodeReady(m) \/ BecomeDelegator(m)
  BY <1>1, BecomeDelegatorOneRound
<1>2. CASE Delegates(m)
  BY <1>2, DelegatesOneRound
<1>3. CASE Profile(m)
  <2> DEFINE x == [type |-> "candidate", ev |-> m.ev, peer |-> m.peer, exec |-> TRUE]
  <2>1. x.type = "candidate" /\ x.peer = m.peer /\ m.type = "profile"
    BY <1>3 DEF Profile
  <2>2. RoundKept /\ UNCHANGED <<dataCid, deployId>>
    BY <1>3 DEF Profile, RoundKept, delegatorVars, nodeVars
  <2>3. net' \subseteq (net \ {m}) \cup {x}
    BY <1>3 DEF Profile, Handle
  <2> HIDE DEF x
  <2>4. m.type \in CandidateTypes /\ x.type \in CandidateTypes
    BY <2>1 DEF CandidateTypes
  <2> QED  BY <2>1, <2>2, <2>3, <2>4, CandidacyGoesOn
<1>4. CASE StartAttestation(m)
  <2> DEFINE x == [m EXCEPT !.type = "attest"]
  <2>1. m \in Applications /\ m.type = "apply"
    BY <1>0, <1>4, MessageFields DEF StartAttestation
  <2>2. x.type = "attest" /\ x.peer = m.peer
    BY <2>1 DEF Applications
  <2>3. RoundKept /\ UNCHANGED <<dataCid, deployId>>
    BY <1>4 DEF StartAttestation, RoundKept, delegatorVars, nodeVars
  <2>4. net' \subseteq (net \ {m}) \cup {x}
    BY <1>4 DEF StartAttestation, Handle
  <2> HIDE DEF x
  <2>5. m.type \in CandidateTypes /\ x.type \in CandidateTypes
    BY <2>1, <2>2 DEF CandidateTypes
  <2> QED  BY <2>2, <2>3, <2>4, <2>5, CandidacyGoesOn
<1>5. CASE AfterVerify(m)
  BY <1>5, AfterVerifyOneRound
<1>6. CASE ExecutionResult(m)
  BY <1>6, ExecutionResultOneRound
<1>7. CASE SliceDeployed(m)
  BY <1>7, SliceDeployedOneRound
<1>8. CASE Layer1Accepts(m)
  BY <1>8, Layer1AcceptsOneRound
<1>9. CASE CloseConnections(m)
  BY <1>9, CloseConnectionsOneRound
<1> QED
  BY <1>1, <1>2, <1>3, <1>4, <1>5, <1>6, <1>7, <1>8, <1>9 DEF DelegatorHandles
-----------------------------------------------------------------------------
(* The round *)

LEMMA InitOneRound == Init => OneRound
<1> SUFFICES ASSUME Init  PROVE OneRound
  OBVIOUS
<1>1. /\ item = Fresh("None") /\ item.state = "None" /\ item.executor = NoPeer
      /\ item.pinners = <<>> /\ item.key = NoKey /\ item.asked = {} /\ item.answers = {}
      /\ item.candExecutors = <<>> /\ item.candPinners = <<>>
  BY DEF Init, DelegatorInit, Fresh
<1>2. /\ net = {} /\ keys = 0 /\ dataCid = {} /\ deployId = {} /\ committed = {}
      /\ published = <<>> /\ closed = {}
  BY DEF Init, DelegatorInit, NodeInit
<1>3. OneStart
  BY <1>1, <1>2 DEF OneStart
<1>4. OneCandidacy
  BY <1>1, <1>2 DEF OneCandidacy, DistinctPeers, DisjointPeers
<1>5. OneElection
  BY <1>1, <1>2 DEF OneElection, Undecided
<1>6. OneExecution
  BY <1>1, <1>2 DEF OneExecution, Undecided
<1>7. OneDeployment
  BY <1>1, <1>2 DEF OneDeployment
<1>8. OnePublication
  BY <1>1, <1>2 DEF OnePublication
<1> QED  BY <1>3, <1>4, <1>5, <1>6, <1>7, <1>8 DEF OneRound

LEMMA NextOneRound ==
  ASSUME MaxEvents = 1, ProfilesAgree, TypeOK, OneRound, [Next]_vars
  PROVE  OneRound'
<1>1. CASE Deliver
  <2> PICK m \in net : \/ DelegatorHandles(m) /\ UNCHANGED nodeVars
                       \/ NodeHandles(m) /\ UNCHANGED delegatorVars
    BY <1>1 DEF Deliver
  <2> QED  BY DelegatorOneRound, NodeOneRound
<1>2. CASE Environment
  BY <1>2, EnvironmentOneRound
<1>3. CASE UNCHANGED vars
  <2>1. RoundKept /\ net' \subseteq net /\ dataCid' \subseteq dataCid
        /\ deployId' \subseteq deployId
    BY <1>3 DEF RoundKept, vars, delegatorVars, nodeVars
  <2> QED  BY <2>1, FewerMessages
<1> QED  BY <1>1, <1>2, <1>3 DEF Next

\* The inductive invariant of a single delivery: start, invitations, execution
\* and slices are each used once, whatever is lost, fails or expires.
THEOREM EachUsedOnce == MaxEvents = 1 /\ ProfilesAgree => (Spec => []OneRound)
<1> SUFFICES ASSUME MaxEvents = 1, ProfilesAgree  PROVE Spec => []OneRound
  OBVIOUS
<1>1. Init => TypeOK /\ OneRound
  BY InitTypeOK, InitOneRound
<1>2. (TypeOK /\ OneRound) /\ [Next]_vars => (TypeOK /\ OneRound)'
  BY NextTypeOK, NextOneRound
<1> QED  BY <1>1, <1>2, PTL DEF Spec
-----------------------------------------------------------------------------
(* What a round guarantees *)

\* Different peers are as many as their candidates.
LEMMA PeersCounted ==
  ASSUME NEW s \in Seq(Candidate), Len(s) = N, DistinctPeers(s)
  PROVE  /\ IsFiniteSet({s[i].peer : i \in DOMAIN s})
         /\ Cardinality({s[i].peer : i \in DOMAIN s}) = N
<1> DEFINE P == {s[i].peer : i \in DOMAIN s}
           f == [i \in 1 .. N |-> s[i].peer]
<1>1. DOMAIN s = 1 .. N /\ N \in Nat
  BY NetAssumption
<1>2. f \in Surjection(1 .. N, P)
  BY <1>1 DEF Surjection
<1>3. f \in Injection(1 .. N, P)
  BY <1>1, <1>2 DEF Surjection, Injection, DistinctPeers, IsInjective
<1> HIDE DEF f, P
<1>4. ExistsBijection(1 .. N, P)
  BY <1>2, <1>3 DEF ExistsBijection, Bijection
<1>5. IsFiniteSet(1 .. N) /\ Cardinality(1 .. N) = N
  BY <1>1, FS_Interval
<1>6. IsFiniteSet(P) /\ Cardinality(P) = N
  BY <1>4, <1>5, FS_Bijection
<1> QED  BY <1>6 DEF P

\* A published result is about the elected pinners.
LEMMA PublishedElected ==
  ASSUME TypeOK, OneRound, published # <<>>
  PROVE  /\ published = <<[key |-> 1, deployments |-> FirstSlices]>>
         /\ item.executor # NoPeer /\ item.pinners \in Seq(Candidate)
         /\ Len(item.pinners) = N /\ DistinctPeers(item.pinners)
<1>1. item.state = "ReceivedAllPinnerResponse"
  BY DEF OneRound, OnePublication
<1>2. item.executor # NoPeer
  BY <1>1 DEF OneRound, OneElection, Undecided
<1> QED  BY <1>2 DEF OneRound, OneElection, OnePublication, TypeOK, StoreItem

\* The executor and its N pinners are N + 1 different nodes, in every round.
THEOREM MembersAreDistinct == MaxEvents = 1 /\ ProfilesAgree => (Spec => []MembersDistinct)
<1> SUFFICES ASSUME MaxEvents = 1, ProfilesAgree  PROVE Spec => []MembersDistinct
  OBVIOUS
<1>1. TypeOK /\ OneRound => MembersDistinct
  <2> SUFFICES ASSUME TypeOK, OneRound, item.executor # NoPeer
               PROVE  /\ Len(item.pinners) = N
                      /\ Cardinality(PinnerPeers \cup {item.executor}) = N + 1
    BY DEF MembersDistinct
  <2>1. /\ item.pinners \in Seq(Candidate) /\ Len(item.pinners) = N
        /\ DistinctPeers(item.pinners)
        /\ \A i \in 1 .. N : item.pinners[i].peer # item.executor
    BY DEF TypeOK, StoreItem, OneRound, OneElection
  <2>2. IsFiniteSet(PinnerPeers) /\ Cardinality(PinnerPeers) = N
    BY <2>1, PeersCounted DEF PinnerPeers
  <2>3. item.executor \notin PinnerPeers
    BY <2>1 DEF PinnerPeers
  <2> QED  BY <2>1, <2>2, <2>3, FS_AddElement
<1> QED  BY <1>1, TypeCorrect, EachUsedOnce, PTL

\* layer1 is told of all N slices of one key, at N different nodes.
THEOREM PublishedIsComplete ==
  MaxEvents = 1 /\ ProfilesAgree => (Spec => []PublishedComplete)
<1> SUFFICES ASSUME MaxEvents = 1, ProfilesAgree  PROVE Spec => []PublishedComplete
  OBVIOUS
<1>1. TypeOK /\ OneRound => PublishedComplete
  <2> SUFFICES ASSUME TypeOK, OneRound, NEW i \in DOMAIN published
               PROVE  /\ {d.key : d \in published[i].deployments} = {published[i].key}
                      /\ {d.index : d \in published[i].deployments} = 1 .. N
                      /\ Cardinality({d.peer : d \in published[i].deployments}) = N
    BY DEF PublishedComplete
  <2>1. published # <<>>
    OBVIOUS
  <2>2. /\ published = <<[key |-> 1, deployments |-> FirstSlices]>>
        /\ item.pinners \in Seq(Candidate) /\ Len(item.pinners) = N
        /\ DistinctPeers(item.pinners)
    BY <2>1, PublishedElected
  <2>3. published[i].key = 1 /\ published[i].deployments = FirstSlices
    BY <2>2
  <2>4. DOMAIN item.pinners = 1 .. N /\ 1 \in 1 .. N
    BY <2>2, NetAssumption
  <2>a. \A d \in FirstSlices : \E j \in 1 .. N :
          d.peer = item.pinners[j].peer /\ d.key = 1 /\ d.index = j
    BY <2>4 DEF FirstSlices
  <2>b. ASSUME NEW j \in 1 .. N
        PROVE  \E d \in FirstSlices : d.peer = item.pinners[j].peer /\ d.key = 1 /\ d.index = j
    <3> DEFINE d == [peer |-> item.pinners[j].peer, key |-> 1, index |-> j]
    <3>1. d \in FirstSlices
      BY <2>4 DEF FirstSlices
    <3>2. d.peer = item.pinners[j].peer /\ d.key = 1 /\ d.index = j
      OBVIOUS
    <3> HIDE DEF d
    <3> QED  BY <3>1, <3>2
  <2>5. {d.key : d \in FirstSlices} = {1}
    BY <2>4, <2>a, <2>b
  <2>6. {d.index : d \in FirstSlices} = 1 .. N
    BY <2>a, <2>b
  <2>7. {d.peer : d \in FirstSlices} = {item.pinners[j].peer : j \in DOMAIN item.pinners}
    BY <2>4, <2>a, <2>b
  <2>8. Cardinality({d.peer : d \in FirstSlices}) = N
    BY <2>2, <2>7, PeersCounted
  <2> QED  BY <2>3, <2>5, <2>6, <2>8
<1> QED  BY <1>1, TypeCorrect, EachUsedOnce, PTL

\* A result is published at most once.
THEOREM PublishedAtMostOnce == MaxEvents = 1 /\ ProfilesAgree => (Spec => []PublishedOnce)
<1> SUFFICES ASSUME MaxEvents = 1, ProfilesAgree  PROVE Spec => []PublishedOnce
  OBVIOUS
<1>1. OneRound => PublishedOnce
  <2>1. Len(<<>>) <= 1 /\ \A r : Len(<<r>>) <= 1
    OBVIOUS
  <2> QED  BY <2>1 DEF OneRound, OnePublication, PublishedOnce
<1> QED  BY <1>1, EachUsedOnce, PTL

\* Every commit pairs a stored slice with its own deployment, and was published.
THEOREM CommitsArePublished == MaxEvents = 1 /\ ProfilesAgree => (Spec => []CommitsMatch)
<1> SUFFICES ASSUME MaxEvents = 1, ProfilesAgree  PROVE Spec => []CommitsMatch
  OBVIOUS
<1>1. TypeOK /\ OneRound => CommitsMatch
  <2> SUFFICES ASSUME TypeOK, OneRound, NEW c \in committed
               PROVE  /\ c.cid = c.deployment
                      /\ \E i \in DOMAIN published : c.deployment \in published[i].deployments
    BY DEF CommitsMatch
  <2>1. PICK d \in FirstSlices : c = [cid |-> d, deployment |-> d]
    BY DEF OneRound, OnePublication
  <2>2. published = <<[key |-> 1, deployments |-> FirstSlices]>>
    BY PublishedElected DEF OneRound, OnePublication
  <2>3. 1 \in DOMAIN published /\ published[1].deployments = FirstSlices
    BY <2>2
  <2> QED  BY <2>1, <2>3
<1> QED  BY <1>1, TypeCorrect, EachUsedOnce, PTL

\* No connection is closed while a member still has a message under way.
THEOREM ClosedOnlyWhenDone == MaxEvents = 1 /\ ProfilesAgree => (Spec => []ClosedWhenDone)
<1> SUFFICES ASSUME MaxEvents = 1, ProfilesAgree  PROVE Spec => []ClosedWhenDone
  OBVIOUS
<1>1. OneRound => ClosedWhenDone
  <2> SUFFICES ASSUME OneRound, NEW m \in net, m.type \in ExecutionTypes \cup SliceTypes
               PROVE  closed = {}
    BY DEF ClosedWhenDone, ExecutionTypes, SliceTypes
  <2>1. item.state # "ReceivedAllPinnerResponse"
    <3>1. CASE m.type \in ExecutionTypes
      BY <3>1 DEF OneRound, OneExecution, Undecided
    <3>2. CASE m.type \in SliceTypes
      <4>1. [peer |-> m.peer, key |-> m.key, index |-> m.index] \notin item.answers
        BY <3>2 DEF OneRound, OneDeployment, Answered
      <4> QED  BY <3>2, <4>1 DEF OneRound, OneDeployment, OnePublication
    <3> QED  BY <3>1, <3>2
  <2> QED  BY <2>1 DEF OneRound, OnePublication
<1> QED  BY <1>1, EachUsedOnce, PTL

\* What a step does to the item in a round, in terms of its states.
LEMMA Rankings ==
  /\ Rank("None") = 1 /\ Rank("Init") = 2 /\ Rank("InvitedCandidates") = 3
  /\ Rank("SentToExecutor") = 4 /\ Rank("ReceivedExecutionResult") = 5
  /\ Rank("SentToInitialPinner") = 6 /\ Rank("ReceivedAllPinnerResponse") = 7
<1>1. /\ Order[1] = "None" /\ Order[2] = "Init" /\ Order[3] = "InvitedCandidates"
      /\ Order[4] = "SentToExecutor" /\ Order[5] = "ReceivedExecutionResult"
      /\ Order[6] = "SentToInitialPinner" /\ Order[7] = "ReceivedAllPinnerResponse"
      /\ DOMAIN Order = {1, 2, 3, 4, 5, 6, 7}
  BY DEF Order
<1>2. ASSUME NEW i \in DOMAIN Order  PROVE Rank(Order[i]) = i
  <2>1. Rank(Order[i]) \in DOMAIN Order /\ Order[Rank(Order[i])] = Order[i]
    BY DEF Rank
  <2>2. \A j \in DOMAIN Order : Order[j] = Order[i] => j = i
    BY <1>1
  <2> QED  BY <2>1, <2>2
<1> QED  BY <1>1, <1>2

Progress ==
  /\ Rank(item.state) <= Rank(item'.state)
  /\ item.key # NoKey => item'.key = item.key
  /\ item.executor # NoPeer => item'.executor = item.executor /\ item'.pinners = item.pinners
  /\ item.answers \subseteq item'.answers

LEMMA NextProgress ==
  ASSUME TypeOK, OneRound, [Next]_vars
  PROVE  Progress
<1>0. /\ item \in StoreItem
      /\ Rank(item.state) \in 1 .. 7 /\ Rank(item.state) <= Rank(item.state)
  <2>1. item \in StoreItem /\ item.state \in DelegatorState
    BY DEF TypeOK, StoreItem
  <2>2. Rank(item.state) \in 1 .. 7
    BY <2>1, Rankings DEF DelegatorState
  <2>3. \A r \in 1 .. 7 : r <= r
    OBVIOUS
  <2> QED  BY <2>1, <2>2, <2>3
<1>1. CASE UNCHANGED item
  BY <1>0, <1>1 DEF Progress
<1>2. ASSUME NEW m \in net, DelegatorHandles(m)  PROVE Progress
  <2>1. CASE BecomeDelegator(m)
    <3>1. item = Fresh("None")
      BY <2>1 DEF BecomeDelegator, OneRound, OneStart
    <3>2. item' \in {item, Fresh("Init"), Fresh("InvitedCandidates")}
      BY <2>1 DEF BecomeDelegator, NewRound
    <3>3. /\ item.executor = NoPeer /\ item.key = NoKey /\ item.answers = {}
          /\ item.state = "None" /\ item'.state \in {"None", "Init", "InvitedCandidates"}
      BY <3>1, <3>2 DEF Fresh
    <3> QED  BY <3>3, Rankings DEF Progress
  <2>2. CASE AfterVerify(m) /\ item.state = "InvitedCandidates"
    <3> DEFINE it == Insert(item, m.exec, [peer |-> m.peer, rsa |-> m.rsa])
    <3>1. /\ item.executor = NoPeer /\ item.key = NoKey
      BY <2>2 DEF OneRound, OneElection, Undecided
    <3>2. item.answers = {}
      BY <3>1 DEF OneRound, OneExecution
    <3>3. item' = it \/ item'.state = "SentToExecutor"
      <4>1. [Elect(it) EXCEPT !.state = "SentToExecutor"].state = "SentToExecutor"
        BY <1>0 DEF Insert, Elect, StoreItem
      <4> HIDE DEF it
      <4>2. TrySendToExecutor(m, it)
        BY <2>2 DEF AfterVerify, it
      <4> QED  BY <4>1, <4>2 DEF TrySendToExecutor
    <3>4. it.state = item.state
      BY <1>0 DEF Insert, StoreItem
    <3>5. item'.state \in {"InvitedCandidates", "SentToExecutor"}
      BY <2>2, <3>3, <3>4
    <3> QED  BY <2>2, <3>1, <3>2, <3>5, Rankings DEF Progress
  <2>3. CASE ExecutionResult(m)
    <3>1. m.type \in ExecutionTypes
      BY <2>3 DEF ExecutionResult, ExecutionTypes
    <3>2. item.key = NoKey /\ item.answers = {}
          /\ item.state \in {"None", "Init", "InvitedCandidates", "SentToExecutor"}
      BY <3>1 DEF OneRound, OneExecution, Undecided
    <3>3. /\ item'.state \in {"ReceivedExecutionResult", "SentToInitialPinner"}
          /\ item'.executor = item.executor /\ item'.pinners = item.pinners
      BY <1>0, <2>3 DEF ExecutionResult, StoreItem
    <3> QED  BY <3>2, <3>3, Rankings DEF Progress
  <2>4. CASE SliceDeployed(m)
    <3> DEFINE d == [peer |-> m.peer, key |-> m.key, index |-> m.index]
    <3>1. m.peer \notin Answered(item)
      BY <2>4 DEF SliceDeployed, SliceTypes, OneRound, OneDeployment
    <3>2. WithoutAnswers(item, {m.peer}) = item.answers
      BY <3>1 DEF WithoutAnswers, Answered
    <3>3. d.peer = m.peer
      OBVIOUS
    <3>4. item' \in {item, WithAnswer(item, d),
                     [WithAnswer(item, d) EXCEPT !.state = "ReceivedAllPinnerResponse"]}
      BY <2>4 DEF SliceDeployed
    <3> HIDE DEF d
    <3>5. WithAnswer(item, d) = [item EXCEPT !.answers = item.answers \cup {d}]
      BY <3>2, <3>3 DEF WithAnswer
    <3>6. /\ item'.key = item.key /\ item'.executor = item.executor
          /\ item'.pinners = item.pinners /\ item.answers \subseteq item'.answers
          /\ item'.state \in {item.state, "ReceivedAllPinnerResponse"}
      BY <1>0, <3>4, <3>5 DEF StoreItem
    <3>7. Rank(item.state) <= 7
      BY <1>0
    <3> QED  BY <1>0, <3>6, <3>7, Rankings DEF Progress
  <2> QED
    BY <1>1, <1>2, <2>1, <2>2, <2>3, <2>4
       DEF DelegatorHandles, NodeReady, Delegates, Profile, StartAttestation, AfterVerify,
           Layer1Accepts, CloseConnections, delegatorVars
<1>3. CASE Deliver
  <2>1. PICK m \in net : DelegatorHandles(m) \/ UNCHANGED delegatorVars
    BY <1>3 DEF Deliver
  <2> QED  BY <1>1, <1>2, <2>1 DEF delegatorVars
<1>4. CASE Environment \/ UNCHANGED vars
  BY <1>1, <1>4 DEF Environment, PortalEvent, Lose, Expire, vars, delegatorVars
<1> QED  BY <1>3, <1>4 DEF Next

\* The item only goes forward, and takes back no key, no member and no answer.
THEOREM ItemGoesForward == MaxEvents = 1 /\ ProfilesAgree => (Spec => ItemProgresses)
<1> SUFFICES ASSUME MaxEvents = 1, ProfilesAgree  PROVE Spec => ItemProgresses
  OBVIOUS
<1>1. TypeOK /\ OneRound /\ [Next]_vars => [Progress]_vars
  BY NextProgress
<1>2. Spec => [][Progress]_vars
  BY <1>1, TypeCorrect, EachUsedOnce, PTL DEF Spec
<1> QED  BY <1>2 DEF ItemProgresses, Progress
-----------------------------------------------------------------------------
(* Key generation implements KeyGenPromise *)

PeersOf(pinners) == [i \in DOMAIN pinners |-> pinners[i].peer]

\* A step that elects nobody, publishes nothing and commits nothing stutters.
LEMMA Stutters ==
  ASSUME item'.executor = item.executor, item'.pinners = item.pinners,
         published' = published, committed' = committed
  PROVE  [Promise!Next]_(Promise!promiseVars)
<1>1. PeersOf(item.pinners)' = PeersOf(item.pinners)
  BY DEF PeersOf
<1> QED  BY <1>1 DEF Promise!promiseVars, PeersOf

LEMMA ElectionSimulates ==
  ASSUME TypeOK, OneRound, NEW m \in net, AfterVerify(m), UNCHANGED nodeVars
  PROVE  [Promise!Next]_(Promise!promiseVars)
<1> DEFINE ps == PeersOf(item'.pinners)
<1>1. published' = published /\ committed' = committed
  BY DEF AfterVerify, nodeVars
<1>2. CASE item'.executor = item.executor /\ item'.pinners = item.pinners
  BY <1>1, <1>2, Stutters
<1>3. CASE ~(item'.executor = item.executor /\ item'.pinners = item.pinners)
  <2>1. OneRound' /\ TypeOK'
    BY AfterVerifyOneRound, DelegatorTypeOK DEF DelegatorHandles
  <2>2. item.executor = NoPeer /\ item.pinners = <<>>
    <3>1. item.state = "InvitedCandidates"
      BY <1>3 DEF AfterVerify
    <3> QED  BY <3>1 DEF OneRound, OneElection, Undecided
  <2>3. item'.executor # NoPeer
    BY <1>3, <2>1, <2>2 DEF OneRound, OneElection
  <2>4. /\ item'.executor \in Peers /\ item'.pinners \in Seq(Candidate)
        /\ Len(item'.pinners) = N /\ DistinctPeers(item'.pinners)
        /\ \A i \in 1 .. N : item'.pinners[i].peer # item'.executor
    BY <2>1, <2>3 DEF OneRound, OneElection, TypeOK, StoreItem
  <2>5. DOMAIN item'.pinners = 1 .. N
    BY <2>4
  <2>6. \A i \in 1 .. N : item'.pinners[i].peer \in Peers
    BY <2>4, <2>5, PeersOfSeq DEF Candidate
  <2>7. ps \in [1 .. N -> Peers] /\ \A i \in 1 .. N : ps[i] = item'.pinners[i].peer
    BY <2>5, <2>6 DEF PeersOf
  <2> HIDE DEF ps
  <2>8. \A i, j \in 1 .. N : i # j => ps[i] # ps[j]
    BY <2>4, <2>5, <2>7 DEF DistinctPeers
  <2>9. PICK e \in Peers, q \in [1 .. N -> Peers] : e = item'.executor /\ q = ps
    BY <2>4, <2>7
  <2>10. Promise!Elect(e, q)
    BY <1>1, <2>2, <2>4, <2>7, <2>8, <2>9 DEF Promise!Elect, ps, PeersOf
  <2> QED  BY <2>10 DEF Promise!Next
<1> QED  BY <1>2, <1>3

\* The slices of the first key are those the promise speaks of.
LEMMA PromisedSlices ==
  ASSUME item.pinners \in Seq(Candidate), Len(item.pinners) = N
  PROVE  Promise!Slices(1) = FirstSlices
<1>1. DOMAIN item.pinners = 1 .. N
  BY NetAssumption
<1> QED  BY <1>1 DEF Promise!Slices, FirstSlices

LEMMA PublicationSimulates ==
  ASSUME MaxEvents = 1, TypeOK, OneRound, NEW m \in net, Layer1Accepts(m), UNCHANGED nodeVars
  PROVE  [Promise!Next]_(Promise!promiseVars)
<1>1. /\ item.state = "ReceivedAllPinnerResponse" /\ published = <<>>
      /\ m.key = 1 /\ m.deployments = FirstSlices
  BY DEF Layer1Accepts, OneRound, OnePublication, ResultTypes
<1>2. /\ item.executor # NoPeer /\ Len(item.pinners) = N
      /\ item.pinners \in Seq(Candidate)
  BY <1>1 DEF OneRound, OneElection, Undecided, TypeOK, StoreItem
<1>3. UNCHANGED <<item, committed>>
  BY DEF Layer1Accepts, nodeVars
<1>4. published' = <<[key |-> 1, deployments |-> FirstSlices]>>
  BY <1>1 DEF Layer1Accepts
<1>5. Promise!Slices(1) = FirstSlices
  BY <1>2, PromisedSlices
<1>6. Promise!Publish(1)
  BY <1>1, <1>2, <1>3, <1>4, <1>5 DEF Promise!Publish
<1> QED  BY <1>6 DEF Promise!Next

LEMMA CommitSimulates ==
  ASSUME TypeOK, OneRound, NEW m \in net, AssetGenerated(m), UNCHANGED delegatorVars
  PROVE  [Promise!Next]_(Promise!promiseVars)
<1> DEFINE cids == Entry(dataCid, m.peer, m.key)
           deployments == Entry(deployId, m.peer, m.key)
<1>1. UNCHANGED <<item, published>>
  BY DEF delegatorVars
<1>2. CASE committed' = committed
  BY <1>1, <1>2, Stutters
<1>3. CASE committed' # committed
  <2>1. committed' = committed \cup [cid : cids, deployment : deployments]
    BY <1>3 DEF AssetGenerated
  <2>2. published # <<>>
    BY DEF AssetGenerated, OneRound, OnePublication
  <2>3. /\ published = <<[key |-> 1, deployments |-> FirstSlices]>>
        /\ DistinctPeers(item.pinners)
    BY <2>2, PublishedElected
  <2>4. ASSUME NEW c \in cids \cup deployments, NEW d \in cids \cup deployments
        PROVE  c = d /\ d \in FirstSlices
    <3>1. c \in FirstSlices /\ d \in FirstSlices /\ c.peer = d.peer
      BY <2>4 DEF Entry, OneRound, OneDeployment
    <3> QED  BY <2>3, <3>1, SlicesDiffer
  <2> HIDE DEF cids, deployments
  <2>5. PICK d \in cids : d \in deployments
    BY <1>3, <2>1, <2>4
  <2>6. cids = {d} /\ deployments = {d} /\ d \in FirstSlices
    BY <2>4, <2>5
  <2>7. committed' = committed \cup {[cid |-> d, deployment |-> d]}
    BY <2>1, <2>6
  <2>8. 1 \in DOMAIN published /\ published[1].deployments = FirstSlices
    BY <2>3
  <2>9. Promise!Commit(d)
    BY <1>1, <2>2, <2>6, <2>7, <2>8 DEF Promise!Commit
  <2>10. d \in UNION {published[i].deployments : i \in DOMAIN published}
    BY <2>6, <2>8
  <2> QED  BY <2>9, <2>10 DEF Promise!Next
<1> QED  BY <1>2, <1>3

LEMMA NextSimulates ==
  ASSUME MaxEvents = 1, TypeOK, OneRound, [Next]_vars
  PROVE  [Promise!Next]_(Promise!promiseVars)
<1>1. ASSUME NEW m \in net, DelegatorHandles(m), UNCHANGED nodeVars
      PROVE  [Promise!Next]_(Promise!promiseVars)
  <2>1. CASE AfterVerify(m)
    BY <1>1, <2>1, ElectionSimulates
  <2>2. CASE Layer1Accepts(m)
    BY <1>1, <2>2, PublicationSimulates
  <2>3. CASE BecomeDelegator(m)
    <3>1. item = Fresh("None")
      BY <2>3 DEF BecomeDelegator, OneRound, OneStart
    <3>2. item' \in {item, Fresh("Init"), Fresh("InvitedCandidates")}
      BY <2>3 DEF BecomeDelegator, NewRound
    <3>3. item'.executor = item.executor /\ item'.pinners = item.pinners
      BY <3>1, <3>2 DEF Fresh
    <3>4. published' = published /\ committed' = committed
      BY <1>1, <2>3 DEF BecomeDelegator, nodeVars
    <3> QED  BY <3>3, <3>4, Stutters
  <2>4. CASE ExecutionResult(m) \/ SliceDeployed(m)
    <3>1. item'.executor = item.executor /\ item'.pinners = item.pinners
      BY <2>4 DEF ExecutionResult, SliceDeployed, WithAnswer, TypeOK, StoreItem
    <3>2. published' = published /\ committed' = committed
      BY <1>1, <2>4 DEF ExecutionResult, SliceDeployed, nodeVars
    <3> QED  BY <3>1, <3>2, Stutters
  <2>5. CASE NodeReady(m) \/ Delegates(m) \/ Profile(m) \/ StartAttestation(m)
             \/ CloseConnections(m)
    <3>1. item' = item /\ published' = published /\ committed' = committed
      BY <1>1, <2>5 DEF NodeReady, Delegates, Profile, StartAttestation, CloseConnections,
           delegatorVars, nodeVars
    <3> QED  BY <3>1, Stutters
  <2> QED  BY <1>1, <2>1, <2>2, <2>3, <2>4, <2>5 DEF DelegatorHandles
<1>2. ASSUME NEW m \in net, NodeHandles(m), UNCHANGED delegatorVars
      PROVE  [Promise!Next]_(Promise!promiseVars)
  <2>1. CASE AssetGenerated(m)
    BY <1>2, <2>1, CommitSimulates
  <2>2. CASE ~AssetGenerated(m)
    <3>1. item' = item /\ published' = published /\ committed' = committed
      BY <1>2, <2>2 DEF NodeHandles, CandidateRequest, ApplyAsCandidate, Execute, StartUpload,
           StoreSlice, SliceUploaded, delegatorVars, nodeVars
    <3> QED  BY <3>1, Stutters
  <2> QED  BY <2>1, <2>2
<1>3. CASE Deliver
  BY <1>1, <1>2, <1>3 DEF Deliver
<1>4. CASE Environment \/ UNCHANGED vars
  <2>1. item' = item /\ published' = published /\ committed' = committed
    BY <1>4 DEF Environment, PortalEvent, Lose, Expire, vars, delegatorVars, nodeVars
  <2> QED  BY <2>1, Stutters
<1> QED  BY <1>3, <1>4 DEF Next

\* Key generation implements KeyGenPromise: for any number of nodes and
\* pinners, and whatever is lost, fails or expires, different members are elected
\* once, one result with exactly their slices in their order is published, and only
\* what was published is committed.
THEOREM KeyGenerationKeepsPromise == MaxEvents = 1 /\ ProfilesAgree => (Spec => KeepsPromise)
<1> SUFFICES ASSUME MaxEvents = 1, ProfilesAgree  PROVE Spec => KeepsPromise
  OBVIOUS
<1>1. Init => Promise!Init
  BY DEF Init, DelegatorInit, NodeInit, Fresh, Promise!Init
<1>2. TypeOK /\ OneRound /\ [Next]_vars => [Promise!Next]_(Promise!promiseVars)
  BY NextSimulates
<1> QED  BY <1>1, <1>2, TypeCorrect, EachUsedOnce, PTL DEF Spec, KeepsPromise, Promise!Spec
-----------------------------------------------------------------------------
(* Roles *)

\* A step of a round under way invites nobody: whoever asks for a role after it, or
\* takes one, was invited to it.
LEMMA RolesGoOn ==
  ASSUME RolesAsInvited, UNCHANGED invited, item'.state = "None" => item.state = "None",
         \A x \in net' \ net :
           /\ x.type \notin StartTypes
           /\ x.type = "profile" => x.peer \in InvitedAs(TRUE)
           /\ x.type \in {"candidate", "verify"} => x.peer \in InvitedAs(x.exec),
         \A p \in Peers :
           /\ exe'[p] = "Requested" => exe[p] = "Requested" \/ p \in InvitedAs(TRUE)
           /\ pin'[p] = "Requested" => pin[p] = "Requested" \/ p \in InvitedAs(FALSE)
  PROVE  RolesAsInvited'
<1>1. \A exec : InvitedAs(exec)' = InvitedAs(exec)
  BY DEF InvitedAs
<1>2. InvitedAs(TRUE)' = InvitedAs(TRUE) /\ InvitedAs(FALSE)' = InvitedAs(FALSE)
  BY DEF InvitedAs
<1>3. \A x \in net' :
        /\ x.type = "profile" => x.peer \in InvitedAs(TRUE)
        /\ x.type \in {"candidate", "verify"} => x.peer \in InvitedAs(x.exec)
        /\ x.type \in StartTypes => x \in net
  BY DEF RolesAsInvited
<1>4. \A x \in net' : InvitedAs(x.exec)' = InvitedAs(x.exec)
  BY DEF InvitedAs
<1>5. item'.state = "None" \/ (\E x \in net' : x.type \in StartTypes) => invited' = {}
  BY <1>3 DEF RolesAsInvited
<1> QED  BY <1>2, <1>3, <1>4, <1>5 DEF RolesAsInvited

\* The delegator invites once, and nobody to both roles.
LEMMA StartRoles ==
  ASSUME ProfilesAgree, TypeOK, OneRound, RolesAsInvited, UNCHANGED nodeVars, NEW m \in net,
         NodeReady(m) \/ BecomeDelegator(m) \/ Delegates(m)
  PROVE  RolesAsInvited'
<1>1. m.type \in StartTypes
  BY DEF NodeReady, BecomeDelegator, Delegates, StartTypes
<1>2. net = {m} /\ invited = {}
  BY <1>1 DEF OneRound, OneStart, RolesAsInvited
<1>3. InvitedAs(TRUE) = {} /\ InvitedAs(FALSE) = {}
  BY <1>2 DEF InvitedAs
<1>4. exe' = exe /\ pin' = pin /\ \A p \in Peers : exe[p] # "Requested" /\ pin[p] # "Requested"
  BY <1>3 DEF RolesAsInvited, nodeVars
<1>5. CASE NodeReady(m) \/ BecomeDelegator(m)
  <2>1. invited' = {}
    BY <1>2, <1>5 DEF NodeReady, BecomeDelegator, NewRound, delegatorVars
  <2>2. InvitedAs(TRUE)' = {} /\ InvitedAs(FALSE)' = {}
    BY <2>1 DEF InvitedAs
  <2>3. \A x \in net' : x.type \in {"delegatorKey", "delegates"}
    BY <1>2, <1>5 DEF NodeReady, BecomeDelegator, Handle
  <2> QED  BY <1>4, <2>1, <2>2, <2>3 DEF RolesAsInvited
<1>6. CASE Delegates(m)
  <2>1. item = Fresh("InvitedCandidates") /\ item' = item
    BY <1>1, <1>6 DEF OneRound, OneStart, Delegates
  <2>2. item'.state # "None"
    BY <2>1 DEF Fresh
  <2>3. PICK executors \in SUBSET Peers, pinners \in SUBSET Peers :
          /\ executors \cap pinners = {}
          /\ net' = {[type |-> "profile", ev |-> m.ev, peer |-> p] : p \in executors}
               \cup [type : {"candidate"}, ev : {m.ev}, peer : pinners, exec : {FALSE}]
          /\ invited' = [peer : executors, exec : {TRUE}] \cup [peer : pinners, exec : {FALSE}]
    BY <1>2, <1>6 DEF Delegates, SwarmPeers, Handle
  <2>4. InvitedAs(TRUE)' = executors /\ InvitedAs(FALSE)' = pinners
    <3> DEFINE I == [peer : executors, exec : {TRUE}]
               J == [peer : pinners, exec : {FALSE}]
    <3>1. /\ \A i \in I : i.peer \in executors /\ i.exec = TRUE
          /\ \A j \in J : j.peer \in pinners /\ j.exec = FALSE
      OBVIOUS
    <3>2. /\ \A p \in executors : [peer |-> p, exec |-> TRUE] \in I
          /\ \A p \in pinners : [peer |-> p, exec |-> FALSE] \in J
      OBVIOUS
    <3>3. invited' = I \cup J
      BY <2>3
    <3> HIDE DEF I, J
    <3>4. /\ InvitedAs(TRUE)' = {i.peer : i \in {j \in I \cup J : j.exec = TRUE}}
          /\ InvitedAs(FALSE)' = {i.peer : i \in {j \in I \cup J : j.exec = FALSE}}
      BY <3>3 DEF InvitedAs
    <3>5. ASSUME NEW p  PROVE p \in InvitedAs(TRUE)' <=> p \in executors
      <4>1. p \in InvitedAs(TRUE)' <=> \E i \in I \cup J : i.exec = TRUE /\ i.peer = p
        BY <3>4
      <4>2. ASSUME p \in executors  PROVE \E i \in I \cup J : i.exec = TRUE /\ i.peer = p
        <5> DEFINE i == [peer |-> p, exec |-> TRUE]
        <5>1. i \in I /\ i.exec = TRUE /\ i.peer = p
          BY <3>2, <4>2
        <5> HIDE DEF i
        <5> QED  BY <5>1
      <4>3. ASSUME NEW i \in I \cup J, i.exec = TRUE, i.peer = p  PROVE p \in executors
        BY <3>1, <4>3
      <4> QED  BY <4>1, <4>2, <4>3
    <3>6. ASSUME NEW p  PROVE p \in InvitedAs(FALSE)' <=> p \in pinners
      <4>1. p \in InvitedAs(FALSE)' <=> \E i \in I \cup J : i.exec = FALSE /\ i.peer = p
        BY <3>4
      <4>2. ASSUME p \in pinners  PROVE \E i \in I \cup J : i.exec = FALSE /\ i.peer = p
        <5> DEFINE i == [peer |-> p, exec |-> FALSE]
        <5>1. i \in J /\ i.exec = FALSE /\ i.peer = p
          BY <3>2, <4>2
        <5> HIDE DEF i
        <5> QED  BY <5>1
      <4>3. ASSUME NEW i \in I \cup J, i.exec = FALSE, i.peer = p  PROVE p \in pinners
        BY <3>1, <4>3
      <4> QED  BY <4>1, <4>2, <4>3
    <3> QED  BY <3>5, <3>6
  <2>5. \A x \in net' :
          \/ x.type = "profile" /\ x.peer \in executors
          \/ x.type = "candidate" /\ x.peer \in pinners /\ x.exec = FALSE
    <3> DEFINE A == {[type |-> "profile", ev |-> m.ev, peer |-> p] : p \in executors}
               B == [type : {"candidate"}, ev : {m.ev}, peer : pinners, exec : {FALSE}]
    <3>1. \A x \in A : x.type = "profile" /\ x.peer \in executors
      OBVIOUS
    <3>2. \A x \in B : x.type = "candidate" /\ x.peer \in pinners /\ x.exec = FALSE
      OBVIOUS
    <3>3. net' = A \cup B
      BY <2>3
    <3> HIDE DEF A, B
    <3> QED  BY <3>1, <3>2, <3>3
  <2>6. \A x \in net' :
          /\ x.type \notin StartTypes
          /\ x.type = "profile" => x.peer \in InvitedAs(TRUE)'
          /\ x.type \in {"candidate", "verify"} => x.peer \in InvitedAs(x.exec)'
    BY <2>4, <2>5 DEF StartTypes
  <2> QED  BY <1>4, <2>2, <2>3, <2>4, <2>6 DEF RolesAsInvited
<1> QED  BY <1>5, <1>6

LEMMA DelegatorRoles ==
  ASSUME ProfilesAgree, TypeOK, OneRound, RolesAsInvited, UNCHANGED nodeVars, NEW m \in net,
         DelegatorHandles(m)
  PROVE  RolesAsInvited'
<1>n. exe' = exe /\ pin' = pin
  BY DEF nodeVars
<1>1. CASE NodeReady(m) \/ BecomeDelegator(m) \/ Delegates(m)
  BY <1>1, StartRoles
<1>2. ASSUME UNCHANGED invited, item'.state = "None" => item.state = "None",
             \A x \in net' \ net :
               x.type \notin StartTypes \cup {"profile", "candidate", "verify"}
      PROVE  RolesAsInvited'
  BY <1>n, <1>2, RolesGoOn
<1> DEFINE Later == {"attest", "execute", "slice", "result", "updated", "asset"}
<1>3. Later \cap (StartTypes \cup {"profile", "candidate", "verify"}) = {}
  BY DEF StartTypes
<1>4. CASE Profile(m)
  <2>1. m.peer \in InvitedAs(TRUE)
    BY <1>4 DEF Profile, RolesAsInvited
  <2>2. \A x \in net' \ net : x.type = "candidate" /\ x.peer = m.peer /\ x.exec = TRUE
    BY <1>4 DEF Profile, Handle
  <2>3. \A x \in net' \ net :
          /\ x.type \notin StartTypes
          /\ x.type = "profile" => x.peer \in InvitedAs(TRUE)
          /\ x.type \in {"candidate", "verify"} => x.peer \in InvitedAs(x.exec)
    BY <2>1, <2>2 DEF StartTypes
  <2>4. UNCHANGED invited /\ item' = item
    BY <1>4 DEF Profile, delegatorVars
  <2> QED  BY <1>n, <2>3, <2>4, RolesGoOn
<1>5. CASE StartAttestation(m)
  <2>1. m \in Applications
    BY <1>5, MessageFields DEF StartAttestation, TypeOK
  <2>2. [m EXCEPT !.type = "attest"].type = "attest"
    BY <2>1 DEF Applications
  <2>3. (\A x \in net' \ net : x.type \in Later) /\ UNCHANGED <<invited, item>>
    BY <1>5, <2>2 DEF StartAttestation, Handle, delegatorVars
  <2> QED  BY <1>2, <1>3, <2>3
<1>6. CASE AfterVerify(m)
  <2> DEFINE it == Insert(item, m.exec, [peer |-> m.peer, rsa |-> m.rsa])
  <2>1. UNCHANGED invited
    BY <1>6 DEF AfterVerify
  <2>2. CASE Handle(m, {}) /\ UNCHANGED item
    BY <1>2, <2>1, <2>2 DEF Handle
  <2>3. CASE item.state = "InvitedCandidates" /\ TrySendToExecutor(m, it)
    <3>1. m \in Applications
      BY <1>6, MessageFields DEF AfterVerify, TypeOK
    <3>2. it \in StoreItem /\ it.state = "InvitedCandidates"
      <4>1. /\ item \in StoreItem /\ m.exec \in BOOLEAN
            /\ [peer |-> m.peer, rsa |-> m.rsa] \in Candidate
        BY <3>1 DEF TypeOK, Applications, Candidate
      <4>2. item.candExecutors \in Seq(Candidate) /\ item.candPinners \in Seq(Candidate)
        BY <4>1 DEF StoreItem
      <4>3. it \in StoreItem
        BY <4>1, <4>2, InsertType
      <4>4. it.state = item.state
        BY <4>1 DEF Insert, StoreItem
      <4> QED  BY <2>3, <4>3, <4>4
    <3> HIDE DEF it
    <3>3. \A x \in net' \ net : x.type \in Later
      BY <2>3 DEF TrySendToExecutor, Handle
    <3>4. item'.state # "None"
      <4>1. CASE item' = it
        BY <3>2, <4>1
      <4>2. CASE item' = [Elect(it) EXCEPT !.state = "SentToExecutor"]
        BY <3>2, <4>2 DEF Elect, StoreItem
      <4> QED  BY <2>3, <4>1, <4>2 DEF TrySendToExecutor
    <3> QED  BY <1>2, <1>3, <2>1, <3>3, <3>4
  <2> QED  BY <1>6, <2>2, <2>3 DEF AfterVerify
<1>7. CASE ExecutionResult(m)
  <2>1. \A x \in net' \ net : x.type \in Later
    BY <1>7 DEF ExecutionResult, SlicesTo, SliceFor, Handle
  <2>2. item'.state # "None" /\ UNCHANGED invited
    BY <1>7 DEF ExecutionResult, TypeOK, StoreItem
  <2> QED  BY <1>2, <1>3, <2>1, <2>2
<1>8. CASE SliceDeployed(m)
  <2>1. \A x \in net' \ net : x.type \in Later
    BY <1>8 DEF SliceDeployed, Handle
  <2>2. item'.state \in {item.state, "ReceivedAllPinnerResponse"} /\ UNCHANGED invited
    BY <1>8 DEF SliceDeployed, WithAnswer, TypeOK, StoreItem
  <2> QED  BY <1>2, <1>3, <2>1, <2>2
<1>9. CASE Layer1Accepts(m)
  <2>1. \A x \in net' \ net : x.type \in Later
    BY <1>9 DEF Layer1Accepts, Handle
  <2> QED  BY <1>2, <1>3, <1>9, <2>1 DEF Layer1Accepts
<1>10. CASE CloseConnections(m)
  BY <1>2, <1>10 DEF CloseConnections, Handle
<1> QED  BY <1>1, <1>4, <1>5, <1>6, <1>7, <1>8, <1>9, <1>10 DEF DelegatorHandles

LEMMA NodeRoles ==
  ASSUME TypeOK, RolesAsInvited, UNCHANGED delegatorVars, NEW m \in net, NodeHandles(m)
  PROVE  RolesAsInvited'
<1>d. UNCHANGED <<invited, item>>
  BY DEF delegatorVars
<1>2. ASSUME \A x \in net' \ net : x.type \notin StartTypes \cup {"profile", "candidate", "verify"},
             \A p \in Peers : /\ exe'[p] \in {exe[p], "Responded", "Executed"}
                              /\ pin'[p] \in {pin[p], "Responded", "Deployed"}
      PROVE  RolesAsInvited'
  BY <1>d, <1>2, RolesGoOn
<1> DEFINE Later == {"apply", "executed", "upload", "uploaded", "deployed"}
<1>3. Later \cap (StartTypes \cup {"profile", "candidate", "verify"}) = {}
  BY DEF StartTypes
<1>4. CASE CandidateRequest(m)
  <2>1. m \in Invitations /\ m.type = "candidate"
    BY <1>4, MessageFields DEF CandidateRequest, TypeOK
  <2>2. Verify(m).type = "verify" /\ Verify(m).peer = m.peer /\ Verify(m).exec = m.exec
    BY <2>1 DEF Verify, Invitations
  <2>3. m.peer \in InvitedAs(m.exec)
    BY <2>1 DEF RolesAsInvited
  <2>4. net' \ net \subseteq {Verify(m)} /\ exe' = exe /\ pin' = pin
    BY <1>4 DEF CandidateRequest, Handle, nodeVars
  <2>5. Verify(m).type \notin StartTypes
    BY <2>2 DEF StartTypes
  <2> QED  BY <1>d, <2>2, <2>3, <2>4, <2>5, RolesGoOn
<1>5. CASE ApplyAsCandidate(m)
  <2>1. m \in Invitations /\ m.type = "verify"
    BY <1>5, MessageFields DEF ApplyAsCandidate, TypeOK
  <2>2. m.peer \in Peers /\ m.exec \in BOOLEAN /\ m.peer \in InvitedAs(m.exec)
    BY <2>1 DEF RolesAsInvited, Invitations
  <2>3. \A x \in net' \ net : x.type \in Later
    BY <1>5 DEF ApplyAsCandidate, Application, Handle
  <2>4. PICK state \in {"Requested", "Init"} : SetRole(m.exec, m.peer, state)
    BY <1>5 DEF ApplyAsCandidate
  <2>5. \A p \in Peers :
          /\ exe'[p] = "Requested" => exe[p] = "Requested" \/ p \in InvitedAs(TRUE)
          /\ pin'[p] = "Requested" => pin[p] = "Requested" \/ p \in InvitedAs(FALSE)
    BY <2>2, <2>4 DEF SetRole, TypeOK
  <2> QED  BY <1>d, <1>3, <2>3, <2>5, RolesGoOn
<1>6. CASE Execute(m)
  <2>1. \A x \in net' \ net : x.type \in Later
    BY <1>6 DEF Execute, Handle
  <2>2. \A p \in Peers : exe'[p] \in {exe[p], "Responded", "Executed"} /\ pin' = pin
    BY <1>6 DEF Execute, TypeOK
  <2> QED  BY <1>2, <1>3, <2>1, <2>2
<1>7. CASE StartUpload(m)
  <2>1. m \in Slices
    BY <1>7, MessageFields DEF StartUpload, TypeOK
  <2>2. [m EXCEPT !.type = "upload"].type = "upload"
    BY <2>1 DEF Slices
  <2>3. \A x \in net' \ net : x.type \in Later
    BY <1>7, <2>2 DEF StartUpload, Handle
  <2>4. \A p \in Peers : pin'[p] \in {pin[p], "Responded"} /\ exe' = exe
    BY <1>7 DEF StartUpload, TypeOK
  <2> QED  BY <1>2, <1>3, <2>3, <2>4
<1>8. CASE StoreSlice(m)
  <2>1. \A x \in net' \ net : x.type \in Later
    BY <1>8 DEF StoreSlice, Handle
  <2> QED  BY <1>2, <1>3, <1>8, <2>1 DEF StoreSlice
<1>9. CASE SliceUploaded(m)
  <2>1. m \in Deployments
    BY <1>9, MessageFields DEF SliceUploaded, TypeOK
  <2>2. [m EXCEPT !.type = "deployed"].type = "deployed"
    BY <2>1 DEF Deployments
  <2>3. \A x \in net' \ net : x.type \in Later
    BY <1>9, <2>2 DEF SliceUploaded, Handle
  <2>4. \A p \in Peers : pin'[p] \in {pin[p], "Deployed"} /\ exe' = exe
    BY <1>9 DEF SliceUploaded, TypeOK
  <2> QED  BY <1>2, <1>3, <2>3, <2>4
<1>10. CASE AssetGenerated(m)
  BY <1>2, <1>10 DEF AssetGenerated, Handle
<1> QED  BY <1>4, <1>5, <1>6, <1>7, <1>8, <1>9, <1>10 DEF NodeHandles

LEMMA NextRoles ==
  ASSUME MaxEvents = 1, ProfilesAgree, TypeOK, OneRound, RolesAsInvited, [Next]_vars
  PROVE  RolesAsInvited'
<1>1. CASE Deliver
  <2> PICK m \in net : \/ DelegatorHandles(m) /\ UNCHANGED nodeVars
                       \/ NodeHandles(m) /\ UNCHANGED delegatorVars
    BY <1>1 DEF Deliver
  <2> QED  BY DelegatorRoles, NodeRoles
<1>2. CASE PortalEvent /\ UNCHANGED nodeVars
  <2>1. events = 0
    BY <1>2 DEF PortalEvent, TypeOK
  <2>2. net = {} /\ item.state = "None"
    BY <2>1 DEF OneRound, OneStart
  <2>3. invited = {} /\ invited' = {} /\ exe' = exe /\ pin' = pin
    BY <1>2, <2>2 DEF RolesAsInvited, PortalEvent, nodeVars
  <2>4. \A exec \in BOOLEAN : InvitedAs(exec) = {} /\ InvitedAs(exec)' = {}
    BY <2>3 DEF InvitedAs
  <2>5. \A x \in net' : x.type = "nodeReady"
    BY <1>2, <2>2 DEF PortalEvent
  <2> QED  BY <2>3, <2>4, <2>5 DEF RolesAsInvited
<1>3. CASE net' \subseteq net /\ UNCHANGED <<item, invited, exe, pin>>
  BY <1>3, RolesGoOn
<1>4. ASSUME NEW m \in net, Lose(m), UNCHANGED <<delegatorVars, nodeVars>>
      PROVE  RolesAsInvited'
  BY <1>3, <1>4 DEF Lose, Handle, delegatorVars, nodeVars
<1>5. ASSUME NEW p \in Peers, Expire(p), UNCHANGED delegatorVars
      PROVE  RolesAsInvited'
  BY <1>3, <1>5 DEF Expire, delegatorVars
<1>6. CASE UNCHANGED vars
  BY <1>3, <1>6 DEF vars, delegatorVars, nodeVars
<1> QED  BY <1>1, <1>2, <1>4, <1>5, <1>6 DEF Next, Environment

\* With one delivery and profiles that agree no node takes two roles, whatever is
\* lost or fails: not thanks to the check of the handlers, which both requests may
\* pass, but because the delegator does not invite delegates among the swarm peers.
THEOREM NobodyTakesTwoRoles == MaxEvents = 1 /\ ProfilesAgree => (Spec => []OneRole)
<1> SUFFICES ASSUME MaxEvents = 1, ProfilesAgree  PROVE Spec => []OneRole
  OBVIOUS
<1>1. Init => RolesAsInvited
  BY DEF Init, DelegatorInit, NodeInit, RolesAsInvited, InvitedAs
<1>2. TypeOK /\ OneRound /\ RolesAsInvited /\ [Next]_vars => RolesAsInvited'
  BY NextRoles
<1>3. RolesAsInvited => OneRole
  BY DEF RolesAsInvited, OneRole
<1> QED  BY <1>1, <1>2, <1>3, TypeCorrect, EachUsedOnce, PTL DEF Spec
=============================================================================
