-------------------------- MODULE KeyGenDelegator --------------------------
(***************************************************************************)
(* The delegator of a key generation task: the node that can decrypt the   *)
(* nonce of the layer1 event.  It invites candidates, has them attested,   *)
(* elects an executor and N initial pinners, distributes the key slices    *)
(* the executor made, and publishes the deployments.                       *)
(*                                                                         *)
(* Everything it remembers is one stored item per task; every handler      *)
(* loads it and saves it back, so an action reads and writes `item`.  The  *)
(* item exists from BecomeDelegator on and is never removed.               *)
(***************************************************************************)
EXTENDS KeyGenNet, Election

VARIABLES
  events,    \* deliveries of AccountGenerationRequested so far
  item,      \* DelegatorKeyGenStoreItem
  invited,   \* history: the invitations of the last round
  attested,  \* history: every candidate the pinner actor verified
  published, \* the results layer1 received, in order
  closed     \* peers whose connection was closed

delegatorVars == <<events, item, invited, attested, published, closed>>

NoKey == 0

\* DelegatorKeyGenStoreItem::try_from; state "None": no such item.
Fresh(state) ==
  [state |-> state, executor |-> NoPeer, pinners |-> <<>>, key |-> NoKey,
   asked |-> {}, answers |-> {}, candExecutors |-> <<>>, candPinners |-> <<>>]

\* initial_pinner_responses maps the peers in `asked` to None or, where
\* `answers` has one, to Some(deployment).
Answered(it) == {d.peer : d \in it.answers}

WithoutAnswers(it, peers) == {d \in it.answers : d.peer \notin peers}

\* Mutant: one answer is enough.
AnyAnswered(it) == Answered(it) # {}

\* is_all_initial_pinners_ready.
AllAnswered(it) == it.asked \subseteq Answered(it)

DelegatorInit ==
  /\ events = 0
  /\ item = Fresh("None")
  /\ invited = {} /\ attested = {}
  /\ published = <<>>
  /\ closed = {}
-----------------------------------------------------------------------------
(* Invitation *)

\* layer1 delivers the event; the handler asks whether the node is ready.
PortalEvent ==
  /\ events < MaxEvents
  /\ events' = events + 1
  /\ net' = net \cup {[type |-> "nodeReady", ev |-> events + 1]}
  /\ UNCHANGED <<item, invited, attested, published, closed, faults>>

\* A node that is not ready ignores the event; else ask for the delegator key.
NodeReady(m) ==
  /\ m.type = "nodeReady"
  /\ \E ready \in BOOLEAN :
       Handle(m, IF ready THEN {[type |-> "delegatorKey", ev |-> m.ev]} ELSE {})
  /\ UNCHANGED delegatorVars /\ NoFault

\* process_key_generation_event: a fresh item replaces any earlier one.
NewRound(state) == item' = Fresh(state) /\ invited' = {}

\* try_to_be_delegator.  Without the key that decrypts the nonce the node is
\* not the delegator, and stops.  Else a new round begins and the delegates are
\* asked for; when that call fails the item stays in Init.
BecomeDelegator(m) ==
  /\ m.type = "delegatorKey"
  /\ \/ /\ Handle(m, {}) /\ NoFault
        /\ UNCHANGED <<item, invited>>
     \/ /\ Handle(m, {[type |-> "delegates", ev |-> m.ev]}) /\ NoFault
        /\ NewRound("InvitedCandidates")
     \/ /\ Handle(m, {}) /\ Fault("send")
        /\ NewRound("Init")
  /\ UNCHANGED <<events, attested, published, closed>>

\* Mutant: the delegates are not filtered out of the swarm peers.
UnfilteredPeers(delegates) == {s \in SUBSET Peers : Cardinality(s) <= 2 * N}

\* invite_candidate_initial_pinners: at most 2n swarm peers, no delegate among
\* them, in so far as both lists name a node by the same peer id.
SwarmPeers(delegates) ==
  {s \in SUBSET Peers : /\ Cardinality(s) <= 2 * N
                        /\ ProfilesAgree => delegates \cap s = {}}

\* Look up the profiles of at most n delegates, which will be invited to
\* execute, and invite other peers to pin.  The loops stop at the first
\* failure, which leaves a smaller choice of either set.
Delegates(m) ==
  /\ m.type = "delegates"
  /\ \E executors \in SUBSET Peers :
       /\ Cardinality(executors) <= N
       /\ \E pinners \in SwarmPeers(executors) :
            /\ Handle(m, {[type |-> "profile", ev |-> m.ev, peer |-> p] : p \in executors}
                   \cup [type : {"candidate"}, ev : {m.ev}, peer : pinners, exec : {FALSE}])
            /\ invited' = [peer : executors, exec : {TRUE}]
                          \cup [peer : pinners, exec : {FALSE}]
  /\ NoFault
  /\ UNCHANGED <<events, item, attested, published, closed>>

\* send_key_candidate_request to the delegate whose profile arrived.
Profile(m) ==
  /\ m.type = "profile"
  /\ Handle(m, {[type |-> "candidate", ev |-> m.ev, peer |-> m.peer, exec |-> TRUE]})
  /\ UNCHANGED delegatorVars /\ NoFault
-----------------------------------------------------------------------------
(* Attestation and election *)

Insert(it, exec, c) ==
  IF exec THEN [it EXCEPT !.candExecutors = Append(@, c)]
          ELSE [it EXCEPT !.candPinners = Append(@, c)]

\* elect(): TaskCandidates::elect on the candidates of the item.
Elect(it) ==
  LET left == Popped(it.candExecutors)
      p == PinnersTaken(N, left, it.candPinners)
      e == ExecutorsTaken(N, left, it.candPinners)
  IN  [it EXCEPT !.executor = ElectedExecutor(it.candExecutors).peer,
                 !.pinners = ElectedPinners(N, left, it.candPinners),
                 !.candExecutors = SubSeq(left, 1, Len(left) - e),
                 !.candPinners = SubSeq(@, 1, Len(@) - p)]

\* try_send_to_executor on an item that was just saved.  While it is not
\* ready, or does not elect exactly N pinners, the saved item stays; a failed
\* send leaves it too, candidates and all.
TrySendToExecutor(m, it) ==
  LET ready == Ready(N, it.candExecutors, it.candPinners)
               /\ Constructible(N, it.candExecutors, it.candPinners)
      elected == Elect(it)
  IN  \/ /\ ~ready
         /\ item' = it
         /\ Handle(m, {}) /\ NoFault
      \/ /\ ready
         /\ item' = [elected EXCEPT !.state = "SentToExecutor"]
         /\ Handle(m, {[type |-> "execute", peer |-> elected.executor,
                        pinners |-> elected.pinners]}) /\ NoFault
      \/ /\ ready
         /\ item' = it
         /\ Handle(m, {}) /\ Fault("send")

\* Mutant: an applicant becomes a candidate before it was attested.
InsertOnApply(m) ==
  /\ m.type = "apply"
  /\ IF item.state = "InvitedCandidates"
       THEN TrySendToExecutor(m, Insert(item, m.exec, [peer |-> m.peer, rsa |-> m.rsa]))
       ELSE Handle(m, {}) /\ UNCHANGED item /\ NoFault
  /\ UNCHANGED <<events, invited, attested, published, closed>>

\* remote_attestation_executor, remote_attestation_initial_pinner: the pinner
\* actor is asked to attest the applicant; the task, the RSA key and the role
\* travel along as properties.  The item is not looked at.
StartAttestation(m) ==
  /\ m.type = "apply"
  /\ Handle(m, {[m EXCEPT !.type = "attest"]})
  /\ UNCHANGED delegatorVars /\ NoFault

\* Mutant: an executor candidate is saved and no election is tried.
AfterVerifyWithoutElection(m) ==
  LET it == Insert(item, m.exec, [peer |-> m.peer, rsa |-> m.rsa])
  IN  /\ m.type = "attest"
      /\ attested' = attested \cup {[peer |-> m.peer, rsa |-> m.rsa]}
      /\ IF item.state # "InvitedCandidates"
           THEN Handle(m, {}) /\ UNCHANGED item /\ NoFault
           ELSE IF m.exec THEN item' = it /\ Handle(m, {}) /\ NoFault
                          ELSE TrySendToExecutor(m, it)
      /\ UNCHANGED <<events, invited, published, closed>>

\* on_executor_ra_success, on_initial_pinner_ra_success.
AfterVerify(m) ==
  LET c == [peer |-> m.peer, rsa |-> m.rsa]
  IN  /\ m.type = "attest"
      /\ attested' = attested \cup {c}
      /\ \/ /\ item.state # "InvitedCandidates"
            /\ Handle(m, {}) /\ UNCHANGED item /\ NoFault
         \/ /\ item.state = "InvitedCandidates"
            /\ TrySendToExecutor(m, Insert(item, m.exec, c))
      /\ UNCHANGED <<events, invited, published, closed>>
-----------------------------------------------------------------------------
(* Distribution and publication *)

SliceFor(m, i) ==
  [type |-> "slice", peer |-> m.pinners[i].peer, key |-> m.key,
   rsa |-> m.pinners[i].rsa, index |-> i]

SlicesTo(m, count) == {SliceFor(m, i) : i \in 1 .. count}

\* Mutant: what was sent before a failure is remembered.
ExecutionResultSavedEachTime(m) ==
  /\ m.type = "executed"
  /\ \E sent \in 0 .. Len(m.pinners) :
       LET peers == {m.pinners[i].peer : i \in 1 .. sent}
       IN  /\ item' = [item EXCEPT !.state = "SentToInitialPinner", !.key = m.key,
                                   !.asked = @ \cup peers,
                                   !.answers = WithoutAnswers(item, peers)]
           /\ Handle(m, SlicesTo(m, sent))
           /\ IF sent = Len(m.pinners) THEN NoFault ELSE Fault("send")
  /\ UNCHANGED <<events, invited, attested, published, closed>>

\* process_task_execution_response.  Neither the state of the item nor the
\* sender is looked at.  Each pinner gets its slice and a place among the
\* responses; when a send fails, only the first save happened.
ExecutionResult(m) ==
  LET received == [item EXCEPT !.state = "ReceivedExecutionResult", !.key = m.key]
      peers == {m.pinners[i].peer : i \in DOMAIN m.pinners}
  IN  /\ m.type = "executed"
      /\ \/ /\ item' = [received EXCEPT !.state = "SentToInitialPinner",
                                        !.asked = @ \cup peers,
                                        !.answers = WithoutAnswers(item, peers)]
            /\ Handle(m, SlicesTo(m, Len(m.pinners))) /\ NoFault
         \/ \E sent \in 0 .. Len(m.pinners) - 1 :
              /\ item' = received
              /\ Handle(m, SlicesTo(m, sent)) /\ Fault("send")
      /\ UNCHANGED <<events, invited, attested, published, closed>>

\* Mutant: an answer takes the place of the earlier ones.
OnlyAnswer(it, d) == [it EXCEPT !.answers = {d}]

WithAnswer(it, d) == [it EXCEPT !.answers = WithoutAnswers(it, {d.peer}) \cup {d}]

\* process_task_pinner_key_slice_response.  A peer without a place among the
\* responses is rejected.  The last answer publishes; if that call fails the
\* item says that all answers were received.
SliceDeployed(m) ==
  LET it == WithAnswer(item, [peer |-> m.peer, key |-> m.key, index |-> m.index])
      complete == [it EXCEPT !.state = "ReceivedAllPinnerResponse"]
      result == [type |-> "result", key |-> it.key, deployments |-> it.answers]
  IN  /\ m.type = "deployed"
      /\ \/ /\ m.peer \notin item.asked
            /\ Handle(m, {}) /\ UNCHANGED item /\ NoFault
         \/ /\ m.peer \in item.asked /\ ~AllAnswered(it)
            /\ item' = it
            /\ Handle(m, {}) /\ NoFault
         \/ /\ m.peer \in item.asked /\ AllAnswered(it)
            /\ item' = complete
            /\ Handle(m, {result}) /\ NoFault
         \/ /\ m.peer \in item.asked /\ AllAnswered(it)
            /\ item' = complete
            /\ Handle(m, {}) /\ Fault("send")
      /\ UNCHANGED <<events, invited, attested, published, closed>>

\* layer1 takes the result, answers, and announces the asset to every node.
Layer1Accepts(m) ==
  /\ m.type = "result"
  /\ published' = Append(published, [key |-> m.key, deployments |-> m.deployments])
  /\ Handle(m, {[type |-> "updated"]}
            \cup [type : {"asset"}, peer : Peers, key : {m.key}])
  /\ UNCHANGED <<events, item, invited, attested, closed>> /\ NoFault

FirstPinners(n) == {item.pinners[i].peer : i \in 1 .. n}

\* close_p2p_connections, for the members the item names by now, pinners first;
\* a call that fails leaves the later ones open.
CloseConnections(m) ==
  /\ m.type = "updated"
  /\ \/ /\ closed' = closed \cup FirstPinners(Len(item.pinners))
                           \cup ({item.executor} \ {NoPeer})
        /\ NoFault
     \/ \E n \in 0 .. Len(item.pinners) :
          closed' = closed \cup FirstPinners(n) /\ Fault("send")
  /\ Handle(m, {})
  /\ UNCHANGED <<events, item, invited, attested, published>>
=============================================================================
