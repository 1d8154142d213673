--------------------------- MODULE SignDelegator ---------------------------
(***************************************************************************)
(* The delegator of a signing task: the node that can decrypt the nonce of *)
(* the layer1 event.  It invites delegates, one of which becomes the       *)
(* executor, has the holders of the key slices found, asks those that were *)
(* attested for their slice, encrypted for the executor, and sends the     *)
(* executor what it has as soon as K slices are there and after every      *)
(* further one.                                                            *)
(*                                                                         *)
(* Everything it remembers is one stored item per task; every handler      *)
(* loads it and saves it back, so an action reads and writes `item`.       *)
(***************************************************************************)
EXTENDS SignNet

VARIABLES
  events,    \* deliveries of SignTransactionRequested so far
  item,      \* DelegatorSignStoreItem
  invited,   \* history: the delegates looked up in the last round
  attested,  \* history: every executor the pinner actor verified
  found,     \* history: the attested holders in the last round
  asked      \* history: the holders asked for their slice in the last round

delegatorVars == <<events, item, invited, attested, found, asked>>

NoExecutor == [peer |-> NoPeer, rsa |-> 0]

\* try_from and init_deployment_resources: no slice and no candidate for any
\* deployment.  `ids` are the keys of key_slices and, until all candidates are
\* popped, of deployment_candidates; `waiting` are those candidates.
NewItem(state, ids) ==
  [state |-> state, executor |-> NoExecutor, ids |-> ids, slices |-> {}, waiting |-> {}]

\* has_found_key_slice.
HasSlice(it, id) == \E s \in it.slices : s.id = id

\* ready_send_to_executor.
EnoughSlices(it) == Cardinality({s.id : s \in it.slices}) >= K

DelegatorInit ==
  /\ events = 0
  /\ item = NewItem("None", {})
  /\ invited = {} /\ attested = {} /\ found = {} /\ asked = {}
-----------------------------------------------------------------------------
(* Invitation *)

\* layer1 delivers the event; the handler asks whether the node is ready.
PortalEvent ==
  /\ events < MaxEvents
  /\ events' = events + 1
  /\ net' = net \cup {[type |-> "nodeReady", ev |-> events + 1]}
  /\ UNCHANGED <<item, invited, attested, found, asked>> /\ NoFault

\* A node that is not ready ignores the event; else ask for the delegator key.
NodeReady(m) ==
  /\ m.type = "nodeReady"
  /\ \E next \in {{}, {[type |-> "delegatorKey", ev |-> m.ev]}} : Handle(m, next)
  /\ UNCHANGED delegatorVars /\ NoFault

\* try_to_be_delegator: without the key that decrypts the nonce the node is
\* not the delegator; else ask layer1 for the deployments of the account.
BecomeDelegator(m) ==
  /\ m.type = "delegatorKey"
  /\ \E next \in {{}, {[type |-> "deploymentIds", ev |-> m.ev]}} : Handle(m, next)
  /\ UNCHANGED delegatorVars /\ NoFault

\* The closure of get_deployment_ids: a fresh item replaces any earlier one,
\* and the delegates are asked for.
BeginRound(m) ==
  /\ m.type = "deploymentIds"
  /\ \E ids \in SUBSET DeploymentIds :
       /\ item' = NewItem("Initialized", ids)
       /\ \/ Handle(m, {[type |-> "delegates", ev |-> m.ev, ids |-> ids]}) /\ NoFault
          \/ Handle(m, {}) /\ Fault("send")
  /\ invited' = {} /\ found' = {} /\ asked' = {}
  /\ UNCHANGED <<events, attested>>

Lookups(m, peers) == {[type |-> "profile", ev |-> m.ev, peer |-> p] : p \in peers}

FindPinners(m, ids) == {[type |-> "find", ev |-> m.ev, id |-> id] : id \in ids}

\* Look up the profiles of at most n delegates, have the pinners of each
\* deployment found, and only then load the item for its new state.  The first
\* call that fails ends the handler, in the one loop or in the other.
InviteAndFind(m) ==
  /\ m.type = "delegates"
  /\ \E peers \in SUBSET Delegates :
       /\ Cardinality(peers) <= N
       /\ invited' = peers
       /\ \/ /\ Handle(m, Lookups(m, peers) \cup FindPinners(m, m.ids)) /\ NoFault
             /\ item' = [item EXCEPT !.state = "FindingDeployments"]
          \/ \E ids \in SUBSET m.ids :
               /\ ids # m.ids \/ ids = {}
               /\ Handle(m, Lookups(m, peers) \cup FindPinners(m, ids)) /\ Fault("send")
               /\ UNCHANGED item
  /\ UNCHANGED <<events, attested, found, asked>>

\* The profile of a delegate arrived: invite it.
InviteExecutor(m) ==
  /\ m.type = "profile"
  /\ Handle(m, {[m EXCEPT !.type = "candidate"]})
  /\ UNCHANGED delegatorVars /\ NoFault

\* The pinner actor finds holders of the deployment, as many as possible, and
\* attests each; the answers come one by one.
PinnersAttested(m) ==
  /\ m.type = "find"
  /\ \E peers \in SUBSET Pinners :
       Handle(m, {[type |-> "found", ev |-> m.ev, id |-> m.id, peer |-> p] : p \in peers})
  /\ UNCHANGED delegatorVars /\ NoFault
-----------------------------------------------------------------------------
(* The executor and the slices *)

\* try_send_to_executor on an item that was just saved.  There may be too few
\* slices, or no executor to send them to; a failed send leaves the saved item.
TrySendToExecutor(m, it) ==
  LET ready == EnoughSlices(it) /\ it.executor # NoExecutor
      request == [type |-> "sign", peer |-> it.executor.peer, slices |-> it.slices]
  IN  \/ ~ready /\ item' = it /\ Handle(m, {}) /\ NoFault
      \/ /\ ready
         /\ item' = [it EXCEPT !.state = "SentToExecutor"]
         /\ Handle(m, {request}) /\ NoFault
      \/ ready /\ item' = it /\ Handle(m, {}) /\ Fault("send")

\* Mutant: the applicant is taken before it was attested.
TakeApplicant(m) ==
  /\ m.type = "apply"
  /\ IF item.executor = NoExecutor
       THEN item' = [item EXCEPT !.executor = [peer |-> m.peer, rsa |-> m.rsa]]
       ELSE UNCHANGED item
  /\ Handle(m, {}) /\ NoFault
  /\ UNCHANGED <<events, invited, attested, found, asked>>

\* process_executor_sign_with_key_slices_request: an applicant is rejected
\* when there is an executor, else the pinner actor is asked to attest it.
StartAttestation(m) ==
  /\ m.type = "apply"
  /\ Handle(m, IF item.executor = NoExecutor THEN {[m EXCEPT !.type = "attest"]} ELSE {})
  /\ UNCHANGED delegatorVars /\ NoFault

\* send_get_pinner_key_slice_request for each of these holders.
GetSlices(it, holders) ==
  {[type |-> "get", id |-> h.id, peer |-> h.peer, key |-> it.executor] : h \in holders}

\* The sends stop at the first failure.  The deployments are visited in any
\* order, so all but one of them have either all of their holders asked or none.
Interrupted(holders) ==
  {h \in SUBSET holders :
     /\ h # holders
     /\ \A a, b \in holders \ h :
          a.id # b.id => ~\E c, d \in h : c.id = a.id /\ d.id = b.id}

\* Mutants: a later executor takes the place of the first; the holders that
\* waited for an executor are popped and never asked.
LastExecutorTaken(m) ==
  LET it == [item EXCEPT !.executor = [peer |-> m.peer, rsa |-> m.rsa], !.waiting = {}]
  IN  /\ m.type = "attest"
      /\ attested' = attested \cup {it.executor}
      /\ item' = it
      /\ asked' = asked \cup item.waiting
      /\ Handle(m, GetSlices(it, item.waiting)) /\ NoFault
      /\ UNCHANGED <<events, invited, found>>

PoppedNotAsked(m) ==
  LET it == [item EXCEPT !.executor = [peer |-> m.peer, rsa |-> m.rsa], !.waiting = {}]
  IN  /\ m.type = "attest"
      /\ attested' = attested \cup {it.executor}
      /\ item' = IF item.executor = NoExecutor THEN it ELSE item
      /\ Handle(m, {}) /\ NoFault
      /\ UNCHANGED <<events, invited, found, asked>>

\* on_executor_ra_success: the first executor to be attested is taken and
\* saved with the candidates popped; then either the slices are sent, where
\* there are enough, or each popped candidate is asked.
ExecutorAttested(m) ==
  LET executor == [peer |-> m.peer, rsa |-> m.rsa]
      it == [item EXCEPT !.executor = executor, !.waiting = {}]
      holders == item.waiting
  IN  /\ m.type = "attest"
      /\ attested' = attested \cup {executor}
      /\ \/ /\ item.executor # NoExecutor
            /\ Handle(m, {}) /\ UNCHANGED <<item, asked>> /\ NoFault
         \/ /\ item.executor = NoExecutor /\ EnoughSlices(it)
            /\ TrySendToExecutor(m, it) /\ UNCHANGED asked
         \/ /\ item.executor = NoExecutor /\ ~EnoughSlices(it)
            /\ item' = it
            /\ \/ Handle(m, GetSlices(it, holders)) /\ asked' = asked \cup holders /\ NoFault
               \/ \E sent \in Interrupted(holders) :
                    /\ Handle(m, GetSlices(it, sent)) /\ Fault("send")
                    /\ asked' = asked \cup sent
      /\ UNCHANGED <<events, invited, found>>

\* Mutant: a holder that is attested while there is no executor is ignored.
NeverDeferred(m) ==
  LET holder == [id |-> m.id, peer |-> m.peer]
  IN  /\ m.type = "found"
      /\ found' = found \cup {holder}
      /\ IF item.executor = NoExecutor
           THEN Handle(m, {}) /\ UNCHANGED asked
           ELSE Handle(m, GetSlices(item, {holder})) /\ asked' = asked \cup {holder}
      /\ UNCHANGED <<events, item, invited, attested>> /\ NoFault

\* Mutant: such a holder is put off by putting the answer back.
FoundPutBack(m) ==
  LET holder == [id |-> m.id, peer |-> m.peer]
  IN  /\ m.type = "found"
      /\ found' = found \cup {holder}
      /\ IF item.executor = NoExecutor
           THEN Handle(m, {m}) /\ UNCHANGED asked
           ELSE Handle(m, GetSlices(item, {holder})) /\ asked' = asked \cup {holder}
      /\ UNCHANGED <<events, item, invited, attested>> /\ NoFault

\* on_pinner_ra_success: ignored when the deployment has its slice; deferred
\* while there is no executor, if the deployment is one of the task's.
PinnerAttested(m) ==
  LET holder == [id |-> m.id, peer |-> m.peer]
  IN  /\ m.type = "found"
      /\ found' = found \cup {holder}
      /\ \/ /\ HasSlice(item, m.id)
            /\ Handle(m, {}) /\ UNCHANGED <<item, asked>>
         \/ /\ ~HasSlice(item, m.id) /\ item.executor = NoExecutor
            /\ item' = IF m.id \in item.ids
                         THEN [item EXCEPT !.waiting = @ \cup {holder}] ELSE item
            /\ Handle(m, {}) /\ UNCHANGED asked
         \/ /\ ~HasSlice(item, m.id) /\ item.executor # NoExecutor
            /\ Handle(m, GetSlices(item, {holder}))
            /\ asked' = asked \cup {holder} /\ UNCHANGED item
      /\ UNCHANGED <<events, invited, attested>> /\ NoFault

\* Mutant: a second slice of the same deployment is taken too.
SliceTakenTwice(m) ==
  /\ m.type = "slice" /\ m.id \in item.ids
  /\ TrySendToExecutor(m, [item EXCEPT !.slices =
       {s \in @ : s.id # m.id} \cup {[id |-> m.id, peer |-> m.peer, key |-> m.key]}])
  /\ UNCHANGED <<events, invited, attested, found, asked>>

\* process_pinner_key_slice_response: rejected when the deployment has its
\* slice, an error when it is none of the task's.  The slice is saved before the
\* connection to the holder is closed; if that fails nothing more happens.
SliceReturned(m) ==
  LET it == [item EXCEPT !.slices = @ \cup {[id |-> m.id, peer |-> m.peer, key |-> m.key]}]
      wanted == m.id \in item.ids /\ ~HasSlice(item, m.id)
  IN  /\ m.type = "slice"
      /\ \/ ~wanted /\ Handle(m, {}) /\ UNCHANGED item /\ NoFault
         \/ wanted /\ TrySendToExecutor(m, it)
         \/ wanted /\ item' = it /\ Handle(m, {}) /\ Fault("send")
      /\ UNCHANGED <<events, invited, attested, found, asked>>

\* process_commit_sign_result_request, whatever the state and the sender.
CommitResult(m) ==
  /\ m.type = "commit"
  /\ item' = [item EXCEPT !.state = "CommitResult"]
  /\ Handle(m, {}) /\ NoFault
  /\ UNCHANGED <<events, invited, attested, found, asked>>
=============================================================================
