----------------------------- MODULE KeyGenNode -----------------------------
(***************************************************************************)
(* The other nodes of a key generation task.  Each may be invited to       *)
(* execute it or to pin a slice of the key; it stores an item for the role *)
(* it took, an RSA key for the slice it may receive, and, under the        *)
(* account of the generated key, the cid of the stored slice and the id of *)
(* its deployment until layer1 announces the asset.                        *)
(***************************************************************************)
EXTENDS KeyGenNet

VARIABLES
  exe,       \* per peer, the state of its ExecutorStoreItem, "None" without
  pin,       \* the same for its InitialPinnerStoreItem
  rsaKey,    \* the number of the RSA key stored for the task, 0 when expired
  rsaKeys,   \* how many RSA keys it generated
  keys,      \* how many task keys the executors generated in all
  dataCid,   \* the stored slices, at most one per account (temporary)
  deployId,  \* the deployments, at most one per account (temporary)
  committed  \* history: the commits it asked the pinner actor for

nodeVars == <<exe, pin, rsaKey, rsaKeys, keys, dataCid, deployId, committed>>

NodeInit ==
  /\ exe = [p \in Peers |-> "None"]
  /\ pin = [p \in Peers |-> "None"]
  /\ rsaKey = [p \in Peers |-> 0]
  /\ rsaKeys = [p \in Peers |-> 0]
  /\ keys = 0
  /\ dataCid = {} /\ deployId = {}
  /\ committed = {}

\* The temporary entry of peer p under the account of key is overwritten.
Put(entries, p, key, i) ==
  {d \in entries : ~(d.peer = p /\ d.key = key)}
    \cup {[peer |-> p, key |-> key, index |-> i]}

Entry(entries, p, key) == {d \in entries : d.peer = p /\ d.key = key}

Verify(m) == [m EXCEPT !.type = "verify"]
-----------------------------------------------------------------------------
(* Candidates *)

\* task_key_generation_candidate_request_handler of either role: a node that
\* has an item of the other role ignores the request; else the delegator's
\* signature is checked and its profile looked up.
CandidateRequest(m) ==
  LET other == IF m.exec THEN pin[m.peer] ELSE exe[m.peer]
  IN  /\ m.type = "candidate"
      /\ Handle(m, IF other = "None" THEN {Verify(m)} ELSE {})
      /\ UNCHANGED nodeVars /\ NoFault

SetRole(exec, p, state) ==
  /\ exe' = IF exec THEN [exe EXCEPT ![p] = state] ELSE exe
  /\ pin' = IF exec THEN pin ELSE [pin EXCEPT ![p] = state]

\* send_key_generation_request.
Application(m, rsa) == [type |-> "apply", peer |-> m.peer, exec |-> m.exec, rsa |-> rsa]

\* Mutants: the application names the key stored last, none is generated; the
\* application is sent and the item is not saved.
ApplyWithStoredKey(m) ==
  /\ m.type = "verify"
  /\ SetRole(m.exec, m.peer, "Requested")
  /\ Handle(m, {Application(m, rsaKey[m.peer])}) /\ NoFault
  /\ UNCHANGED <<rsaKey, rsaKeys, keys, dataCid, deployId, committed>>

ApplyWithoutSaving(m) ==
  LET rsa == rsaKeys[m.peer] + 1
  IN  /\ m.type = "verify"
      /\ rsaKeys' = [rsaKeys EXCEPT ![m.peer] = rsa]
      /\ rsaKey' = [rsaKey EXCEPT ![m.peer] = rsa]
      /\ Handle(m, {Application(m, rsa)})
      /\ NoFault
      /\ UNCHANGED <<exe, pin, keys, dataCid, deployId, committed>>

\* The closure of verify_to_candidate_signature: the item is saved anew, a new
\* RSA key replaces the stored one, and the application is sent.
ApplyAsCandidate(m) ==
  LET rsa == rsaKeys[m.peer] + 1
  IN  /\ m.type = "verify"
      /\ rsaKeys' = [rsaKeys EXCEPT ![m.peer] = rsa]
      /\ rsaKey' = [rsaKey EXCEPT ![m.peer] = rsa]
      /\ \/ /\ SetRole(m.exec, m.peer, "Requested")
            /\ Handle(m, {Application(m, rsa)})
            /\ NoFault
         \/ /\ SetRole(m.exec, m.peer, "Init")
            /\ Handle(m, {}) /\ Fault("send")
      /\ UNCHANGED <<keys, dataCid, deployId, committed>>
-----------------------------------------------------------------------------
(* Execution *)

\* task_execution_request_handler: generate the key, cut it into one slice per
\* pinner, encrypt each for its pinner, and answer the delegator.  Without its
\* item it would fail; MembersHaveItems says that this does not happen.
Execute(m) ==
  /\ m.type = "execute" /\ exe[m.peer] # "None"
  /\ keys' = keys + 1
  /\ \/ /\ exe' = [exe EXCEPT ![m.peer] = "Executed"]
        /\ Handle(m, {[type |-> "executed", peer |-> m.peer, key |-> keys + 1,
                       pinners |-> m.pinners]}) /\ NoFault
     \/ /\ exe' = [exe EXCEPT ![m.peer] = "Responded"]
        /\ Handle(m, {}) /\ Fault("send")
  /\ UNCHANGED <<pin, rsaKey, rsaKeys, dataCid, deployId, committed>>
-----------------------------------------------------------------------------
(* Pinning *)

\* trying_get_initial_pinner_store_item: the item of either role will do.
HasItem(p) == pin[p] # "None" \/ exe[p] # "None"

\* task_pinner_key_slice_request_handler: the item is saved as that of an
\* initial pinner, and an upload is registered.
StartUpload(m) ==
  /\ m.type = "slice" /\ HasItem(m.peer)
  /\ pin' = [pin EXCEPT ![m.peer] = "Responded"]
  /\ \/ Handle(m, {[m EXCEPT !.type = "upload"]}) /\ NoFault
     \/ Handle(m, {}) /\ Fault("send")
  /\ UNCHANGED <<exe, rsaKey, rsaKeys, keys, dataCid, deployId, committed>>

\* decrypt_key_slice succeeds when the RSA key the slice was encrypted for is
\* still the stored one.
CanDecrypt(m) == rsaKey[m.peer] = m.rsa

\* Mutant: without the key the upload is tried again from the start.
StoreSliceTriesAgain(m) ==
  /\ m.type = "upload"
  /\ IF CanDecrypt(m)
       THEN /\ dataCid' = Put(dataCid, m.peer, m.key, m.index)
            /\ Handle(m, {[type |-> "uploaded", peer |-> m.peer, key |-> m.key,
                           index |-> m.index]})
       ELSE UNCHANGED dataCid /\ Handle(m, {[m EXCEPT !.type = "slice"]})
  /\ NoFault /\ UNCHANGED <<exe, pin, rsaKey, rsaKeys, keys, deployId, committed>>


\* The upload is registered: decrypt the slice, store it, remember its cid,
\* and have the data processed.  Without the key it was encrypted for, stop.
StoreSlice(m) ==
  /\ m.type = "upload"
  /\ \/ /\ ~CanDecrypt(m)
        /\ Handle(m, {}) /\ UNCHANGED dataCid /\ NoFault
     \/ /\ CanDecrypt(m)
        /\ dataCid' = Put(dataCid, m.peer, m.key, m.index)
        /\ \/ Handle(m, {[type |-> "uploaded", peer |-> m.peer, key |-> m.key,
                          index |-> m.index]}) /\ NoFault
           \/ Handle(m, {}) /\ Fault("send")
  /\ UNCHANGED <<exe, pin, rsaKey, rsaKeys, keys, deployId, committed>>

\* Mutant: the deployment is reported but not remembered.
SliceUploadedNotRemembered(m) ==
  /\ m.type = "uploaded"
  /\ pin' = [pin EXCEPT ![m.peer] = "Deployed"]
  /\ \/ Handle(m, {[m EXCEPT !.type = "deployed"]}) /\ NoFault
     \/ Handle(m, {}) /\ Fault("send")
  /\ UNCHANGED <<exe, rsaKey, rsaKeys, keys, dataCid, deployId, committed>>

\* The data is processed: remember the deployment and tell the delegator.
SliceUploaded(m) ==
  /\ m.type = "uploaded"
  /\ deployId' = Put(deployId, m.peer, m.key, m.index)
  /\ pin' = [pin EXCEPT ![m.peer] = "Deployed"]
  /\ \/ Handle(m, {[m EXCEPT !.type = "deployed"]}) /\ NoFault
     \/ Handle(m, {}) /\ Fault("send")
  /\ UNCHANGED <<exe, rsaKey, rsaKeys, keys, dataCid, committed>>

\* asset_generated_event_handler: a node with an initial pinner's item commits
\* what it remembers under the account, if both entries are there; the others
\* ignore the event.
AssetGenerated(m) ==
  LET cids == Entry(dataCid, m.peer, m.key)
      deployments == Entry(deployId, m.peer, m.key)
  IN  /\ m.type = "asset"
      /\ committed' = IF pin[m.peer] = "None" THEN committed
                      ELSE committed \cup [cid : cids, deployment : deployments]
      /\ Handle(m, {}) /\ NoFault
      /\ UNCHANGED <<exe, pin, rsaKey, rsaKeys, keys, dataCid, deployId>>

\* The RSA key and the temporary entries live for 6000 units of time.
Expire(p) ==
  /\ Fault("expire")
  /\ \/ /\ rsaKey[p] # 0
        /\ rsaKey' = [rsaKey EXCEPT ![p] = 0]
        /\ UNCHANGED <<dataCid, deployId>>
     \/ \E d \in dataCid : d.peer = p /\ dataCid' = dataCid \ {d}
                           /\ UNCHANGED <<rsaKey, deployId>>
     \/ \E d \in deployId : d.peer = p /\ deployId' = deployId \ {d}
                            /\ UNCHANGED <<rsaKey, dataCid>>
  /\ UNCHANGED <<exe, pin, rsaKeys, keys, committed, net>>
=============================================================================
