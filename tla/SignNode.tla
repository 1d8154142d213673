------------------------------ MODULE SignNode ------------------------------
(***************************************************************************)
(* The other nodes of a signing task: delegates that apply to execute it,  *)
(* of which one recovers the key and signs, and the holders of the slices, *)
(* which keep no state of the task.                                        *)
(***************************************************************************)
EXTENDS SignNet

VARIABLES
  exe,       \* per delegate, the state of its ExecutorStoreItem, "None" without
  rsaKey,    \* the number of the RSA key stored for the task, 0 when expired
  rsaKeys,   \* how many RSA keys it generated
  recovered  \* history: who recovered the private key

nodeVars == <<exe, rsaKey, rsaKeys, recovered>>

NodeInit ==
  /\ exe = [p \in Delegates |-> "None"]
  /\ rsaKey = [p \in Delegates |-> 0]
  /\ rsaKeys = [p \in Delegates |-> 0]
  /\ recovered = {}

\* Mutants: the application names the key stored before, the new one is lost;
\* the application is sent and the item is not saved.
ApplyWithOldKey(m) ==
  LET p == m.peer
  IN  /\ m.type = "candidate"
      /\ rsaKeys' = [rsaKeys EXCEPT ![p] = @ + 1]
      /\ rsaKey' = [rsaKey EXCEPT ![p] = rsaKeys[p] + 1]
      /\ exe' = [exe EXCEPT ![p] = "Requested"]
      /\ Handle(m, {[type |-> "apply", peer |-> p, rsa |-> rsaKey[p]]})
      /\ NoFault /\ UNCHANGED recovered

ApplyWithoutSaving(m) ==
  LET p == m.peer
      rsa == rsaKeys[p] + 1
  IN  /\ m.type = "candidate"
      /\ rsaKeys' = [rsaKeys EXCEPT ![p] = rsa]
      /\ rsaKey' = [rsaKey EXCEPT ![p] = rsa]
      /\ Handle(m, {[type |-> "apply", peer |-> p, rsa |-> rsa]})
      /\ NoFault /\ UNCHANGED <<exe, recovered>>

\* process_sign_with_key_slices_handler and send_sign_request: the item is
\* saved anew, a new RSA key replaces the stored one, the application is sent.
ApplyAsExecutor(m) ==
  LET p == m.peer
      rsa == rsaKeys[p] + 1
  IN  /\ m.type = "candidate"
      /\ rsaKeys' = [rsaKeys EXCEPT ![p] = rsa]
      /\ rsaKey' = [rsaKey EXCEPT ![p] = rsa]
      /\ \/ /\ exe' = [exe EXCEPT ![p] = "Requested"]
            /\ Handle(m, {[type |-> "apply", peer |-> p, rsa |-> rsa]}) /\ NoFault
         \/ /\ exe' = [exe EXCEPT ![p] = "Init"]
            /\ Handle(m, {}) /\ Fault("send")
      /\ UNCHANGED recovered

\* A holder has the deployment looked up; then it takes its slice from the
\* block store, encrypts it for the executor, and returns it.
LookUpDeployment(m) ==
  /\ m.type = "get"
  /\ Handle(m, {[m EXCEPT !.type = "info"]})
  /\ UNCHANGED nodeVars /\ NoFault

ReturnSlice(m) ==
  /\ m.type = "info"
  /\ Handle(m, {[m EXCEPT !.type = "slice"]})
  /\ UNCHANGED nodeVars /\ NoFault

\* decrypt_key_slice, for each slice of the request.
CanDecrypt(m) ==
  \A s \in m.slices : s.key = [peer |-> m.peer, rsa |-> rsaKey[m.peer]]

\* task_sign_with_key_slices_response_handler: decrypt the slices, recover the
\* key, sign, and return the result.  The item is saved as Responded first.
Sign(m) ==
  LET p == m.peer
  IN  /\ m.type = "sign" /\ exe[p] # "None"
      /\ \/ /\ ~CanDecrypt(m)
            /\ exe' = [exe EXCEPT ![p] = "Responded"]
            /\ Handle(m, {}) /\ UNCHANGED recovered /\ NoFault
         \/ /\ CanDecrypt(m)
            /\ recovered' = recovered \cup {p}
            /\ \/ /\ exe' = [exe EXCEPT ![p] = "Executed"]
                  /\ Handle(m, {[type |-> "commit", peer |-> p]}) /\ NoFault
               \/ /\ exe' = [exe EXCEPT ![p] = "Responded"]
                  /\ Handle(m, {}) /\ Fault("send")
      /\ UNCHANGED <<rsaKey, rsaKeys>>

\* The RSA key lives for 6000 units of time.
Expire(p) ==
  /\ rsaKey[p] # 0 /\ Fault("expire")
  /\ rsaKey' = [rsaKey EXCEPT ![p] = 0]
  /\ UNCHANGED <<exe, rsaKeys, recovered, net>>
=============================================================================
