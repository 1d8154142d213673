------------------------------ MODULE TaskInfo ------------------------------
(***************************************************************************)
(* The numbers of a task: n initial pinners, of which k recover the key.   *)
(* layer1 and the messages between nodes carry them as u32; a TaskInfo,    *)
(* which the delegator and every candidate store, has a u8 for each.       *)
(***************************************************************************)
EXTENDS Naturals

U8 == 256

\* validate_task_info.
Valid(info) == info.n # 0 /\ info.k # 0 /\ info.k < info.n

\* TryFrom<KeyGenerationResponse>: what the delegator makes of the event.  The
\* numbers are cut to their last byte before they are validated.
FromResponse(event) == [n |-> event.n % U8, k |-> event.k % U8]

\* send_key_candidate_request puts the stored numbers into the request.
Request(info) == [n |-> info.n, k |-> info.k]

\* Mutant: the candidate takes the two numbers for each other.
FromRequestSwapped(request) == [n |-> request.k % U8, k |-> request.n % U8]

\* TryFrom<KeyGenerationCandidateRequest>, at a candidate.
FromRequest(request) == [n |-> request.n % U8, k |-> request.k % U8]
=============================================================================
