------------------------- MODULE CandidateSelection -------------------------
(***************************************************************************)
(* Which swarm peers the delegator invites to pin a slice of the new key.  *)
(* Of an id only its last byte matters, modulo n the "lucky number".  In   *)
(* rings of growing distance from the task's own lucky number peers are    *)
(* moved to the candidates until there are 2n of them, one ring a step;    *)
(* the first 2n are invited, and each of them validates the task itself.   *)
(***************************************************************************)
EXTENDS TaskInfo, Sequences, FiniteSets

CONSTANT Cases  \* the tasks and swarms to select for

\* The last byte of a String: ASCII or the continuation of a longer character.
Byte == 0 .. 191

ASSUME SelectionAssumption ==
  \A c \in Cases : /\ c.event.n \in Nat /\ c.event.k \in Nat
                   /\ c.task \in Byte
                   /\ c.swarm \in Seq(Byte)

VARIABLES
  call,      \* the event, the task id, and ipfs_swarm_peers without the delegates
  phase,     \* "event", "rejected", "collecting" or "invited"
  left,      \* ids: the positions of the peers that are not chosen yet
  chosen,    \* candidates_peers
  distance,  \* a u8
  accepted   \* the invited peers that accept the task, in order

vars == <<call, phase, left, chosen, distance, accepted>>

info == FromResponse(call.event)
n == info.n
Positions == DOMAIN call.swarm

\* Mutant: the bytes are compared as they are.
WholeByte(byte) == byte

\* calculate_lucky_number: `% n` panics for n = 0.
LuckyNumber(byte) == byte % n

Away(i) ==
  LET a == LuckyNumber(call.swarm[i])
      b == LuckyNumber(call.task)
  IN  IF a >= b THEN a - b ELSE b - a

\* filter: these peers in the order of the swarm.
InOrder(peers) ==
  LET filtered[i \in 0 .. Len(call.swarm)] ==
        IF i = 0 THEN <<>>
        ELSE IF i \in peers THEN Append(filtered[i - 1], i) ELSE filtered[i - 1]
  IN  filtered[Len(call.swarm)]

Init ==
  /\ call \in Cases
  /\ phase = "event"
  /\ left = {} /\ chosen = <<>> /\ distance = 0 /\ accepted = <<>>

\* The event is dropped when its numbers are not valid.
Reject ==
  /\ phase = "event" /\ ~Valid(info)
  /\ phase' = "rejected"
  /\ UNCHANGED <<call, left, chosen, distance, accepted>>

\* random_select_peers up to its loop: with too few peers, take all.
Start ==
  /\ phase = "event" /\ Valid(info)
  /\ phase' = "collecting"
  /\ IF Len(call.swarm) < 2 * n
       THEN left' = {} /\ chosen' = InOrder(Positions)
       ELSE left' = Positions /\ chosen' = <<>>
  /\ UNCHANGED <<call, distance, accepted>>

Collecting == phase = "collecting" /\ Len(chosen) < 2 * n /\ left # {}

\* Mutants: peers are chosen for being exactly in the next ring but one; the
\* chosen peers stay among the others; the distance does not grow.
EverySecondRing ==
  /\ Collecting
  /\ left' = {i \in left : Away(i) # distance}
  /\ chosen' = chosen \o InOrder(left \ left')
  /\ distance' = (distance + 2) % U8
  /\ UNCHANGED <<call, phase, accepted>>

ChosenAgain ==
  /\ Collecting
  /\ chosen' = chosen \o InOrder({i \in left : Away(i) <= distance})
  /\ distance' = (distance + 1) % U8
  /\ UNCHANGED <<call, phase, left, accepted>>

SameRing ==
  /\ Collecting
  /\ left' = {i \in left : Away(i) > distance}
  /\ chosen' = chosen \o InOrder(left \ left')
  /\ UNCHANGED <<call, phase, distance, accepted>>

\* One iteration of the loop; the order of the swarm is kept within a ring.
CollectRing ==
  /\ Collecting
  /\ left' = {i \in left : Away(i) > distance}
  /\ chosen' = chosen \o InOrder(left \ left')
  /\ distance' = (distance + 1) % U8
  /\ UNCHANGED <<call, phase, accepted>>

\* The first 2n are invited.  Each cuts and validates the numbers once more.
Invite ==
  LET invited == SubSeq(chosen, 1, IF Len(chosen) < 2 * n THEN Len(chosen) ELSE 2 * n)
  IN  /\ phase = "collecting" /\ ~Collecting
      /\ phase' = "invited"
      /\ accepted' = IF Valid(FromRequest(Request(info))) THEN invited ELSE <<>>
      /\ UNCHANGED <<call, left, chosen, distance>>

Next == Reject \/ Start \/ CollectRing \/ Invite

Spec == Init /\ [][Next]_vars

\* The selection is one call, which runs until it returns.
FairSpec == Spec /\ WF_vars(Next)
-----------------------------------------------------------------------------
(* Properties *)

Accepted == {accepted[i] : i \in DOMAIN accepted}

\* A task that layer1 asks for is rejected, or as many peers as possible, up to
\* 2n, all different, take part in it, each with numbers that it finds valid.
EnoughAccept ==
  phase = "invited" =>
    /\ Len(accepted) = (IF Len(call.swarm) < 2 * n THEN Len(call.swarm) ELSE 2 * n)
    /\ Cardinality(Accepted) = Len(accepted)

\* No peer is passed over for one further away, and among those of the last ring
\* the swarm's own order decides.
NearestAreInvited ==
  phase = "invited" /\ accepted # <<>> =>
    \A i \in Accepted, j \in Positions \ Accepted :
      Away(i) < Away(j) \/ (Away(i) = Away(j) /\ i < j)

\* The u8 distance does not overflow: there are at most n rings, and n is a u8.
\* A peer that is left is in none of the rings so far.
RingsBounded ==
  /\ distance <= n
  /\ \A i \in left : Away(i) >= distance

\* The loop ends.
SelectionEnds == <>(phase \in {"rejected", "invited"})
=============================================================================
