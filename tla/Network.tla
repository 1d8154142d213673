------------------------------ MODULE Network ------------------------------
(***************************************************************************)
(* How the handlers of a task exchange messages, and what can fail.  The   *)
(* actor handles one message at a time.  Peer-to-peer messages, answers of *)
(* other actors that run a stored closure, and layer1 events all wait in   *)
(* `net` until one is handled, in any order.                               *)
(***************************************************************************)
EXTENDS Naturals, Sequences, FiniteSets

CONSTANTS
  NoPeer,        \* stands for no node at all
  MaxEvents,     \* bound: deliveries of the layer1 event (1: no redelivery)
  FaultKinds,    \* which faults occur: "loss", "send", "expire"
  MaxFaults      \* bound: how many

ASSUME NetworkAssumption ==
  /\ MaxEvents \in Nat
  /\ FaultKinds \subseteq {"loss", "send", "expire"}
  /\ MaxFaults \in Nat

VARIABLES
  net,    \* messages and answers under way
  faults  \* faults so far

\* Handling m sends the messages `out`.
Handle(m, out) == net' = (net \ {m}) \cup out

CanFail(kind) == kind \in FaultKinds /\ faults < MaxFaults

\* A step with a fault of this kind, and one without.
Fault(kind) == CanFail(kind) /\ faults' = faults + 1

NoFault == UNCHANGED faults

\* A message or an answer is lost with the link or with a restart of the
\* actor that held its closure, or its handler fails before it did anything.
Lose(m) == Fault("loss") /\ Handle(m, {})
=============================================================================
