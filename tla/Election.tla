------------------------------ MODULE Election ------------------------------
(***************************************************************************)
(* When the delegator of a key generation task has enough candidates, and  *)
(* whom it then elects.  Candidates are kept in two vectors, in the order  *)
(* in which their attestations arrived, and Vec::pop takes the last one.   *)
(*                                                                         *)
(* The loop of select_initial_pinners is given here by its result;         *)
(* CandidateElection runs it one iteration at a time and checks that it    *)
(* computes this result, and when it does not return at all.               *)
(***************************************************************************)
EXTENDS Naturals, Sequences

\* `n + 1` is computed in a u8; the release profile wraps, it does not panic.
U8 == 256

\* Mutants: the candidate that becomes the executor is not counted; one
\* candidate too many is waited for.
ReadyAtN(n, executors, pinners) ==
  /\ executors # <<>>
  /\ Len(executors) + Len(pinners) >= n

ReadyPastN(n, executors, pinners) ==
  /\ executors # <<>>
  /\ Len(executors) + Len(pinners) > n + 1

\* TaskCandidates::ready.
Ready(n, executors, pinners) ==
  /\ executors # <<>>
  /\ Len(executors) + Len(pinners) >= (n + 1) % U8

Popped(s) == SubSeq(s, 1, Len(s) - 1)

\* select_executor.
ElectedExecutor(executors) == executors[Len(executors)]

\* How many pinner candidates the loop pops: while some executor candidate is
\* left it does not stop at n, it pops every one of them.
PinnersTaken(n, executors, pinners) ==
  IF executors # <<>> \/ Len(pinners) < n THEN Len(pinners) ELSE n

\* How many executor candidates then serve as initial pinners.
ExecutorsTaken(n, executors, pinners) ==
  LET taken == PinnersTaken(n, executors, pinners)
  IN  IF taken < n THEN n - taken ELSE 0

\* The loop never ends when both vectors run dry below n.
Diverges(n, executors, pinners) ==
  ExecutorsTaken(n, executors, pinners) > Len(executors)

\* select_initial_pinners, on the executor candidates select_executor left.
ElectedPinners(n, executors, pinners) ==
  LET p == PinnersTaken(n, executors, pinners)
      e == ExecutorsTaken(n, executors, pinners)
  IN  [i \in 1 .. p + e |->
         IF i <= p THEN pinners[Len(pinners) + 1 - i]
                   ELSE executors[Len(executors) + 1 - (i - p)]]

\* ExecutorRequestConstructor::ready: exactly n initial pinners were elected.
Constructible(n, executors, pinners) ==
  LET left == Popped(executors)
  IN  PinnersTaken(n, left, pinners) + ExecutorsTaken(n, left, pinners) = n
=============================================================================
