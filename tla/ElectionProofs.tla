--------------------------- MODULE ElectionProofs ---------------------------
(***************************************************************************)
(* What an election yields, for every number n of initial pinners and all  *)
(* vectors of candidates.                                                  *)
(***************************************************************************)
EXTENDS Election, TLAPS

\* A prefix of a sequence is a sequence over the same set.
LEMMA PrefixType ==
  ASSUME NEW S, NEW s \in Seq(S), NEW k \in Nat, k <= Len(s)
  PROVE  SubSeq(s, 1, k) \in Seq(S) /\ Len(SubSeq(s, 1, k)) = k
<1>1. SubSeq(s, 1, k) \in Seq(S)
  OBVIOUS
<1>2. Len(SubSeq(s, 1, k)) = k
  OBVIOUS
<1> QED  BY <1>1, <1>2

\* Vec::pop leaves one candidate less, of the same kind.
LEMMA PoppedType ==
  ASSUME NEW S, NEW s \in Seq(S), s # <<>>
  PROVE  Popped(s) \in Seq(S) /\ Len(Popped(s)) = Len(s) - 1
<1>1. Len(s) \in Nat /\ Len(s) # 0
  OBVIOUS
<1>2. Len(s) - 1 \in Nat /\ Len(s) - 1 <= Len(s)
  BY <1>1
<1> QED  BY <1>2, PrefixType DEF Popped

\* The loop takes no candidate that is not there, unless it diverges.
LEMMA TakenBounds ==
  ASSUME NEW S, NEW n \in Nat, NEW executors \in Seq(S), NEW pinners \in Seq(S),
         ~Diverges(n, executors, pinners)
  PROVE  /\ PinnersTaken(n, executors, pinners) \in 0 .. Len(pinners)
         /\ ExecutorsTaken(n, executors, pinners) \in 0 .. Len(executors)
  BY DEF Diverges, PinnersTaken, ExecutorsTaken

\* The elected pinners are candidates of the two vectors.
LEMMA ElectedPinnersType ==
  ASSUME NEW S, NEW n \in Nat, NEW executors \in Seq(S), NEW pinners \in Seq(S),
         ~Diverges(n, executors, pinners)
  PROVE  ElectedPinners(n, executors, pinners) \in Seq(S)
<1> DEFINE p == PinnersTaken(n, executors, pinners)
           e == ExecutorsTaken(n, executors, pinners)
<1>1. p \in 0 .. Len(pinners) /\ e \in 0 .. Len(executors)
  BY TakenBounds
<1>2. ASSUME NEW i \in 1 .. p + e
      PROVE  (IF i <= p THEN pinners[Len(pinners) + 1 - i]
                        ELSE executors[Len(executors) + 1 - (i - p)]) \in S
  <2> HIDE DEF p, e
  <2>1. CASE i <= p
    <3>1. Len(pinners) + 1 - i \in 1 .. Len(pinners)
      BY <1>1, <2>1
    <3> QED  BY <2>1, <3>1
  <2>2. CASE ~(i <= p)
    <3>1. Len(executors) + 1 - (i - p) \in 1 .. Len(executors)
      BY <1>1, <2>2
    <3> QED  BY <2>2, <3>1
  <2> QED  BY <2>1, <2>2
<1> HIDE DEF p, e
<1>3. p + e \in Nat
  BY <1>1
<1>4. [i \in 1 .. p + e |-> IF i <= p THEN pinners[Len(pinners) + 1 - i]
                            ELSE executors[Len(executors) + 1 - (i - p)]] \in Seq(S)
  BY <1>2, <1>3
<1> QED  BY <1>4 DEF ElectedPinners, p, e

\* Where n + 1 does not wrap, ready() means N + 1 candidates, and the loop of
\* select_initial_pinners ends: it never runs out of candidates below n.
THEOREM ReadyConverges ==
  ASSUME NEW S, NEW n \in 1 .. 254, NEW executors \in Seq(S), NEW pinners \in Seq(S),
         Ready(n, executors, pinners)
  PROVE  ~Diverges(n, Popped(executors), pinners)
<1>1. executors # <<>> /\ Len(executors) + Len(pinners) >= n + 1
  BY DEF Ready, U8
<1>2. Popped(executors) \in Seq(S) /\ Len(Popped(executors)) = Len(executors) - 1
  BY <1>1, PoppedType
<1> QED  BY <1>1, <1>2 DEF Diverges, ExecutorsTaken, PinnersTaken

\* Where n is 255 the sum wraps to 0: a single executor candidate makes ready()
\* true, and then the loop does not end.
THEOREM ReadyDivergesAt255 ==
  ASSUME NEW S, NEW c \in S
  PROVE  Ready(255, <<c>>, <<>>) /\ Diverges(255, Popped(<<c>>), <<>>)
<1>1. Ready(255, <<c>>, <<>>)
  BY DEF Ready, U8
<1>2. Popped(<<c>>) = <<>>
  BY DEF Popped
<1> QED  BY <1>1, <1>2 DEF Diverges, ExecutorsTaken, PinnersTaken

\* An election elects exactly n pinners when it is the first to be possible:
\* the last candidate needed has just arrived, or the first executor has.
THEOREM FirstElectionConstructible ==
  ASSUME NEW S, NEW n \in 1 .. 254, NEW executors \in Seq(S), NEW pinners \in Seq(S),
         Ready(n, executors, pinners),
         Len(executors) + Len(pinners) = n + 1 \/ Len(executors) = 1
  PROVE  Constructible(n, executors, pinners)
<1>1. executors # <<>> /\ Len(executors) + Len(pinners) >= n + 1
  BY DEF Ready, U8
<1>2. Popped(executors) \in Seq(S) /\ Len(Popped(executors)) = Len(executors) - 1
  BY <1>1, PoppedType
<1> DEFINE left == Popped(executors)
<1>3. CASE Len(executors) = 1
  <2>1. left = <<>> /\ Len(pinners) >= n
    BY <1>1, <1>2, <1>3
  <2>2. PinnersTaken(n, left, pinners) = n
    BY <2>1 DEF PinnersTaken
  <2> QED  BY <2>2 DEF Constructible, ExecutorsTaken
<1>4. CASE Len(executors) # 1
  <2>1. Len(executors) \in Nat /\ Len(executors) # 0 /\ Len(pinners) \in Nat
    BY <1>1
  <2>2. Len(executors) + Len(pinners) = n + 1
    BY <1>4
  <2> HIDE DEF left
  <2>3. \A e, p \in Nat : e # 0 /\ e # 1 /\ e + p = n + 1 => p < n
    OBVIOUS
  <2>4. Len(pinners) < n
    BY <2>1, <2>2, <2>3, <1>4
  <2>5. PinnersTaken(n, left, pinners) = Len(pinners)
    BY <2>4 DEF PinnersTaken
  <2> QED  BY <2>4, <2>5 DEF left, Constructible, ExecutorsTaken
<1> QED  BY <1>3, <1>4
=============================================================================
