---------------------- MODULE CandidateElectionProofs ----------------------
(***************************************************************************)
(* Theorems about the book-keeping of candidates, iteration by iteration,  *)
(* for every number n of initial pinners and any arrivals and failures.    *)
(***************************************************************************)
EXTENDS CandidateElection, ElectionProofs

-----------------------------------------------------------------------------
(* Type correctness *)

\* What an election is made of, in terms of the fields of the item in memory.
LEMMA InfoFields ==
  ASSUME NEW e \in Candidates \cup {0}, NEW es \in Seq(Candidates),
         NEW ps \in Seq(Candidates), NEW el \in Seq(Candidates)
  PROVE  InfoOK([executor |-> e, executors |-> es, pinners |-> ps, elected |-> el])
  BY DEF InfoOK

LEMMA EmptyType == InfoOK(Empty)
<1>1. <<>> \in Seq(Candidates)
  OBVIOUS
<1> QED  BY <1>1, InfoFields DEF Empty

LEMMA SelectType ==
  ASSUME NEW e \in Seq(Candidates), NEW p \in Seq(Candidates), e # <<>>
  PROVE  InfoOK(SelectExecutor(e, p))
<1>1. Popped(e) \in Seq(Candidates)
  BY PoppedType
<1>2. ElectedExecutor(e) \in Candidates
  <2>1. Len(e) \in 1 .. Len(e)
    OBVIOUS
  <2> QED  BY <2>1 DEF ElectedExecutor
<1>3. <<>> \in Seq(Candidates) /\ ElectedExecutor(e) \in Candidates \cup {0}
  BY <1>2
<1> QED  BY <1>1, <1>3, InfoFields DEF SelectExecutor

\* What try_send_to_executor leaves, on candidates that were just saved.
LEMMA TryElectType ==
  ASSUME TypeOK, phase = "collecting", TryElect,
         executors' \in Seq(Candidates), pinners' \in Seq(Candidates), failures' = failures
  PROVE  TypeOK'
<1>1. CASE Ready(N, executors', pinners')
  <2>1. InfoOK(item)'
    BY <1>1, SelectType DEF TryElect, Ready
  <2> QED  BY <1>1, <2>1 DEF TryElect, TypeOK
<1>2. CASE ~Ready(N, executors', pinners')
  BY <1>2 DEF TryElect, TypeOK
<1> QED  BY <1>1, <1>2

LEMMA ArrivalType ==
  ASSUME TypeOK, Arrived < MaxCandidates
  PROVE  /\ Arrived + 1 \in Candidates
         /\ Append(executors, Arrived + 1) \in Seq(Candidates)
         /\ Append(pinners, Arrived + 1) \in Seq(Candidates)
<1>1. executors \in Seq(Candidates) /\ pinners \in Seq(Candidates)
  BY DEF TypeOK
<1>2. Arrived \in Nat
  BY <1>1 DEF Arrived
<1>3. Arrived + 1 \in Candidates
  BY <1>2, ElectionAssumption DEF Candidates
<1> QED  BY <1>1, <1>3

LEMMA InitTypeOK == Init => TypeOK
  BY EmptyType, ElectionAssumption DEF Init, TypeOK

LEMMA NextTypeOK == TypeOK /\ [Next]_vars => TypeOK'
<1> SUFFICES ASSUME TypeOK, [Next]_vars  PROVE TypeOK'
  OBVIOUS
<1>0. /\ executors \in Seq(Candidates) /\ pinners \in Seq(Candidates) /\ failures \in Nat
      /\ failures \in 0 .. MaxSendFailures
      /\ InfoOK(Empty)
  <2>1. executors \in Seq(Candidates) /\ pinners \in Seq(Candidates)
    BY DEF TypeOK
  <2> QED  BY <2>1, EmptyType DEF TypeOK
<1>1. CASE InsertExecutor
  BY <1>0, <1>1, ArrivalType, TryElectType DEF InsertExecutor
<1>2. CASE InsertInitialPinner
  BY <1>0, <1>2, ArrivalType, TryElectType DEF InsertInitialPinner
<1>3. CASE PopInitialPinner
  <2>1. /\ item.pinners \in Seq(Candidates) /\ item.pinners # <<>>
        /\ item.elected \in Seq(Candidates)
    BY <1>3 DEF PopInitialPinner, TypeOK, InfoOK
  <2>2. Popped(item.pinners) \in Seq(Candidates)
    BY <2>1, PoppedType
  <2>3. Append(item.elected, item.pinners[Len(item.pinners)]) \in Seq(Candidates)
    BY <2>1
  <2>4. InfoOK(item)'
    BY <1>3, <2>2, <2>3 DEF PopInitialPinner, TypeOK, InfoOK
  <2> QED  BY <1>3, <2>4 DEF PopInitialPinner, TypeOK
<1>4. CASE PopExecutor
  <2>1. CASE item.executors = <<>>
    BY <1>4, <2>1 DEF PopExecutor, TypeOK
  <2>2. CASE item.executors # <<>>
    <3>1. item.executors \in Seq(Candidates) /\ item.elected \in Seq(Candidates)
      BY DEF TypeOK, InfoOK
    <3>2. Popped(item.executors) \in Seq(Candidates)
      BY <2>2, <3>1, PoppedType
    <3>3. Append(item.elected, item.executors[Len(item.executors)]) \in Seq(Candidates)
      BY <2>2, <3>1
    <3>4. InfoOK(item)'
      BY <1>4, <2>2, <3>2, <3>3 DEF PopExecutor, TypeOK, InfoOK
    <3> QED  BY <1>4, <3>4 DEF PopExecutor, TypeOK
  <2> QED  BY <2>1, <2>2
<1>5. CASE SendRequest
  BY <1>5 DEF SendRequest, TypeOK, InfoOK
<1>6. CASE SendFails
  <2>1. failures' \in 0 .. MaxSendFailures
    BY <1>0, <1>6, ElectionAssumption DEF SendFails
  <2> QED  BY <1>0, <1>6, <2>1 DEF SendFails, TypeOK
<1>7. CASE NotElectedProperly
  BY <1>0, <1>7 DEF NotElectedProperly, TypeOK
<1>8. CASE UNCHANGED vars
  BY <1>8 DEF vars, TypeOK
<1> QED  BY <1>1, <1>2, <1>3, <1>4, <1>5, <1>6, <1>7, <1>8 DEF Next

\* Type correctness of the book-keeping.
THEOREM ElectionTypeCorrect == Spec => []TypeOK
  BY InitTypeOK, NextTypeOK, PTL DEF Spec
-----------------------------------------------------------------------------
(* The loop *)

\* Vec::pop on a prefix of a vector.
LEMMA PoppedPrefix ==
  ASSUME NEW s \in Seq(Candidates), NEW k \in Nat, k <= Len(s), NEW t, t = SubSeq(s, 1, k)
  PROVE  /\ Len(t) = k
         /\ t = <<>> <=> k = 0
         /\ k > 0 => t[Len(t)] = s[k] /\ s[k] \in Candidates /\ Popped(t) = SubSeq(s, 1, k - 1)
<1>1. t \in Seq(Candidates) /\ Len(t) = k
  BY PrefixType
<1>2. t = <<>> <=> k = 0
  BY <1>1
<1>3. ASSUME k > 0
      PROVE  t[Len(t)] = s[k] /\ s[k] \in Candidates /\ Popped(t) = SubSeq(s, 1, k - 1)
  <2>1. t[k] = s[k] /\ s[k] \in Candidates
    BY <1>3
  <2>2. Popped(t) = SubSeq(s, 1, k - 1)
    BY <1>1, <1>3 DEF Popped
  <2> QED  BY <1>1, <2>1, <2>2
<1> QED  BY <1>1, <1>2, <1>3

\* The vectors of an election in terms of what was popped.
LEMMA LoopFields ==
  ASSUME TypeOK, Ready(N, executors, pinners),
         NEW j \in 0 .. Len(pinners), NEW i \in 0 .. Len(executors) - 1, LoopAt(j, i)
  PROVE  /\ executors \in Seq(Candidates) /\ pinners \in Seq(Candidates)
         /\ Len(executors) \in Nat \ {0} /\ Len(pinners) \in Nat /\ N \in 2 .. 255
         /\ Len(item.pinners) = Len(pinners) - j
         /\ Len(item.executors) = Len(executors) - 1 - i
         /\ item.pinners = <<>> <=> j = Len(pinners)
         /\ item.executors = <<>> <=> i = Len(executors) - 1
         /\ item.elected \in Seq(Candidates) /\ Len(item.elected) = j + i
<1>1. executors \in Seq(Candidates) /\ pinners \in Seq(Candidates) /\ N \in 2 .. 255
      /\ item.elected \in Seq(Candidates)
  BY ElectionAssumption DEF TypeOK, InfoOK, U8
<1>2. Len(executors) \in Nat \ {0} /\ Len(pinners) \in Nat
  BY <1>1 DEF Ready
<1>3. /\ Len(pinners) - j \in Nat /\ Len(pinners) - j <= Len(pinners)
      /\ Len(executors) - 1 - i \in Nat /\ Len(executors) - 1 - i <= Len(executors)
  BY <1>2
<1>4. /\ Len(item.pinners) = Len(pinners) - j
      /\ item.pinners = <<>> <=> Len(pinners) - j = 0
  <2> DEFINE k == Len(pinners) - j
  <2>1. item.pinners = SubSeq(pinners, 1, k)
    BY DEF LoopAt
  <2>2. k \in Nat /\ k <= Len(pinners)
    BY <1>3
  <2> HIDE DEF k
  <2>3. Len(item.pinners) = k /\ (item.pinners = <<>> <=> k = 0)
    BY <1>1, <2>1, <2>2, PoppedPrefix
  <2> QED  BY <2>3 DEF k
<1>5. /\ Len(item.executors) = Len(executors) - 1 - i
      /\ item.executors = <<>> <=> Len(executors) - 1 - i = 0
  <2> DEFINE k == Len(executors) - 1 - i
  <2>1. item.executors = SubSeq(executors, 1, k)
    BY DEF LoopAt
  <2>2. k \in Nat /\ k <= Len(executors)
    BY <1>3
  <2> HIDE DEF k
  <2>3. Len(item.executors) = k /\ (item.executors = <<>> <=> k = 0)
    BY <1>1, <2>1, <2>2, PoppedPrefix
  <2> QED  BY <2>3 DEF k
<1>6. Len(item.elected) = j + i
  <2>1. DOMAIN item.elected = 1 .. j + i /\ j + i \in Nat
    BY DEF LoopAt, TakenSoFar
  <2> QED  BY <1>1, <2>1
<1> QED  BY <1>1, <1>2, <1>4, <1>5, <1>6

LEMMA SequenceAsFunction ==
  ASSUME NEW S, NEW t \in Seq(S)
  PROVE  t = [k \in 1 .. Len(t) |-> t[k]]
<1>1. DOMAIN t = 1 .. Len(t) /\ t \in [1 .. Len(t) -> S]
  OBVIOUS
<1>2. t = [k \in DOMAIN t |-> t[k]]
  BY <1>1
<1> QED  BY <1>1, <1>2

\* One more candidate popped.
LEMMA TakenNext ==
  ASSUME TypeOK, NEW j \in Nat, NEW i \in Nat, NEW c \in Candidates,
         NEW s \in Seq(Candidates), s = TakenSoFar(j, i), Len(s) = j + i
  PROVE  /\ i = 0 /\ c = pinners[Len(pinners) - j] => Append(s, c) = TakenSoFar(j + 1, 0)
         /\ c = executors[Len(executors) - (i + 1)] => Append(s, c) = TakenSoFar(j, i + 1)
<1>1. /\ executors \in Seq(Candidates) /\ pinners \in Seq(Candidates)
      /\ Len(executors) \in Nat /\ Len(pinners) \in Nat
  BY DEF TypeOK
<1>2. Append(s, c) = [k \in 1 .. j + i + 1 |-> IF k = j + i + 1 THEN c ELSE s[k]]
  <2>1. Append(s, c) = [k \in 1 .. Len(s) + 1 |-> IF k = Len(s) + 1 THEN c ELSE s[k]]
    <3>1. /\ Append(s, c) \in Seq(Candidates) /\ Len(Append(s, c)) = Len(s) + 1
          /\ \A k \in 1 .. Len(s) + 1 : Append(s, c)[k] = IF k = Len(s) + 1 THEN c ELSE s[k]
      OBVIOUS
    <3>2. Append(s, c) = [k \in 1 .. Len(Append(s, c)) |-> Append(s, c)[k]]
      BY <3>1, SequenceAsFunction
    <3> QED  BY <3>1, <3>2
  <2> QED  BY <2>1
<1>3. \A k \in 1 .. j + i : s[k] = IF k <= j THEN pinners[Len(pinners) + 1 - k]
                                   ELSE executors[Len(executors) - (k - j)]
  BY DEF TakenSoFar
<1>4. ASSUME i = 0, c = pinners[Len(pinners) - j]
      PROVE  Append(s, c) = TakenSoFar(j + 1, 0)
  <2>1. Len(pinners) + 1 - (j + 1) = Len(pinners) - j
    BY <1>1
  <2>2. ASSUME NEW k \in 1 .. j + 1
        PROVE  (IF k = j + i + 1 THEN c ELSE s[k]) =
                 IF k <= j + 1 THEN pinners[Len(pinners) + 1 - k]
                 ELSE executors[Len(executors) - (k - (j + 1))]
    <3>1. CASE k = j + 1
      BY <1>4, <2>1, <3>1
    <3>2. CASE k # j + 1
      <4>1. k \in 1 .. j + i /\ k <= j /\ k <= j + 1 /\ k # j + i + 1
        BY <1>4, <3>2
      <4>2. s[k] = pinners[Len(pinners) + 1 - k]
        BY <1>3, <4>1
      <4> QED  BY <4>1, <4>2
    <3> QED  BY <3>1, <3>2
  <2>3. j + i + 1 = j + 1 /\ (j + 1) + 0 = j + 1
    BY <1>4
  <2> QED  BY <1>2, <2>2, <2>3 DEF TakenSoFar
<1>5. ASSUME c = executors[Len(executors) - (i + 1)]
      PROVE  Append(s, c) = TakenSoFar(j, i + 1)
  <2>1. (j + i + 1) - j = i + 1 /\ j + (i + 1) = j + i + 1
    OBVIOUS
  <2>2. ASSUME NEW k \in 1 .. j + i + 1
        PROVE  (IF k = j + i + 1 THEN c ELSE s[k]) =
                 IF k <= j THEN pinners[Len(pinners) + 1 - k]
                 ELSE executors[Len(executors) - (k - j)]
    <3>1. CASE k = j + i + 1
      <4>1. ~(k <= j) /\ k - j = i + 1
        BY <3>1
      <4> QED  BY <1>5, <3>1, <4>1
    <3>2. CASE k # j + i + 1
      <4>1. k \in 1 .. j + i
        BY <3>2
      <4> QED  BY <1>3, <3>2, <4>1
    <3> QED  BY <3>1, <3>2
  <2> QED  BY <1>2, <2>1, <2>2 DEF TakenSoFar
<1> QED  BY <1>4, <1>5

\* An election that begins has popped the executor and nothing else.
LEMMA LoopBegins ==
  ASSUME TypeOK', TryElect, phase = "collecting"
  PROVE  ElectionUnderWay'
<1>1. CASE ~Ready(N, executors', pinners')
  BY <1>1 DEF TryElect, ElectionUnderWay
<1>2. CASE Ready(N, executors', pinners')
  <2>1. executors' \in Seq(Candidates) /\ pinners' \in Seq(Candidates) /\ executors' # <<>>
    BY <1>2 DEF TypeOK, Ready
  <2>2. /\ item'.executor = ElectedExecutor(executors')
        /\ item'.executors = Popped(executors')
        /\ item'.pinners = pinners' /\ item'.elected = <<>>
    BY <1>2 DEF TryElect, SelectExecutor
  <2>3. 0 \in 0 .. Len(pinners') /\ 0 \in 0 .. Len(executors') - 1
    BY <2>1
  <2>4. item'.pinners = SubSeq(pinners', 1, Len(pinners') - 0)
    BY <2>1, <2>2
  <2>5. item'.executors = SubSeq(executors', 1, Len(executors') - 1 - 0)
    BY <2>1, <2>2 DEF Popped
  <2>6. item'.elected = TakenSoFar(0, 0)'
    BY <2>2 DEF TakenSoFar
  <2>7. LoopAt(0, 0)'
    BY <2>4, <2>5, <2>6, ElectionAssumption DEF LoopAt
  <2> QED  BY <1>2, <2>2, <2>3, <2>7 DEF ElectionUnderWay
<1> QED  BY <1>1, <1>2

LEMMA NextUnderWay ==
  ASSUME TypeOK, TypeOK', ElectionUnderWay, [Next]_vars
  PROVE  ElectionUnderWay'
<1>1. CASE InsertExecutor \/ InsertInitialPinner
  BY <1>1, LoopBegins DEF InsertExecutor, InsertInitialPinner
<1>2. CASE PopInitialPinner
  <2>1. PICK j \in 0 .. Len(pinners), i \in 0 .. Len(executors) - 1 : LoopAt(j, i)
    BY <1>2 DEF PopInitialPinner, ElectionUnderWay
  <2>2. Ready(N, executors, pinners) /\ item.executor = ElectedExecutor(executors)
    BY <1>2 DEF PopInitialPinner, ElectionUnderWay
  <2>3. /\ executors \in Seq(Candidates) /\ pinners \in Seq(Candidates)
        /\ Len(executors) \in Nat \ {0} /\ Len(pinners) \in Nat /\ N \in 2 .. 255
        /\ item.pinners = <<>> <=> j = Len(pinners)
        /\ item.executors = <<>> <=> i = Len(executors) - 1
        /\ item.elected \in Seq(Candidates) /\ Len(item.elected) = j + i
    BY <2>1, <2>2, LoopFields
  <2>4. j < Len(pinners) /\ i = 0
    BY <1>2, <2>1, <2>3 DEF PopInitialPinner, LoopAt
  <2>5. Len(pinners) - j \in Nat /\ Len(pinners) - j <= Len(pinners) /\ Len(pinners) - j > 0
        /\ (Len(pinners) - j) - 1 = Len(pinners) - (j + 1)
    BY <2>3, <2>4
  <2>6. /\ item.pinners[Len(item.pinners)] = pinners[Len(pinners) - j]
        /\ Popped(item.pinners) = SubSeq(pinners, 1, Len(pinners) - (j + 1))
        /\ pinners[Len(pinners) - j] \in Candidates
    <3> DEFINE k == Len(pinners) - j
    <3>1. item.pinners = SubSeq(pinners, 1, k)
      BY <2>1 DEF LoopAt
    <3>2. k \in Nat /\ k <= Len(pinners) /\ k > 0 /\ k - 1 = Len(pinners) - (j + 1)
      BY <2>5
    <3>3. pinners \in Seq(Candidates)
      BY <2>3
    <3> HIDE DEF k
    <3>4. /\ item.pinners[Len(item.pinners)] = pinners[k] /\ pinners[k] \in Candidates
          /\ Popped(item.pinners) = SubSeq(pinners, 1, k - 1)
      BY <3>3, <3>1, <3>2, PoppedPrefix
    <3> QED  BY <3>2, <3>4 DEF k
  <2>7. /\ item'.executor = item.executor /\ item'.executors = item.executors
        /\ item'.pinners = Popped(item.pinners)
        /\ item'.elected = Append(item.elected, item.pinners[Len(item.pinners)])
        /\ UNCHANGED <<phase, executors, pinners>>
    BY <1>2 DEF PopInitialPinner, TypeOK, InfoOK
  <2>8. item'.elected = TakenSoFar(j + 1, 0)
    <3> DEFINE c == pinners[Len(pinners) - j]
    <3>1. c \in Candidates /\ item'.elected = Append(item.elected, c)
      BY <2>6, <2>7
    <3>2. item.elected = TakenSoFar(j, i) /\ j \in Nat /\ i \in Nat
      BY <2>1, <2>3, <2>4 DEF LoopAt
    <3>3. c = pinners[Len(pinners) - j]
      OBVIOUS
    <3> HIDE DEF c
    <3>4. item.elected \in Seq(Candidates) /\ Len(item.elected) = j + i /\ i = 0
      BY <2>3, <2>4
    <3>5. Append(item.elected, c) = TakenSoFar(j + 1, 0)
      BY <3>1, <3>2, <3>3, <3>4, TakenNext
    <3> QED  BY <3>1, <3>5
  <2>9. Len(executors) = 1 => j + 1 <= N
    <3>1. Len(executors) = 1 => item.executors = <<>>
      BY <2>3, <2>4
    <3>2. item.executors = <<>> => j < N
      BY <1>2, <2>3, <2>4 DEF PopInitialPinner, Looping
    <3>3. j < N => j + 1 <= N
      BY <2>3
    <3> QED  BY <3>1, <3>2, <3>3
  <2>10. LoopAt(j + 1, 0)'
    BY <2>1, <2>4, <2>6, <2>7, <2>8, <2>9 DEF LoopAt, TakenSoFar
  <2>11. j + 1 \in 0 .. Len(pinners) /\ 0 \in 0 .. Len(executors) - 1
    BY <2>3, <2>4
  <2> QED  BY <2>2, <2>7, <2>10, <2>11 DEF ElectionUnderWay
<1>3. CASE PopExecutor
  <2>1. PICK j \in 0 .. Len(pinners), i \in 0 .. Len(executors) - 1 : LoopAt(j, i)
    BY <1>3 DEF PopExecutor, ElectionUnderWay
  <2>2. Ready(N, executors, pinners) /\ item.executor = ElectedExecutor(executors)
    BY <1>3 DEF PopExecutor, ElectionUnderWay
  <2>3. /\ executors \in Seq(Candidates) /\ pinners \in Seq(Candidates)
        /\ Len(executors) \in Nat \ {0} /\ Len(pinners) \in Nat /\ N \in 2 .. 255
        /\ item.pinners = <<>> <=> j = Len(pinners)
        /\ item.executors = <<>> <=> i = Len(executors) - 1
        /\ item.elected \in Seq(Candidates) /\ Len(item.elected) = j + i
    BY <2>1, <2>2, LoopFields
  <2>4. CASE item.executors = <<>>
    <3>1. UNCHANGED <<phase, executors, pinners, item>>
      BY <1>3, <2>4 DEF PopExecutor
    <3> QED  BY <3>1 DEF ElectionUnderWay, LoopAt, TakenSoFar
  <2>5. CASE item.executors # <<>>
    <3>1. j = Len(pinners) /\ i < Len(executors) - 1
      BY <1>3, <2>3, <2>5 DEF PopExecutor
    <3>2. j + i < N
      BY <1>3, <2>3 DEF PopExecutor, Looping
    <3>3. /\ Len(executors) - 1 - i \in Nat /\ Len(executors) - 1 - i <= Len(executors)
          /\ Len(executors) - 1 - i > 0
          /\ (Len(executors) - 1 - i) - 1 = Len(executors) - 1 - (i + 1)
          /\ Len(executors) - 1 - i = Len(executors) - (i + 1)
      BY <2>3, <3>1
    <3>4. /\ item.executors[Len(item.executors)] = executors[Len(executors) - (i + 1)]
          /\ Popped(item.executors) = SubSeq(executors, 1, Len(executors) - 1 - (i + 1))
          /\ executors[Len(executors) - (i + 1)] \in Candidates
      <4> DEFINE k == Len(executors) - 1 - i
      <4>1. item.executors = SubSeq(executors, 1, k)
        BY <2>1 DEF LoopAt
      <4>2. k \in Nat /\ k <= Len(executors) /\ k > 0
        BY <3>3
      <4>3. k - 1 = Len(executors) - 1 - (i + 1) /\ k = Len(executors) - (i + 1)
        BY <3>3
      <4>4. executors \in Seq(Candidates)
        BY <2>3
      <4> HIDE DEF k
      <4>5. /\ item.executors[Len(item.executors)] = executors[k] /\ executors[k] \in Candidates
            /\ Popped(item.executors) = SubSeq(executors, 1, k - 1)
        BY <4>4, <4>1, <4>2, PoppedPrefix
      <4> QED  BY <4>3, <4>5
    <3>5. /\ item'.executor = item.executor /\ item'.pinners = item.pinners
          /\ item'.executors = Popped(item.executors)
          /\ item'.elected = Append(item.elected, item.executors[Len(item.executors)])
          /\ UNCHANGED <<phase, executors, pinners>>
      BY <1>3, <2>5 DEF PopExecutor, TypeOK, InfoOK
    <3>6. item'.elected = TakenSoFar(j, i + 1)
      <4> DEFINE c == executors[Len(executors) - (i + 1)]
      <4>1. c \in Candidates /\ item'.elected = Append(item.elected, c)
        BY <3>4, <3>5
      <4>2. item.elected = TakenSoFar(j, i) /\ j \in Nat /\ i \in Nat
        BY <2>1, <2>3 DEF LoopAt
      <4>3. c = executors[Len(executors) - (i + 1)]
        OBVIOUS
      <4> HIDE DEF c
      <4>4. item.elected \in Seq(Candidates) /\ Len(item.elected) = j + i
        BY <2>3
      <4>5. Append(item.elected, c) = TakenSoFar(j, i + 1)
        BY <4>1, <4>2, <4>3, <4>4, TakenNext
      <4> QED  BY <4>1, <4>5
    <3>7. LoopAt(j, i + 1)'
      <4>1. (i + 1) + j <= N /\ (Len(executors) = 1 => j <= N)
        BY <2>1, <2>3, <3>2 DEF LoopAt
      <4>2. TakenSoFar(j, i + 1)' = TakenSoFar(j, i + 1)
        BY <3>5 DEF TakenSoFar
      <4> QED  BY <2>1, <3>1, <3>4, <3>5, <3>6, <4>1, <4>2 DEF LoopAt
    <3>8. i + 1 \in 0 .. Len(executors) - 1
      BY <2>3, <3>1
    <3> QED  BY <2>2, <3>5, <3>7, <3>8 DEF ElectionUnderWay
  <2> QED  BY <2>4, <2>5
<1>4. CASE SendRequest \/ SendFails \/ NotElectedProperly
  BY <1>4 DEF SendRequest, SendFails, NotElectedProperly, ElectionUnderWay
<1>5. CASE UNCHANGED vars
  BY <1>5 DEF vars, ElectionUnderWay, LoopAt, TakenSoFar
<1> QED  BY <1>1, <1>2, <1>3, <1>4, <1>5 DEF Next

\* Every iteration pops the last candidate of one vector, in this order.
THEOREM LoopTakesFromTheEnd == Spec => []ElectionUnderWay
<1>1. Init => TypeOK /\ ElectionUnderWay
  BY InitTypeOK DEF Init, ElectionUnderWay
<1>2. (TypeOK /\ ElectionUnderWay) /\ [Next]_vars => (TypeOK /\ ElectionUnderWay)'
  BY NextTypeOK, NextUnderWay
<1> QED  BY <1>1, <1>2, PTL DEF Spec

(***************************************************************************)
(* What the loop leaves                                                    *)
(***************************************************************************)

\* How many candidates of each kind were popped when the loop is left.
LEMMA LoopEnds ==
  ASSUME TypeOK, ElectionUnderWay, LoopLeft
  PROVE  \E j \in 0 .. Len(pinners), i \in 0 .. Len(executors) - 1 :
           /\ LoopAt(j, i)
           /\ j = PinnersTaken(N, Popped(executors), pinners)
           /\ i = ExecutorsTaken(N, Popped(executors), pinners)
           /\ j + i # N => Len(executors) >= 2 /\ i = 0 /\ j > N
<1>1. PICK j \in 0 .. Len(pinners), i \in 0 .. Len(executors) - 1 : LoopAt(j, i)
  BY DEF LoopLeft, ElectionUnderWay
<1>2. Ready(N, executors, pinners)
  BY DEF LoopLeft, ElectionUnderWay
<1>3. /\ executors \in Seq(Candidates) /\ pinners \in Seq(Candidates)
      /\ Len(executors) \in Nat \ {0} /\ Len(pinners) \in Nat /\ N \in 2 .. 255
      /\ item.pinners = <<>> <=> j = Len(pinners)
      /\ item.executors = <<>> <=> i = Len(executors) - 1
      /\ Len(item.elected) = j + i
  BY <1>1, <1>2, LoopFields
<1>4. j + i >= N /\ (item.pinners = <<>> \/ item.executors = <<>>)
  BY <1>3 DEF LoopLeft, Looping
<1>5. /\ i > 0 => j = Len(pinners) /\ i + j <= N
      /\ Len(executors) = 1 => j <= N
  BY <1>1 DEF LoopAt
<1> DEFINE left == Popped(executors)
<1>6. executors # <<>>
  BY <1>2 DEF Ready
<1>7. left \in Seq(Candidates) /\ Len(left) = Len(executors) - 1
  BY <1>3, <1>6, PoppedType
<1> HIDE DEF left
<1>8. j = PinnersTaken(N, left, pinners) /\ i = ExecutorsTaken(N, left, pinners)
  <2>1. CASE Len(executors) = 1
    <3>1. left = <<>> /\ i = 0 /\ j = N /\ ~(Len(pinners) < N)
      BY <1>3, <1>4, <1>5, <1>7, <2>1
    <3>2. PinnersTaken(N, left, pinners) = N
      BY <3>1 DEF PinnersTaken
    <3>3. ExecutorsTaken(N, left, pinners) = 0
      BY <3>2, <1>3 DEF ExecutorsTaken
    <3> QED  BY <3>1, <3>2, <3>3
  <2>2. CASE Len(executors) # 1
    <3>1. left # <<>>
      BY <1>3, <1>7, <2>2
    <3>2. j = Len(pinners)
      <4>1. i > 0 => j = Len(pinners)
        BY <1>5
      <4>2. i = 0 => item.executors # <<>>
        BY <1>3, <2>2
      <4>3. i = 0 => item.pinners = <<>>
        BY <1>4, <4>2
      <4> QED  BY <1>3, <4>1, <4>3
    <3>3. PinnersTaken(N, left, pinners) = Len(pinners)
      BY <3>1 DEF PinnersTaken
    <3>4. ExecutorsTaken(N, left, pinners) = IF Len(pinners) < N THEN N - Len(pinners) ELSE 0
      BY <3>3 DEF ExecutorsTaken
    <3>5. i = IF Len(pinners) < N THEN N - Len(pinners) ELSE 0
      BY <1>3, <1>4, <1>5, <3>2
    <3> QED  BY <3>2, <3>3, <3>4, <3>5
  <2> QED  BY <2>1, <2>2
<1>9. ASSUME j + i # N  PROVE Len(executors) >= 2 /\ i = 0 /\ j > N
  <2>1. j + i > N
    BY <1>3, <1>4, <1>9
  <2>2. i = 0
    BY <1>3, <1>5, <2>1
  <2>3. j > N
    BY <2>1, <2>2
  <2>4. Len(executors) # 1
    BY <1>3, <1>5, <2>3
  <2> QED  BY <1>3, <2>2, <2>3, <2>4
<1> QED  BY <1>1, <1>8, <1>9 DEF left

\* The loop leaves what the operators of Election say, for every order of
\* arrivals and every n that validate_task_info accepts.
THEOREM LoopComputesTheElection == Spec => []LoopComputesElection
<1>1. ASSUME TypeOK, ElectionUnderWay  PROVE LoopComputesElection
  <2> SUFFICES ASSUME LoopLeft
               PROVE  /\ item.executor = ElectedExecutor(executors)
                      /\ item.elected = ElectedPinners(N, Popped(executors), pinners)
                      /\ (Len(item.elected) = N) <=> Constructible(N, executors, pinners)
    BY DEF LoopComputesElection
  <2> DEFINE left == Popped(executors)
  <2>1. PICK j \in 0 .. Len(pinners), i \in 0 .. Len(executors) - 1 :
          /\ LoopAt(j, i)
          /\ j = PinnersTaken(N, left, pinners)
          /\ i = ExecutorsTaken(N, left, pinners)
    BY <1>1, LoopEnds
  <2>2. Ready(N, executors, pinners) /\ item.executor = ElectedExecutor(executors)
    BY <1>1 DEF LoopLeft, ElectionUnderWay
  <2>3. /\ executors \in Seq(Candidates) /\ pinners \in Seq(Candidates)
        /\ Len(executors) \in Nat \ {0} /\ Len(pinners) \in Nat
        /\ Len(item.elected) = j + i
    BY <1>1, <2>1, <2>2, LoopFields
  <2>4. Len(left) = Len(executors) - 1
    BY <2>2, <2>3, PoppedType DEF Ready
  <2>5. \A k \in 1 .. Len(executors) - 1 : left[k] = executors[k]
    BY <2>3 DEF Popped
  <2>6. item.elected = TakenSoFar(j, i)
    BY <2>1 DEF LoopAt
  <2>7. item.elected = ElectedPinners(N, left, pinners)
    <3> HIDE DEF left
    <3>1. ASSUME NEW k \in 1 .. j + i, ~(k <= j)
          PROVE  executors[Len(executors) - (k - j)] = left[Len(left) + 1 - (k - j)]
      <4>1. Len(left) + 1 - (k - j) = Len(executors) - (k - j)
            /\ Len(executors) - (k - j) \in 1 .. Len(executors) - 1
        BY <2>3, <2>4, <3>1
      <4> QED  BY <2>5, <4>1
    <3>2. TakenSoFar(j, i) = [k \in 1 .. j + i |->
                                IF k <= j THEN pinners[Len(pinners) + 1 - k]
                                ELSE left[Len(left) + 1 - (k - j)]]
      BY <3>1 DEF TakenSoFar
    <3> QED  BY <2>1, <2>6, <3>2 DEF ElectedPinners
  <2>8. (Len(item.elected) = N) <=> Constructible(N, executors, pinners)
    BY <2>1, <2>3 DEF Constructible
  <2> QED  BY <2>2, <2>7, <2>8
<1> QED  BY <1>1, ElectionTypeCorrect, LoopTakesFromTheEnd, PTL

\* More than n pinners are elected only with a second executor candidate and
\* more than n pinner candidates.
THEOREM OvershootNeedsSpareExecutor == Spec => []OvershootOnlyWithSpareExecutor
<1>1. ASSUME TypeOK, ElectionUnderWay  PROVE OvershootOnlyWithSpareExecutor
  <2> SUFFICES ASSUME LoopLeft, Len(item.elected) # N
               PROVE  Len(executors) >= 2 /\ Len(pinners) > N
    BY DEF OvershootOnlyWithSpareExecutor
  <2>1. PICK j \in 0 .. Len(pinners), i \in 0 .. Len(executors) - 1 :
          /\ LoopAt(j, i)
          /\ j + i # N => Len(executors) >= 2 /\ i = 0 /\ j > N
    BY <1>1, LoopEnds
  <2>2. Ready(N, executors, pinners)
    BY <1>1 DEF LoopLeft, ElectionUnderWay
  <2>3. Len(item.elected) = j + i /\ Len(pinners) \in Nat /\ N \in 2 .. 255
    BY <1>1, <2>1, <2>2, LoopFields
  <2> QED  BY <2>1, <2>3
<1> QED  BY <1>1, ElectionTypeCorrect, LoopTakesFromTheEnd, PTL

\* Where n + 1 does not wrap, no election begins with fewer than one candidate
\* for the executor and n others.
THEOREM ElectionsBeginReady == N # 255 => (Spec => []ReadyIsEssential)
<1> SUFFICES ASSUME N # 255  PROVE Spec => []ReadyIsEssential
  OBVIOUS
<1>1. ASSUME TypeOK, ElectionUnderWay  PROVE ReadyIsEssential
  <2>1. N + 1 = (N + 1) % 256
    BY ElectionAssumption DEF U8
  <2> QED  BY <1>1, <2>1 DEF ReadyIsEssential, ElectionUnderWay, Ready, Arrived, U8
<1> QED  BY <1>1, ElectionTypeCorrect, LoopTakesFromTheEnd, PTL

\* Nor does the loop of an election ever go on with nothing to pop, whatever the
\* candidates are and however often sending failed before: the condition of the
\* while loop then counts on fewer than n, and the candidates are n at least.
THEOREM EveryIterationPops == N # 255 => (Spec => []LoopNeverStalls)
<1> SUFFICES ASSUME N # 255  PROVE Spec => []LoopNeverStalls
  OBVIOUS
<1>1. ASSUME TypeOK, ElectionUnderWay  PROVE LoopNeverStalls
  <2> SUFFICES ASSUME phase = "electing", Looping, item.pinners = <<>>, item.executors = <<>>
               PROVE  FALSE
    BY DEF LoopNeverStalls
  <2>1. /\ Ready(N, executors, pinners)
        /\ \E j \in 0 .. Len(pinners), i \in 0 .. Len(executors) - 1 : LoopAt(j, i)
    BY <1>1 DEF ElectionUnderWay
  <2>2. PICK j \in 0 .. Len(pinners), i \in 0 .. Len(executors) - 1 : LoopAt(j, i)
    BY <2>1
  <2>3. /\ Len(executors) \in Nat \ {0} /\ Len(pinners) \in Nat /\ N \in 2 .. 254
        /\ j = Len(pinners) /\ i = Len(executors) - 1 /\ Len(item.elected) = j + i
    BY <1>1, <2>1, <2>2, LoopFields
  <2>4. Len(executors) + Len(pinners) >= N + 1
    BY <2>1, <2>3 DEF Ready, U8
  <2>5. Len(item.elected) < N
    BY DEF Looping
  <2> QED  BY <2>3, <2>4, <2>5
<1> QED  BY <1>1, ElectionTypeCorrect, LoopTakesFromTheEnd, PTL

(***************************************************************************)
(* The first election                                                      *)
(***************************************************************************)

\* The only executor candidate leaves the pinner candidates, n at most.
LEMMA SingleExecutorConstructible ==
  ASSUME NEW n \in Nat, NEW e \in Seq(Candidates), NEW p \in Seq(Candidates), Len(e) = 1
  PROVE  Constructible(n, e, p)
<1> DEFINE left == Popped(e)
<1>1. left = <<>>
  BY DEF Popped
<1> HIDE DEF left
<1>2. PinnersTaken(n, left, p) = IF Len(p) < n THEN Len(p) ELSE n
  BY <1>1 DEF PinnersTaken
<1>3. PinnersTaken(n, left, p) + ExecutorsTaken(n, left, p) = n
  <2>1. CASE Len(p) < n
    <3>1. PinnersTaken(n, left, p) = Len(p) /\ Len(p) \in Nat
      BY <1>2, <2>1
    <3>2. ExecutorsTaken(n, left, p) = n - Len(p)
      BY <2>1, <3>1 DEF ExecutorsTaken
    <3> QED  BY <3>1, <3>2
  <2>2. CASE ~(Len(p) < n)
    <3>1. PinnersTaken(n, left, p) = n
      BY <1>2, <2>2
    <3>2. ExecutorsTaken(n, left, p) = 0
      BY <3>1 DEF ExecutorsTaken
    <3> QED  BY <3>1, <3>2
  <2> QED  BY <2>1, <2>2
<1> QED  BY <1>3 DEF Constructible, left

\* The candidate that makes ready() true is the last one needed, or the first
\* executor candidate.
LEMMA JustReady ==
  ASSUME NEW e \in Seq(Candidates), NEW p \in Seq(Candidates),
         NEW f \in Seq(Candidates), NEW q \in Seq(Candidates),
         ~Ready(N, e, p), Ready(N, f, q),
         \/ Len(f) = Len(e) + 1 /\ q = p
         \/ f = e /\ Len(q) = Len(p) + 1
  PROVE  Constructible(N, f, q)
<1>1. N \in 2 .. 255
  BY ElectionAssumption DEF U8
<1>2. CASE e = <<>>
  <2>1. f # <<>>
    BY DEF Ready
  <2>2. Len(f) = Len(e) + 1
    BY <1>2, <2>1
  <2>3. Len(e) = 0
    BY <1>2
  <2>4. Len(f) = 1
    BY <2>2, <2>3
  <2>5. N \in Nat
    BY <1>1
  <2> QED  BY <2>4, <2>5, SingleExecutorConstructible
<1>3. CASE e # <<>>
  <2>1. Len(e) + Len(p) < (N + 1) % 256 /\ Len(f) + Len(q) >= (N + 1) % 256
    BY <1>1, <1>3 DEF Ready, U8
  <2>2. N # 255
    <3>1. Len(e) + Len(p) >= 0
      OBVIOUS
    <3>2. N = 255 => (N + 1) % 256 = 0
      OBVIOUS
    <3> QED  BY <2>1, <3>1, <3>2
  <2>3. N \in 1 .. 254
    BY <1>1, <2>2
  <2>4. Len(f) + Len(q) = Len(e) + Len(p) + 1
    OBVIOUS
  <2>5. (N + 1) % 256 = N + 1
    BY <2>3
  <2>6. Len(f) + Len(q) = N + 1
    <3>1. \A a, b \in Nat : a < b /\ a + 1 >= b => a + 1 = b
      OBVIOUS
    <3>2. Len(e) + Len(p) \in Nat /\ N + 1 \in Nat
      BY <2>3
    <3> QED  BY <2>1, <2>4, <2>5, <3>1, <3>2
  <2> QED  BY <2>3, <2>6, FirstElectionConstructible
<1> QED  BY <1>2, <1>3

LEMMA NextFirstElection ==
  ASSUME TypeOK, TypeOK', FirstElection, LoopComputesElection, [Next]_vars
  PROVE  FirstElection'
<1> SUFFICES ASSUME failures' = 0
             PROVE  /\ phase' = "collecting" => ~Ready(N, executors, pinners)'
                    /\ phase' = "electing" => Constructible(N, executors, pinners)'
  BY DEF FirstElection
<1>1. /\ executors \in Seq(Candidates) /\ pinners \in Seq(Candidates)
      /\ executors' \in Seq(Candidates) /\ pinners' \in Seq(Candidates)
  BY DEF TypeOK
<1>2. CASE InsertExecutor \/ InsertInitialPinner
  <2>1. phase = "collecting" /\ failures = 0 /\ TryElect
    BY <1>2 DEF InsertExecutor, InsertInitialPinner
  <2>2. ~Ready(N, executors, pinners)
    BY <2>1 DEF FirstElection
  <2>3. \/ Len(executors') = Len(executors) + 1 /\ pinners' = pinners
        \/ executors' = executors /\ Len(pinners') = Len(pinners) + 1
    BY <1>1, <1>2 DEF InsertExecutor, InsertInitialPinner
  <2>4. CASE ~Ready(N, executors', pinners')
    BY <2>1, <2>4 DEF TryElect
  <2>5. CASE Ready(N, executors', pinners')
    <3>1. phase' = "electing"
      BY <2>1, <2>5 DEF TryElect
    <3>2. PICK f, q : f = executors' /\ q = pinners'
      OBVIOUS
    <3>3. Constructible(N, f, q)
      BY <1>1, <2>2, <2>3, <2>5, <3>2, JustReady
    <3> QED  BY <3>1, <3>2, <3>3
  <2> QED  BY <2>4, <2>5
<1>3. CASE PopInitialPinner \/ PopExecutor \/ UNCHANGED vars
  BY <1>3 DEF PopInitialPinner, PopExecutor, vars, FirstElection
<1>4. CASE SendRequest
  BY <1>4 DEF SendRequest
<1>5. CASE SendFails
  <2>1. failures' = failures + 1 /\ failures \in Nat
    BY <1>5 DEF SendFails, TypeOK
  <2> QED  BY <2>1
<1>6. CASE NotElectedProperly
  <2>1. LoopLeft /\ failures = 0 /\ Len(item.elected) # N /\ phase = "electing"
    BY <1>6 DEF NotElectedProperly, LoopLeft
  <2>2. Constructible(N, executors, pinners)
    BY <2>1 DEF FirstElection
  <2> QED  BY <2>1, <2>2 DEF LoopComputesElection
<1> QED  BY <1>2, <1>3, <1>4, <1>5, <1>6 DEF Next

\* The first election succeeds: it begins as soon as it can, and then the
\* candidates give exactly n pinners.
THEOREM FirstElectionSucceeds == Spec => []FirstElectionIsExact
<1>1. Init => FirstElection
  BY DEF Init, FirstElection, Ready
<1>2. TypeOK /\ TypeOK' /\ FirstElection /\ LoopComputesElection /\ [Next]_vars => FirstElection'
  BY NextFirstElection
<1>3. FirstElection /\ LoopComputesElection => FirstElectionIsExact
  BY DEF FirstElection, LoopComputesElection, LoopLeft, FirstElectionIsExact
<1> QED  BY <1>1, <1>2, <1>3, ElectionTypeCorrect, LoopComputesTheElection, PTL DEF Spec

(***************************************************************************)
(* Nobody is lost or serves twice                                          *)
(***************************************************************************)

LEMMA MembersOfBoth ==
  ASSUME NEW s \in Seq(Candidates), NEW t \in Seq(Candidates)
  PROVE  /\ s \o t \in Seq(Candidates) /\ Len(s \o t) = Len(s) + Len(t)
         /\ Members(s \o t) = Members(s) \cup Members(t)
<1>1. /\ s \o t \in Seq(Candidates) /\ Len(s \o t) = Len(s) + Len(t)
      /\ \A k \in 1 .. Len(s) : (s \o t)[k] = s[k]
      /\ \A k \in 1 .. Len(t) : (s \o t)[Len(s) + k] = t[k]
  OBVIOUS
<1> DEFINE st == s \o t
<1>2. /\ DOMAIN s = 1 .. Len(s) /\ DOMAIN t = 1 .. Len(t) /\ DOMAIN st = 1 .. Len(s) + Len(t)
      /\ Len(s) \in Nat /\ Len(t) \in Nat
  BY <1>1
<1> HIDE DEF st
<1>3. ASSUME NEW k \in DOMAIN st  PROVE st[k] \in Members(s) \cup Members(t)
  <2>1. CASE k <= Len(s)
    <3>1. k \in DOMAIN s /\ st[k] = s[k]
      BY <1>1, <1>2, <2>1 DEF st
    <3> QED  BY <3>1 DEF Members
  <2>2. CASE ~(k <= Len(s))
    <3>1. k - Len(s) \in 1 .. Len(t) /\ Len(s) + (k - Len(s)) = k
      BY <1>2, <2>2
    <3>2. st[k] = t[k - Len(s)]
      BY <1>1, <3>1 DEF st
    <3> QED  BY <1>2, <3>1, <3>2 DEF Members
  <2> QED  BY <2>1, <2>2
<1>4. ASSUME NEW k \in DOMAIN s  PROVE s[k] \in Members(st)
  <2>1. k \in DOMAIN st /\ st[k] = s[k]
    BY <1>1, <1>2 DEF st
  <2> QED  BY <2>1 DEF Members
<1>5. ASSUME NEW k \in DOMAIN t  PROVE t[k] \in Members(st)
  <2>1. Len(s) + k \in DOMAIN st /\ st[Len(s) + k] = t[k]
    BY <1>1, <1>2 DEF st
  <2> QED  BY <2>1 DEF Members
<1>6. Members(st) = Members(s) \cup Members(t)
  BY <1>3, <1>4, <1>5 DEF Members
<1> QED  BY <1>1, <1>6 DEF st

\* What was popped and what is left make up the two vectors.
LEMMA PoppedAndLeft ==
  ASSUME TypeOK, Ready(N, executors, pinners), item.executor = ElectedExecutor(executors),
         NEW j \in 0 .. Len(pinners), NEW i \in 0 .. Len(executors) - 1, LoopAt(j, i)
  PROVE  {item.executor} \cup Members(item.elected) \cup Members(item.executors)
           \cup Members(item.pinners) = Members(executors) \cup Members(pinners)
<1> DEFINE E == Len(executors)
           P == Len(pinners)
           all == Members(executors) \cup Members(pinners)
           parts == {item.executor} \cup Members(item.elected) \cup Members(item.executors)
                      \cup Members(item.pinners)
<1>1. /\ executors \in Seq(Candidates) /\ pinners \in Seq(Candidates)
      /\ E \in Nat \ {0} /\ P \in Nat
      /\ Len(item.pinners) = P - j /\ Len(item.executors) = E - 1 - i
      /\ item.elected \in Seq(Candidates) /\ Len(item.elected) = j + i
  BY LoopFields
<1>2. /\ DOMAIN executors = 1 .. E /\ DOMAIN pinners = 1 .. P /\ DOMAIN item.elected = 1 .. j + i
      /\ DOMAIN item.pinners = 1 .. P - j /\ DOMAIN item.executors = 1 .. E - 1 - i
  BY <1>1 DEF TypeOK, InfoOK
<1>3. /\ item.executor = executors[E]
      /\ \A k \in 1 .. P - j : item.pinners[k] = pinners[k]
      /\ \A k \in 1 .. E - 1 - i : item.executors[k] = executors[k]
  BY <1>1 DEF LoopAt, ElectedExecutor
<1>4. \A k \in 1 .. j + i : item.elected[k] = IF k <= j THEN pinners[P + 1 - k]
                                              ELSE executors[E - (k - j)]
  BY DEF LoopAt, TakenSoFar
<1> HIDE DEF E, P
<1>5. ASSUME NEW k \in 1 .. E  PROVE executors[k] \in parts
  <2>1. CASE k = E
    BY <1>3, <2>1
  <2>2. CASE k \in 1 .. E - 1 - i
    BY <1>2, <1>3, <2>2 DEF Members
  <2>3. CASE k \in E - i .. E - 1
    <3>1. j + (E - k) \in 1 .. j + i /\ ~(j + (E - k) <= j) /\ E - ((j + (E - k)) - j) = k
      BY <1>1, <2>3 DEF P
    <3>2. item.elected[j + (E - k)] = executors[k]
      BY <1>4, <3>1
    <3>3. executors[k] \in Members(item.elected)
      BY <1>2, <3>1, <3>2 DEF Members
    <3> QED  BY <3>3
  <2>4. k = E \/ k \in 1 .. E - 1 - i \/ k \in E - i .. E - 1
    BY <1>1 DEF E
  <2> QED  BY <2>1, <2>2, <2>3, <2>4
<1>6. ASSUME NEW k \in 1 .. P  PROVE pinners[k] \in parts
  <2>1. CASE k \in 1 .. P - j
    BY <1>2, <1>3, <2>1 DEF Members
  <2>2. CASE k \in P + 1 - j .. P
    <3>1. P + 1 - k \in 1 .. j + i /\ P + 1 - k <= j /\ P + 1 - (P + 1 - k) = k
      BY <1>1, <2>2 DEF E
    <3>2. item.elected[P + 1 - k] = pinners[k]
      BY <1>4, <3>1
    <3>3. pinners[k] \in Members(item.elected)
      BY <1>2, <3>1, <3>2 DEF Members
    <3> QED  BY <3>3
  <2>3. k \in 1 .. P - j \/ k \in P + 1 - j .. P
    BY <1>1 DEF P
  <2> QED  BY <2>1, <2>2, <2>3
<1>7. ASSUME NEW k \in 1 .. j + i  PROVE item.elected[k] \in all
  <2>1. CASE k <= j
    <3>1. P + 1 - k \in 1 .. P /\ item.elected[k] = pinners[P + 1 - k]
      BY <1>1, <1>4, <2>1 DEF P
    <3> QED  BY <1>2, <3>1 DEF Members
  <2>2. CASE ~(k <= j)
    <3>1. E - (k - j) \in 1 .. E /\ item.elected[k] = executors[E - (k - j)]
      BY <1>1, <1>4, <2>2 DEF E
    <3> QED  BY <1>2, <3>1 DEF Members
  <2> QED  BY <2>1, <2>2
<1>8. item.executor \in all
  BY <1>1, <1>2, <1>3 DEF Members
<1>9. ASSUME NEW k \in 1 .. P - j  PROVE item.pinners[k] \in all
  <2>1. k \in 1 .. P
    BY <1>1 DEF P
  <2> QED  BY <1>2, <1>3, <2>1 DEF Members
<1>10. ASSUME NEW k \in 1 .. E - 1 - i  PROVE item.executors[k] \in all
  <2>1. k \in 1 .. E
    BY <1>1 DEF E
  <2> QED  BY <1>2, <1>3, <2>1 DEF Members
<1>11. Members(executors) \subseteq parts /\ Members(pinners) \subseteq parts
  <2> HIDE DEF parts
  <2> QED  BY <1>2, <1>5, <1>6 DEF Members
<1>12. /\ Members(item.elected) \subseteq all /\ Members(item.executors) \subseteq all
       /\ Members(item.pinners) \subseteq all
  <2> HIDE DEF all
  <2> QED  BY <1>2, <1>7, <1>9, <1>10 DEF Members
<1> HIDE DEF all
<1>13. parts = all
  <2>1. parts \subseteq all
    BY <1>8, <1>12
  <2>2. all \subseteq parts
    BY <1>11 DEF all
  <2> QED  BY <2>1, <2>2
<1> QED  BY <1>13 DEF all

\* At every iteration of every election, each stored candidate is the executor,
\* an elected pinner or still in its vector, and is there once.
THEOREM NobodyIsLost == Spec => []ElectionPartitions
<1>1. ASSUME TypeOK, ElectionUnderWay  PROVE ElectionPartitions
  <2> SUFFICES ASSUME phase = "electing"
               PROVE  LET parts == <<item.executor>> \o item.elected \o item.executors \o item.pinners
                      IN  /\ Len(parts) = Arrived
                          /\ Members(parts) = Members(executors) \cup Members(pinners)
    BY DEF ElectionPartitions
  <2>1. Ready(N, executors, pinners) /\ item.executor = ElectedExecutor(executors)
    BY <1>1 DEF ElectionUnderWay
  <2>2. PICK j \in 0 .. Len(pinners), i \in 0 .. Len(executors) - 1 : LoopAt(j, i)
    BY <1>1 DEF ElectionUnderWay
  <2>3. /\ executors \in Seq(Candidates) /\ Len(executors) \in Nat \ {0} /\ Len(pinners) \in Nat
        /\ Len(item.pinners) = Len(pinners) - j
        /\ Len(item.executors) = Len(executors) - 1 - i
        /\ Len(item.elected) = j + i
    BY <1>1, <2>1, <2>2, LoopFields
  <2>4. /\ item.elected \in Seq(Candidates) /\ item.executors \in Seq(Candidates)
        /\ item.pinners \in Seq(Candidates)
    BY <1>1 DEF TypeOK, InfoOK
  <2> DEFINE x == <<item.executor>>
             xa == x \o item.elected
             xab == xa \o item.executors
             parts == xab \o item.pinners
  <2>5. item.executor \in Candidates
    BY <2>1, <2>3 DEF ElectedExecutor
  <2>6. x \in Seq(Candidates) /\ Len(x) = 1
    BY <2>5
  <2>7. Members(x) = {item.executor}
    BY DEF Members
  <2> HIDE DEF x
  <2>8. /\ xa \in Seq(Candidates) /\ Len(xa) = 1 + (j + i)
        /\ Members(xa) = {item.executor} \cup Members(item.elected)
    BY <2>3, <2>4, <2>6, <2>7, MembersOfBoth
  <2> HIDE DEF xa
  <2>9. /\ xab \in Seq(Candidates) /\ Len(xab) = Len(xa) + (Len(executors) - 1 - i)
        /\ Members(xab) = Members(xa) \cup Members(item.executors)
    BY <2>3, <2>4, <2>8, MembersOfBoth
  <2> HIDE DEF xab
  <2>10. /\ Len(parts) = Len(xab) + (Len(pinners) - j)
         /\ Members(parts) = Members(xab) \cup Members(item.pinners)
    BY <2>3, <2>4, <2>9, MembersOfBoth
  <2> HIDE DEF parts
  <2>11. Len(parts) = Arrived
    BY <2>3, <2>8, <2>9, <2>10 DEF Arrived
  <2>12. {item.executor} \cup Members(item.elected) \cup Members(item.executors)
           \cup Members(item.pinners) = Members(executors) \cup Members(pinners)
    BY <1>1, <2>1, <2>2, PoppedAndLeft
  <2>13. Members(parts) = Members(executors) \cup Members(pinners)
    BY <2>8, <2>9, <2>10, <2>12
  <2> QED  BY <2>11, <2>13 DEF parts, xab, xa, x
<1> QED  BY <1>1, ElectionTypeCorrect, LoopTakesFromTheEnd, PTL
=============================================================================
