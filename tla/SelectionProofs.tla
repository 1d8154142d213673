-------------------------- MODULE SelectionProofs --------------------------
(***************************************************************************)
(* Theorems about the selection of swarm peers, for all tasks and swarms.  *)
(***************************************************************************)
EXTENDS CandidateSelection, FiniteSetTheorems, WellFoundedInduction, TLAPS

\* What the proof needs to know of the variables: while peers are left, they are
\* peers of the swarm and the task is one that was validated.
SelectionType ==
  /\ call \in Cases
  /\ distance \in Nat
  /\ left \subseteq Positions
  /\ left # {} => Valid(info)
  /\ phase = "event" => distance = 0

\* The numbers of a task fit into a byte, whatever layer1 sent.
LEMMA InfoFits ==
  ASSUME SelectionType
  PROVE  n \in 0 .. U8 - 1
<1>1. call.event.n \in Nat
  BY SelectionAssumption DEF SelectionType
<1>2. call.event.n % 256 \in 0 .. 255
  BY <1>1
<1> QED  BY <1>2 DEF n, info, FromResponse, U8

\* Two lucky numbers are less than n apart.
LEMMA LessThanNAway ==
  ASSUME SelectionType, Valid(info), NEW i \in Positions
  PROVE  Away(i) \in 0 .. n - 1
<1>1. n \in Nat /\ n # 0
  BY InfoFits DEF SelectionType, Valid, n, U8
<1>2. call.swarm[i] \in Nat /\ call.task \in Nat
  <2>1. call.task \in Byte /\ call.swarm \in Seq(Byte) /\ i \in DOMAIN call.swarm
    BY SelectionAssumption DEF SelectionType, Positions
  <2>2. call.swarm[i] \in Byte
    BY <2>1
  <2>3. \A x \in Byte : x \in Nat
    BY DEF Byte
  <2> QED  BY <2>1, <2>2, <2>3
<1> DEFINE a == LuckyNumber(call.swarm[i])
           b == LuckyNumber(call.task)
<1>3. ASSUME NEW x \in Nat  PROVE LuckyNumber(x) \in 0 .. n - 1
  <2> DEFINE d == n
  <2>1. d \in Nat /\ d # 0
    BY <1>1
  <2> HIDE DEF d
  <2>2. x % d \in 0 .. d - 1
    BY <2>1
  <2> QED  BY <2>2 DEF LuckyNumber, d
<1>4. a \in 0 .. n - 1 /\ b \in 0 .. n - 1
  BY <1>2, <1>3
<1>5. Away(i) = IF a >= b THEN a - b ELSE b - a
  BY DEF Away
<1> HIDE DEF a, b
<1> QED  BY <1>1, <1>4, <1>5

\* A step of the loop goes one ring further, which is still less than n.
LEMMA RingGrows ==
  ASSUME SelectionType, RingsBounded, CollectRing
  PROVE  distance < n /\ distance' = distance + 1
<1>1. left # {} /\ left' = {i \in left : Away(i) > distance}
  BY DEF CollectRing, Collecting
<1>2. PICK i \in left : TRUE
  BY <1>1
<1>3. distance < n
  <2>1. Away(i) \in 0 .. n - 1 /\ distance <= Away(i)
    BY <1>1, LessThanNAway DEF SelectionType, RingsBounded
  <2>2. n \in Nat /\ distance \in Nat
    BY InfoFits DEF SelectionType, U8
  <2> QED  BY <2>1, <2>2
<1>4. distance' = distance + 1
  <2>1. distance' = (distance + 1) % 256 /\ distance \in Nat
    BY DEF CollectRing, SelectionType, U8
  <2>2. distance + 1 \in 0 .. 255
    BY <1>3, <2>1, InfoFits DEF U8
  <2> QED  BY <2>1, <2>2
<1> QED  BY <1>3, <1>4

\* The invariant: the two together are inductive.
LEMMA TypeAndRings == Spec => [](SelectionType /\ RingsBounded)
<1> DEFINE Inv == SelectionType /\ RingsBounded
<1>1. Init => Inv
  <2> SUFFICES ASSUME Init  PROVE Inv
    OBVIOUS
  <2>1. SelectionType
    BY DEF Init, SelectionType
  <2>2. 0 <= n
    BY <2>1, InfoFits DEF U8
  <2> QED  BY <2>1, <2>2 DEF Init, RingsBounded
<1>2. Inv /\ [Next]_vars => Inv'
  <2> SUFFICES ASSUME Inv, [Next]_vars  PROVE Inv'
    OBVIOUS
  <2>1. call' = call
    BY DEF Next, Reject, Start, CollectRing, Invite, vars
  <2>2. n' = n /\ info' = info /\ Positions' = Positions /\ \A i : Away(i)' = Away(i)
    BY <2>1 DEF n, info, Positions, Away, LuckyNumber
  <2>3. CASE left' = left /\ distance' = distance /\ phase' # "event"
    <3>1. SelectionType'
      BY <2>1, <2>2, <2>3 DEF SelectionType
    <3>2. RingsBounded'
      BY <2>2, <2>3 DEF RingsBounded
    <3> QED  BY <3>1, <3>2
  <2>4. CASE Start
    <3>1. /\ distance' = distance /\ left' \subseteq Positions /\ Valid(info)
          /\ phase = "event" /\ phase' # "event"
      BY <2>4 DEF Start
    <3>2. SelectionType'
      BY <2>1, <2>2, <3>1 DEF SelectionType
    <3>3. distance' = 0 /\ distance' <= n
      BY <3>1 DEF SelectionType, RingsBounded
    <3>4. ASSUME NEW i \in left'  PROVE Away(i) >= distance'
      <4>1. Away(i) \in 0 .. n - 1
        BY <3>1, LessThanNAway
      <4> QED  BY <3>3, <4>1
    <3> QED  BY <2>2, <3>2, <3>3, <3>4 DEF RingsBounded
  <2>5. CASE CollectRing
    <3>1. left # {} /\ left' = {i \in left : Away(i) > distance}
      BY <2>5 DEF CollectRing, Collecting
    <3>3. distance < n
      BY <2>5, RingGrows
    <3>4. distance' = distance + 1
      BY <2>5, RingGrows
    <3>5. SelectionType'
      <4>1. phase' # "event"
        BY <2>5 DEF CollectRing, Collecting
      <4> QED  BY <2>1, <2>2, <3>1, <3>4, <4>1 DEF SelectionType
    <3>6. \A j \in left' : Away(j) >= distance'
      <4> SUFFICES ASSUME NEW j \in left'  PROVE Away(j) >= distance'
        OBVIOUS
      <4>1. Away(j) \in 0 .. n - 1 /\ Away(j) > distance
        BY <3>1, LessThanNAway DEF SelectionType
      <4>2. n \in Nat /\ distance \in Nat
        BY InfoFits DEF SelectionType, U8
      <4> QED  BY <3>4, <4>1, <4>2
    <3>7. distance' <= n
      <4>1. n \in Nat /\ distance \in Nat
        BY InfoFits DEF SelectionType, U8
      <4> QED  BY <3>3, <3>4, <4>1
    <3> QED  BY <2>2, <3>5, <3>6, <3>7 DEF RingsBounded
  <2>6. Reject \/ Invite => left' = left /\ distance' = distance /\ phase' # "event"
    BY DEF Reject, Invite
  <2>7. CASE UNCHANGED vars
    BY <2>2, <2>7 DEF vars, SelectionType, RingsBounded
  <2> QED  BY <2>3, <2>4, <2>5, <2>6, <2>7 DEF Next
<1> QED  BY <1>1, <1>2, PTL DEF Spec

\* The distance, a u8, never overflows: each ring that is looked at while peers
\* are left is less than n away, and what is left is further away than every
\* ring so far.
THEOREM DistanceFits == Spec => []RingsBounded
<1>1. SelectionType /\ RingsBounded => RingsBounded
  OBVIOUS
<1> QED  BY <1>1, TypeAndRings, PTL
-----------------------------------------------------------------------------
(* Who is invited.  First what the filter, a recursive function, returns. *)

\* Among natural numbers there is always a least one: what stands in for an
\* induction, on the least counterexample.
LEMMA LeastNumber ==
  ASSUME NEW T, T \subseteq Nat, T # {}
  PROVE  \E x \in T : \A y \in T : x <= y
<1> DEFINE R == {ss \in Nat \X Nat : ss[1] < ss[2]}
<1>1. IsWellFoundedOn(R, Nat)
  <2>1. OpToRel(<, Nat) = R
    BY DEF OpToRel
  <2> HIDE DEF R
  <2> QED  BY <2>1, NatLessThanWellFounded
<1> HIDE DEF R
<1>2. PICK x \in T : \A y \in T : <<y, x>> \notin R
  BY <1>1, WFMin
<1>3. ASSUME NEW y \in T  PROVE x <= y
  <2>1. x \in Nat /\ y \in Nat /\ <<y, x>> \notin R
    BY <1>2
  <2>2. ~(y < x)
    BY <2>1 DEF R
  <2> QED  BY <2>1, <2>2
<1> QED  BY <1>3

\* One position of the filter.
FilterStep(peers, g, i) == IF i \in peers THEN Append(g[i - 1], i) ELSE g[i - 1]

\* The function that InOrder computes, up to position m.
FiltersTo(peers, g, m) ==
  g = [i \in 0 .. m |-> IF i = 0 THEN <<>> ELSE FilterStep(peers, g, i)]

\* There is such a function: take the least length for which there is none.
LEMMA FilterExists ==
  ASSUME NEW peers, NEW m \in Nat
  PROVE  \E g : FiltersTo(peers, g, m)
<1> DEFINE T == {k \in Nat : ~\E g : FiltersTo(peers, g, k)}
<1> SUFFICES ASSUME m \in T  PROVE FALSE
  OBVIOUS
<1> HIDE DEF T
<1>1. PICK k \in T : \A y \in T : k <= y
  <2>1. T \subseteq Nat
    BY DEF T
  <2> QED  BY <2>1, LeastNumber
<1>2. k \in Nat /\ ~\E g : FiltersTo(peers, g, k)
  BY DEF T
<1>3. k # 0
  <2>1. FiltersTo(peers, [i \in 0 .. 0 |-> <<>>], 0)
    BY DEF FiltersTo
  <2> QED  BY <1>2, <2>1
<1>4. PICK g : FiltersTo(peers, g, k - 1)
  <2>1. k - 1 \in Nat /\ ~(k <= k - 1)
    BY <1>2, <1>3
  <2> QED  BY <1>1, <2>1 DEF T
<1> DEFINE h == [i \in 0 .. k |-> IF i = k THEN FilterStep(peers, g, k) ELSE g[i]]
<1>5. \A i \in 0 .. k - 1 : h[i] = g[i] /\ g[i] = IF i = 0 THEN <<>> ELSE FilterStep(peers, g, i)
  <2>1. \A i \in 0 .. k - 1 : i \in 0 .. k /\ i # k
    BY <1>2
  <2>2. g = [i \in 0 .. k - 1 |-> IF i = 0 THEN <<>> ELSE FilterStep(peers, g, i)]
    BY <1>4 DEF FiltersTo
  <2>3. \A i \in 0 .. k - 1 : g[i] = IF i = 0 THEN <<>> ELSE FilterStep(peers, g, i)
    BY <2>2
  <2> QED  BY <2>1, <2>3
<1>6. ASSUME NEW i \in 0 .. k
      PROVE  h[i] = IF i = 0 THEN <<>> ELSE FilterStep(peers, h, i)
  <2>1. CASE i = 0
    <3>1. 0 \in 0 .. k - 1
      BY <1>2, <1>3
    <3>2. h[0] = g[0] /\ g[0] = <<>>
      BY <1>5, <3>1
    <3> QED  BY <2>1, <3>2
  <2>2. CASE i # 0
    <3>1. i - 1 \in 0 .. k - 1
      BY <1>2, <2>2
    <3>2. h[i - 1] = g[i - 1]
      BY <1>5, <3>1
    <3>3. FilterStep(peers, h, i) = FilterStep(peers, g, i)
      BY <3>2 DEF FilterStep
    <3>4. CASE i = k
      BY <2>2, <3>3, <3>4
    <3>5. CASE i # k
      <4>1. i \in 0 .. k - 1
        BY <1>2, <3>5
      <4> QED  BY <1>5, <2>2, <3>3, <4>1
    <3> QED  BY <3>4, <3>5
  <2> QED  BY <2>1, <2>2
<1>7. h = [i \in 0 .. k |-> IF i = 0 THEN <<>> ELSE FilterStep(peers, h, i)]
  BY <1>6
<1>8. FiltersTo(peers, h, k)
  <2> HIDE DEF h
  <2> QED  BY <1>7 DEF FiltersTo
<1> QED  BY <1>2, <1>8

\* The sequence has these peers, each once, in the order of the swarm.
Sorted(s, peers) ==
  /\ s \in Seq(peers)
  /\ \A a, b \in DOMAIN s : a < b => s[a] < s[b]
  /\ \A i \in peers : \E a \in DOMAIN s : s[a] = i

\* A position after all the others goes to the end.
LEMMA AppendSorted ==
  ASSUME NEW k \in Nat, NEW S, S \subseteq 1 .. k, NEW s, Sorted(s, S)
  PROVE  Sorted(Append(s, k + 1), S \cup {k + 1})
<1> DEFINE t == Append(s, k + 1)
           R == S \cup {k + 1}
<1>1. s \in Seq(S) /\ s \in Seq(R)
  BY DEF Sorted
<1>2. /\ t \in Seq(R) /\ Len(t) = Len(s) + 1 /\ t[Len(s) + 1] = k + 1
      /\ \A a \in 1 .. Len(s) : t[a] = s[a] /\ s[a] \in S
      /\ Len(s) \in Nat /\ DOMAIN s = 1 .. Len(s) /\ DOMAIN t = 1 .. Len(s) + 1
  BY <1>1
<1> HIDE DEF t
<1>3. ASSUME NEW a \in DOMAIN t, NEW b \in DOMAIN t, a < b  PROVE t[a] < t[b]
  <2>1. a \in 1 .. Len(s)
    BY <1>2, <1>3
  <2>2. CASE b \in 1 .. Len(s)
    BY <1>2, <1>3, <2>1, <2>2 DEF Sorted
  <2>3. CASE b = Len(s) + 1
    <3>1. t[a] \in 1 .. k /\ t[b] = k + 1
      BY <1>2, <2>1, <2>3
    <3> QED  BY <3>1
  <2> QED  BY <1>2, <2>2, <2>3
<1>4. ASSUME NEW i \in R  PROVE \E a \in DOMAIN t : t[a] = i
  <2>1. CASE i = k + 1
    <3>1. Len(s) + 1 \in DOMAIN t
      BY <1>2
    <3> QED  BY <1>2, <2>1, <3>1
  <2>2. CASE i \in S
    <3>1. PICK a \in DOMAIN s : s[a] = i
      BY <2>2 DEF Sorted
    <3>2. a \in DOMAIN t /\ t[a] = i
      BY <1>2, <3>1
    <3> QED  BY <3>2
  <2> QED  BY <2>1, <2>2
<1> QED  BY <1>2, <1>3, <1>4 DEF Sorted, t

\* What the filter has after each position: the least one where it goes wrong is
\* neither the first nor a later one.
LEMMA FilterSorts ==
  ASSUME NEW peers, NEW m \in Nat, NEW g, FiltersTo(peers, g, m)
  PROVE  \A k \in 0 .. m : Sorted(g[k], peers \cap 1 .. k)
<1> DEFINE T == {k \in 0 .. m : ~Sorted(g[k], peers \cap 1 .. k)}
<1> SUFFICES ASSUME T # {}  PROVE FALSE
  OBVIOUS
<1> HIDE DEF T
<1>1. PICK k \in T : \A y \in T : k <= y
  <2>1. T \subseteq Nat
    BY DEF T
  <2> QED  BY <2>1, LeastNumber
<1>2. k \in 0 .. m /\ ~Sorted(g[k], peers \cap 1 .. k)
  BY DEF T
<1>3. g[k] = IF k = 0 THEN <<>> ELSE FilterStep(peers, g, k)
  <2>1. g = [i \in 0 .. m |-> IF i = 0 THEN <<>> ELSE FilterStep(peers, g, i)]
    BY DEF FiltersTo
  <2> QED  BY <1>2, <2>1
<1>4. k # 0
  <2>1. Sorted(<<>>, {})
    BY DEF Sorted
  <2>2. peers \cap 1 .. 0 = {}
    OBVIOUS
  <2> QED  BY <1>2, <1>3, <2>1, <2>2
<1>5. k - 1 \in 0 .. m /\ k - 1 \in Nat /\ (k - 1) + 1 = k /\ ~(k <= k - 1)
  BY <1>2, <1>4
<1>6. Sorted(g[k - 1], peers \cap 1 .. k - 1)
  BY <1>1, <1>5 DEF T
<1>7. CASE k \in peers
  <2>1. g[k] = Append(g[k - 1], k)
    BY <1>3, <1>4, <1>7 DEF FilterStep
  <2>2. (peers \cap 1 .. k - 1) \cup {k} = peers \cap 1 .. k
    BY <1>2, <1>4, <1>7
  <2>3. Sorted(Append(g[k - 1], (k - 1) + 1), (peers \cap 1 .. k - 1) \cup {(k - 1) + 1})
    BY <1>5, <1>6, AppendSorted
  <2> QED  BY <1>2, <1>5, <2>1, <2>2, <2>3
<1>8. CASE k \notin peers
  <2>1. g[k] = g[k - 1]
    BY <1>3, <1>4, <1>8 DEF FilterStep
  <2>2. peers \cap 1 .. k - 1 = peers \cap 1 .. k
    BY <1>2, <1>4, <1>8
  <2> QED  BY <1>2, <1>6, <2>1, <2>2
<1> QED  BY <1>7, <1>8

\* The filter returns the peers it was asked for, in the order of the swarm.
LEMMA InOrderSorts ==
  ASSUME call.swarm \in Seq(Byte), NEW peers, peers \subseteq Positions
  PROVE  Sorted(InOrder(peers), peers)
<1> DEFINE m == Len(call.swarm)
           f == CHOOSE g : g = [i \in 0 .. m |->
                  IF i = 0 THEN <<>> ELSE IF i \in peers THEN Append(g[i - 1], i) ELSE g[i - 1]]
<1>1. m \in Nat /\ Positions = 1 .. m
  BY DEF Positions
<1>2. f = CHOOSE g : FiltersTo(peers, g, m)
  BY DEF FiltersTo, FilterStep
<1>3. InOrder(peers) = f[m]
  BY DEF InOrder
<1> HIDE DEF m, f
<1>4. FiltersTo(peers, f, m)
  BY <1>1, <1>2, FilterExists
<1>5. Sorted(f[m], peers \cap 1 .. m)
  <2>1. m \in 0 .. m
    BY <1>1
  <2>2. \A k \in 0 .. m : Sorted(f[k], peers \cap 1 .. k)
    BY <1>1, <1>4, FilterSorts
  <2> QED  BY <2>1, <2>2
<1>6. peers \cap 1 .. m = peers
  BY <1>1
<1> QED  BY <1>3, <1>5, <1>6

\* The sequence has these peers, each once, in whatever order.
Lists(s, peers) ==
  /\ s \in Seq(peers)
  /\ \A a, b \in DOMAIN s : a # b => s[a] # s[b]
  /\ \A i \in peers : \E a \in DOMAIN s : s[a] = i

\* Such a sequence is as long as there are peers.
LEMMA ListCounts ==
  ASSUME NEW peers, NEW s, Lists(s, peers)
  PROVE  Len(s) \in Nat /\ Cardinality(peers) = Len(s)
<1>1. /\ Len(s) \in Nat /\ DOMAIN s = 1 .. Len(s)
      /\ s \in [1 .. Len(s) -> peers]
  BY DEF Lists
<1>2. s \in Injection(1 .. Len(s), peers) /\ s \in Surjection(1 .. Len(s), peers)
  BY <1>1 DEF Lists, Injection, IsInjective, Surjection
<1>3. ExistsBijection(1 .. Len(s), peers)
  BY <1>2 DEF ExistsBijection, Bijection
<1> QED  BY <1>1, <1>3, FS_CountingElements

\* With too few peers all of them are taken.
Few == Len(call.swarm) < 2 * n

\* i is nearer than j, or stands before it at the same distance.
Before(i, j) == Away(i) < Away(j) \/ (Away(i) = Away(j) /\ i < j)

\* The invariant: the chosen peers are those that are not left, each once, ring
\* by ring, and in the end the first 2n of them are invited.
Choice ==
  phase \in {"collecting", "invited"} =>
    /\ Valid(info)
    /\ left \subseteq Positions
    /\ Lists(chosen, Positions \ left)
    /\ Few => left = {}
    /\ ~Few => /\ \A a, b \in DOMAIN chosen : a < b => Before(chosen[a], chosen[b])
               /\ \A a \in DOMAIN chosen : Away(chosen[a]) < distance

Limit == IF Len(chosen) < 2 * n THEN Len(chosen) ELSE 2 * n

Invitation ==
  phase = "invited" =>
    /\ accepted = SubSeq(chosen, 1, Limit)
    /\ ~(Len(chosen) < 2 * n /\ left # {})

\* A number of a validated task passes the validation of the candidate unchanged.
LEMMA StillValid ==
  ASSUME SelectionType, Valid(info)
  PROVE  Valid(FromRequest(Request(info)))
<1>1. call.event.n \in Nat /\ call.event.k \in Nat
  BY SelectionAssumption DEF SelectionType
<1>2. info = [n |-> call.event.n % 256, k |-> call.event.k % 256]
  BY DEF info, FromResponse, U8
<1>3. info.n \in 0 .. 255 /\ info.k \in 0 .. 255
  BY <1>1, <1>2
<1>4. info.n % 256 = info.n /\ info.k % 256 = info.k
  BY <1>3
<1>5. FromRequest(Request(info)) = [n |-> info.n, k |-> info.k]
  BY <1>4 DEF FromRequest, Request, U8
<1> QED  BY <1>5 DEF Valid

\* What a sorted ring adds to the end of the chosen peers.
LEMMA ListGrows ==
  ASSUME NEW S, NEW T, \A i \in S : i \notin T, S \subseteq Nat, T \subseteq Nat,
         NEW s, Lists(s, S), NEW t, Sorted(t, T)
  PROVE  /\ Lists(s \o t, S \cup T)
         /\ DOMAIN s = 1 .. Len(s) /\ DOMAIN t = 1 .. Len(t)
         /\ Len(s) \in Nat /\ Len(t) \in Nat
         /\ DOMAIN (s \o t) = 1 .. Len(s) + Len(t)
         /\ \A a \in 1 .. Len(s) : (s \o t)[a] = s[a] /\ s[a] \in S
         /\ \A a \in 1 .. Len(t) : (s \o t)[Len(s) + a] = t[a] /\ t[a] \in T
<1> DEFINE u == s \o t
           R == S \cup T
<1>1. s \in Seq(S) /\ t \in Seq(T) /\ s \in Seq(R) /\ t \in Seq(R)
  BY DEF Lists, Sorted
<1>2. /\ u \in Seq(R) /\ DOMAIN s = 1 .. Len(s) /\ DOMAIN t = 1 .. Len(t)
      /\ Len(s) \in Nat /\ Len(t) \in Nat /\ DOMAIN u = 1 .. Len(s) + Len(t)
      /\ \A a \in 1 .. Len(s) : s[a] \in S
      /\ \A a \in 1 .. Len(t) : t[a] \in T
  BY <1>1
<1>3. /\ \A a \in 1 .. Len(s) : u[a] = s[a]
      /\ \A a \in 1 .. Len(t) : u[Len(s) + a] = t[a]
  BY <1>1
<1> HIDE DEF u
<1>4. ASSUME NEW a \in DOMAIN u
      PROVE  \/ a \in 1 .. Len(s)
             \/ a - Len(s) \in 1 .. Len(t) /\ a = Len(s) + (a - Len(s))
  BY <1>2
<1>5. ASSUME NEW a \in 1 .. Len(t), NEW b \in 1 .. Len(t), a # b  PROVE t[a] # t[b]
  <2>1. t[a] \in Nat /\ t[b] \in Nat
    BY <1>2
  <2>2. a < b \/ b < a
    BY <1>2, <1>5
  <2>3. t[a] < t[b] \/ t[b] < t[a]
    BY <1>2, <2>2 DEF Sorted
  <2> QED  BY <2>1, <2>3
<1>6. ASSUME NEW a \in DOMAIN u, NEW b \in DOMAIN u, a # b  PROVE u[a] # u[b]
  <2>1. CASE a \in 1 .. Len(s) /\ b \in 1 .. Len(s)
    BY <1>2, <1>3, <1>6, <2>1 DEF Lists
  <2>2. CASE a \in 1 .. Len(s) /\ b \notin 1 .. Len(s)
    <3>1. u[a] \in S
      BY <1>2, <1>3, <2>2
    <3>2. u[b] \in T
      BY <1>2, <1>3, <1>4, <2>2
    <3> QED  BY <3>1, <3>2
  <2>3. CASE a \notin 1 .. Len(s) /\ b \in 1 .. Len(s)
    <3>1. u[b] \in S
      BY <1>2, <1>3, <2>3
    <3>2. u[a] \in T
      BY <1>2, <1>3, <1>4, <2>3
    <3> QED  BY <3>1, <3>2
  <2>4. CASE a \notin 1 .. Len(s) /\ b \notin 1 .. Len(s)
    <3> DEFINE x == a - Len(s)
               y == b - Len(s)
    <3>1. x \in 1 .. Len(t) /\ y \in 1 .. Len(t) /\ a = Len(s) + x /\ b = Len(s) + y
      BY <1>4, <2>4
    <3> HIDE DEF x, y
    <3>2. x # y
      BY <1>6, <3>1
    <3>3. u[a] = t[x] /\ u[b] = t[y]
      BY <1>3, <3>1
    <3> QED  BY <1>5, <3>1, <3>2, <3>3
  <2> QED  BY <2>1, <2>2, <2>3, <2>4
<1>7. ASSUME NEW i \in R  PROVE \E a \in DOMAIN u : u[a] = i
  <2>1. CASE i \in S
    <3>1. PICK a \in 1 .. Len(s) : s[a] = i
      BY <1>2, <2>1 DEF Lists
    <3>2. a \in DOMAIN u
      BY <1>2
    <3> QED  BY <1>3, <3>1, <3>2
  <2>2. CASE i \in T
    <3>1. PICK a \in 1 .. Len(t) : t[a] = i
      BY <1>2, <2>2 DEF Sorted
    <3>2. Len(s) + a \in DOMAIN u
      BY <1>2
    <3> QED  BY <1>3, <3>1, <3>2
  <2> QED  BY <2>1, <2>2
<1>8. Lists(u, R)
  BY <1>2, <1>6, <1>7 DEF Lists
<1> QED  BY <1>2, <1>3, <1>8 DEF u

\* A step of the loop keeps the candidates in the order of their distance.
LEMMA RingInOrder ==
  ASSUME SelectionType, RingsBounded, Choice, CollectRing
  PROVE  /\ Lists(chosen', Positions \ left')
         /\ \A a, b \in DOMAIN chosen' : a < b => Before(chosen'[a], chosen'[b])
         /\ \A a \in DOMAIN chosen' : Away(chosen'[a]) <= distance
<1> DEFINE S == Positions \ left
           T == left \ left'
           t == InOrder(T)
<1>1. /\ phase = "collecting" /\ left # {} /\ left \subseteq Positions
      /\ left' = {i \in left : Away(i) > distance}
      /\ chosen' = chosen \o t
  BY DEF CollectRing, Collecting, SelectionType
<1>2. Lists(chosen, S) /\ ~Few /\ Valid(info)
  BY <1>1 DEF Choice
<1>3. Positions \subseteq Nat /\ call.swarm \in Seq(Byte)
  BY SelectionAssumption DEF SelectionType, Positions
<1>4. /\ T \subseteq Positions /\ T \subseteq Nat /\ S \subseteq Nat /\ \A i \in S : i \notin T
      /\ S \cup T = Positions \ left'
  BY <1>1, <1>3
<1>5. Sorted(t, T)
  BY <1>3, <1>4, InOrderSorts
<1>6. ASSUME NEW i \in Positions  PROVE Away(i) \in Nat
  BY <1>2, LessThanNAway, InfoFits DEF U8
<1>7. distance \in Nat
  BY DEF SelectionType
<1>8. ASSUME NEW i \in T  PROVE Away(i) = distance
  <2>1. i \in left /\ ~(Away(i) > distance) /\ Away(i) >= distance
    BY <1>1 DEF RingsBounded
  <2> QED  BY <1>1, <1>6, <1>7, <2>1
<1>9. ASSUME NEW a \in DOMAIN chosen
      PROVE  chosen[a] \in S /\ Away(chosen[a]) < distance
  <2>1. chosen[a] \in S
    BY <1>2 DEF Lists
  <2> QED  BY <1>1, <1>2, <2>1 DEF Choice
<1>10. \A a, b \in DOMAIN chosen : a < b => Before(chosen[a], chosen[b])
  BY <1>1, <1>2 DEF Choice
<1> HIDE DEF S, T, t
<1>11. S \subseteq Nat /\ T \subseteq Nat /\ \A i \in S : i \notin T
  BY <1>4
<1>12. Lists(chosen, S) /\ Sorted(t, T)
  BY <1>2, <1>5
<1>13. /\ Lists(chosen \o t, S \cup T)
       /\ DOMAIN chosen = 1 .. Len(chosen) /\ DOMAIN t = 1 .. Len(t)
       /\ Len(chosen) \in Nat /\ Len(t) \in Nat
       /\ DOMAIN (chosen \o t) = 1 .. Len(chosen) + Len(t)
       /\ \A a \in 1 .. Len(chosen) : (chosen \o t)[a] = chosen[a] /\ chosen[a] \in S
       /\ \A a \in 1 .. Len(t) : (chosen \o t)[Len(chosen) + a] = t[a] /\ t[a] \in T
  BY ONLY <1>11, <1>12, ListGrows, Zenon
<1> DEFINE m == Len(chosen)
           l == Len(t)
           u == chosen \o t
<1>14. /\ Lists(u, S \cup T)
       /\ DOMAIN chosen = 1 .. m /\ DOMAIN t = 1 .. l /\ m \in Nat /\ l \in Nat
       /\ DOMAIN u = 1 .. m + l
       /\ \A a \in 1 .. m : u[a] = chosen[a] /\ chosen[a] \in S
       /\ \A a \in 1 .. l : u[m + a] = t[a] /\ t[a] \in T
  BY <1>13
<1> HIDE DEF m, l, u
<1>15. ASSUME NEW a \in DOMAIN u
       PROVE  \/ a \in 1 .. m
              \/ a - m \in 1 .. l /\ a = m + (a - m)
  BY <1>14
<1>16. ASSUME NEW a \in 1 .. m  PROVE Away(u[a]) < distance /\ u[a] \in Positions
  <2>1. u[a] = chosen[a] /\ chosen[a] \in S
    BY <1>14
  <2> QED  BY <1>9, <1>14, <2>1 DEF S
<1>17. ASSUME NEW a \in 1 .. l
       PROVE  Away(u[m + a]) = distance /\ u[m + a] \in Positions
  <2>1. u[m + a] = t[a] /\ t[a] \in T
    BY <1>14
  <2> QED  BY <1>4, <1>8, <2>1
<1>18. ASSUME NEW a \in DOMAIN u  PROVE Away(u[a]) <= distance
  <2>1. CASE a \in 1 .. m
    BY <1>6, <1>7, <1>16, <2>1
  <2>2. CASE a - m \in 1 .. l /\ a = m + (a - m)
    BY <1>7, <1>17, <2>2
  <2> QED  BY <1>15, <2>1, <2>2
<1>19. ASSUME NEW a \in DOMAIN u, NEW b \in DOMAIN u, a < b
       PROVE  Before(u[a], u[b])
  <2>1. CASE a \in 1 .. m /\ b \in 1 .. m
    <3>1. u[a] = chosen[a] /\ u[b] = chosen[b] /\ a \in DOMAIN chosen /\ b \in DOMAIN chosen
      BY <1>14, <2>1
    <3> QED  BY <1>10, <1>19, <3>1
  <2>2. CASE a \in 1 .. m /\ b - m \in 1 .. l /\ b = m + (b - m)
    <3>1. Away(u[b]) = distance
      BY <1>17, <2>2
    <3> QED  BY <1>16, <2>2, <3>1 DEF Before
  <2>3. CASE a - m \in 1 .. l /\ a = m + (a - m) /\ b - m \in 1 .. l /\ b = m + (b - m)
    <3> DEFINE x == a - m
               y == b - m
    <3>1. x \in 1 .. l /\ y \in 1 .. l /\ a = m + x /\ b = m + y
      BY <2>3
    <3>2. x < y
      BY <1>14, <1>19, <3>1
    <3> HIDE DEF x, y
    <3>3. u[a] = t[x] /\ u[b] = t[y]
      BY <1>14, <3>1
    <3>4. t[x] < t[y]
      BY <1>5, <1>14, <3>1, <3>2 DEF Sorted
    <3>5. Away(u[a]) = distance /\ Away(u[b]) = distance
      BY <1>17, <3>1
    <3> QED  BY <3>3, <3>4, <3>5 DEF Before
  <2>4. ~(a - m \in 1 .. l /\ b \in 1 .. m)
    BY <1>14, <1>19
  <2> QED  BY <1>15, <2>1, <2>2, <2>3, <2>4
<1>20. chosen' = u /\ S \cup T = Positions \ left'
  BY <1>1, <1>4 DEF u
<1> QED  BY <1>14, <1>18, <1>19, <1>20

\* The invariant is inductive.
LEMMA ChoiceHolds == Spec => [](SelectionType /\ Choice /\ Invitation /\ RingsBounded)
<1> DEFINE Inv == Choice /\ Invitation
           Old == SelectionType /\ RingsBounded
<1>1. Init => Inv
  BY DEF Init, Choice, Invitation
<1>2. Old /\ Inv /\ [Next]_vars => Inv'
  <2> SUFFICES ASSUME Old, Inv, [Next]_vars  PROVE Inv'
    OBVIOUS
  <2>1. call' = call
    BY DEF Next, Reject, Start, CollectRing, Invite, vars
  <2>2. /\ n' = n /\ info' = info /\ Positions' = Positions /\ Few' = Few
        /\ \A i : Away(i)' = Away(i)
    BY <2>1 DEF n, info, Positions, Few, Away, LuckyNumber
  <2>3. Valid(info)' = Valid(info) /\ \A i, j : Before(i, j)' = Before(i, j)
    BY <2>2 DEF Valid, Before
  <2>4. CASE Reject
    BY <2>4 DEF Reject, Choice, Invitation
  <2>5. CASE Start
    <3>1. /\ Valid(info) /\ phase' = "collecting" /\ distance' = distance
          /\ IF Few THEN left' = {} /\ chosen' = InOrder(Positions)
                    ELSE left' = Positions /\ chosen' = <<>>
      BY <2>5 DEF Start, Few
    <3>2. CASE Few
      <4> DEFINE s == InOrder(Positions)
      <4>1. call.swarm \in Seq(Byte) /\ Positions \subseteq Nat
        BY SelectionAssumption DEF SelectionType, Positions
      <4>2. Sorted(s, Positions)
        BY <4>1, InOrderSorts
      <4>3. Lists(<<>>, {})
        BY DEF Lists
      <4>4. Lists(<<>> \o s, {} \cup Positions)
        BY <4>1, <4>2, <4>3, ListGrows
      <4>5. <<>> \o s = s /\ {} \cup Positions = Positions \ {}
        BY <4>2 DEF Sorted
      <4>6. chosen' = s /\ left' = {}
        BY <3>1, <3>2
      <4> HIDE DEF s
      <4>7. Lists(chosen', Positions \ left')
        BY <4>4, <4>5, <4>6
      <4>8. Lists(chosen, Positions \ left)'
        BY <2>2, <4>7 DEF Lists
      <4> QED  BY <2>2, <2>3, <3>1, <3>2, <4>6, <4>8 DEF Choice, Invitation
    <3>3. CASE ~Few
      <4>1. left' = Positions /\ chosen' = <<>>
        BY <3>1, <3>3
      <4>2. Lists(chosen, Positions \ left)'
        BY <2>2, <4>1 DEF Lists
      <4> QED  BY <2>2, <2>3, <3>1, <3>3, <4>1, <4>2 DEF Choice, Invitation
    <3> QED  BY <3>2, <3>3
  <2>6. CASE CollectRing
    <3>1. /\ phase' = "collecting" /\ phase = "collecting" /\ left' \subseteq left /\ left # {}
      BY <2>6 DEF CollectRing, Collecting
    <3>2. /\ Lists(chosen', Positions \ left')
          /\ \A a, b \in DOMAIN chosen' : a < b => Before(chosen'[a], chosen'[b])
          /\ \A a \in DOMAIN chosen' : Away(chosen'[a]) <= distance
      BY <2>6, RingInOrder
    <3>3. distance' = distance + 1 /\ distance \in Nat
      BY <2>6, RingGrows DEF SelectionType
    <3>4. Valid(info) /\ left \subseteq Positions /\ ~Few
      BY <3>1 DEF Choice
    <3>5. \A a \in DOMAIN chosen' : Away(chosen'[a]) < distance'
      <4> SUFFICES ASSUME NEW a \in DOMAIN chosen'  PROVE Away(chosen'[a]) < distance'
        OBVIOUS
      <4>1. chosen'[a] \in Positions
        BY <3>2 DEF Lists
      <4>2. Away(chosen'[a]) \in Nat
        BY <3>4, <4>1, LessThanNAway, InfoFits DEF U8
      <4>3. Away(chosen'[a]) <= distance
        BY <3>2
      <4> QED  BY <3>3, <4>2, <4>3
    <3>6. Lists(chosen, Positions \ left)'
      BY <2>2, <3>2 DEF Lists
    <3>7. Choice'
      BY <2>2, <2>3, <3>1, <3>2, <3>4, <3>5, <3>6 DEF Choice
    <3> QED  BY <3>1, <3>7 DEF Invitation
  <2>7. CASE Invite
    <3>1. /\ phase = "collecting" /\ ~Collecting /\ UNCHANGED <<call, left, chosen, distance>>
          /\ accepted' = IF Valid(FromRequest(Request(info)))
                           THEN SubSeq(chosen, 1, Limit) ELSE <<>>
      BY <2>7 DEF Invite, Limit
    <3>2. Valid(info)
      BY <3>1 DEF Choice
    <3>3. accepted' = SubSeq(chosen, 1, Limit)
      BY <3>1, <3>2, StillValid
    <3>4. Limit' = Limit
      BY <2>2, <3>1 DEF Limit
    <3>5. Invitation'
      BY <2>2, <3>1, <3>3, <3>4 DEF Invitation, Collecting
    <3>6. Lists(chosen, Positions \ left)' = Lists(chosen, Positions \ left)
      BY <2>2, <3>1 DEF Lists
    <3>7. Choice'
      BY <2>2, <2>3, <3>1, <3>6 DEF Choice
    <3> QED  BY <3>5, <3>7
  <2>8. CASE UNCHANGED vars
    <3>1. Lists(chosen, Positions \ left)' = Lists(chosen, Positions \ left) /\ Limit' = Limit
      BY <2>2, <2>8 DEF Lists, vars, Limit
    <3> QED  BY <2>2, <2>3, <2>8, <3>1 DEF vars, Choice, Invitation
  <2> QED  BY <2>4, <2>5, <2>6, <2>7, <2>8 DEF Next
<1>3. SelectionType /\ RingsBounded <=> Old
  OBVIOUS
<1>4. Old /\ Inv => SelectionType /\ Choice /\ Invitation /\ RingsBounded
  OBVIOUS
<1> QED  BY <1>1, <1>2, <1>4, TypeAndRings, PTL DEF Spec

\* All peers or 2n of them are invited, each once.
LEMMA InvitedNumber ==
  ASSUME SelectionType, Choice, Invitation, phase = "invited"
  PROVE  /\ Len(accepted) = (IF Few THEN Len(call.swarm) ELSE 2 * n)
         /\ Lists(accepted, Accepted)
         /\ Limit \in Nat /\ Limit <= Len(chosen) /\ DOMAIN accepted = 1 .. Limit
         /\ \A a \in 1 .. Limit : accepted[a] = chosen[a]
         /\ Few => Limit = Len(chosen)
<1>1. n \in Nat /\ call.swarm \in Seq(Byte) /\ Len(call.swarm) \in Nat
  <2>1. n \in Nat
    BY InfoFits DEF U8
  <2>2. call.swarm \in Seq(Byte)
    BY SelectionAssumption DEF SelectionType
  <2> QED  BY <2>1, <2>2
<1>2. /\ Lists(chosen, Positions \ left)
      /\ Few => left = {}
      /\ accepted = SubSeq(chosen, 1, Limit)
      /\ ~(Len(chosen) < 2 * n /\ left # {})
  BY DEF Choice, Invitation
<1>3. Len(chosen) \in Nat /\ Cardinality(Positions \ left) = Len(chosen)
  BY <1>2, ListCounts
<1>4. left = {} => Len(chosen) = Len(call.swarm)
  <2> SUFFICES ASSUME left = {}  PROVE Len(chosen) = Len(call.swarm)
    OBVIOUS
  <2>1. Positions \ left = 1 .. Len(call.swarm)
    BY <1>1 DEF Positions
  <2>2. Cardinality(1 .. Len(call.swarm)) = Len(call.swarm)
    BY <1>1, FS_Interval
  <2> QED  BY <1>3, <2>1, <2>2
<1>5. /\ Limit \in Nat /\ Limit <= Len(chosen)
      /\ Few => Limit = Len(chosen)
      /\ Limit = (IF Few THEN Len(call.swarm) ELSE 2 * n)
  BY <1>1, <1>2, <1>3, <1>4 DEF Limit, Few
<1>6. chosen \in Seq(Positions \ left)
  BY <1>2 DEF Lists
<1>7. /\ Len(accepted) = Limit /\ DOMAIN accepted = 1 .. Limit
      /\ \A a \in 1 .. Limit : accepted[a] = chosen[a]
      /\ accepted \in Seq(Positions \ left)
  <2>1. \A a \in 1 .. Limit : a \in DOMAIN chosen
    BY <1>3, <1>5, <1>6
  <2>2. accepted = [a \in 1 .. Limit |-> chosen[a]]
    BY <1>2, <1>5
  <2>3. \A a \in 1 .. Limit : chosen[a] \in Positions \ left
    BY <1>6, <2>1
  <2> HIDE DEF Limit
  <2> QED  BY <1>5, <2>2, <2>3
<1>8. accepted \in Seq(Accepted)
  BY <1>7 DEF Accepted
<1>9. \A a, b \in DOMAIN accepted : a # b => accepted[a] # accepted[b]
  <2>1. \A a \in 1 .. Limit : a \in DOMAIN chosen
    BY <1>3, <1>5, <1>6
  <2> QED  BY <1>2, <1>7, <2>1 DEF Lists
<1>10. \A i \in Accepted : \E a \in DOMAIN accepted : accepted[a] = i
  BY DEF Accepted
<1>11. Lists(accepted, Accepted)
  BY <1>8, <1>9, <1>10 DEF Lists
<1> QED  BY <1>5, <1>7, <1>11

\* Of a task that is not rejected, as many peers as there are, up to 2n, take
\* part, and none of them is invited twice: the loop misses no peer, takes none
\* into two rings, and no candidate finds the numbers invalid that the delegator
\* accepted.
THEOREM EnoughPeersAccept == Spec => []EnoughAccept
<1>1. SelectionType /\ Choice /\ Invitation /\ RingsBounded => EnoughAccept
  <2> SUFFICES ASSUME SelectionType, Choice, Invitation, phase = "invited"
               PROVE  /\ Len(accepted) = (IF Few THEN Len(call.swarm) ELSE 2 * n)
                      /\ Cardinality(Accepted) = Len(accepted)
    BY DEF EnoughAccept, Few
  <2> QED  BY InvitedNumber, ListCounts
<1> QED  BY <1>1, ChoiceHolds, PTL

\* Whoever is not invited is further away than everyone who is, or comes later in
\* the swarm at the same distance.
THEOREM TheNearestAreInvited == Spec => []NearestAreInvited
<1>1. SelectionType /\ Choice /\ Invitation /\ RingsBounded => NearestAreInvited
  <2> SUFFICES ASSUME SelectionType, Choice, Invitation, RingsBounded, phase = "invited",
                      NEW i \in Accepted, NEW j \in Positions \ Accepted
               PROVE  Before(i, j)
    BY DEF NearestAreInvited, Before
  <2>1. /\ Lists(chosen, Positions \ left)
        /\ Valid(info)
        /\ left \subseteq Positions
        /\ Few => left = {}
        /\ ~Few => /\ \A a, b \in DOMAIN chosen : a < b => Before(chosen[a], chosen[b])
                   /\ \A a \in DOMAIN chosen : Away(chosen[a]) < distance
    BY DEF Choice
  <2>2. /\ Limit \in Nat /\ Limit <= Len(chosen) /\ DOMAIN accepted = 1 .. Limit
        /\ \A a \in 1 .. Limit : accepted[a] = chosen[a]
        /\ Few => Limit = Len(chosen)
    BY InvitedNumber
  <2>3. Len(chosen) \in Nat /\ DOMAIN chosen = 1 .. Len(chosen)
        /\ \A a \in DOMAIN chosen : chosen[a] \in Positions
    BY <2>1 DEF Lists
  <2>4. PICK a \in 1 .. Limit : i = chosen[a]
    BY <2>2 DEF Accepted
  <2>5. a \in DOMAIN chosen /\ i \in Positions
    <3>1. a \in Nat /\ 1 <= a /\ a <= Len(chosen)
      BY <2>2, <2>3, <2>4
    <3> QED  BY <2>3, <2>4, <3>1
  <2>6. CASE j \in left
    <3>1. ~Few
      BY <2>1, <2>6
    <3>2. Away(i) < distance /\ Away(j) >= distance
      BY <2>1, <2>4, <2>5, <2>6, <3>1 DEF RingsBounded
    <3>3. Away(i) \in Nat /\ Away(j) \in Nat /\ distance \in Nat
      BY <2>1, <2>5, LessThanNAway, InfoFits DEF U8, SelectionType
    <3> QED  BY <3>2, <3>3 DEF Before
  <2>7. CASE j \notin left
    <3>1. PICK b \in DOMAIN chosen : j = chosen[b]
      BY <2>1, <2>7 DEF Lists
    <3>2. b \notin 1 .. Limit
      <4>1. ASSUME b \in 1 .. Limit  PROVE j \in Accepted
        BY <2>2, <3>1, <4>1 DEF Accepted
      <4> QED  BY <4>1
    <3>3. a < b /\ ~Few
      <4>1. b \in Nat /\ 1 <= b /\ b <= Len(chosen) /\ ~(b <= Limit)
        <5>1. b \in 1 .. Len(chosen) /\ Len(chosen) \in Nat /\ Limit \in Nat
          BY <2>2, <2>3
        <5> QED  BY <3>2, <5>1
      <4>2. Limit # Len(chosen)
        BY <2>2, <2>3, <4>1
      <4> QED  BY <2>2, <2>4, <4>1, <4>2
    <3> QED  BY <2>1, <2>4, <2>5, <3>1, <3>3
  <2> QED  BY <2>6, <2>7
<1> QED  BY <1>1, ChoiceHolds, PTL
=============================================================================
