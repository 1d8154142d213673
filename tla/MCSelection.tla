---------------------------- MODULE MCSelection ----------------------------
(***************************************************************************)
(* Instances of CandidateSelection for TLC.                                *)
(***************************************************************************)
EXTENDS CandidateSelection

Events(ns, ks) == [n : ns, k : ks]

\* Numbers at both ends of a byte, for every small swarm of three last bytes.
SmallCases ==
  [event : Events({0, 1, 2, 3, 256, 258, 259}, {0, 1, 2, 257}), task : {48, 50},
   swarm : UNION {[1 .. len -> 48 .. 50] : len \in {0, 3, 4, 6, 7}}]

\* The peers of the unit test: one for each character up to U+00FF, of which
\* the upper half has two bytes, the last of them from 128 to 191.
TestPeers == [i \in 1 .. 256 |-> LET c == i - 1 IN IF c < 192 THEN c ELSE c - 64]

Clusters(sizes, bytes) ==
  [i \in 1 .. sizes[1] + sizes[2] + sizes[3] |->
     IF i <= sizes[1] THEN bytes[1]
     ELSE IF i <= sizes[1] + sizes[2] THEN bytes[2] ELSE bytes[3]]

\* n = 255: the unit test's peers, and clusters as far apart as bytes can be.
LargeCases ==
  [event : Events({255}, {254}), task : {0, 191},
   swarm : {TestPeers, TestPeers \o TestPeers,
            Clusters(<<300, 150, 80>>, <<0, 190, 191>>),
            Clusters(<<1, 2, 510>>, <<191, 1, 0>>)}]

TestCases ==
  [event : Events({2, 3, 511}, {1}), task : {0}, swarm : {TestPeers, TestPeers \o TestPeers}]

MCCases == SmallCases \cup LargeCases \cup TestCases

\* What random_select_peers returns for the peers of its unit test, for every n
\* of the test that a task can have.
Result(number, swarm, selected) == [n |-> number, swarm |-> swarm, selected |-> selected]

TestResults ==
  {Result(255, TestPeers, 256), Result(2, TestPeers, 128), Result(3, TestPeers, 85),
   Result(255, TestPeers \o TestPeers, 512), Result(2, TestPeers \o TestPeers, 256),
   Result(3, TestPeers \o TestPeers, 170)}

\* The model selects as many peers as the unit test expects, before the first 2n
\* of them are taken.
AgreesWithTest ==
  phase = "invited" =>
    \A t \in TestResults :
      n = t.n /\ call.task = 0 /\ call.swarm = t.swarm => Len(chosen) = t.selected
=============================================================================
