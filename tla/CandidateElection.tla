------------------------- MODULE CandidateElection -------------------------
(***************************************************************************)
(* The candidate book-keeping of one key generation task, iteration by     *)
(* iteration.  Attested candidates arrive in any order and mix; after each *)
(* arrival try_send_to_executor asks ready(), and if so elects an executor *)
(* and runs the loop of select_initial_pinners on the item in memory.  The *)
(* stored item keeps the candidates until the request has been sent.       *)
(***************************************************************************)
EXTENDS Election

CONSTANTS
  N,              \* exec_info.n: how many initial pinners the task asks for
  MaxCandidates,  \* bound: how many candidates arrive
  MaxSendFailures \* bound: how many times sending the request fails

ASSUME ElectionAssumption ==
  /\ N \in 2 .. U8 - 1             \* a u8 that validate_task_info accepts
  /\ MaxCandidates \in Nat
  /\ MaxSendFailures \in Nat

VARIABLES
  phase,     \* "collecting", "electing" or "sent"
  executors, \* candidate_executors of the stored item
  pinners,   \* candidate_initial_pinners of the stored item
  item,      \* the item in memory during an election
  failures   \* sends that failed so far

vars == <<phase, executors, pinners, item, failures>>

\* A candidate is known by the number of its arrival.
Arrived == Len(executors) + Len(pinners)
Candidates == 1 .. MaxCandidates

Empty == [executor |-> 0, executors |-> <<>>, pinners |-> <<>>, elected |-> <<>>]

\* Mutant: the executor is read off the vector instead of popped.
SelectExecutorWithoutPop(e, p) ==
  [executor |-> ElectedExecutor(e), executors |-> e,
   pinners |-> p, elected |-> <<>>]

\* select_executor, the first thing elect() does.
SelectExecutor(e, p) ==
  [executor |-> ElectedExecutor(e), executors |-> Popped(e),
   pinners |-> p, elected |-> <<>>]

\* try_send_to_executor up to the loop, after a candidate was saved.
TryElect ==
  IF Ready(N, executors', pinners')
    THEN phase' = "electing" /\ item' = SelectExecutor(executors', pinners')
    ELSE UNCHANGED <<phase, item>>

InsertExecutor ==
  /\ phase = "collecting" /\ Arrived < MaxCandidates
  /\ executors' = Append(executors, Arrived + 1)
  /\ UNCHANGED <<pinners, failures>>
  /\ TryElect

\* Mutant: the candidate is pushed when it arrives and again on save.
InsertedTwice ==
  /\ phase = "collecting" /\ Arrived < MaxCandidates
  /\ pinners' = pinners \o <<Arrived + 1, Arrived + 2>>
  /\ UNCHANGED <<executors, failures>>
  /\ TryElect

InsertInitialPinner ==
  /\ phase = "collecting" /\ Arrived < MaxCandidates
  /\ pinners' = Append(pinners, Arrived + 1)
  /\ UNCHANGED <<executors, failures>>
  /\ TryElect

\* Mutants: the loop stops at N, or one pinner late.
LoopingBelowN == Len(item.elected) < N

LoopingPastN ==
  \/ Len(item.elected) <= N
  \/ item.pinners # <<>> /\ item.executors # <<>>

\* The condition of the while loop in select_initial_pinners.
Looping ==
  \/ Len(item.elected) < N
  \/ item.pinners # <<>> /\ item.executors # <<>>

PopInitialPinner ==
  /\ phase = "electing" /\ Looping
  /\ item.pinners # <<>>
  /\ item' = [item EXCEPT !.elected = Append(@, item.pinners[Len(item.pinners)]),
                          !.pinners = Popped(@)]
  /\ UNCHANGED <<phase, executors, pinners, failures>>

\* With no candidate of either kind left this iteration changes nothing.
PopExecutor ==
  /\ phase = "electing" /\ Looping
  /\ item.pinners = <<>>
  /\ item' = IF item.executors = <<>> THEN item
             ELSE [item EXCEPT !.elected = Append(@, item.executors[Len(item.executors)]),
                               !.executors = Popped(@)]
  /\ UNCHANGED <<phase, executors, pinners, failures>>

\* The loop is left: the request is sent, or it cannot be constructed or
\* sent, and then the handler fails and the stored candidates stay.
LoopLeft == phase = "electing" /\ ~Looping

SendRequest ==
  /\ LoopLeft /\ Len(item.elected) = N
  /\ phase' = "sent"
  /\ executors' = item.executors /\ pinners' = item.pinners
  /\ UNCHANGED <<item, failures>>

SendFails ==
  /\ LoopLeft /\ Len(item.elected) = N
  /\ failures < MaxSendFailures
  /\ failures' = failures + 1
  /\ phase' = "collecting" /\ item' = Empty
  /\ UNCHANGED <<executors, pinners>>

NotElectedProperly ==
  /\ LoopLeft /\ Len(item.elected) # N
  /\ phase' = "collecting" /\ item' = Empty
  /\ UNCHANGED <<executors, pinners, failures>>

Init ==
  /\ phase = "collecting"
  /\ executors = <<>> /\ pinners = <<>>
  /\ item = Empty
  /\ failures = 0

Next ==
  \/ InsertExecutor
  \/ InsertInitialPinner
  \/ PopInitialPinner
  \/ PopExecutor
  \/ SendRequest
  \/ SendFails
  \/ NotElectedProperly

\* A handler that runs goes on running; nothing makes candidates arrive.
Spec ==
  /\ Init /\ [][Next]_vars
  /\ WF_vars(PopInitialPinner \/ PopExecutor)
  /\ WF_vars(SendRequest \/ SendFails \/ NotElectedProperly)
-----------------------------------------------------------------------------
(* Properties *)

InfoOK(i) ==
  /\ DOMAIN i = {"executor", "executors", "pinners", "elected"}
  /\ i.executor \in Candidates \cup {0}
  /\ {i.executors, i.pinners, i.elected} \subseteq Seq(Candidates)

TypeOK ==
  /\ phase \in {"collecting", "electing", "sent"}
  /\ {executors, pinners} \subseteq Seq(Candidates)
  /\ InfoOK(item)
  /\ failures \in 0 .. MaxSendFailures

Members(s) == {s[i] : i \in DOMAIN s}

\* ready(): "this is essential condition to construct an execution request".
\* An election begins only with one candidate for the executor and N others.
ReadyIsEssential ==
  phase = "electing" => executors # <<>> /\ Arrived >= N + 1

\* The loop of select_initial_pinners computes, whatever the order of the
\* arrivals, the election that the operators of Election describe.
LoopComputesElection ==
  LoopLeft => /\ item.executor = ElectedExecutor(executors)
              /\ item.elected = ElectedPinners(N, Popped(executors), pinners)
              /\ (Len(item.elected) = N) <=> Constructible(N, executors, pinners)

\* No candidate is lost or serves twice during an election: the executor, the
\* elected pinners and the candidates left over are the stored candidates,
\* each of them once.
ElectionPartitions ==
  phase = "electing" =>
    LET parts == <<item.executor>> \o item.elected \o item.executors \o item.pinners
    IN  Len(parts) = Arrived /\ Members(parts) = Members(executors) \cup Members(pinners)

\* The first election succeeds: while no send has failed, the candidates that
\* make ready() true always give exactly N initial pinners.
FirstElectionIsExact ==
  LoopLeft /\ failures = 0 => Len(item.elected) = N

\* Every iteration of the loop finds a candidate to pop: with the vectors empty
\* it would change nothing, and so never end.
LoopNeverStalls ==
  phase = "electing" /\ Looping => item.pinners # <<>> \/ item.executors # <<>>

\* Once ready() let it start, the loop of select_initial_pinners ends and the
\* handler returns.
ElectionReturns == phase = "electing" ~> phase # "electing"

\* After a failed send the candidates grow past N + 1 and an election may pop
\* more than N pinners, after which no later one succeeds: initial pinner
\* candidates never leave the stored item.  That needs a second executor
\* candidate and more than N pinner candidates, nothing less.
OvershootOnlyWithSpareExecutor ==
  LoopLeft /\ Len(item.elected) # N =>
    Len(executors) >= 2 /\ Len(pinners) > N
-----------------------------------------------------------------------------
(* The inductive invariants *)

\* What the loop has elected when it popped j pinner candidates and i of the
\* executor candidates that select_executor left.
TakenSoFar(j, i) ==
  [k \in 1 .. j + i |-> IF k <= j THEN pinners[Len(pinners) + 1 - k]
                        ELSE executors[Len(executors) - (k - j)]]

\* Executor candidates are popped only after all pinner candidates and only
\* below N, and the loop goes past N only while an executor candidate is left.
LoopAt(j, i) ==
  /\ item.pinners = SubSeq(pinners, 1, Len(pinners) - j)
  /\ item.executors = SubSeq(executors, 1, Len(executors) - 1 - i)
  /\ item.elected = TakenSoFar(j, i)
  /\ i > 0 => j = Len(pinners) /\ i + j <= N
  /\ Len(executors) = 1 => j <= N

ElectionUnderWay ==
  phase = "electing" =>
    /\ Ready(N, executors, pinners)
    /\ item.executor = ElectedExecutor(executors)
    /\ \E j \in 0 .. Len(pinners), i \in 0 .. Len(executors) - 1 : LoopAt(j, i)

\* While no send has failed an election begins as soon as there are candidates
\* enough, and is then one that gives N pinners.
FirstElection ==
  failures = 0 =>
    /\ phase = "collecting" => ~Ready(N, executors, pinners)
    /\ phase = "electing" => Constructible(N, executors, pinners)
=============================================================================
