----------------------------- MODULE IntakeRound -----------------------------
(* One round of intake (lib/intake.mts#intakeRound): the unjudged issues, in   *)
(* batches; a batch whose run fails is halved until the issues that break it   *)
(* stand alone; two counts of failures in a row end the round early. An issue  *)
(* is its place in the list, a batch the places from one to another.           *)
EXTENDS Integers, FiniteSets

CONSTANTS
    Unjudged,      \* how many issues needsIntake left
    BatchSize,     \* INTAKE_BATCH_SIZE
    FailedLimit,   \* INTAKE_FAILED_RUNS_LIMIT
    RefusedLimit,  \* INTAKE_REFUSED_BATCHES_LIMIT
    Breaking,      \* the sets of issues that may break intake's answer
    MaxBadRuns     \* bound: runs that fail, or are answered badly, by chance

ASSUME SizesAssumption ==
    /\ Unjudged \in Nat
    /\ BatchSize \in Nat \ {0} /\ FailedLimit \in Nat \ {0} /\ RefusedLimit \in Nat \ {0}
    /\ MaxBadRuns \in Nat

Issues == 1..Unjudged

ASSUME BreakingAssumption == Breaking \subseteq SUBSET Issues

VARIABLES
    breaking,   \* the issues that break any answer they are part of
    todo,       \* batches not run yet: halves of failed ones, and the rest
    failedInARow, refusedInARow,
    stopped,    \* "no", "failed" or "refused"
    badRuns,
    \* History, read by no guard.
    answered,   \* issues that were in a run that answered
    again,      \* some issue was in two
    refused     \* issues whose verdict GitHub refused

roundVars ==
    <<breaking, todo, failedInARow, refusedInARow, stopped, badRuns, answered, again, refused>>

Batches == {batch \in [first : Issues, last : Issues] : batch.first <= batch.last}
Members(batch) == batch.first..batch.last
Size(batch) == batch.last - batch.first + 1

Least(a, b) == IF a <= b THEN a ELSE b

RoundInit ==
    /\ breaking \in Breaking
    /\ todo = {batch \in Batches :
                /\ (batch.first - 1) % BatchSize = 0
                /\ batch.last = Least(batch.first + BatchSize - 1, Unjudged)}
    /\ failedInARow = 0 /\ refusedInARow = 0
    /\ stopped = "no"
    /\ badRuns = 0
    /\ answered = {} /\ again = FALSE /\ refused = {}

\* Halves come where their batch stood, so the next run is on the first.
IsNext(batch) ==
    /\ stopped = "no"
    /\ batch \in todo
    /\ \A other \in todo : batch.first <= other.first

\* Mutation: the halving stops at two issues.
HalvesToPairs(batch) ==
    LET middle == batch.first + ((Size(batch) + 1) \div 2)
    IN IF Size(batch) <= 2 THEN {}
       ELSE {[first |-> batch.first, last |-> middle - 1], [first |-> middle, last |-> batch.last]}

\* narrow: nothing more is done about an issue that fails alone.
Halves(batch) ==
    LET middle == batch.first + ((Size(batch) + 1) \div 2)
    IN IF Size(batch) = 1 THEN {}
       ELSE {[first |-> batch.first, last |-> middle - 1], [first |-> middle, last |-> batch.last]}

\* Mutation: the count of failed runs carries on from batch to batch.
AnswersKeepingCount(batch, took, turnedDown) ==
    /\ todo' = todo \ {batch}
    /\ UNCHANGED failedInARow
    /\ refusedInARow' = IF took = {} /\ Cardinality(turnedDown) > 1 THEN refusedInARow + 1 ELSE 0
    /\ stopped' = IF refusedInARow' >= RefusedLimit THEN "refused" ELSE stopped
    /\ answered' = answered \union Members(batch)
    /\ again' = (again \/ Members(batch) \cap answered # {})
    /\ refused' = refused \union turnedDown
    /\ UNCHANGED breaking

\* Mutation: the round does not move on from a batch that was answered.
AnswersStaying(batch, took, turnedDown) ==
    /\ failedInARow' = 0
    /\ refusedInARow' = IF took = {} /\ Cardinality(turnedDown) > 1 THEN refusedInARow + 1 ELSE 0
    /\ stopped' = IF refusedInARow' >= RefusedLimit THEN "refused" ELSE stopped
    /\ answered' = answered \union Members(batch)
    /\ again' = (again \/ Members(batch) \cap answered # {})
    /\ refused' = refused \union turnedDown
    /\ UNCHANGED <<breaking, todo>>

\* judge, on a run that answered: GitHub took the verdicts of `took` and
\* refused those of `turnedDown`; the others got none, or had one already.
Answers(batch, took, turnedDown) ==
    /\ todo' = todo \ {batch}
    /\ failedInARow' = 0
    /\ refusedInARow' = IF took = {} /\ Cardinality(turnedDown) > 1 THEN refusedInARow + 1 ELSE 0
    /\ stopped' = IF refusedInARow' >= RefusedLimit THEN "refused" ELSE stopped
    /\ answered' = answered \union Members(batch)
    /\ again' = (again \/ Members(batch) \cap answered # {})
    /\ refused' = refused \union turnedDown
    /\ UNCHANGED breaking

\* judge, on a run that failed, and narrow.
Fails(batch) ==
    /\ todo' = (todo \ {batch}) \union Halves(batch)
    /\ failedInARow' = failedInARow + 1
    /\ stopped' = IF failedInARow' >= FailedLimit THEN "failed" ELSE stopped
    /\ UNCHANGED <<breaking, refusedInARow, answered, again, refused>>

Fault == badRuns < MaxBadRuns /\ badRuns' = badRuns + 1

RunsOn(batch) ==
    /\ IsNext(batch)
    /\ IF Members(batch) \cap breaking # {}
       THEN Fails(batch) /\ UNCHANGED badRuns
       ELSE \/ Answers(batch, Members(batch), {}) /\ UNCHANGED badRuns
            \/ Fault /\ Fails(batch)
            \/ Fault /\ \E turnedDown \in {{}, {batch.first}, Members(batch)} :
                            Answers(batch, {}, turnedDown)

RoundNext == \E batch \in Batches : RunsOn(batch)

RoundSpec == RoundInit /\ [][RoundNext]_roundVars

\* A run ends, one way or the other: its role has a time-out.
RoundLiveSpec == RoundSpec /\ WF_roundVars(RoundNext)

------------------------------------------------------------------------------
(* Properties.                                                                *)

Over == stopped # "no" \/ todo = {}

RoundTypeOK ==
    /\ breaking \in SUBSET Issues
    /\ todo \subseteq Batches
    /\ failedInARow \in 0..FailedLimit
    /\ refusedInARow \in 0..RefusedLimit
    /\ stopped \in {"no", "failed", "refused"}
    /\ badRuns \in 0..MaxBadRuns
    /\ answered \subseteq Issues /\ refused \subseteq Issues
    /\ again \in BOOLEAN

\* Every issue is judged by at most one run that answers: halving never sends
\* one back that a run has answered on (narrow).
AnsweredOnce == ~again

\* An issue is not lost on the way: until a run answers on it, it waits in one
\* batch, or it broke a run all by itself.
NobodyLeftOut ==
    \A i \in Issues :
        \/ i \in answered
        \/ \E batch \in todo : i \in Members(batch)
        \/ i \in breaking \/ badRuns > 0

\* Every issue is in one place: judged once, waiting, or given up on alone,
\* however the batches are cut.
JudgedOnce == RoundTypeOK /\ AnsweredOnce /\ NobodyLeftOut

\* GitHub's refusals end the round only after as many as two in each of
\* INTAKE_REFUSED_BATCHES_LIMIT batches: an issue's own refusal never does.
RefusalsAddUp == stopped = "refused" => Cardinality(refused) >= 2 * RefusedLimit

\* Three places in a row of one batch as it was first cut.
Together(set) ==
    \E i \in Issues :
        /\ set \subseteq i..(i + 2)
        /\ \A j, k \in set : (j - 1) \div BatchSize = (k - 1) \div BatchSize

\* Up to three issues next to each other in a batch that break intake's answer
\* do not end the round for the others (INTAKE_FAILED_RUNS_LIMIT).
RoomForThree == badRuns = 0 /\ Together(breaking) => stopped # "failed"

\* Neither count ends the round without the cause it is there for.
StopsForCause == RefusalsAddUp /\ RoomForThree

\* The round ends.
Ends == <>Over
=============================================================================
