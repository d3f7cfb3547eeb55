------------------------------ MODULE HandBack ------------------------------
(* Failed build attempts and hand-backs of one issue (lib/handback.mts,       *)
(* lib/github.mts#handBack, #markerComments): what the host writes on the     *)
(* issue when a build fails or its push is refused, one gh call at a time,    *)
(* with any of them failing and a person editing the labels between them.     *)
(*                                                                            *)
(* All that lasts is on GitHub: the comments, the labels and the time         *)
(* sandcastle:needs-human was last removed. The hand-back report is the run's *)
(* own memory, and decides whether the run ends red.                          *)
EXTENDS Integers, FiniteSets

CONSTANTS
    Cap,         \* BUILD_FAILURE_CAP
    MaxClock,    \* bound: the clock runs from 1, the issue's creation being 0, to here
    MaxBuilds,   \* bound: builds of the issue
    MaxFaults    \* bound: failed calls and kills, together

ASSUME ConstantsAssumption ==
    /\ Cap \in Nat \ {0}
    /\ MaxClock \in Nat \ {0}
    /\ MaxBuilds \in Nat
    /\ MaxFaults \in Nat

VARIABLES
    clock,
    \* On GitHub.
    queue,      \* the queue label the issue carries: "Sandcastle" or "local"
    ready,      \* it carries sandcastle:ready
    needsHuman, \* it carries sandcastle:needs-human
    removedAt,  \* when needs-human was last removed, or the issue created
    comments,   \* the host's comments: [kind, build, at]
    \* The host's process.
    pc,
    build,      \* number of the build the host is in, or was in last
    reason,     \* what the host is writing: a kind of comment
    seen,       \* failed-attempt comments read
    report,     \* HandBackReport holds an entry of this run
    \* History, read by no guard.
    faults,
    failed,     \* when each failed build's record began: [build, at]
    judged      \* intake marked the issue since the host last handed it back

issue == <<queue, ready, needsHuman, removedAt, comments>>
host == <<pc, build, reason, seen, report>>
history == <<failed, judged>>
vars == <<clock, issue, host, faults, history>>

\* A failed attempt below the cap, the attempt that reaches it, a workflow
\* change with and without the branch created at base.
Kinds == {"failed", "gaveUp", "workflow", "toLocal"}

Init ==
    /\ clock = 1
    /\ queue = "Sandcastle" /\ ready = FALSE /\ needsHuman = FALSE
    /\ removedAt = 0 /\ comments = {}
    /\ pc = "between" /\ build = 0 /\ reason = "failed" /\ seen = {} /\ report = FALSE
    /\ faults = 0 /\ failed = {} /\ judged = FALSE

Goto(step) == pc' = step

Fault == faults < MaxFaults /\ faults' = faults + 1

------------------------------------------------------------------------------
(* Around the host.                                                           *)

Tick ==
    /\ clock < MaxClock
    /\ clock' = clock + 1
    /\ UNCHANGED <<issue, host, faults, history>>

\* intakePhase marks a queued issue without either hand-back label.
IntakeMarksReady ==
    /\ pc = "between"
    /\ queue = "Sandcastle" /\ ~ready /\ ~needsHuman
    /\ ready' = TRUE
    /\ judged' = TRUE
    /\ UNCHANGED <<clock, queue, needsHuman, removedAt, comments, host, faults, failed>>

\* The owner re-queues the issue, which resets the count.
PersonRequeues ==
    /\ needsHuman
    /\ needsHuman' = FALSE
    /\ removedAt' = clock
    /\ UNCHANGED <<clock, queue, ready, comments, host, faults, history>>

\* The owner takes the issue out of the queue by hand, ready or not.
PersonHandsBack ==
    /\ ~needsHuman
    /\ needsHuman' = TRUE
    /\ UNCHANGED <<clock, queue, ready, removedAt, comments, host, faults, history>>

------------------------------------------------------------------------------
(* The host.                                                                  *)

\* readinessReason, and the queue the run works.
Builds ==
    /\ pc = "between"
    /\ build < MaxBuilds
    /\ queue = "Sandcastle" /\ ready /\ ~needsHuman
    /\ Goto("building")
    /\ build' = build + 1
    /\ UNCHANGED <<clock, issue, reason, seen, report, faults, history>>

\* A pull request, a clean stop, a leak or a thrown error records nothing.
BuildRecordsNothing ==
    /\ pc = "building"
    /\ Goto("between")
    /\ UNCHANGED <<clock, issue, build, reason, seen, report, faults, history>>

BuildFails ==
    /\ pc = "building"
    /\ Goto("reading")
    /\ failed' = failed \union {[build |-> build, at |-> clock]}
    /\ UNCHANGED <<clock, issue, build, reason, seen, report, faults, judged>>

\* isWorkflowPushRejection: the change needs a person, or a local run.
PushRefused ==
    /\ pc = "building"
    /\ Goto("commenting")
    /\ reason' \in {"workflow", "toLocal"}
    /\ UNCHANGED <<clock, issue, build, seen, report, faults, history>>

\* markerComments, first call: the host's comments that carry the marker.
ReadsComments ==
    /\ pc = "reading"
    /\ Goto("counting")
    /\ seen' = {c \in comments : c.kind = "failed"}
    /\ UNCHANGED <<clock, issue, build, reason, report, faults, history>>

\* Mutation: attempts from before the re-queue still count.
CountsEveryMarker ==
    /\ pc = "counting"
    /\ Goto("commenting")
    /\ reason' = IF Cardinality(seen) + 1 < Cap THEN "failed" ELSE "gaveUp"
    /\ seen' = {}
    /\ UNCHANGED <<clock, issue, build, report, faults, history>>

\* Its second call, the timeline, and recordFailedAttempt's choice.
CountsAttempts ==
    /\ pc = "counting"
    /\ Goto("commenting")
    /\ LET prior == {c \in seen : c.at >= removedAt}
       IN reason' = IF Cardinality(prior) + 1 < Cap THEN "failed" ELSE "gaveUp"
    /\ seen' = {}
    /\ UNCHANGED <<clock, issue, build, report, faults, history>>

ReadFails ==
    /\ pc \in {"reading", "counting"}
    /\ Fault
    /\ Goto("between")
    /\ seen' = {}
    /\ UNCHANGED <<clock, issue, build, reason, report, history>>

\* Mutation: a refused push's comment carries the failed-attempt marker.
PostedAsFailed ==
    comments' = comments \union
        {[kind |-> IF reason = "gaveUp" THEN reason ELSE "failed", build |-> build, at |-> clock]}

Posted == comments' = comments \union {[kind |-> reason, build |-> build, at |-> clock]}

\* The comment goes first; only a hand-back has a label edit after it.
PostsComment ==
    /\ pc = "commenting"
    /\ Posted
    /\ Goto(IF reason = "failed" THEN "between" ELSE "labelling")
    /\ UNCHANGED <<clock, queue, ready, needsHuman, removedAt, build, reason, seen,
                   report, faults, history>>

\* Mutation: a comment that failed is passed over, and the labels edited.
PostFailsUnread ==
    /\ pc = "commenting"
    /\ Fault
    /\ Goto(IF reason = "failed" THEN "between" ELSE "labelling")
    /\ UNCHANGED <<clock, issue, build, reason, seen, report, history>>

PostFails ==
    /\ pc = "commenting"
    /\ Fault
    /\ Goto("between")
    /\ Posted \/ UNCHANGED comments
    /\ UNCHANGED <<clock, queue, ready, needsHuman, removedAt, build, reason, seen,
                   report, history>>

\* Mutation: sandcastle:ready stays.
LabelledReady ==
    /\ IF reason = "toLocal"
       THEN queue' = "local" /\ UNCHANGED <<needsHuman, judged>>
       ELSE needsHuman' = TRUE /\ judged' = FALSE /\ UNCHANGED queue
    /\ UNCHANGED <<ready, removedAt, comments>>

\* One edit: needs-human for ready, or one queue's label for the other's.
Labelled ==
    /\ IF reason = "toLocal"
       THEN queue' = "local" /\ UNCHANGED <<ready, needsHuman, judged>>
       ELSE needsHuman' = TRUE /\ ready' = FALSE /\ judged' = FALSE /\ UNCHANGED queue
    /\ UNCHANGED <<removedAt, comments>>

EditsLabels ==
    /\ pc = "labelling"
    /\ Labelled
    /\ report' = TRUE
    /\ Goto("between")
    /\ UNCHANGED <<clock, build, reason, seen, faults, failed>>

\* Thrown before the report's record(), whether or not the edit landed.
EditFails ==
    /\ pc = "labelling"
    /\ Fault
    /\ Labelled \/ UNCHANGED <<issue, judged>>
    /\ Goto("between")
    /\ UNCHANGED <<clock, build, reason, seen, report, failed>>

\* The run ends and another starts: the report goes with the process.
RunEnds ==
    /\ pc = "between"
    /\ report' = FALSE
    /\ UNCHANGED <<clock, issue, pc, build, reason, seen, faults, failed, judged>>

Killed ==
    /\ pc # "between"
    /\ Fault
    /\ Goto("between")
    /\ seen' = {}
    /\ report' = FALSE
    /\ UNCHANGED <<clock, issue, build, reason, failed, judged>>

Next ==
    \/ Tick
    \/ IntakeMarksReady
    \/ PersonRequeues
    \/ PersonHandsBack
    \/ Builds
    \/ BuildRecordsNothing
    \/ BuildFails
    \/ PushRefused
    \/ ReadsComments
    \/ CountsAttempts
    \/ ReadFails
    \/ PostsComment
    \/ PostFails
    \/ EditsLabels
    \/ EditFails
    \/ RunEnds
    \/ Killed

Spec == Init /\ [][Next]_vars

------------------------------------------------------------------------------
(* Properties.                                                                *)

Comments == [kind : Kinds, build : 0 .. MaxBuilds, at : 1 .. MaxClock]

TypeOK ==
    /\ clock \in 1 .. MaxClock
    /\ queue \in {"Sandcastle", "local"}
    /\ ready \in BOOLEAN
    /\ needsHuman \in BOOLEAN
    /\ removedAt \in 0 .. MaxClock
    /\ comments \in SUBSET Comments
    /\ pc \in {"between", "building", "reading", "counting", "commenting", "labelling"}
    /\ build \in 0 .. MaxBuilds
    /\ reason \in Kinds
    /\ seen \in SUBSET Comments
    /\ report \in BOOLEAN
    /\ faults \in 0 .. MaxFaults
    /\ failed \in SUBSET [build : 0 .. MaxBuilds, at : 1 .. MaxClock]
    /\ judged \in BOOLEAN

\* Failed builds that the count may hold against the issue: those whose record
\* went on at or after the latest re-queue.
Against == {f \in failed :
              f.at >= removedAt \/ \E c \in comments : c.build = f.build /\ c.at >= removedAt}

\* Every counted marker is a different build that really failed: no hand-back
\* for another reason and no second write for one attempt counts ("Its next
\* failure then counts only the real attempts").
MarkersAreFailures ==
    \A c \in comments : c.kind = "failed" =>
        /\ \E f \in failed : f.build = c.build
        /\ \A d \in comments : d.build = c.build => d = c

\* The issue is given up on only after Cap failed builds since it was last
\* re-queued, wherever the host was restarted and whichever calls failed. (The
\* host may be past its count when a person adds and removes the label.)
GivesUpAtCap ==
    [][EditsLabels /\ reason = "gaveUp" =>
        \/ Cardinality(Against) >= Cap
        \/ \E f \in failed : f.build = build /\ f.at <= removedAt]_vars

\* An issue whose builds keep failing leaves the queue at the cap: every failed
\* build since the re-queue beyond it is paid for by a call that failed or a
\* killed run.
CapHonoured ==
    pc = "between" /\ ready /\ ~needsHuman =>
        Cardinality({f \in failed : f.at > removedAt}) < Cap + faults

\* The state is well formed, and the count is right both ways: nothing but a
\* failed build counts, and no failed build goes uncounted for free.
CountInv == TypeOK /\ MarkersAreFailures /\ CapHonoured

\* What the host hands over is explained: the labels never change without a
\* comment from that build, posted first.
NeverSilent ==
    [][(needsHuman' # needsHuman \/ queue' # queue) /\ ~PersonHandsBack /\ ~PersonRequeues =>
        \E c \in comments : c.build = build /\ c.kind = reason]_vars

\* An issue the host handed back is judged by intake again before it is built,
\* whoever adds and removes the label meanwhile and whether or not the edit
\* that handed it back was seen to land.
RequeueRunsIntake == [][Builds => judged]_vars

==============================================================================
