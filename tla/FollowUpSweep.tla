---------------------------- MODULE FollowUpSweep ----------------------------
(* The follow-up sweep of one issue and its latest pull request               *)
(* (lib/follow-up.mts#sweepPullRequests, lib/github.mts): one read of the     *)
(* issue and of the pull request, then what it decides from it, call by call, *)
(* while people, CI and Copilot carry on. A pass is not run here (see         *)
(* FollowUpPass): flagging one is all the sweep does about it.                *)
EXTENDS FollowUp, FiniteSets

CONSTANTS
    Sweepers,        \* host processes
    Rerunnable,      \* sets of checks a person may have run again together
    RerequestAfter,  \* COPILOT_REREQUEST_AFTER_MS, in ticks
    MaxClock,        \* bound: the clock
    MaxActs,         \* bound: what people do
    MaxCallFaults,   \* bound: calls that fail
    Leaders,         \* bound: sweepers that sweep with none other under way
    MaxOverlaps,     \* bound: sweeps begun while another is under way
    MaxEffort        \* bound: the four together, see Effort

ASSUME SweepAssumption ==
    /\ \A set \in Rerunnable : set \subseteq Checks
    /\ RerequestAfter \in Nat
    /\ MaxClock \in Nat /\ MaxActs \in Nat /\ MaxCallFaults \in Nat
    /\ MaxOverlaps \in Nat /\ MaxEffort \in Nat

VARIABLES
    clock,
    pr,         \* the pull request, see PullRequests
    issueHuman, \* the issue carries sandcastle:needs-human
    requeuedAt, \* when a person last removed it, -1 for never
    sweeping,
    seen,       \* each sweeper's read: pr, the time and issueHuman
    \* Bounds and history, read by no guard.
    acts, callFaults, overlaps,
    missedAsk,  \* sweepers that have not seen another's request for a review
    missedHand, \* or its hand-back, made since their read
    asked,      \* review requests decided on for this head, by the others
    handed,     \* hand-backs of the issue since the pull request closed, likewise
    ranAgain    \* checks of this head that were run again

sweepBounds == <<acts, callFaults, overlaps>>
missed == <<missedAsk, missedHand>>
sweepHistory == <<asked, handed, missed, ranAgain>>
sweepVars == <<clock, pr, issueHuman, requeuedAt, sweeping, seen, sweepBounds, sweepHistory>>

CheckRuns == [state : CheckStates \union {"none"}, at : 0..MaxClock]

\* threads: the standings its threads have, of those that matter to decide.
\* remover: who last removed sandcastle:needs-human from it.
PullRequests ==
    [state : {"open", "closed", "merged"}, head : Nat, closedAt : 0..MaxClock,
     dirty : BOOLEAN, behind : BOOLEAN, checks : [Checks -> CheckRuns],
     threads : SUBSET {"bot", "owner", "answered"},
     pending : BOOLEAN, reviewed : BOOLEAN, requestedAt : SUBSET (0..MaxClock),
     human : BOOLEAN, remover : {"nobody", "owner", "stranger"}]

NotRead == [pr |-> [state |-> "closed"], now |-> 0, issueHuman |-> TRUE]

Restart(p) == [c \in Checks |-> [state |-> IF p.dirty THEN "none" ELSE "running", at |-> 0]]

\* A pull request as it opens: GitHub asks Copilot for its review.
Opened(head) ==
    LET p == [state |-> "open", head |-> head, closedAt |-> 0,
              dirty |-> FALSE, behind |-> FALSE, checks |-> [c \in Checks |-> NotRead],
              threads |-> {}, pending |-> TRUE, reviewed |-> FALSE, requestedAt |-> {clock},
              human |-> FALSE, remover |-> "nobody"]
    IN [p EXCEPT !.checks = Restart(p)]

SweepInit ==
    /\ clock = 0
    /\ pr = Opened(0)
    /\ issueHuman = FALSE /\ requeuedAt = -1
    /\ sweeping = [s \in Sweepers |-> "idle"] /\ seen = [s \in Sweepers |-> NotRead]
    /\ acts = 0 /\ callFaults = 0 /\ overlaps = 0 /\ asked = 0 /\ handed = 0
    /\ missedAsk = {} /\ missedHand = {} /\ ranAgain = {}

WithNewHead(p) == [p EXCEPT !.head = @ + 1, !.reviewed = FALSE, !.checks = Restart(p)]

------------------------------------------------------------------------------
(* Everyone else.                                                             *)

\* What the bounds leave room for: a tick, which counts double once sweeps have
\* overlapped, and an event, a fault or an overlap as four.
Effort == clock * (1 + overlaps) + 4 * (acts + callFaults + overlaps)

PersonActs ==
    /\ acts < MaxActs /\ Effort + 4 <= MaxEffort
    /\ acts' = acts + 1

sweepers == <<sweeping, seen, callFaults, overlaps>>
issueVars == <<issueHuman, requeuedAt>>

\* Nothing is asked or run again for a head that is new.
AtNewHead == asked' = 0 /\ ranAgain' = {} /\ UNCHANGED <<handed, missed>>

Tick ==
    /\ clock < MaxClock /\ Effort < MaxEffort
    /\ clock' = clock + 1
    /\ UNCHANGED <<pr, issueVars, sweepers, acts, sweepHistory>>

RunCompletes(c) ==
    /\ pr.state = "open" /\ pr.checks[c].state = "running"
    /\ \E result \in {"green", "red"} :
        pr' = [pr EXCEPT !.checks[c] = [state |-> result, at |-> clock]]
    /\ UNCHANGED <<clock, issueVars, sweepers, acts, sweepHistory>>

\* Copilot reviews the head, perhaps with a thread, or drops the request.
CopilotAnswers ==
    /\ pr.state = "open" /\ pr.pending
    /\ \/ \E found \in {{}, {"bot"}} :
            pr' = [pr EXCEPT !.pending = FALSE, !.reviewed = TRUE, !.threads = @ \union found]
       \/ pr' = [pr EXCEPT !.pending = FALSE]
    /\ UNCHANGED <<clock, issueVars, sweepers, acts, sweepHistory>>

MainAdvances ==
    /\ PersonActs
    /\ pr.state = "open"
    /\ \E conflict \in BOOLEAN : pr' = [pr EXCEPT !.dirty = @ \/ conflict, !.behind = TRUE]
    /\ UNCHANGED <<clock, issueVars, sweepers, sweepHistory>>

HeadPushed ==
    /\ PersonActs
    /\ pr.state = "open"
    /\ pr' = WithNewHead(pr)
    /\ AtNewHead
    /\ UNCHANGED <<clock, issueVars, sweepers>>

PersonReruns ==
    /\ PersonActs
    /\ pr.state = "open"
    /\ \E set \in Rerunnable :
        /\ \A c \in set : pr.checks[c].state \in {"green", "red"}
        /\ pr' = [pr EXCEPT !.checks =
                    [c \in Checks |-> IF c \in set THEN [state |-> "running", at |-> 0] ELSE @[c]]]
        /\ ranAgain' = ranAgain \union set
    /\ UNCHANGED <<clock, issueVars, sweepers, asked, handed, missed>>

\* A comment opens a thread, or a person resolves one.
ThreadsChange ==
    /\ PersonActs
    /\ pr.state = "open"
    /\ \E standing \in {"owner", "answered"} :
        pr' = [pr EXCEPT !.threads = IF standing \in @ THEN @ \ {standing} ELSE @ \union {standing}]
    /\ UNCHANGED <<clock, issueVars, sweepers, sweepHistory>>

\* The follow-up pass hands the pull request back, or the owner does; the
\* owner, or someone else who can label, removes it again.
PullRequestLabelled ==
    /\ PersonActs
    /\ pr.state = "open"
    /\ pr' = [pr EXCEPT !.human = TRUE]
    /\ UNCHANGED <<clock, issueVars, sweepers, sweepHistory>>

PullRequestUnlabelled ==
    /\ PersonActs
    /\ pr.state = "open" /\ pr.human
    /\ \E who \in {"owner", "stranger"} : pr' = [pr EXCEPT !.human = FALSE, !.remover = who]
    /\ UNCHANGED <<clock, issueVars, sweepers, sweepHistory>>

PullRequestCloses ==
    /\ PersonActs
    /\ pr.state = "open"
    /\ \E state \in {"closed", "merged"} : pr' = [pr EXCEPT !.state = state, !.closedAt = clock]
    /\ handed' = 0
    /\ UNCHANGED <<clock, issueVars, sweepers, asked, missed, ranAgain>>

\* The owner re-queues the issue; a run then builds it again (BuildPipeline).
IssueRequeued ==
    /\ PersonActs
    /\ issueHuman
    /\ issueHuman' = FALSE /\ requeuedAt' = clock
    /\ UNCHANGED <<clock, pr, sweepers, sweepHistory>>

IssueRebuilt ==
    /\ PersonActs
    /\ pr.state = "closed" /\ ~issueHuman
    /\ pr' = Opened(pr.head + 1)
    /\ AtNewHead
    /\ UNCHANGED <<clock, issueVars, sweepers>>

PeopleAct ==
    \/ MainAdvances \/ HeadPushed \/ PersonReruns \/ ThreadsChange
    \/ PullRequestLabelled \/ PullRequestUnlabelled \/ PullRequestCloses
    \/ IssueRequeued \/ IssueRebuilt

------------------------------------------------------------------------------
(* A sweep.                                                                   *)

CallFault ==
    /\ callFaults < MaxCallFaults /\ Effort + 4 <= MaxEffort
    /\ callFaults' = callFaults + 1

SweepsTo(s, step) == sweeping' = [sweeping EXCEPT ![s] = step]

\* The sweep is over, and what it read with it.
EndsSweep(s) == SweepsTo(s, "idle") /\ seen' = [seen EXCEPT ![s] = NotRead]

\* The rest of the sweep is the issue's: did its last pull request close?
PullRequestDone(s) ==
    /\ SweepsTo(s, "closed")
    /\ seen' = [seen EXCEPT ![s] =
        [pr |-> [state |-> seen[s].pr.state], now |-> 0, issueHuman |-> seen[s].issueHuman]]

Underway == {s \in Sweepers : sweeping[s] # "idle"}

Overlap ==
    /\ overlaps < MaxOverlaps /\ Effort + clock + 4 <= MaxEffort
    /\ overlaps' = overlaps + 1

\* One query each for the issues in scope and the open pull requests; a pull
\* request handed back to a person is not swept.
Reads(s) ==
    /\ sweeping[s] = "idle"
    /\ seen' = [seen EXCEPT ![s] = [pr |-> pr, now |-> clock, issueHuman |-> issueHuman]]
    /\ SweepsTo(s, IF pr.state = "open" /\ ~pr.human THEN "origin" ELSE "closed")
    /\ IF Underway = {} THEN s \in Leaders /\ UNCHANGED overlaps ELSE Overlap
    /\ missedAsk' = missedAsk \ {s} /\ missedHand' = missedHand \ {s}
    /\ UNCHANGED <<clock, pr, issueVars, acts, callFaults, asked, handed, ranAgain>>

\* labelOriginFixes on the pull request's events, read after it: a removal by
\* anyone but the owner is undone. A label on it again by now needs no fix.
ChecksOrigin(s) ==
    /\ sweeping[s] = "origin"
    /\ SweepsTo(s, IF ~pr.human /\ pr.remover = "stranger" THEN "restoring" ELSE "threads")
    /\ UNCHANGED <<clock, pr, issueVars, seen, sweepBounds, sweepHistory>>

Restores(s) ==
    /\ sweeping[s] = "restoring"
    /\ pr' = [pr EXCEPT !.human = TRUE]
    /\ PullRequestDone(s)
    /\ UNCHANGED <<clock, issueVars, sweepBounds, sweepHistory>>

\* An unresolved bot's or owner's thread may be one the host has answered,
\* which only a read of the threads in full can tell.
MayFlag(s) == seen[s].pr.threads \cap {"bot", "owner", "answered"} # {}

DoneAt(p) == {p.checks[c].at : c \in Checks}
FirstDone(p) == CHOOSE t \in DoneAt(p) : \A u \in DoneAt(p) : t <= u
LastDone(p) == CHOOSE t \in DoneAt(p) : \A u \in DoneAt(p) : t >= u

\* Mutation: a request before CI's last completion is not for this head.
AskedSinceLast(p) == \E t \in p.requestedAt : t >= LastDone(p)

AskedSince(p) == \E t \in p.requestedAt : t >= FirstDone(p)

\* What `decide` sees: the read, with the threads as read in full.
View(s, standings) ==
    LET p == seen[s].pr
    IN [dirty |-> p.dirty, behind |-> p.behind,
        states |-> {p.checks[c].state : c \in Checks} \ {"none"},
        standings |-> standings, pending |-> p.pending, reviewed |-> p.reviewed,
        asked |-> AskedSince(p), waited |-> seen[s].now - LastDone(p) > RerequestAfter]

\* withoutAnsweredThreads, then decide.
Decides(s) ==
    /\ sweeping[s] = "threads"
    /\ SweepsTo(s, Decide(View(s, IF MayFlag(s) THEN pr.threads ELSE seen[s].pr.threads)))
    /\ UNCHANGED <<clock, pr, issueVars, seen, sweepBounds, sweepHistory>>

\* The threads can't be read: only a conflict is decided without them.
ThreadsUnread(s) ==
    /\ sweeping[s] = "threads"
    /\ MayFlag(s)
    /\ CallFault
    /\ IF seen[s].pr.dirty THEN SweepsTo(s, "needs-pass") /\ UNCHANGED seen ELSE PullRequestDone(s)
    /\ UNCHANGED <<clock, pr, issueVars, acts, overlaps, sweepHistory>>

\* GitHub may drop the request, with Copilot's review budget spent.
RequestsReview(s) ==
    /\ sweeping[s] = "request-review"
    /\ \E kept \in BOOLEAN :
        pr' = IF pr.state = "open"
              THEN [pr EXCEPT !.pending = @ \/ kept, !.requestedAt = @ \union {clock}] ELSE pr
    /\ asked' = IF pr.head = seen[s].pr.head /\ s \notin missedAsk THEN asked + 1 ELSE asked
    /\ missedAsk' = missedAsk \union Underway
    /\ PullRequestDone(s)
    /\ UNCHANGED <<clock, issueVars, sweepBounds, handed, missedHand, ranAgain>>

\* Mutation: the update takes whatever head it finds.
UpdatesAnyHead(s) ==
    /\ sweeping[s] = "update-branch"
    /\ pr' = IF pr.state = "open" /\ ~pr.dirty
             THEN [WithNewHead(pr) EXCEPT !.behind = FALSE] ELSE pr
    /\ AtNewHead
    /\ PullRequestDone(s)
    /\ UNCHANGED <<clock, issueVars, sweepBounds>>

\* updatePullRequestBranch: GitHub refuses a head that moved since the read.
UpdatesBranch(s) ==
    /\ sweeping[s] = "update-branch"
    /\ IF pr.state = "open" /\ ~pr.dirty /\ pr.head = seen[s].pr.head
       THEN pr' = [WithNewHead(pr) EXCEPT !.behind = FALSE] /\ AtNewHead
       ELSE UNCHANGED <<pr, sweepHistory>>
    /\ PullRequestDone(s)
    /\ UNCHANGED <<clock, issueVars, sweepBounds>>

LeavesIt(s) ==
    /\ sweeping[s] \in {"needs-pass", "wait", "leave"}
    /\ PullRequestDone(s)
    /\ UNCHANGED <<clock, pr, issueVars, sweepBounds, sweepHistory>>

Sweepable == {"origin", "restoring", "request-review", "update-branch", "closed", "handing back"}

\* A call fails, or a login can't be checked: swept again next round.
CallFails(s) ==
    /\ sweeping[s] \in Sweepable
    /\ CallFault
    /\ IF sweeping[s] \in {"closed", "handing back"} THEN EndsSweep(s) ELSE PullRequestDone(s)
    /\ UNCHANGED <<clock, pr, issueVars, acts, overlaps, sweepHistory>>

\* Mutation: when the issue was re-queued isn't asked.
JudgesClosedAgain(s) ==
    /\ sweeping[s] = "closed"
    /\ IF ~seen[s].issueHuman /\ seen[s].pr.state # "open" /\ pr.state = "closed"
       THEN SweepsTo(s, "handing back") /\ UNCHANGED seen
       ELSE EndsSweep(s)
    /\ UNCHANGED <<clock, pr, issueVars, sweepBounds, sweepHistory>>

\* closedWithoutMerging and requeuedSince, for an issue with no open pull
\* request when it was read.
JudgesClosed(s) ==
    /\ sweeping[s] = "closed"
    /\ IF ~seen[s].issueHuman /\ seen[s].pr.state # "open" /\ pr.state = "closed"
          /\ ~(pr.closedAt <= requeuedAt)
       THEN SweepsTo(s, "handing back") /\ UNCHANGED seen
       ELSE EndsSweep(s)
    /\ UNCHANGED <<clock, pr, issueVars, sweepBounds, sweepHistory>>

HandsIssueBack(s) ==
    /\ sweeping[s] = "handing back"
    /\ issueHuman' = TRUE
    /\ handed' = IF s \in missedHand THEN handed ELSE handed + 1
    /\ missedHand' = missedHand \union Underway
    /\ EndsSweep(s)
    /\ UNCHANGED <<clock, pr, requeuedAt, sweepBounds, asked, missedAsk, ranAgain>>

SweepStep(s) ==
    \/ Reads(s) \/ ChecksOrigin(s) \/ Restores(s) \/ Decides(s) \/ ThreadsUnread(s)
    \/ RequestsReview(s) \/ UpdatesBranch(s) \/ LeavesIt(s)
    \/ CallFails(s) \/ JudgesClosed(s) \/ HandsIssueBack(s)

JudgesHead == CopilotAnswers \/ \E c \in Checks : RunCompletes(c)

SweepNext == Tick \/ PeopleAct \/ JudgesHead \/ \E s \in Sweepers : SweepStep(s)

SweepSpec == SweepInit /\ [][SweepNext]_sweepVars

\* Rounds keep sweeping, and CI's runs end; people do nothing they must, and
\* no call must fail.
SweepLiveSpec ==
    SweepSpec /\ WF_sweepVars(JudgesHead) /\ WF_sweepVars(\E s \in Sweepers : SweepStep(s))

------------------------------------------------------------------------------
(* Properties.                                                                *)

Decisions == {"needs-pass", "wait", "request-review", "update-branch", "leave"}

SweepTypeOK ==
    /\ clock \in 0..MaxClock
    /\ pr \in PullRequests
    /\ issueHuman \in BOOLEAN
    /\ requeuedAt \in -1..MaxClock
    /\ sweeping \in [Sweepers -> {"idle", "origin", "restoring", "threads", "closed", "handing back"} \union Decisions]
    /\ acts \in 0..MaxActs /\ callFaults \in 0..MaxCallFaults /\ overlaps \in 0..MaxOverlaps
    /\ asked \in Nat /\ handed \in Nat

\* The host asks Copilot for a review of one head at most once, whatever GitHub
\* does with the request, unless every check was run again, or a sweep under way
\* at the same time asked since this one's read (decide, askedSince).
AskedOncePerHead == asked <= 1 \/ ranAgain = Checks

\* The host's update from main replaces only a head Copilot has reviewed: never
\* one that a person pushed after the sweep's read (updatePullRequestBranch).
UpdatesReviewedHead ==
    [][acts' = acts /\ pr'.head # pr.head => pr.reviewed]_sweepVars

\* A closed pull request hands its issue back once, but for a sweep that read
\* before another's hand-back: not again after a person re-queued the issue
\* (requeuedSince).
HandedBackOnce == handed <= 1

\* The state is well formed, and no closed pull request hands back twice.
SweepInv == SweepTypeOK /\ HandedBackOnce

\* A sweep acts on what it must, and nothing but a person's hand-back or the
\* pull request's end excuses it: a conflict with main gets its pass, with no
\* checks on the head as much as with some (decide).
ConflictFlagged ==
    (pr.dirty /\ pr.state = "open") ~>
        (pr.human \/ pr.state # "open" \/ \E s \in Sweepers : sweeping[s] = "needs-pass")

\* An issue whose pull request closed without merging ends up handed back, or
\* re-queued by a person who knew (sweepPullRequests, requeuedSince).
ClosedHandedBack ==
    pr.state = "closed" ~> (issueHuman \/ pr.closedAt <= requeuedAt \/ pr.state # "closed")

\* Both promises of the sweep, through faults and whatever people do.
SweepsAct == ConflictFlagged /\ ClosedHandedBack
=============================================================================
