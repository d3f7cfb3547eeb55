---------------------------- MODULE FollowUpPass ----------------------------
(* Follow-up passes on one open pull request (lib/follow-up-pass.mts, and the *)
(* GitHub calls it makes): from the sweep that flags it, through the reads    *)
(* before and after the building label's claim, the worktree's merge, gate    *)
(* and roles, to the push, the replies, the re-run and the summary. People,   *)
(* bots and CI act on the pull request between any two of the host's steps,   *)
(* and a run may be killed or have a GitHub call fail at any of them.         *)
(*                                                                            *)
(* A commit is a number; a branch is the set of commits in its history, so    *)
(* one commit contains another when its set does.                             *)
EXTENDS FollowUp, FiniteSets

CONSTANTS
    Runs,        \* host processes that may pass on the pull request
    Threads,     \* its review threads
    Covered,     \* the CI checks that the gate reproduces
    Cap,         \* FOLLOW_UP_PASS_CAP
    MaxEvents,   \* bound: pushes, comments and label edits by others
    MaxFaults,   \* bound: kills, failed calls and usage stops
    MaxMishaps,  \* bound: both together
    NoRun        \* holds the claim when nobody does

ASSUME ConstantsAssumption ==
    /\ Covered \subseteq Checks
    /\ Cap \in Nat \ {0}
    /\ MaxEvents \in Nat /\ MaxFaults \in Nat /\ MaxMishaps \in Nat
    /\ NoRun \notin Runs

VARIABLES
    \* On GitHub.
    head,       \* the pull request's head
    main,
    clash,      \* commits of main that conflict with a branch without them
    threads,    \* [Threads -> a thread]
    checks,     \* [Checks -> "none", "running", "green" or "red"], on the head
    rerun,      \* checks whose run on this head is on a later attempt
    needsHuman, \* the pull request carries sandcastle:needs-human
    counted,    \* pass summaries since it was last removed
    claim,      \* the run holding the issue's building label
    \* The runs.
    pc, job,
    \* Bounds and history, read by no guard of the host's.
    made,       \* commits made so far
    events, faults,
    published,  \* commits that have been on the pull request's head
    named,      \* commits a reply said a thread was fixed in
    landed      \* pushes of passes that landed since needs-human was removed

github == <<head, main, clash, threads, checks, rerun, needsHuman, counted, claim>>
bounds == <<made, events, faults>>
history == <<published, named, landed>>
vars == <<github, pc, job, bounds, history>>

\* What stands for a commit in a verdict that names none, or one nobody made.
NoVerdict == -1
Declined == -2
Missing == -3

\* What a run remembers of its pass.
FreshJob ==
    [target |-> {}, conflicted |-> FALSE, base |-> {},
     forRole |-> {}, needsMerge |-> FALSE, red |-> {},
     tree |-> {}, midMerge |-> FALSE, merged |-> "none", hostMerge |-> NoVerdict,
     gate |-> "none", log |-> FALSE, verdict |-> [t \in Threads |-> NoVerdict],
     pushed |-> FALSE, answering |-> {}, resolving |-> {}]

Conflicts(branch, onto) == ~(clash \cap onto \subseteq branch)
Dirty == Conflicts(head, main)

Init ==
    /\ head = {0, 1} /\ main = {0} /\ clash = {}
    /\ threads \in [Threads -> ThreadIn({<<"bot">>, <<"owner">>, <<"stranger">>})]
    /\ \A t \in Threads : ~threads[t].resolved
    /\ checks = [c \in Checks |-> "running"] /\ rerun = {}
    /\ needsHuman = FALSE /\ counted = 0 /\ claim = NoRun
    /\ pc = [r \in Runs |-> "idle"] /\ job = [r \in Runs |-> FreshJob]
    /\ made = 2 /\ events = 0 /\ faults = 0
    /\ published = {0, 1} /\ named = {} /\ landed = 0

\* A head GitHub can't merge gets no checks.
Restarted(branch) == [c \in Checks |-> IF Conflicts(branch, main) THEN "none" ELSE "running"]

NewHead(branch) ==
    /\ head' = branch
    /\ checks' = Restarted(branch)
    /\ rerun' = {}
    /\ published' = published \union branch

------------------------------------------------------------------------------
(* Everyone else.                                                             *)

Event == events < MaxEvents /\ events + faults < MaxMishaps /\ events' = events + 1

MainMoves ==
    /\ Event
    /\ main' = main \union {made}
    /\ clash' \in {clash, clash \union {made}}
    /\ made' = made + 1
    /\ UNCHANGED <<head, threads, checks, rerun, needsHuman, counted, claim, pc, job, faults, history>>

\* A commit on top of the head, or a rewritten branch.
PersonPushes ==
    /\ Event
    /\ \E onto \in {head, {0}} : NewHead(onto \union {made})
    /\ made' = made + 1
    /\ UNCHANGED <<main, clash, threads, needsHuman, counted, claim, pc, job, faults, named, landed>>

Comments ==
    /\ Event
    /\ \E t \in Threads, who \in {"bot", "owner", "stranger"} :
        threads' = [threads EXCEPT ![t].comments = Append(@, who)]
    /\ UNCHANGED <<head, main, clash, checks, rerun, needsHuman, counted, claim, pc, job, made, faults, history>>

\* The owner resolves a thread, or opens a resolved one again.
OwnerTurnsThread ==
    /\ Event
    /\ \E t \in Threads : threads' = [threads EXCEPT ![t].resolved = ~@]
    /\ UNCHANGED <<head, main, clash, checks, rerun, needsHuman, counted, claim, pc, job, made, faults, history>>

OwnerRequeues ==
    /\ Event
    /\ needsHuman
    /\ needsHuman' = FALSE /\ counted' = 0 /\ landed' = 0
    /\ UNCHANGED <<head, main, clash, threads, checks, rerun, claim, pc, job, made, faults, published, named>>

CheckCompletes(c) ==
    /\ checks[c] = "running"
    /\ \E result \in {"green", "red"} : checks' = [checks EXCEPT ![c] = result]
    /\ UNCHANGED <<head, main, clash, threads, rerun, needsHuman, counted, claim, pc, job, bounds, history>>

------------------------------------------------------------------------------
(* A run, up to its claim.                                                    *)

Fault == faults < MaxFaults /\ events + faults < MaxMishaps /\ faults' = faults + 1

Goto(r, step) == pc' = [pc EXCEPT ![r] = step]

\* The pass's memory ends with it.
Ends(r, step) == Goto(r, step) /\ job' = [job EXCEPT ![r] = FreshJob]

\* A run without the claim is done; one with it has still to give it back.
Claimed(r) == claim = r
Leaves(r) == Ends(r, IF Claimed(r) THEN "releasing" ELSE "idle")
HandsBack(r) == Ends(r, "handingBack")

Flagged ==
    /\ ~needsHuman
    /\ NeedsPass(Dirty,
                 {checks[c] : c \in {d \in Checks : checks[d] # "none"}},
                 {Standing(threads[t]) : t \in Threads})

\* sweepPullRequests: the pull request becomes a PassTarget.
Sweeps(r) ==
    /\ pc[r] = "idle"
    /\ Flagged
    /\ Goto(r, "fetching")
    /\ job' = [job EXCEPT ![r].target = head, ![r].conflicted = Dirty]
    /\ UNCHANGED <<github, bounds, history>>

\* main.mts and followUpPassPhase: origin/main, then the branch, which is what
\* the worktree starts from; runPass resets it to the target all the same.
Fetches(r) ==
    /\ pc[r] = "fetching"
    /\ Goto(r, "threads")
    /\ job' = [job EXCEPT ![r].base = main]
    /\ UNCHANGED <<github, bounds, history>>

\* planPass, its first read.
ReadsThreads(r) ==
    /\ pc[r] = "threads"
    /\ LET standing == [t \in Threads |-> Standing(threads[t])]
       IN IF head # job[r].target \/ \E t \in Threads : standing[t] = "unknown"
          THEN Leaves(r)
          ELSE /\ Goto(r, "checks")
               /\ job' = [job EXCEPT ![r].forRole = {t \in Threads : standing[t] \in ForRole}]
    /\ UNCHANGED <<github, bounds, history>>

\* The red checks a pass may act on: none while any is still running.
RedChecks ==
    IF \E c \in Checks : checks[c] = "running" THEN {} ELSE {c \in Checks : checks[c] = "red"}

\* Mutation: the cap is checked before the claim, and not again under it.
PlansCappedEarly(r) ==
    /\ pc[r] = "checks"
    /\ LET j == job[r]
           merge == ~(j.base \subseteq j.target) /\ (j.conflicted \/ RedChecks # {})
       IN IF head # j.target \/ (~merge /\ RedChecks = {} /\ j.forRole = {})
          THEN Leaves(r)
          ELSE IF ~Claimed(r) /\ counted >= Cap
               THEN HandsBack(r)
               ELSE /\ Goto(r, IF Claimed(r) THEN "worktree" ELSE "claiming")
                    /\ job' = [job EXCEPT ![r].needsMerge = merge, ![r].red = RedChecks]
    /\ UNCHANGED <<github, bounds, history>>

\* planPass, its later reads: the checks, then the passes the pull request had.
Plans(r) ==
    /\ pc[r] = "checks"
    /\ LET j == job[r]
           merge == ~(j.base \subseteq j.target) /\ (j.conflicted \/ RedChecks # {})
       IN IF head # j.target \/ (~merge /\ RedChecks = {} /\ j.forRole = {})
          THEN Leaves(r)
          ELSE IF Claimed(r) /\ counted >= Cap
               THEN HandsBack(r)
               ELSE /\ Goto(r, IF Claimed(r) THEN "worktree" ELSE "claiming")
                    /\ job' = [job EXCEPT ![r].needsMerge = merge, ![r].red = RedChecks]
    /\ UNCHANGED <<github, bounds, history>>

\* Mutation: the threads read before the claim still stand after it.
ClaimsOnce(r) ==
    /\ pc[r] = "claiming"
    /\ IF claim = NoRun
       THEN claim' = r /\ Goto(r, "checks") /\ UNCHANGED job
       ELSE Leaves(r) /\ UNCHANGED claim
    /\ UNCHANGED <<head, main, clash, threads, checks, rerun, needsHuman, counted, bounds, history>>

\* claimBuildingLabel, of which BuildingLabel shows that one run at a time
\* gets TRUE; everything is then read again.
Claims(r) ==
    /\ pc[r] = "claiming"
    /\ IF claim = NoRun
       THEN claim' = r /\ Goto(r, "threads") /\ UNCHANGED job
       ELSE Leaves(r) /\ UNCHANGED claim
    /\ UNCHANGED <<head, main, clash, threads, checks, rerun, needsHuman, counted, bounds, history>>

------------------------------------------------------------------------------
(* The worktree: nothing here is on GitHub but the failed-job logs' head.     *)

\* createSandbox and the reset to the target.
Prepares(r) ==
    /\ pc[r] = "worktree"
    /\ Goto(r, "mergingFirst")
    /\ job' = [job EXCEPT ![r].tree = job[r].target]
    /\ UNCHANGED <<github, bounds, history>>

\* tryMerge on a clean merge: the host's own merge commit.
MergesCleanly(r, next) ==
    /\ Goto(r, next)
    /\ job' = [job EXCEPT ![r].tree = @ \union job[r].base \union {made},
                          ![r].merged = "clean", ![r].hostMerge = made]
    /\ made' = made + 1

\* Before the gate, when GitHub called the pull request mergeable; a merge
\* that conflicts all the same is aborted and left for after the gate.
MergesFirst(r) ==
    /\ pc[r] = "mergingFirst"
    /\ IF job[r].needsMerge /\ ~job[r].conflicted /\ ~Conflicts(job[r].tree, job[r].base)
       THEN MergesCleanly(r, "gating")
       ELSE Goto(r, "gating") /\ UNCHANGED <<job, made>>
    /\ UNCHANGED <<github, events, faults, history>>

\* planRedCi, once a red check has the head gated.
GatesHead(r) ==
    /\ pc[r] = "gating"
    /\ Goto(r, "readingLog")
    /\ IF job[r].red = {}
       THEN UNCHANGED job
       ELSE \E result \in {"passed", "failed"} : job' = [job EXCEPT ![r].gate = result]
    /\ UNCHANGED <<github, bounds, history>>

Passed(r) == job[r].gate = "passed"

\* failedCheckLogs refuses a head that has moved.
ReadsLog(r) ==
    /\ pc[r] = "readingLog"
    /\ IF Forward(Passed(r), job[r].red, Covered) = {}
       THEN Goto(r, "mergingAfter") /\ UNCHANGED job
       ELSE IF head # job[r].target
            THEN HandsBack(r)
            ELSE Goto(r, "mergingAfter") /\ job' = [job EXCEPT ![r].log = TRUE]
    /\ UNCHANGED <<github, bounds, history>>

MergesAfter(r) ==
    /\ pc[r] = "mergingAfter"
    /\ IF ~job[r].needsMerge \/ job[r].merged = "clean"
       THEN Goto(r, "role") /\ UNCHANGED <<job, made>>
       ELSE IF Conflicts(job[r].tree, job[r].base)
            THEN /\ Goto(r, "role")
                 /\ job' = [job EXCEPT ![r].merged = "conflicts", ![r].midMerge = TRUE]
                 /\ UNCHANGED made
            ELSE MergesCleanly(r, "role")
    /\ UNCHANGED <<github, events, faults, history>>

RoleRuns(r) == job[r].merged = "conflicts" \/ job[r].forRole # {} \/ job[r].log

\* What the role may leave: nothing done, commits, the merge finished or
\* abandoned, or the branch rewritten.
RoleLeaves(r, tree, midMerge) ==
    LET j == job[r]
        done == IF j.midMerge THEN j.tree \union j.base ELSE j.tree
    IN \/ tree = j.tree /\ midMerge = j.midMerge
       \/ tree \in {done \union {made}, j.tree \union {made}, j.base \union {made}} /\ ~midMerge

\* A verdict is a commit the thread is said to be fixed in, Declined (or
\* outdated) or NoVerdict. parseVerdicts and threadActions: at most one for a
\* thread the role was given, and none for any other.
RolesVerdicts(r, tree) ==
    LET commits == {1, job[r].hostMerge, Missing} \union job[r].base \union (tree \ job[r].tree)
    IN {v \in [Threads -> {NoVerdict, Declined} \union commits] :
            \A t \in Threads \ job[r].forRole : v[t] = NoVerdict}

RunsRole(r) ==
    /\ pc[r] = "role"
    /\ Goto(r, "checkpoint")
    /\ IF ~RoleRuns(r)
       THEN UNCHANGED <<job, made>>
       ELSE \E tree \in {job[r].tree} \union
                        {b \union {made} : b \in {job[r].tree, job[r].base, job[r].tree \union job[r].base}},
               midMerge \in BOOLEAN :
                /\ RoleLeaves(r, tree, midMerge)
                /\ \E verdict \in RolesVerdicts(r, tree) :
                    job' = [job EXCEPT ![r].tree = tree, ![r].midMerge = midMerge, ![r].verdict = verdict]
                /\ made' = IF made \in tree THEN made + 1 ELSE made
    /\ UNCHANGED <<github, events, faults, history>>

\* runCheckpoint passes on a clean commit, the gate-fixer's or the role's, and
\* that commit holds the head, and main when a merge was due. A merge left
\* unfinished is a dirty worktree, which no gate passes on.
ChecksOut(r) ==
    /\ pc[r] = "checkpoint"
    /\ ~job[r].midMerge
    /\ job[r].target \subseteq job[r].tree
    /\ job[r].needsMerge => job[r].base \subseteq job[r].tree
    /\ \E fixed \in BOOLEAN :
        /\ job' = [job EXCEPT ![r].tree = IF fixed THEN @ \union {made} ELSE @]
        /\ made' = IF fixed THEN made + 1 ELSE made
        /\ Goto(r, IF job'[r].tree = job[r].target THEN "answering" ELSE "pushing")
    /\ UNCHANGED <<github, events, faults, history>>

LocalSteps == {"worktree", "mergingFirst", "readingLog", "mergingAfter", "role", "checkpoint"}

\* The sandbox, the reset, a merge or its abort, a log read, a role, the
\* checkpoint, the containment checks or the scan ends the pass with a person.
StepFails(r) ==
    /\ pc[r] \in LocalSteps \union {"pushing"}
    /\ HandsBack(r)
    /\ UNCHANGED <<github, bounds, history>>

\* A usage limit or the time budget: the pass throws UncountedStopError.
StopsUncounted(r) ==
    /\ pc[r] \in {"role", "checkpoint"}
    /\ Fault
    /\ Leaves(r)
    /\ UNCHANGED <<github, made, events, history>>

\* A read of planPass that throws: the pull request is swept again.
ReadFails(r) ==
    /\ pc[r] \in {"fetching", "threads", "checks"}
    /\ Fault
    /\ Leaves(r)
    /\ UNCHANGED <<github, made, events, history>>

------------------------------------------------------------------------------
(* On GitHub again.                                                           *)

\* A plain push of `commit`, which git refuses unless it contains the head.
Lands(r) ==
    /\ head \subseteq job[r].tree
    /\ NewHead(job[r].tree)
    /\ landed' = landed + 1

\* Mutation: the push is forced.
ForcesPush(r) ==
    /\ pc[r] = "pushing"
    /\ NewHead(job[r].tree)
    /\ landed' = landed + 1
    /\ Goto(r, "answering")
    /\ job' = [job EXCEPT ![r].pushed = TRUE]
    /\ UNCHANGED <<main, clash, threads, needsHuman, counted, claim, bounds, named>>

Pushes(r) ==
    /\ pc[r] = "pushing"
    /\ Lands(r)
    /\ Goto(r, "answering")
    /\ job' = [job EXCEPT ![r].pushed = TRUE]
    /\ UNCHANGED <<main, clash, threads, needsHuman, counted, claim, bounds, named>>

\* It is refused, or fails, or lands and still ends in a server error. (A
\* workflow refusal is one of StepFails.)
PushFails(r) ==
    /\ pc[r] = "pushing"
    /\ Goto(r, "askingRemote")
    /\ \/ /\ Fault /\ Lands(r)
       \/ /\ \/ Fault
             \/ ~(head \subseteq job[r].tree) /\ UNCHANGED faults
          /\ UNCHANGED <<head, checks, rerun, published, landed>>
    /\ UNCHANGED <<main, clash, threads, needsHuman, counted, claim, job, made, events, named>>

\* remoteHead: the push landed; or nobody moved the head, so pushing again
\* would fail the same way; or it moved, which is a push-failed, uncounted.
AsksRemote(r) ==
    /\ pc[r] = "askingRemote"
    /\ IF head = job[r].tree
       THEN Goto(r, "answering") /\ job' = [job EXCEPT ![r].pushed = TRUE]
       ELSE IF head = job[r].target THEN HandsBack(r) ELSE Leaves(r)
    /\ UNCHANGED <<github, bounds, history>>

RemoteUnreadable(r) ==
    /\ pc[r] = "askingRemote"
    /\ Fault
    /\ Leaves(r)
    /\ UNCHANGED <<github, made, events, history>>

\* The threads left to answer: a verdict was given, and a "fixed" one names a
\* commit this pass added.
ToAnswer(r) ==
    LET j == job[r]
    IN {t \in j.forRole :
            \/ j.verdict[t] = Declined
            \/ j.verdict[t] >= 0
               /\ AddedByPass(j.verdict[t], j.tree, j.target, j.base, j.hostMerge)}

StartsAnswers(r) ==
    /\ pc[r] = "answering"
    /\ Goto(r, "replying")
    /\ job' = [job EXCEPT ![r].answering = ToAnswer(r),
                          ![r].verdict = [t \in Threads |-> IF t \in ToAnswer(r) THEN @[t] ELSE NoVerdict]]
    /\ UNCHANGED <<github, bounds, history>>

\* answerThreads, one thread's reply. Only a bot's thread is resolved after it.
Replies(r, t) ==
    /\ pc[r] = "replying"
    /\ t \in job[r].answering /\ job[r].resolving = {}
    /\ threads' = [threads EXCEPT ![t].comments = Append(@, "reply")]
    /\ job' = [job EXCEPT ![r].answering = @ \ {t},
                          ![r].resolving = IF threads[t].comments[1] = "bot" THEN {t} ELSE {}]
    /\ named' = IF job[r].verdict[t] >= 0 THEN named \union {job[r].verdict[t]} ELSE named
    /\ UNCHANGED <<head, main, clash, checks, rerun, needsHuman, counted, claim, pc, bounds, published, landed>>

\* The thread stays open; the reply may be there all the same.
ReplyFails(r, t) ==
    /\ pc[r] = "replying"
    /\ t \in job[r].answering /\ job[r].resolving = {}
    /\ Fault
    /\ \E lands \in BOOLEAN :
        threads' = IF lands THEN [threads EXCEPT ![t].comments = Append(@, "reply")] ELSE threads
    /\ job' = [job EXCEPT ![r].answering = @ \ {t}]
    /\ UNCHANGED <<head, main, clash, checks, rerun, needsHuman, counted, claim, pc, made, events, history>>

Resolves(r, t) ==
    /\ pc[r] = "replying"
    /\ t \in job[r].resolving
    /\ threads' = [threads EXCEPT ![t].resolved = TRUE]
    /\ job' = [job EXCEPT ![r].resolving = {}]
    /\ UNCHANGED <<head, main, clash, checks, rerun, needsHuman, counted, claim, pc, bounds, history>>

ResolveFails(r, t) ==
    /\ pc[r] = "replying"
    /\ t \in job[r].resolving
    /\ Fault
    /\ job' = [job EXCEPT ![r].resolving = {}]
    /\ UNCHANGED <<github, pc, made, events, history>>

\* The covered red checks, and whether any of them can't be said to have been
\* re-run: its run is on a later attempt, or it isn't red on the head any more.
ToRerun(r) == Rerun(Passed(r), job[r].red, Covered)
StillRed(r) == \E c \in ToRerun(r) : checks[c] # "red" \/ c \in rerun

\* rerunFailedChecksOnce, unless the push has started CI afresh; and a pass
\* that was all about a forwarded log must have pushed something.
RerunsFlaky(r) ==
    /\ pc[r] = "replying"
    /\ job[r].answering = {} /\ job[r].resolving = {}
    /\ LET flaky == IF job[r].pushed THEN {} ELSE ToRerun(r)
           again == {c \in flaky : checks[c] = "red" /\ c \notin rerun}
           useless == job[r].log /\ job[r].forRole = {} /\ job[r].merged # "conflicts" /\ ~job[r].pushed
       IN IF flaky # {} /\ head # job[r].target
          THEN HandsBack(r) /\ UNCHANGED <<checks, rerun>>
          ELSE /\ checks' = [c \in Checks |-> IF c \in again THEN "running" ELSE checks[c]]
               /\ rerun' = rerun \union again
               /\ IF flaky # again \/ useless THEN HandsBack(r) ELSE Goto(r, "summary") /\ UNCHANGED job
    /\ UNCHANGED <<head, main, clash, threads, needsHuman, counted, claim, bounds, history>>

\* Mutation: only a pass that pushed something counts.
SummarisesPushes(r) ==
    /\ pc[r] = "summary"
    /\ counted' = IF job[r].pushed THEN counted + 1 ELSE counted
    /\ Leaves(r)
    /\ UNCHANGED <<head, main, clash, threads, checks, rerun, needsHuman, claim, bounds, history>>

\* passSummaryComment, the last write: it is what counts the pass.
Summarises(r) ==
    /\ pc[r] = "summary"
    /\ counted' = counted + 1
    /\ Leaves(r)
    /\ UNCHANGED <<head, main, clash, threads, checks, rerun, needsHuman, claim, bounds, history>>

\* giveUp: a comment and sandcastle:needs-human.
GivesUp(r) ==
    /\ pc[r] = "handingBack"
    /\ needsHuman' = TRUE
    /\ Leaves(r)
    /\ UNCHANGED <<head, main, clash, threads, checks, rerun, counted, claim, bounds, history>>

\* The summary or the hand-back fails: logged, and swept again.
LastWriteFails(r) ==
    /\ pc[r] \in {"summary", "handingBack"}
    /\ Fault
    /\ Leaves(r)
    /\ UNCHANGED <<github, made, events, history>>

\* releaseBuildingLabel.
Releases(r) ==
    /\ pc[r] = "releasing"
    /\ claim' = NoRun
    /\ Goto(r, "idle")
    /\ UNCHANGED <<head, main, clash, threads, checks, rerun, needsHuman, counted, job, bounds, history>>

\* A killed run leaves the label, until a later run's startup finds it overdue.
Killed(r) ==
    /\ pc[r] \notin {"idle", "dead"}
    /\ Fault
    /\ Ends(r, IF Claimed(r) THEN "dead" ELSE "idle")
    /\ UNCHANGED <<github, made, events, history>>

LabelCleared(r) ==
    /\ pc[r] = "dead"
    /\ claim' = NoRun
    /\ Goto(r, "idle")
    /\ UNCHANGED <<head, main, clash, threads, checks, rerun, needsHuman, counted, job, bounds, history>>

------------------------------------------------------------------------------

Answers(r) == \E t \in Threads :
    Replies(r, t) \/ ReplyFails(r, t) \/ Resolves(r, t) \/ ResolveFails(r, t)

HostStep(r) ==
    \/ Sweeps(r) \/ Fetches(r) \/ ReadsThreads(r) \/ Plans(r) \/ Claims(r) \/ ReadFails(r)
    \/ Prepares(r) \/ MergesFirst(r) \/ GatesHead(r) \/ ReadsLog(r) \/ MergesAfter(r)
    \/ RunsRole(r) \/ ChecksOut(r) \/ StepFails(r) \/ StopsUncounted(r)
    \/ Pushes(r) \/ PushFails(r) \/ AsksRemote(r) \/ RemoteUnreadable(r)
    \/ StartsAnswers(r) \/ Answers(r) \/ RerunsFlaky(r)
    \/ Summarises(r) \/ GivesUp(r) \/ LastWriteFails(r)
    \/ Releases(r) \/ LabelCleared(r)

CI == \E c \in Checks : CheckCompletes(c)
Others == MainMoves \/ PersonPushes \/ Comments \/ OwnerTurnsThread \/ OwnerRequeues

Next == CI \/ Others \/ \E r \in Runs : HostStep(r) \/ Killed(r)

Spec == Init /\ [][Next]_vars

\* The workflow's schedule keeps a run going, and CI ends. Nothing is asked of
\* people, and no fault must happen.
LiveSpec == Spec /\ WF_vars(CI) /\ \A r \in Runs : WF_vars(HostStep(r))

------------------------------------------------------------------------------
(* Properties.                                                                *)

Commits == 0..made

TypeOK ==
    /\ head \subseteq Commits /\ main \subseteq Commits /\ clash \subseteq main
    /\ threads \in [Threads -> ThreadIn(Seq(Authors))]
    /\ checks \in [Checks -> CheckStates \union {"none"}]
    /\ rerun \subseteq Checks
    /\ needsHuman \in BOOLEAN
    /\ counted \in Nat
    /\ claim \in Runs \union {NoRun}
    /\ made \in Nat /\ events \in 0..MaxEvents /\ faults \in 0..MaxFaults
    /\ published \subseteq Commits /\ named \subseteq Commits
    /\ landed \in Nat

\* The cap counts for every run together: no pull request has more counted
\* passes than FOLLOW_UP_PASS_CAP between two re-queues by a person, however
\* the runs that plan one overlap (lib/follow-up-pass.mts#planPass).
CapHonoured == counted <= Cap

\* Every push of a pass that landed is counted by a summary, is about to be,
\* or lost it to a failed call or a kill: no pass can push round after round
\* without the cap seeing it (lib/follow-up-pass.mts#passOnMarkedIssue).
PushesAreCounted ==
    landed <= counted + faults +
        Cardinality({r \in Runs : job[r].pushed /\ pc[r] \in {"answering", "replying", "summary"}})

\* A commit that a reply says a thread was fixed in has been on the pull
\* request's head: no thread is answered with work that was never published,
\* whatever the role wrote and however the push ended.
FixedMeansPublished == named \subseteq published

\* What a pull request is told, and counted for, is what was done to it.
PassInv == TypeOK /\ PushesAreCounted /\ FixedMeansPublished

\* The host answers a thread at most once for each thing a bot or the owner
\* says in it, through kills, failed resolves, unresolved threads and two runs
\* reading the same thread.
NeverAnswersTwice ==
    \A t \in Threads : \A i, j \in DOMAIN threads[t].comments :
        i < j /\ threads[t].comments[i] = "reply" /\ threads[t].comments[j] = "reply" =>
            \E k \in i..j : threads[t].comments[k] \in Heard(threads[t]) \ {"reply"}

\* The host's push never takes a commit out of the pull request's history: a
\* commit someone pushed while the pass ran is still there after it.
PushKeepsHistory == events' = events => head \subseteq head'

\* The host resolves only a bot's thread, and only one that holds its reply.
ResolvesAnswered ==
    \A t \in Threads :
        events' = events /\ threads'[t].resolved /\ ~threads[t].resolved =>
            /\ threads[t].comments[1] = "bot"
            /\ \E i \in DOMAIN threads[t].comments : threads[t].comments[i] = "reply"

\* No Actions run is started by the host more than once: a check it re-runs
\* was red, on its head's first attempt.
RerunsOnce ==
    \A c \in Checks : head' = head /\ checks[c] # "running" /\ checks'[c] = "running" =>
        checks[c] = "red" /\ c \notin rerun /\ c \in rerun'

\* A pass does to the branch, the threads and the checks only what it may.
StepsAreSafe == [][PushKeepsHistory /\ ResolvesAnswered /\ RerunsOnce]_vars

\* Once people leave it alone, the pull request stops needing passes, or is
\* handed back: no failure, verdict or flaky check keeps passes going for good.
EndsQuiet == <>[]~Flagged
=============================================================================
