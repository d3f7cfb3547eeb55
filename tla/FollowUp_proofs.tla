-------------------------- MODULE FollowUp_proofs --------------------------
(* What a follow-up pass does to a pull request (FollowUpPass), for any     *)
(* number of runs, threads, checks, events and faults, and any cap; then    *)
(* what the sweep that flags passes does to it and to its issue             *)
(* (FollowUpSweep), for any number of sweepers, checks, bounds and delay.   *)
EXTENDS FollowUpPass, FollowUpSweep, FiniteSetTheorems, NaturalsInduction,
        WellFoundedInduction, TLAPS

Steps ==
    {"idle", "fetching", "threads", "checks", "claiming", "worktree", "mergingFirst", "gating",
     "readingLog", "mergingAfter", "role", "checkpoint", "pushing", "askingRemote", "answering",
     "replying", "summary", "handingBack", "releasing", "dead"}

\* The commits there are.
Made == {c \in Nat : c < made}

Jobs ==
    [target : SUBSET Made, conflicted : BOOLEAN, base : SUBSET Made,
     forRole : SUBSET Threads, needsMerge : BOOLEAN, red : SUBSET Checks,
     tree : SUBSET Made, midMerge : BOOLEAN, merged : {"none", "clean", "conflicts"},
     hostMerge : Int, gate : {"none", "passed", "failed"}, log : BOOLEAN,
     verdict : [Threads -> Int], pushed : BOOLEAN,
     answering : SUBSET Threads, resolving : SUBSET Threads]

Types ==
    /\ head \subseteq Made /\ main \subseteq Made /\ clash \subseteq main
    /\ threads \in [Threads -> ThreadIn(Seq(Authors))]
    /\ checks \in [Checks -> CheckStates \union {"none"}]
    /\ rerun \subseteq Checks
    /\ counted \in Nat
    /\ claim \in Runs \union {NoRun}
    /\ pc \in [Runs -> Steps]
    /\ job \in [Runs -> Jobs]
    /\ made \in Nat /\ events \in 0..MaxEvents /\ faults \in 0..MaxFaults
    /\ 0 \in published /\ published \subseteq Made
    /\ landed \in Nat

\* A run that forgets its pass.
LEMMA FreshIsJob == FreshJob \in Jobs
<1>1. [t \in Threads |-> NoVerdict] \in [Threads -> Int]
    BY DEF NoVerdict
<1> QED
    BY <1>1 DEF FreshJob, Jobs, NoVerdict

LEMMA JobsSame ==
    ASSUME made' = made
    PROVE  Made' = Made /\ Jobs' = Jobs
<1>1. Made' = Made
    BY DEF Made
<1> QED
    BY <1>1 DEF Jobs

LEMMA RestartedIsChecks ==
    ASSUME NEW branch
    PROVE  Restarted(branch) \in [Checks -> CheckStates \union {"none"}]
<1> DEFINE clashes == Conflicts(branch, main)
<1>1. Restarted(branch) = [c \in Checks |-> IF clashes THEN "none" ELSE "running"]
    BY DEF Restarted
<1> HIDE DEF clashes
<1> QED
    BY <1>1 DEF CheckStates

LEMMA TypesStart == Init => Types
<1> SUFFICES ASSUME Init PROVE Types
    OBVIOUS
<1>1. {<<"bot">>, <<"owner">>, <<"stranger">>} \subseteq Seq(Authors)
    BY DEF Authors
<1>2. threads \in [Threads -> ThreadIn(Seq(Authors))]
    BY <1>1 DEF Init, ThreadIn
<1>3. job \in [Runs -> Jobs]
    BY FreshIsJob DEF Init
<1> QED
    <2>1. /\ head = {0, 1} /\ main = {0} /\ clash = {} /\ checks = [c \in Checks |-> "running"]
          /\ rerun = {} /\ counted = 0 /\ claim = NoRun /\ pc = [s \in Runs |-> "idle"]
          /\ made = 2 /\ events = 0 /\ faults = 0 /\ published = {0, 1} /\ named = {} /\ landed = 0
        BY DEF Init
    <2> QED
        BY <1>2, <1>3, <2>1, ConstantsAssumption DEF Types, Made, Steps, CheckStates, ConstantsAssumption

\* More commits can be made, not fewer.
LEMMA JobsGrow ==
    ASSUME Types, made' \in {made, made + 1}
    PROVE  Made \subseteq Made' /\ Jobs \subseteq Jobs'
<1>1. Made \subseteq Made'
    <2>1. made \in Nat
        BY DEF Types
    <2>2. made' \in Nat /\ made <= made'
        BY <2>1
    <2> QED
        BY <2>1, <2>2 DEF Made
<1>2. SUBSET Made \subseteq SUBSET Made'
    BY <1>1
<1> QED
    BY <1>1, <1>2 DEF Jobs

\* One more comment on a thread leaves it a thread.
LEMMA AppendedIsThread ==
    ASSUME Types, NEW t \in Threads, NEW who \in Authors
    PROVE  [threads EXCEPT ![t].comments = Append(@, who)] \in [Threads -> ThreadIn(Seq(Authors))]
<1>1. threads[t].comments \in Seq(Authors) /\ threads[t] \in ThreadIn(Seq(Authors))
    BY DEF Types, ThreadIn
<1>2. Append(threads[t].comments, who) \in Seq(Authors)
    BY <1>1
<1>3. [threads[t] EXCEPT !.comments = Append(@, who)] \in ThreadIn(Seq(Authors))
    BY <1>1, <1>2 DEF ThreadIn
<1> QED
    BY <1>3 DEF Types

LEMMA OthersKeepTypes ==
    ASSUME Types, CI \/ Others
    PROVE  Types'
<1> USE ConstantsAssumption DEF ConstantsAssumption
<1>1. CASE CI
    <2>1. PICK c \in Checks : CheckCompletes(c)
        BY <1>1 DEF CI
    <2> QED
        BY <2>1, JobsSame DEF CheckCompletes, Types, CheckStates, bounds, history
<1>2. CASE MainMoves
    <2>1. made' = made + 1
        BY <1>2 DEF MainMoves
    <2>2. job' \in [Runs -> Jobs']
        BY <1>2, <2>1, JobsGrow DEF MainMoves, Types
    <2> QED
        BY <1>2, <2>1, <2>2 DEF MainMoves, Event, Types, Made, history
<1>3. CASE PersonPushes
    <2>1. made' = made + 1
        BY <1>3 DEF PersonPushes
    <2>2. job' \in [Runs -> Jobs']
        BY <1>3, <2>1, JobsGrow DEF PersonPushes, Types
    <2>3. PICK onto \in {head, {0}} : NewHead(onto \union {made})
        BY <1>3 DEF PersonPushes
    <2>4. checks' \in [Checks -> CheckStates \union {"none"}]
        BY <2>3, RestartedIsChecks DEF NewHead
    <2> QED
        <3>1. onto \subseteq Made /\ Made \subseteq Made' /\ made \in Made'
            BY <2>1, <2>3 DEF Types, Made
        <3>2. head' \subseteq Made' /\ published' \subseteq Made' /\ 0 \in published'
            BY <2>3, <3>1 DEF NewHead, Types
        <3> QED
            <4>1. /\ events < MaxEvents /\ events' = events + 1 /\ rerun' = {}
                  /\ UNCHANGED <<main, clash, threads, counted, claim, pc, job, faults, named, landed>>
                BY <1>3, <2>3 DEF PersonPushes, NewHead, Event
            <4> QED
                BY <2>1, <2>2, <2>4, <3>1, <3>2, <4>1 DEF Types
<1>4. CASE Comments
    <2>1. threads' \in [Threads -> ThreadIn(Seq(Authors))]
        <3>1. PICK t \in Threads, who \in {"bot", "owner", "stranger"} :
                    threads' = [threads EXCEPT ![t].comments = Append(@, who)]
            BY <1>4 DEF Comments
        <3> QED
            BY <3>1, AppendedIsThread DEF Types, Authors
    <2> QED
        BY <1>4, <2>1, JobsSame DEF Comments, Event, Types, history
<1>5. CASE OwnerTurnsThread
    <2>1. threads' \in [Threads -> ThreadIn(Seq(Authors))]
        BY <1>5 DEF OwnerTurnsThread, Types, ThreadIn
    <2>2. /\ Event
          /\ UNCHANGED <<head, main, clash, checks, rerun, counted, claim, pc, job, made, faults, history>>
        BY Zenon, <1>5 DEF OwnerTurnsThread
    <2> QED
        BY <2>1, <2>2, JobsSame DEF Event, Types, history
<1>6. CASE OwnerRequeues
    <2>1. /\ Event
          /\ counted' = 0 /\ landed' = 0
          /\ UNCHANGED <<head, main, clash, threads, checks, rerun, claim, pc, job, made, faults, published, named>>
        BY Zenon, <1>6 DEF OwnerRequeues
    <2> QED
        BY <2>1, JobsSame DEF Event, Types
<1> QED
    BY <1>1, <1>2, <1>3, <1>4, <1>5, <1>6 DEF Others

\* What a run remembers stays of its type.
LEMMA HostKeepsJobs ==
    ASSUME Types, NEW r \in Runs, HostStep(r) \/ Killed(r)
    PROVE  made' \in {made, made + 1} /\ job' \in [Runs -> Jobs'] /\ pc' \in [Runs -> Steps]
<1> DEFINE Kept == made' \in {made, made + 1} /\ job' \in [Runs -> Jobs'] /\ pc' \in [Runs -> Steps]
<1>a. /\ job \in [Runs -> Jobs] /\ pc \in [Runs -> Steps] /\ job[r] \in Jobs
      /\ FreshJob \in Jobs /\ made \in Nat
    BY FreshIsJob DEF Types
<1>b. \A step \in Steps : Goto(r, step) => pc' \in [Runs -> Steps]
    BY <1>a DEF Goto
<1>c. \A step \in Steps : Ends(r, step) => pc' \in [Runs -> Steps] /\ job' \in [Runs -> Jobs]
    BY <1>a DEF Ends, Goto
<1>d. /\ Leaves(r) => pc' \in [Runs -> Steps] /\ job' \in [Runs -> Jobs]
      /\ HandsBack(r) => pc' \in [Runs -> Steps] /\ job' \in [Runs -> Jobs]
    BY <1>c DEF Leaves, HandsBack, Steps
<1>e. made' = made /\ pc' \in [Runs -> Steps] /\ job' \in [Runs -> Jobs] => Kept
    BY JobsSame
<1>f. \A j \in Jobs : job' = [job EXCEPT ![r] = j] => job' \in [Runs -> Jobs]
    BY <1>a
<1> SUFFICES Kept
    OBVIOUS
<1> HIDE DEF Kept
<1>1. CASE Sweeps(r)
    <2>1. [job[r] EXCEPT !.target = head, !.conflicted = Dirty] \in Jobs
        <3>1. Dirty \in BOOLEAN
            BY DEF Dirty, Conflicts
        <3> HIDE DEF Dirty
        <3> QED
            BY <1>a, <3>1 DEF Types, Jobs
    <2> QED
        BY <1>1, <1>a, <1>b, <1>e, <2>1 DEF Sweeps, Steps, bounds
<1>2. CASE Fetches(r)
    <2>1. [job[r] EXCEPT !.base = main] \in Jobs
        BY <1>a DEF Types, Jobs
    <2> QED
        BY <1>2, <1>a, <1>b, <1>e, <2>1 DEF Fetches, Steps, bounds
<1>3. CASE ReadsThreads(r)
    <2>1. Leaves(r) \/ (Goto(r, "checks") /\ \E S \in SUBSET Threads : job' = [job EXCEPT ![r].forRole = S])
        BY Zenon, <1>3 DEF ReadsThreads
    <2>2. \A S \in SUBSET Threads : [job[r] EXCEPT !.forRole = S] \in Jobs
        BY <1>a DEF Jobs
    <2>3. made' = made
        BY <1>3 DEF ReadsThreads, bounds
    <2> QED
        BY <1>a, <1>b, <1>d, <1>e, <2>1, <2>2, <2>3 DEF Steps
<1>4. CASE Plans(r)
    <2>1. \/ Leaves(r) \/ HandsBack(r)
          \/ /\ Goto(r, IF Claimed(r) THEN "worktree" ELSE "claiming")
             /\ \E merge \in BOOLEAN : job' = [job EXCEPT ![r].needsMerge = merge, ![r].red = RedChecks]
        BY <1>4 DEF Plans
    <2>2. \A merge \in BOOLEAN : [job[r] EXCEPT !.needsMerge = merge, !.red = RedChecks] \in Jobs
        <3>1. RedChecks \in SUBSET Checks
            BY DEF RedChecks
        <3> HIDE DEF RedChecks
        <3> QED
            BY <1>a, <3>1 DEF Jobs
    <2>3. made' = made
        BY <1>4 DEF Plans, bounds
    <2> QED
        BY <1>a, <1>b, <1>d, <1>e, <2>1, <2>2, <2>3 DEF Steps
<1>5. CASE Claims(r)
    BY <1>5, <1>a, <1>b, <1>d, <1>e DEF Claims, Steps, bounds
<1>6. CASE ReadFails(r) \/ StepFails(r) \/ StopsUncounted(r)
    BY <1>6, <1>d, <1>e DEF ReadFails, StepFails, StopsUncounted, bounds
<1>7. CASE Prepares(r)
    <2>1. [job[r] EXCEPT !.tree = job[r].target] \in Jobs
        BY <1>a DEF Jobs
    <2> QED
        BY <1>7, <1>a, <1>b, <1>e, <2>1 DEF Prepares, Steps, bounds
<1>8. ASSUME NEW next \in Steps, MergesCleanly(r, next)
      PROVE  Kept
    <2>1. made' = made + 1 /\ made \in Made'
        BY <1>8, <1>a DEF MergesCleanly, Made
    <2>2. Jobs \subseteq Jobs' /\ Made \subseteq Made'
        BY <2>1, JobsGrow
    <2>3. job[r].tree \subseteq Made /\ job[r].base \subseteq Made
        BY <1>a DEF Jobs
    <2>4. job[r].tree \union job[r].base \union {made} \in SUBSET Made'
        BY <2>1, <2>2, <2>3
    <2>5. [job[r] EXCEPT !.tree = @ \union job[r].base \union {made},
                          !.merged = "clean", !.hostMerge = made] \in Jobs'
        <3>1. job[r] \in Jobs' /\ made \in Int
            BY <1>a, <2>2
        <3> QED
            BY <2>4, <3>1 DEF Jobs
    <2> QED
        BY <1>8, <1>a, <1>b, <2>1, <2>2, <2>5 DEF MergesCleanly, Kept
<1>9. CASE MergesFirst(r)
    BY <1>8, <1>9, <1>a, <1>b, <1>e DEF MergesFirst, Steps
<1>10. CASE MergesAfter(r)
    <2>1. [job[r] EXCEPT !.merged = "conflicts", !.midMerge = TRUE] \in Jobs
        BY <1>a DEF Jobs
    <2>2. \/ Goto(r, "role") /\ UNCHANGED <<job, made>>
          \/ /\ Goto(r, "role") /\ made' = made
             /\ job' = [job EXCEPT ![r].merged = "conflicts", ![r].midMerge = TRUE]
          \/ MergesCleanly(r, "role")
        BY Zenon, <1>10 DEF MergesAfter
    <2> QED
        BY <1>8, <1>a, <1>b, <1>e, <2>1, <2>2 DEF Steps
<1>11. CASE GatesHead(r)
    <2>1. \A result \in {"passed", "failed"} : [job[r] EXCEPT !.gate = result] \in Jobs
        BY <1>a DEF Jobs
    <2> QED
        BY <1>11, <1>a, <1>b, <1>e, <2>1 DEF GatesHead, Steps, bounds
<1>12. CASE ReadsLog(r)
    <2>1. [job[r] EXCEPT !.log = TRUE] \in Jobs
        BY <1>a DEF Jobs
    <2> QED
        BY <1>12, <1>a, <1>b, <1>d, <1>e, <2>1 DEF ReadsLog, Steps, bounds
<1>13. CASE RunsRole(r)
    <2>1. \/ UNCHANGED <<job, made>>
          \/ \E tree \in {job[r].tree} \union
                        {b \union {made} : b \in {job[r].tree, job[r].base, job[r].tree \union job[r].base}},
                midMerge \in BOOLEAN : \E verdict \in RolesVerdicts(r, tree) :
                /\ job' = [job EXCEPT ![r].tree = tree, ![r].midMerge = midMerge, ![r].verdict = verdict]
                /\ made' = IF made \in tree THEN made + 1 ELSE made
        BY Zenon, <1>13 DEF RunsRole
    <2>2. CASE UNCHANGED <<job, made>>
        BY <1>13, <1>a, <1>b, <1>e, <2>2 DEF RunsRole, Steps
    <2>3. ASSUME NEW tree \in {job[r].tree} \union
                        {b \union {made} : b \in {job[r].tree, job[r].base, job[r].tree \union job[r].base}},
                NEW midMerge \in BOOLEAN, NEW verdict \in RolesVerdicts(r, tree),
                job' = [job EXCEPT ![r].tree = tree, ![r].midMerge = midMerge, ![r].verdict = verdict],
                made' = IF made \in tree THEN made + 1 ELSE made
          PROVE  Kept
        <3>1. made' \in {made, made + 1}
            BY <2>3
        <3>2. Jobs \subseteq Jobs' /\ Made \subseteq Made'
            BY <3>1, JobsGrow
        <3>3. job[r].tree \subseteq Made /\ job[r].base \subseteq Made /\ job[r].hostMerge \in Int
            BY <1>a DEF Jobs
        <3>4. tree \in SUBSET Made'
            <4>1. made \in tree => made \in Made'
                BY <1>a, <2>3 DEF Made
            <4> QED
                BY <3>2, <3>3, <4>1
        <3>5. verdict \in [Threads -> Int]
            <4>1. Made \subseteq Int /\ Made' \subseteq Int
                BY DEF Made
            <4>2. tree \ job[r].tree \subseteq Int /\ job[r].base \subseteq Int
                BY <3>3, <3>4, <4>1
            <4> QED
                BY <3>3, <4>2 DEF RolesVerdicts, NoVerdict, Declined, Missing
        <3>6. [job[r] EXCEPT !.tree = tree, !.midMerge = midMerge, !.verdict = verdict] \in Jobs'
            BY <1>a, <3>2, <3>4, <3>5 DEF Jobs
        <3>7. pc' \in [Runs -> Steps]
            BY <1>13, <1>b DEF RunsRole, Steps
        <3> QED
            BY <1>a, <2>3, <3>1, <3>2, <3>6, <3>7 DEF Kept
    <2> QED
        BY <2>1, <2>2, <2>3
<1>14. CASE ChecksOut(r)
    <2>1. PICK fixed \in BOOLEAN :
              /\ job' = [job EXCEPT ![r].tree = IF fixed THEN @ \union {made} ELSE @]
              /\ made' = IF fixed THEN made + 1 ELSE made
              /\ Goto(r, IF job'[r].tree = job[r].target THEN "answering" ELSE "pushing")
        BY Zenon, <1>14 DEF ChecksOut
    <2>2. made' \in {made, made + 1} /\ (fixed => made \in Made')
        BY <1>a, <2>1 DEF Made
    <2>3. Jobs \subseteq Jobs' /\ Made \subseteq Made'
        BY <2>2, JobsGrow
    <2>4. (IF fixed THEN job[r].tree \union {made} ELSE job[r].tree) \in SUBSET Made'
        BY <1>a, <2>2, <2>3 DEF Jobs
    <2>5. [job[r] EXCEPT !.tree = IF fixed THEN @ \union {made} ELSE @] \in Jobs'
        BY <1>a, <2>3, <2>4 DEF Jobs
    <2> QED
        BY <1>a, <1>b, <2>1, <2>2, <2>3, <2>5 DEF Steps, Kept
<1>15. CASE Pushes(r) \/ PushFails(r) \/ AsksRemote(r) \/ RemoteUnreadable(r)
    <2>1. [job[r] EXCEPT !.pushed = TRUE] \in Jobs
        BY <1>a DEF Jobs
    <2> QED
        BY <1>15, <1>a, <1>b, <1>d, <1>e, <2>1
        DEF Pushes, PushFails, AsksRemote, RemoteUnreadable, Steps, bounds
<1>16. CASE StartsAnswers(r)
    <2>1. ToAnswer(r) \in SUBSET Threads
        BY <1>a DEF ToAnswer, Jobs
    <2>2. [t \in Threads |-> IF t \in ToAnswer(r) THEN job[r].verdict[t] ELSE NoVerdict] \in [Threads -> Int]
        <3>1. job[r].verdict \in [Threads -> Int]
            BY <1>a DEF Jobs
        <3> QED
            BY <3>1 DEF NoVerdict
    <2>3. [job[r] EXCEPT !.answering = ToAnswer(r),
                         !.verdict = [t \in Threads |-> IF t \in ToAnswer(r) THEN @[t] ELSE NoVerdict]] \in Jobs
        BY <1>a, <2>1, <2>2 DEF Jobs
    <2> QED
        BY <1>16, <1>a, <1>b, <1>e, <2>3 DEF StartsAnswers, Steps, bounds
<1>17. CASE Answers(r)
    <2>1. made' = made /\ pc' = pc
        BY <1>17 DEF Answers, Replies, ReplyFails, Resolves, ResolveFails, bounds
    <2>2. PICK t \in Threads : Replies(r, t) \/ ReplyFails(r, t) \/ Resolves(r, t) \/ ResolveFails(r, t)
        BY <1>17 DEF Answers
    <2>3. /\ \A S, T \in SUBSET Threads : [job[r] EXCEPT !.answering = S, !.resolving = T] \in Jobs
          /\ \A S \in SUBSET Threads : [job[r] EXCEPT !.answering = S] \in Jobs
          /\ [job[r] EXCEPT !.resolving = {}] \in Jobs
        BY <1>a DEF Jobs
    <2>4. /\ job[r].answering \ {t} \in SUBSET Threads
          /\ (IF threads[t].comments[1] = "bot" THEN {t} ELSE {}) \in SUBSET Threads
        BY <1>a DEF Jobs
    <2>5. job' \in [Runs -> Jobs]
        <3>1. CASE Replies(r, t)
            BY <1>a, <2>3, <2>4, <3>1 DEF Replies
        <3>2. CASE ReplyFails(r, t)
            BY <1>a, <2>3, <2>4, <3>2 DEF ReplyFails
        <3>3. CASE Resolves(r, t)
            BY <1>a, <2>3, <3>3 DEF Resolves
        <3>4. CASE ResolveFails(r, t)
            BY <1>a, <2>3, <3>4 DEF ResolveFails
        <3> QED
            BY <2>2, <3>1, <3>2, <3>3, <3>4
    <2> QED
        BY <1>a, <1>e, <2>1, <2>5
<1>18. CASE RerunsFlaky(r)
    BY <1>18, <1>a, <1>b, <1>d, <1>e DEF RerunsFlaky, Steps, bounds
<1>19. CASE Summarises(r) \/ GivesUp(r) \/ LastWriteFails(r)
    BY <1>19, <1>d, <1>e DEF Summarises, GivesUp, LastWriteFails, bounds
<1>20. CASE Releases(r) \/ LabelCleared(r)
    BY <1>20, <1>a, <1>b, <1>e DEF Releases, LabelCleared, Steps, bounds
<1>21. CASE Killed(r)
    BY <1>21, <1>c, <1>e DEF Killed, Steps
<1> QED
    BY <1>1, <1>2, <1>3, <1>4, <1>5, <1>6, <1>7, <1>9, <1>10, <1>11, <1>12, <1>13, <1>14, <1>15,
       <1>16, <1>17, <1>18, <1>19, <1>20, <1>21 DEF HostStep, Kept

\* The steps of a run that change nothing on GitHub.
Unseen(r) ==
    \/ Sweeps(r) \/ Fetches(r) \/ ReadsThreads(r) \/ Plans(r) \/ ReadFails(r) \/ Prepares(r)
    \/ MergesFirst(r) \/ GatesHead(r) \/ ReadsLog(r) \/ MergesAfter(r) \/ RunsRole(r)
    \/ ChecksOut(r) \/ StepFails(r) \/ StopsUncounted(r) \/ AsksRemote(r) \/ RemoteUnreadable(r)
    \/ StartsAnswers(r) \/ (\E t \in Threads : ResolveFails(r, t)) \/ LastWriteFails(r) \/ Killed(r)

\* The steps that change something there.
Seen(r) ==
    \/ Claims(r) \/ Releases(r) \/ LabelCleared(r)
    \/ Pushes(r) \/ PushFails(r)
    \/ (\E t \in Threads : Replies(r, t) \/ ReplyFails(r, t) \/ Resolves(r, t))
    \/ RerunsFlaky(r) \/ Summarises(r) \/ GivesUp(r)

LEMMA HostSteps ==
    ASSUME NEW r \in Runs, HostStep(r) \/ Killed(r)
    PROVE  Unseen(r) \/ Seen(r)
BY Zenon DEF HostStep, Answers, Unseen, Seen

\* A fault is a step that the bound allows.
Faulty == faults' = faults \/ (faults < MaxFaults /\ faults' = faults + 1)

LEMMA UnseenChangesNothing ==
    ASSUME NEW r \in Runs, Unseen(r)
    PROVE  UNCHANGED <<github, history, events>> /\ Faulty
<1>1. CASE Sweeps(r) \/ Fetches(r) \/ ReadsThreads(r) \/ Plans(r) \/ Prepares(r)
    BY Zenon, <1>1 DEF Sweeps, Fetches, ReadsThreads, Plans, Prepares, bounds, Faulty
<1>2. CASE MergesFirst(r) \/ GatesHead(r) \/ ReadsLog(r) \/ MergesAfter(r) \/ RunsRole(r) \/ ChecksOut(r)
    BY Zenon, <1>2 DEF MergesFirst, GatesHead, ReadsLog, MergesAfter, RunsRole, ChecksOut, bounds, Faulty
<1>3. CASE StepFails(r) \/ AsksRemote(r) \/ StartsAnswers(r)
    BY Zenon, <1>3 DEF StepFails, AsksRemote, StartsAnswers, bounds, Faulty
<1>4. CASE StopsUncounted(r) \/ ReadFails(r) \/ RemoteUnreadable(r) \/ LastWriteFails(r) \/ Killed(r)
    BY Zenon, <1>4 DEF StopsUncounted, ReadFails, RemoteUnreadable, LastWriteFails, Killed, Fault, Faulty
<1>5. CASE \E t \in Threads : ResolveFails(r, t)
    BY Zenon, <1>5 DEF ResolveFails, Fault, Faulty
<1> QED
    BY Zenon, <1>1, <1>2, <1>3, <1>4, <1>5 DEF Unseen

\* What a run does on GitHub keeps the rest of the types.
LEMMA HostKeepsTypes ==
    ASSUME Types, NEW r \in Runs, HostStep(r) \/ Killed(r)
    PROVE  Types'
<1> USE ConstantsAssumption DEF ConstantsAssumption
<1>1. made' \in {made, made + 1} /\ job' \in [Runs -> Jobs'] /\ pc' \in [Runs -> Steps]
    BY HostKeepsJobs
<1>2. Made \subseteq Made'
    BY <1>1, JobsGrow
<1>3. CASE Unseen(r)
    <2>1. UNCHANGED <<head, main, clash, threads, checks, rerun, counted, claim, published, named, landed, events>>
        BY Zenon, <1>3, UnseenChangesNothing DEF github, history
    <2>2. faults' \in 0..MaxFaults
        BY <1>3, UnseenChangesNothing DEF Faulty, Types
    <2> QED
        BY <1>1, <1>2, <2>1, <2>2 DEF Types
<1>4. CASE Claims(r) \/ Releases(r) \/ LabelCleared(r)
    <2>1. /\ claim' \in {claim, r, NoRun}
          /\ UNCHANGED <<head, main, clash, threads, checks, rerun, counted, made, published, named, landed, events, faults>>
        BY <1>4 DEF Claims, Releases, LabelCleared, bounds, history
    <2> QED
        BY <1>1, <1>2, <2>1 DEF Types
<1>5. CASE Pushes(r) \/ PushFails(r)
    <2>1. /\ UNCHANGED <<main, clash, threads, counted, claim, made, named, events>>
          /\ faults' \in 0..MaxFaults
        BY <1>5 DEF Pushes, PushFails, Fault, bounds, Types
    <2>2. \/ NewHead(job[r].tree) /\ landed' = landed + 1
          \/ UNCHANGED <<head, checks, rerun, published, landed>>
        BY <1>5 DEF Pushes, PushFails, Lands
    <2>3. job[r].tree \subseteq Made'
        BY <1>2 DEF Types, Jobs
    <2>4. NewHead(job[r].tree) =>
              /\ head' \subseteq Made' /\ rerun' \subseteq Checks
              /\ 0 \in published' /\ published' \subseteq Made'
              /\ checks' \in [Checks -> CheckStates \union {"none"}]
        BY <1>2, <2>3, RestartedIsChecks DEF NewHead, Types
    <2> QED
        BY <1>1, <1>2, <2>1, <2>2, <2>4 DEF Types
<1>6. ASSUME NEW t \in Threads, Replies(r, t) \/ ReplyFails(r, t) \/ Resolves(r, t)
      PROVE  Types'
    <2>1. /\ UNCHANGED <<head, main, clash, checks, rerun, counted, claim, made, published, landed, events>>
          /\ faults' \in 0..MaxFaults
        BY <1>6 DEF Replies, ReplyFails, Resolves, Fault, bounds, history, Types
    <2>2. threads' \in [Threads -> ThreadIn(Seq(Authors))]
        <3>1. [threads EXCEPT ![t].comments = Append(@, "reply")] \in [Threads -> ThreadIn(Seq(Authors))]
            BY AppendedIsThread DEF Authors
        <3>2. [threads EXCEPT ![t].resolved = TRUE] \in [Threads -> ThreadIn(Seq(Authors))]
            BY DEF Types, ThreadIn
        <3> QED
            BY <1>6, <3>1, <3>2 DEF Replies, ReplyFails, Resolves, Types
    <2> QED
        BY <1>1, <1>2, <2>1, <2>2 DEF Types
<1>7. CASE RerunsFlaky(r)
    <2>1. UNCHANGED <<head, main, clash, threads, counted, claim, published, named, landed, events, faults>>
        BY <1>7 DEF RerunsFlaky, bounds, history
    <2>2. rerun' \subseteq Checks /\ checks' \in [Checks -> CheckStates \union {"none"}]
        BY <1>7 DEF RerunsFlaky, Types, CheckStates, ToRerun, Rerun, Jobs
    <2> QED
        BY <1>1, <1>2, <2>1, <2>2 DEF Types
<1>8. CASE Summarises(r) \/ GivesUp(r)
    <2>1. /\ counted' \in {counted, counted + 1}
          /\ UNCHANGED <<head, main, clash, threads, checks, rerun, claim, published, named, landed, events, faults>>
        BY <1>8 DEF Summarises, GivesUp, bounds, history
    <2> QED
        BY <1>1, <1>2, <2>1 DEF Types
<1> QED
    BY HostSteps, <1>3, <1>4, <1>5, <1>6, <1>7, <1>8 DEF Seen

------------------------------------------------------------------------------
(* One pass at a time, and no more of them than the cap.                      *)

\* Where a pass works on the pull request, and where a run holds the claim.
Working ==
    {"worktree", "mergingFirst", "gating", "readingLog", "mergingAfter", "role", "checkpoint",
     "pushing", "askingRemote", "answering", "replying", "summary"}
Holding == Working \union {"releasing", "dead"}

\* The claim is with the run that works under it, and with no other.
ClaimIsHeld == \A r \in Runs : pc[r] \in Holding => claim = r

\* A pass that is under way has still to be counted.
RoomLeft ==
    /\ counted <= Cap
    /\ \A r \in Runs : pc[r] \in Working => counted < Cap

LEMMA UnseenMoves ==
    ASSUME Types, NEW r \in Runs, Unseen(r)
    PROVE  \E step \in Steps :
               /\ pc' = [pc EXCEPT ![r] = step]
               /\ step \in Holding => claim = r \/ pc[r] \in Holding
               /\ step \in Working => (claim = r /\ counted < Cap) \/ pc[r] \in Working
<1> DEFINE Moves(step) ==
               /\ pc' = [pc EXCEPT ![r] = step]
               /\ step \in Holding => claim = r \/ pc[r] \in Holding
               /\ step \in Working => (claim = r /\ counted < Cap) \/ pc[r] \in Working
<1> SUFFICES \E step \in Steps : Moves(step)
    OBVIOUS
<1>a. pc \in [Runs -> Steps] /\ counted \in Nat /\ Cap \in Nat
    BY ConstantsAssumption DEF Types, ConstantsAssumption
<1>b. /\ Leaves(r) => \E step \in Steps : Moves(step)
      /\ HandsBack(r) => \E step \in Steps : Moves(step)
    BY DEF Leaves, HandsBack, Ends, Goto, Claimed, Steps, Holding, Working
<1>c. \A step \in Steps \ Holding : Goto(r, step) => Moves(step)
    BY DEF Goto, Holding
<1>d. pc[r] \in Working => \A step \in Working : Goto(r, step) => Moves(step)
    BY DEF Goto, Holding
<1> HIDE DEF Moves
<1>1. CASE Sweeps(r) \/ Fetches(r) \/ ReadsThreads(r)
    <2>1. Goto(r, "fetching") \/ Goto(r, "threads") \/ Goto(r, "checks") \/ Leaves(r)
        BY Zenon, <1>1 DEF Sweeps, Fetches, ReadsThreads
    <2> QED
        BY <1>b, <1>c, <2>1 DEF Steps, Holding, Working
<1>2. CASE Plans(r)
    <2>1. \/ Leaves(r) \/ HandsBack(r) \/ Goto(r, "claiming")
          \/ Claimed(r) /\ ~(counted >= Cap) /\ Goto(r, "worktree")
        BY Zenon, <1>2 DEF Plans
    <2>2. Claimed(r) /\ ~(counted >= Cap) /\ Goto(r, "worktree") => Moves("worktree")
        BY <1>a DEF Claimed, Goto, Moves
    <2> QED
        BY <1>b, <1>c, <2>1, <2>2 DEF Steps, Holding, Working
<1>3. CASE Prepares(r) \/ MergesFirst(r) \/ GatesHead(r) \/ ReadsLog(r) \/ MergesAfter(r) \/ RunsRole(r)
    <2>1. /\ pc[r] \in Working
          /\ \/ HandsBack(r)
             \/ Goto(r, "mergingFirst") \/ Goto(r, "gating") \/ Goto(r, "readingLog")
             \/ Goto(r, "mergingAfter") \/ Goto(r, "role") \/ Goto(r, "checkpoint")
        BY <1>3 DEF Prepares, MergesFirst, MergesCleanly, GatesHead, ReadsLog, MergesAfter, RunsRole, Working
    <2> QED
        BY <1>b, <1>d, <2>1 DEF Steps, Working
<1>4. CASE ChecksOut(r) \/ AsksRemote(r) \/ StartsAnswers(r)
    <2>1. /\ pc[r] \in Working
          /\ \/ HandsBack(r) \/ Leaves(r)
             \/ Goto(r, "answering") \/ Goto(r, "pushing") \/ Goto(r, "replying")
        BY <1>4 DEF ChecksOut, AsksRemote, StartsAnswers, Working
    <2> QED
        BY <1>b, <1>d, <2>1 DEF Steps, Working
<1>5. CASE StepFails(r) \/ ReadFails(r) \/ StopsUncounted(r) \/ RemoteUnreadable(r) \/ LastWriteFails(r)
    BY Zenon, <1>b, <1>5 DEF StepFails, ReadFails, StopsUncounted, RemoteUnreadable, LastWriteFails
<1>6. CASE \E t \in Threads : ResolveFails(r, t)
    <2>1. pc' = pc /\ pc[r] \in Working
        BY <1>6 DEF ResolveFails, Working
    <2>2. pc' = [pc EXCEPT ![r] = pc[r]] /\ pc[r] \in Steps
        BY <1>a, <2>1
    <2> QED
        BY <2>1, <2>2 DEF Moves, Holding
<1>7. CASE Killed(r)
    BY <1>7, <1>a DEF Killed, Ends, Goto, Claimed, Moves, Steps, Holding, Working
<1> QED
    BY Zenon, <1>1, <1>2, <1>3, <1>4, <1>5, <1>6, <1>7 DEF Unseen

LEMMA ClaimsStart == Init => ClaimIsHeld /\ RoomLeft
BY ConstantsAssumption DEF Init, ClaimIsHeld, RoomLeft, Holding, Working, ConstantsAssumption

LEMMA OthersLeaveClaims ==
    ASSUME Types, ClaimIsHeld, RoomLeft, CI \/ Others
    PROVE  ClaimIsHeld' /\ RoomLeft'
<1>1. UNCHANGED <<claim, pc>> /\ counted' \in {counted, 0}
    BY DEF CI, CheckCompletes, Others, MainMoves, PersonPushes, Comments, OwnerTurnsThread,
        OwnerRequeues, bounds, history
<1> QED
    BY <1>1, ConstantsAssumption DEF Types, ClaimIsHeld, RoomLeft, ConstantsAssumption

LEMMA HostKeepsClaims ==
    ASSUME Types, ClaimIsHeld, RoomLeft, NEW r \in Runs, HostStep(r) \/ Killed(r)
    PROVE  ClaimIsHeld' /\ RoomLeft'
<1>a. /\ pc \in [Runs -> Steps] /\ counted \in Nat /\ Cap \in Nat
      /\ NoRun \notin Runs /\ claim \in Runs \union {NoRun}
    BY ConstantsAssumption DEF Types, ConstantsAssumption
<1>1. CASE Unseen(r)
    <2>1. PICK step \in Steps :
               /\ pc' = [pc EXCEPT ![r] = step]
               /\ step \in Holding => claim = r \/ pc[r] \in Holding
               /\ step \in Working => (claim = r /\ counted < Cap) \/ pc[r] \in Working
        BY <1>1, UnseenMoves
    <2>2. UNCHANGED <<claim, counted>>
        BY Zenon, <1>1, UnseenChangesNothing DEF github
    <2> QED
        BY <1>a, <2>1, <2>2 DEF ClaimIsHeld, RoomLeft
<1>2. CASE Claims(r)
    <2>1. /\ \/ claim = NoRun /\ claim' = r /\ Goto(r, "threads")
             \/ claim' = claim /\ Leaves(r)
          /\ counted' = counted
        BY Zenon, <1>2 DEF Claims
    <2> QED
        BY <1>a, <2>1 DEF Leaves, Ends, Goto, Claimed, ClaimIsHeld, RoomLeft, Holding, Working
<1>3. CASE Releases(r) \/ LabelCleared(r)
    <2>1. /\ pc[r] \in {"releasing", "dead"} /\ claim' = NoRun
          /\ pc' = [pc EXCEPT ![r] = "idle"] /\ counted' = counted
        BY <1>3 DEF Releases, LabelCleared, Goto
    <2>2. \A s \in Runs : pc[s] \in Holding => s = r
        BY <2>1 DEF ClaimIsHeld, Holding
    <2> QED
        BY <1>a, <2>1, <2>2 DEF ClaimIsHeld, RoomLeft, Holding, Working
<1>4. CASE Pushes(r) \/ PushFails(r)
    <2>1. /\ pc[r] = "pushing"
          /\ \E step \in {"answering", "askingRemote"} : pc' = [pc EXCEPT ![r] = step]
          /\ UNCHANGED <<claim, counted>>
        BY <1>4 DEF Pushes, PushFails, Goto
    <2> QED
        BY <1>a, <2>1 DEF ClaimIsHeld, RoomLeft, Holding, Working
<1>5. CASE \E t \in Threads : Replies(r, t) \/ ReplyFails(r, t) \/ Resolves(r, t)
    <2>1. UNCHANGED <<claim, counted, pc>>
        BY <1>5 DEF Replies, ReplyFails, Resolves
    <2> QED
        BY <2>1 DEF ClaimIsHeld, RoomLeft
<1>6. CASE RerunsFlaky(r)
    <2>1. /\ pc[r] = "replying" /\ UNCHANGED <<claim, counted>>
          /\ \E step \in {"handingBack", "summary"} : pc' = [pc EXCEPT ![r] = step]
        BY <1>6 DEF RerunsFlaky, HandsBack, Ends, Goto
    <2> QED
        BY <1>a, <2>1 DEF ClaimIsHeld, RoomLeft, Holding, Working
<1>7. CASE Summarises(r)
    <2>1. /\ pc[r] = "summary" /\ claim' = claim /\ counted' = counted + 1
          /\ pc' = [pc EXCEPT ![r] = IF claim = r THEN "releasing" ELSE "idle"]
        BY <1>7 DEF Summarises, Leaves, Ends, Goto, Claimed
    <2>2. \A s \in Runs : pc[s] \in Holding => s = r
        BY <2>1 DEF ClaimIsHeld, Holding, Working
    <2>3. counted < Cap
        BY <2>1 DEF RoomLeft, Working
    <2> QED
        BY <1>a, <2>1, <2>2, <2>3 DEF ClaimIsHeld, RoomLeft, Holding, Working
<1>8. CASE GivesUp(r)
    <2>1. /\ UNCHANGED <<claim, counted>>
          /\ pc' = [pc EXCEPT ![r] = IF claim = r THEN "releasing" ELSE "idle"]
        BY <1>8 DEF GivesUp, Leaves, Ends, Goto, Claimed
    <2> QED
        BY <1>a, <2>1 DEF ClaimIsHeld, RoomLeft, Holding, Working
<1> QED
    BY HostSteps, <1>1, <1>2, <1>3, <1>4, <1>5, <1>6, <1>7, <1>8 DEF Seen

------------------------------------------------------------------------------
(* What a pass says it fixed is published, and its pushes add to the branch.  *)

\* Where the worktree holds what is still to be pushed, if anything.
Building ==
    {"mergingFirst", "gating", "readingLog", "mergingAfter", "role", "checkpoint", "pushing"}

\* A worktree is the head it started from, or holds a commit nobody has seen.
WorkIsNew(r) ==
    /\ pc[r] \in Building =>
           job[r].tree = job[r].target \/ ~(job[r].tree \subseteq published)
    /\ pc[r] = "pushing" => job[r].tree # job[r].target

\* What is answered on GitHub is on GitHub.
AnswersArePublished(r) ==
    /\ job[r].target \subseteq published
    /\ pc[r] \in {"answering", "replying"} => job[r].tree \subseteq published
    /\ pc[r] = "replying" =>
           \A t \in job[r].answering : job[r].verdict[t] >= 0 => job[r].verdict[t] \in job[r].tree

PublishedInv ==
    /\ head \subseteq published
    /\ named \subseteq published
    /\ \A r \in Runs : WorkIsNew(r) /\ AnswersArePublished(r)

LEMMA PublishedStart == Init => PublishedInv
<1> SUFFICES ASSUME Init PROVE PublishedInv
    OBVIOUS
<1>1. \A r \in Runs : pc[r] = "idle" /\ job[r].target = {}
    BY DEF Init, FreshJob
<1> QED
    BY <1>1 DEF Init, PublishedInv, WorkIsNew, AnswersArePublished, Building

\* A run that has no worktree to speak of.
Resting == Steps \ (Building \union {"answering", "replying"})

LEMMA RestingIsFine ==
    ASSUME NEW r \in Runs, pc[r] \in Resting, job[r].target \subseteq published
    PROVE  WorkIsNew(r) /\ AnswersArePublished(r)
BY DEF WorkIsNew, AnswersArePublished, Resting, Building

LEMMA OthersKeepPublished ==
    ASSUME Types, PublishedInv, CI \/ Others
    PROVE  PublishedInv'
<1>1. CASE PersonPushes
    <2>1. PICK onto \in {head, {0}} : NewHead(onto \union {made})
        BY <1>1 DEF PersonPushes
    <2>2. UNCHANGED <<pc, job, named>>
        BY <1>1 DEF PersonPushes
    <2>3. /\ head' = onto \union {made} /\ published' = published \union {made}
        BY <2>1 DEF NewHead, PublishedInv, Types
    <2>4. head' \subseteq published' /\ named' \subseteq published'
        BY <2>2, <2>3 DEF PublishedInv, Types
    <2>5. ASSUME NEW r \in Runs
          PROVE  WorkIsNew(r)' /\ AnswersArePublished(r)'
        <3>1. job[r].tree \subseteq Made /\ made \notin Made
            BY DEF Types, Jobs, Made
        <3>2. ~(job[r].tree \subseteq published) => ~(job[r].tree \subseteq published')
            BY <2>3, <3>1
        <3> QED
            BY <2>2, <2>3, <3>2 DEF PublishedInv, WorkIsNew, AnswersArePublished
    <2> QED
        BY <2>4, <2>5 DEF PublishedInv
<1>2. CASE UNCHANGED <<head, named, published, pc, job>>
    BY <1>2 DEF PublishedInv, WorkIsNew, AnswersArePublished
<1>3. PersonPushes \/ UNCHANGED <<head, named, published, pc, job>>
    BY DEF CI, CheckCompletes, Others, MainMoves, Comments, OwnerTurnsThread, OwnerRequeues,
        bounds, history
<1> QED
    BY <1>1, <1>2, <1>3

\* A run's step is its own.
LEMMA HostTouchesOwn ==
    ASSUME Types, NEW r \in Runs, HostStep(r) \/ Killed(r), NEW s \in Runs, s # r
    PROVE  pc'[s] = pc[s] /\ job'[s] = job[s]
<1>a. pc \in [Runs -> Steps] /\ job \in [Runs -> Jobs]
    BY DEF Types
<1>b. \A step : Ends(r, step) => pc'[s] = pc[s] /\ job'[s] = job[s]
    BY <1>a DEF Ends, Goto
<1>c. \A step : Goto(r, step) => pc'[s] = pc[s]
    BY <1>a DEF Goto
<1>d. /\ Leaves(r) => pc'[s] = pc[s] /\ job'[s] = job[s]
      /\ HandsBack(r) => pc'[s] = pc[s] /\ job'[s] = job[s]
    BY <1>b DEF Leaves, HandsBack
<1>1. CASE Sweeps(r) \/ Fetches(r) \/ Prepares(r) \/ GatesHead(r) \/ StartsAnswers(r)
    BY <1>1, <1>a, <1>c DEF Sweeps, Fetches, Prepares, GatesHead, StartsAnswers
<1>2. CASE ReadsThreads(r) \/ Plans(r)
    <2>1. \/ Leaves(r) \/ HandsBack(r)
          \/ (\E step : Goto(r, step)) /\ \E j : job' = [job EXCEPT ![r] = j]
        <3>1. CASE ReadsThreads(r)
            <4>1. \/ Leaves(r)
                  \/ Goto(r, "checks") /\ \E S : job' = [job EXCEPT ![r].forRole = S]
                BY Zenon, <3>1 DEF ReadsThreads
            <4> QED
                BY <1>a, <4>1
        <3>2. CASE Plans(r)
            <4>1. \/ Leaves(r) \/ HandsBack(r)
                  \/ /\ \E step : Goto(r, step)
                     /\ \E m, red : job' = [job EXCEPT ![r].needsMerge = m, ![r].red = red]
                BY Zenon, <3>2 DEF Plans
            <4> QED
                BY <1>a, <4>1
        <3> QED
            BY <1>2, <3>1, <3>2
    <2> QED
        BY <1>a, <1>c, <1>d, <2>1
<1>3. CASE MergesFirst(r) \/ MergesAfter(r)
    BY <1>3, <1>a, <1>c DEF MergesFirst, MergesAfter, MergesCleanly
<1>4. CASE RunsRole(r)
    <2>1. \/ job' = job
          \/ \E tree, m, v : job' = [job EXCEPT ![r].tree = tree, ![r].midMerge = m, ![r].verdict = v]
        BY Zenon, <1>4 DEF RunsRole
    <2>2. pc'[s] = pc[s]
        BY Zenon, <1>4, <1>c DEF RunsRole
    <2> QED
        BY <1>a, <2>1, <2>2
<1>5. CASE ChecksOut(r)
    <2>1. PICK fixed \in BOOLEAN :
              /\ job' = [job EXCEPT ![r].tree = IF fixed THEN @ \union {made} ELSE @]
              /\ Goto(r, IF job'[r].tree = job[r].target THEN "answering" ELSE "pushing")
        BY Zenon, <1>5 DEF ChecksOut
    <2> QED
        BY <1>a, <1>c, <2>1
<1>6. CASE ReadsLog(r) \/ RerunsFlaky(r) \/ AsksRemote(r)
    BY <1>6, <1>a, <1>c, <1>d DEF ReadsLog, RerunsFlaky, AsksRemote
<1>7. CASE \/ StepFails(r) \/ ReadFails(r) \/ StopsUncounted(r) \/ RemoteUnreadable(r)
           \/ LastWriteFails(r) \/ Summarises(r) \/ GivesUp(r)
    BY Zenon, <1>7, <1>d DEF StepFails, ReadFails, StopsUncounted, RemoteUnreadable, LastWriteFails,
        Summarises, GivesUp
<1>8. CASE Killed(r)
    BY <1>8, <1>b DEF Killed
<1>9. CASE Claims(r) \/ Releases(r) \/ LabelCleared(r)
    BY <1>9, <1>a, <1>c, <1>d DEF Claims, Releases, LabelCleared
<1>10. CASE Pushes(r) \/ PushFails(r)
    BY <1>10, <1>a, <1>c DEF Pushes, PushFails
<1>11. CASE Answers(r)
    <2>1. PICK t \in Threads : Replies(r, t) \/ ReplyFails(r, t) \/ Resolves(r, t) \/ ResolveFails(r, t)
        BY <1>11 DEF Answers
    <2>2. pc' = pc
        BY <2>1 DEF Replies, ReplyFails, Resolves, ResolveFails
    <2>3. job'[s] = job[s]
        BY <1>a, <2>1 DEF Replies, ReplyFails, Resolves, ResolveFails
    <2> QED
        BY <2>2, <2>3
<1> QED
    BY Zenon, <1>1, <1>2, <1>3, <1>4, <1>5, <1>6, <1>7, <1>8, <1>9, <1>10, <1>11 DEF HostStep

\* The run's own part of the invariant, for the steps that push nothing.
LEMMA UnseenKeepsPublished ==
    ASSUME Types, PublishedInv, NEW r \in Runs, Unseen(r)
    PROVE  WorkIsNew(r)' /\ AnswersArePublished(r)'
<1> DEFINE Fine == WorkIsNew(r)' /\ AnswersArePublished(r)'
<1>a. /\ pc \in [Runs -> Steps] /\ job \in [Runs -> Jobs] /\ job[r] \in Jobs
      /\ WorkIsNew(r) /\ AnswersArePublished(r)
      /\ job[r].target \subseteq published /\ head \subseteq published
      /\ made \notin published
    BY DEF Types, PublishedInv, AnswersArePublished, Made
<1>b. published' = published
    BY Zenon, UnseenChangesNothing DEF history
<1>c. pc'[r] \in Resting /\ job'[r].target \subseteq published => Fine
    BY <1>b DEF WorkIsNew, AnswersArePublished, Resting, Building
<1>d. \A step \in Resting : Ends(r, step) => Fine
    <2>1. FreshJob.target = {}
        BY DEF FreshJob
    <2> QED
        BY <1>a, <1>c, <2>1 DEF Ends, Goto
<1>e. (Leaves(r) => Fine) /\ (HandsBack(r) => Fine)
    BY <1>d DEF Leaves, HandsBack, Resting, Steps, Building
<1>f. /\ pc'[r] \in Building \ {"pushing"}
      /\ job'[r].target = job[r].target
      /\ \/ job'[r].tree = job[r].tree /\ pc[r] \in Building
         \/ job'[r].tree = job[r].target
         \/ made \in job'[r].tree
      => Fine
    BY <1>a, <1>b DEF WorkIsNew, AnswersArePublished, Building
<1> SUFFICES Fine
    OBVIOUS
<1> HIDE DEF Fine
<1>1. CASE Sweeps(r) \/ Fetches(r)
    <2>1. /\ pc'[r] \in {"fetching", "threads"}
          /\ \/ \E dirty : job' = [job EXCEPT ![r].target = head, ![r].conflicted = dirty]
             \/ job' = [job EXCEPT ![r].base = main]
        BY <1>1, <1>a DEF Sweeps, Fetches, Goto
    <2>2. \A dirty : job' = [job EXCEPT ![r].target = head, ![r].conflicted = dirty]
                         => job'[r].target = head
        BY <1>a DEF Jobs
    <2>3. job' = [job EXCEPT ![r].base = main] => job'[r].target = job[r].target
        BY <1>a DEF Jobs
    <2> QED
        BY <1>a, <1>c, <2>1, <2>2, <2>3 DEF Resting, Steps, Building
<1>2. CASE ReadsThreads(r)
    <2>1. Leaves(r) \/ (Goto(r, "checks") /\ \E S : job' = [job EXCEPT ![r].forRole = S])
        BY Zenon, <1>2 DEF ReadsThreads
    <2> QED
        BY <1>a, <1>c, <1>e, <2>1 DEF Goto, Resting, Steps, Building, Jobs
<1>3. CASE Plans(r)
    <2>1. \/ Leaves(r) \/ HandsBack(r)
          \/ /\ Goto(r, "worktree") \/ Goto(r, "claiming")
             /\ \E m, red : job' = [job EXCEPT ![r].needsMerge = m, ![r].red = red]
        BY Zenon, <1>3 DEF Plans
    <2>2. \A m, red : job' = [job EXCEPT ![r].needsMerge = m, ![r].red = red]
                          => job'[r].target = job[r].target
        BY <1>a DEF Jobs
    <2>3. Goto(r, "worktree") \/ Goto(r, "claiming") => pc'[r] \in Resting
        BY <1>a DEF Goto, Resting, Steps, Building
    <2> QED
        BY <1>a, <1>c, <1>e, <2>1, <2>2, <2>3
<1>4. CASE Prepares(r)
    BY <1>4, <1>a, <1>f DEF Prepares, Goto, Building, Jobs
<1>5. ASSUME NEW next \in {"gating", "role"}, MergesCleanly(r, next)
      PROVE  Fine
    BY <1>5, <1>a, <1>f DEF MergesCleanly, Goto, Building, Jobs
<1>6. CASE MergesFirst(r)
    <2>1. pc[r] \in Building /\ (MergesCleanly(r, "gating") \/ (Goto(r, "gating") /\ job' = job))
        BY <1>6 DEF MergesFirst, Building
    <2> QED
        BY <1>5, <1>a, <1>f, <2>1 DEF Goto, Building
<1>7. CASE MergesAfter(r)
    <2>1. /\ pc[r] \in Building
          /\ \/ MergesCleanly(r, "role")
             \/ Goto(r, "role") /\ job' = job
             \/ Goto(r, "role") /\ job' = [job EXCEPT ![r].merged = "conflicts", ![r].midMerge = TRUE]
        <3>1. pc[r] \in Building
            BY <1>7 DEF MergesAfter, Building
        <3>2. \/ MergesCleanly(r, "role")
              \/ Goto(r, "role") /\ job' = job
              \/ Goto(r, "role") /\ job' = [job EXCEPT ![r].merged = "conflicts", ![r].midMerge = TRUE]
            BY Zenon, <1>7 DEF MergesAfter
        <3> QED
            BY <3>1, <3>2
    <2>2. Goto(r, "role") /\ job' = job => Fine
        BY <1>a, <1>f, <2>1 DEF Goto, Building
    <2>3. Goto(r, "role") /\ job' = [job EXCEPT ![r].merged = "conflicts", ![r].midMerge = TRUE] => Fine
        BY <1>a, <1>f, <2>1 DEF Goto, Building, Jobs
    <2> QED
        BY <1>5, <2>1, <2>2, <2>3
<1>8. CASE GatesHead(r) \/ ReadsLog(r)
    BY <1>8, <1>a, <1>e, <1>f DEF GatesHead, ReadsLog, Goto, Building, Jobs
<1>9. CASE RunsRole(r)
    <2>1. /\ pc'[r] = "checkpoint" /\ pc[r] \in Building
        BY <1>9, <1>a DEF RunsRole, Goto, Building
    <2>2. \/ job' = job
          \/ \E tree, m, v :
                /\ tree = job[r].tree \/ made \in tree
                /\ job' = [job EXCEPT ![r].tree = tree, ![r].midMerge = m, ![r].verdict = v]
        <3>1. \/ job' = job
              \/ \E tree \in {job[r].tree} \union
                            {b \union {made} : b \in {job[r].tree, job[r].base, job[r].tree \union job[r].base}} :
                    \E m, v : job' = [job EXCEPT ![r].tree = tree, ![r].midMerge = m, ![r].verdict = v]
            BY Zenon, <1>9 DEF RunsRole
        <3> QED
            BY <3>1
    <2>3. /\ job'[r].target = job[r].target
          /\ job'[r].tree = job[r].tree \/ made \in job'[r].tree
        <3>1. \A tree, m, v :
                  job' = [job EXCEPT ![r].tree = tree, ![r].midMerge = m, ![r].verdict = v]
                  => job'[r].target = job[r].target /\ job'[r].tree = tree
            BY <1>a DEF Jobs
        <3>2. CASE job' = job
            BY <3>2
        <3>3. ASSUME NEW tree, NEW m, NEW v, tree = job[r].tree \/ made \in tree,
                     job' = [job EXCEPT ![r].tree = tree, ![r].midMerge = m, ![r].verdict = v]
              PROVE  /\ job'[r].target = job[r].target
                     /\ job'[r].tree = job[r].tree \/ made \in job'[r].tree
            <4>1. job'[r].target = job[r].target /\ job'[r].tree = tree
                BY Zenon, <3>1, <3>3
            <4> QED
                BY ONLY <3>3, <4>1
        <3> QED
            BY Zenon, <2>2, <3>2, <3>3
    <2> QED
        BY <1>f, <2>1, <2>3 DEF Building
<1>10. CASE ChecksOut(r)
    <2>1. PICK fixed \in BOOLEAN :
              /\ job' = [job EXCEPT ![r].tree = IF fixed THEN @ \union {made} ELSE @]
              /\ Goto(r, IF job'[r].tree = job[r].target THEN "answering" ELSE "pushing")
        BY Zenon, <1>10 DEF ChecksOut
    <2>2. /\ job'[r].target = job[r].target
          /\ job'[r].tree = job[r].tree \/ made \in job'[r].tree
          /\ pc'[r] = IF job'[r].tree = job[r].target THEN "answering" ELSE "pushing"
        BY <1>a, <2>1 DEF Goto, Jobs
    <2>3. pc[r] \in Building
        BY <1>10 DEF ChecksOut, Building
    <2> QED
        BY <1>a, <1>b, <2>2, <2>3 DEF Fine, WorkIsNew, AnswersArePublished, Building
<1>11. CASE AsksRemote(r)
    <2>1. CASE head = job[r].tree /\ Goto(r, "answering") /\ job' = [job EXCEPT ![r].pushed = TRUE]
        BY <1>a, <1>b, <2>1 DEF Goto, Fine, WorkIsNew, AnswersArePublished, Building, Jobs
    <2> QED
        BY Zenon, <1>11, <1>e, <2>1 DEF AsksRemote
<1>12. CASE \/ StepFails(r) \/ ReadFails(r) \/ StopsUncounted(r) \/ RemoteUnreadable(r)
            \/ LastWriteFails(r)
    BY Zenon, <1>12, <1>e DEF StepFails, ReadFails, StopsUncounted, RemoteUnreadable, LastWriteFails
<1>13. CASE StartsAnswers(r)
    <2>1. /\ pc[r] = "answering" /\ pc'[r] = "replying"
          /\ job'[r].target = job[r].target /\ job'[r].tree = job[r].tree
          /\ job'[r].answering = ToAnswer(r)
          /\ job'[r].verdict = [t \in Threads |-> IF t \in ToAnswer(r) THEN job[r].verdict[t] ELSE NoVerdict]
        BY <1>13, <1>a DEF StartsAnswers, Goto, Jobs
    <2>2. \A t \in ToAnswer(r) : t \in Threads /\ (job[r].verdict[t] >= 0 => job[r].verdict[t] \in job[r].tree)
        BY <1>a DEF ToAnswer, AddedByPass, Declined, Jobs
    <2> QED
        BY <1>a, <1>b, <2>1, <2>2 DEF Fine, WorkIsNew, AnswersArePublished, Building
<1>14. CASE \E t \in Threads : ResolveFails(r, t)
    <2>1. /\ pc' = pc /\ pc[r] = "replying" /\ job'[r].target = job[r].target /\ job'[r].tree = job[r].tree
          /\ job'[r].answering = job[r].answering /\ job'[r].verdict = job[r].verdict
        BY <1>14, <1>a DEF ResolveFails, Jobs
    <2> QED
        BY <1>a, <1>b, <2>1 DEF Fine, WorkIsNew, AnswersArePublished, Building
<1>15. CASE Killed(r)
    BY <1>15, <1>d DEF Killed, Resting, Steps, Building
<1> QED
    BY Zenon, <1>1, <1>2, <1>3, <1>4, <1>6, <1>7, <1>8, <1>9, <1>10, <1>11, <1>12, <1>13, <1>14, <1>15
    DEF Unseen

LEMMA HostKeepsPublished ==
    ASSUME Types, ClaimIsHeld, PublishedInv, NEW r \in Runs, HostStep(r) \/ Killed(r)
    PROVE  PublishedInv'
<1>a. /\ pc \in [Runs -> Steps] /\ job \in [Runs -> Jobs] /\ job[r] \in Jobs
      /\ WorkIsNew(r) /\ AnswersArePublished(r)
      /\ head \subseteq published /\ named \subseteq published
    BY DEF Types, PublishedInv
<1>b. published \subseteq published'
      => \A s \in Runs \ {r} :
             (pc[s] \notin Building \/ published' = published) => WorkIsNew(s)' /\ AnswersArePublished(s)'
    BY HostTouchesOwn DEF PublishedInv, WorkIsNew, AnswersArePublished
<1>c. /\ Leaves(r) => pc'[r] \in Resting /\ job'[r].target = {}
      /\ HandsBack(r) => pc'[r] \in Resting /\ job'[r].target = {}
    <2>1. FreshJob.target = {}
        BY DEF FreshJob
    <2> QED
        BY <1>a, <2>1 DEF Leaves, HandsBack, Ends, Goto, Resting, Steps, Building
<1>d. job[r].target \subseteq published
    BY <1>a DEF AnswersArePublished
<1>1. CASE Unseen(r)
    <2>1. UNCHANGED <<head, named, published>>
        BY Zenon, <1>1, UnseenChangesNothing DEF github, history
    <2> QED
        BY <1>1, <1>a, <1>b, <2>1, UnseenKeepsPublished DEF PublishedInv
<1>2. CASE Claims(r) \/ Releases(r) \/ LabelCleared(r)
    <2>1. /\ UNCHANGED <<head, named, published>>
          /\ pc'[r] \in Resting
          /\ job'[r].target \subseteq published
        <3>1. UNCHANGED <<head, named, published>>
            BY <1>2 DEF Claims, Releases, LabelCleared, bounds, history
        <3>2. Leaves(r) \/ ((Goto(r, "threads") \/ Goto(r, "idle")) /\ job' = job)
            BY Zenon, <1>2 DEF Claims, Releases, LabelCleared
        <3> QED
            BY <1>a, <1>c, <1>d, <3>1, <3>2 DEF Goto, Resting, Steps, Building
    <2> QED
        BY <1>a, <1>b, <2>1 DEF PublishedInv, WorkIsNew, AnswersArePublished, Resting, Building
<1>3. CASE Pushes(r) \/ PushFails(r)
    <2>1. \A s \in Runs \ {r} : pc[s] \notin Building
        <3>1. pc[r] = "pushing"
            BY <1>3 DEF Pushes, PushFails
        <3> QED
            BY <3>1 DEF ClaimIsHeld, Holding, Working, Building
    <2>2. /\ named' = named /\ head' \subseteq published' /\ published \subseteq published'
          /\ pc'[r] \in {"answering", "askingRemote"}
          /\ pc'[r] = "answering" => job[r].tree \subseteq published'
          /\ job'[r].target = job[r].target /\ job'[r].tree = job[r].tree
        <3>1. CASE Pushes(r)
            BY <1>a, <3>1 DEF Pushes, Lands, NewHead, Goto, Jobs
        <3>2. CASE PushFails(r)
            <4>1. /\ named' = named /\ job' = job /\ pc'[r] = "askingRemote"
                  /\ Lands(r) \/ UNCHANGED <<head, published>>
                BY <1>a, <3>2 DEF PushFails, Goto
            <4> QED
                BY <1>a, <4>1 DEF Lands, NewHead
        <3> QED
            BY <1>3, <3>1, <3>2
    <2>3. WorkIsNew(r)' /\ AnswersArePublished(r)'
        BY <1>a, <2>2 DEF WorkIsNew, AnswersArePublished, Building
    <2> QED
        BY <1>a, <1>b, <2>1, <2>2, <2>3 DEF PublishedInv
<1>4. ASSUME NEW t \in Threads, Replies(r, t) \/ ReplyFails(r, t) \/ Resolves(r, t)
      PROVE  PublishedInv'
    <2>1. /\ pc[r] = "replying" /\ pc' = pc /\ UNCHANGED <<head, published>>
          /\ job'[r].target = job[r].target /\ job'[r].tree = job[r].tree
          /\ job'[r].answering \subseteq job[r].answering /\ job'[r].verdict = job[r].verdict
        <3>1. CASE Replies(r, t)
            BY <1>a, <3>1 DEF Replies, bounds, Jobs
        <3>2. CASE ReplyFails(r, t)
            BY <1>a, <3>2 DEF ReplyFails, history, Jobs
        <3>3. CASE Resolves(r, t)
            BY <1>a, <3>3 DEF Resolves, bounds, history, Jobs
        <3> QED
            BY <1>4, <3>1, <3>2, <3>3
    <2>2. named' \subseteq published
        <3>1. CASE Replies(r, t)
            BY <1>a, <2>1, <3>1 DEF Replies, AnswersArePublished
        <3>2. CASE ~Replies(r, t)
            BY <1>4, <1>a, <3>2 DEF ReplyFails, Resolves, history
        <3> QED
            BY <3>1, <3>2
    <2>3. WorkIsNew(r)' /\ AnswersArePublished(r)'
        BY <1>a, <2>1 DEF WorkIsNew, AnswersArePublished
    <2> QED
        BY <1>a, <1>b, <2>1, <2>2, <2>3 DEF PublishedInv
<1>5. CASE RerunsFlaky(r) \/ Summarises(r) \/ GivesUp(r)
    <2>1. /\ UNCHANGED <<head, named, published>>
          /\ pc'[r] \in Resting
          /\ job'[r].target \subseteq published
        <3>1. UNCHANGED <<head, named, published>>
            BY <1>5 DEF RerunsFlaky, Summarises, GivesUp, bounds, history
        <3>2. Leaves(r) \/ HandsBack(r) \/ (Goto(r, "summary") /\ job' = job)
            BY Zenon, <1>5 DEF RerunsFlaky, Summarises, GivesUp
        <3> QED
            BY <1>a, <1>c, <1>d, <3>1, <3>2 DEF Goto, Resting, Steps, Building
    <2> QED
        BY <1>a, <1>b, <2>1 DEF PublishedInv, WorkIsNew, AnswersArePublished, Resting, Building
<1> QED
    BY HostSteps, <1>1, <1>2, <1>3, <1>4, <1>5 DEF Seen

------------------------------------------------------------------------------
(* A thread is answered once for each thing said in it, and resolved only     *)
(* when it holds the answer.                                                  *)

Replied(thread) == \E i \in DOMAIN thread.comments : thread.comments[i] = "reply"

\* Between two replies somebody said something.
AnsweredOnce(thread) ==
    \A i, j \in DOMAIN thread.comments :
        i < j /\ thread.comments[i] = "reply" /\ thread.comments[j] = "reply" =>
            \E k \in i..j : thread.comments[k] \in Heard(thread) \ {"reply"}

\* `more` is the thread with one more comment.
LEMMA OneMoreComment ==
    ASSUME NEW thread \in ThreadIn(Seq(Authors)), thread.comments # <<>>,
           NEW who \in Authors, NEW more,
           more.comments = Append(thread.comments, who)
    PROVE  /\ more.comments # <<>>
           /\ more.comments[1] = thread.comments[1]
           /\ Heard(more) = Heard(thread)
           /\ \E n \in Nat \ {0} :
                  /\ DOMAIN thread.comments = 1..n /\ DOMAIN more.comments = 1..(n + 1)
                  /\ \A i \in 1..n : more.comments[i] = thread.comments[i]
                  /\ more.comments[n + 1] = who
<1>1. thread.comments \in Seq(Authors)
    BY DEF ThreadIn
<1>2. PICK n \in Nat \ {0} : n = Len(thread.comments)
    BY <1>1
<1>3. DOMAIN thread.comments = 1..n /\ DOMAIN more.comments = 1..(n + 1)
    BY <1>1, <1>2
<1>4. /\ \A i \in 1..n : more.comments[i] = thread.comments[i]
      /\ more.comments[n + 1] = who
    BY <1>1, <1>2
<1>5. more.comments # <<>> /\ more.comments[1] = thread.comments[1]
    BY <1>1, <1>2, <1>4
<1> QED
    BY <1>3, <1>4, <1>5 DEF Heard

LEMMA CommentKeepsAnswers ==
    ASSUME NEW thread \in ThreadIn(Seq(Authors)), thread.comments # <<>>,
           NEW who \in Authors, NEW more,
           more.comments = Append(thread.comments, who),
           AnsweredOnce(thread),
           who # "reply" \/ ~LastHeardIsReply(thread)
    PROVE  AnsweredOnce(more)
<1>1. PICK n \in Nat \ {0} :
          /\ DOMAIN thread.comments = 1..n /\ DOMAIN more.comments = 1..(n + 1)
          /\ \A i \in 1..n : more.comments[i] = thread.comments[i]
          /\ more.comments[n + 1] = who
    BY OneMoreComment
<1>2. Heard(more) = Heard(thread)
    BY OneMoreComment
<1> SUFFICES ASSUME NEW i \in 1..(n + 1), NEW j \in 1..(n + 1), i < j,
                    more.comments[i] = "reply", more.comments[j] = "reply"
             PROVE  \E k \in i..j : more.comments[k] \in Heard(thread) \ {"reply"}
    BY <1>1, <1>2 DEF AnsweredOnce
<1>3. i \in 1..n /\ thread.comments[i] = "reply"
    BY <1>1
<1>4. CASE j \in 1..n
    <2>1. PICK k \in i..j : thread.comments[k] \in Heard(thread) \ {"reply"}
        BY <1>1, <1>3, <1>4 DEF AnsweredOnce
    <2> QED
        BY <1>1, <1>3, <1>4, <2>1
<1>5. CASE j = n + 1
    <2>1. PICK h \in 1..n : h > i /\ thread.comments[h] \in Heard(thread)
        BY <1>1, <1>3, <1>5 DEF LastHeardIsReply
    <2>2. CASE thread.comments[h] # "reply"
        BY <1>1, <1>3, <1>5, <2>1, <2>2
    <2>3. CASE thread.comments[h] = "reply"
        <3>1. PICK k \in i..h : thread.comments[k] \in Heard(thread) \ {"reply"}
            BY <1>1, <1>3, <2>1, <2>3 DEF AnsweredOnce
        <3> QED
            BY <1>1, <1>3, <1>5, <2>1, <3>1
    <2> QED
        BY <2>2, <2>3
<1> QED
    BY <1>1, <1>4, <1>5

LEMMA CommentKeepsOpen ==
    ASSUME NEW thread \in ThreadIn(Seq(Authors)), thread.comments # <<>>,
           NEW who \in Authors \ {"reply"}, NEW more,
           more.comments = Append(thread.comments, who),
           ~LastHeardIsReply(thread)
    PROVE  ~LastHeardIsReply(more)
<1>1. PICK n \in Nat \ {0} :
          /\ DOMAIN thread.comments = 1..n /\ DOMAIN more.comments = 1..(n + 1)
          /\ \A i \in 1..n : more.comments[i] = thread.comments[i]
          /\ more.comments[n + 1] = who
    BY OneMoreComment
<1>2. Heard(more) = Heard(thread)
    BY OneMoreComment
<1> SUFFICES ASSUME NEW i \in 1..(n + 1), more.comments[i] = "reply",
                    \A j \in 1..(n + 1) : j > i => more.comments[j] \notin Heard(thread)
             PROVE  FALSE
    BY <1>1, <1>2 DEF LastHeardIsReply
<1>3. i \in 1..n /\ thread.comments[i] = "reply"
    BY <1>1
<1>4. \A j \in 1..n : j > i => thread.comments[j] \notin Heard(thread)
    BY <1>1
<1> QED
    BY <1>1, <1>3, <1>4 DEF LastHeardIsReply

LEMMA CommentKeepsReply ==
    ASSUME NEW thread \in ThreadIn(Seq(Authors)), thread.comments # <<>>,
           NEW who \in Authors, NEW more,
           more.comments = Append(thread.comments, who),
           Replied(thread) \/ who = "reply"
    PROVE  Replied(more)
<1>1. PICK n \in Nat \ {0} :
          /\ DOMAIN thread.comments = 1..n /\ DOMAIN more.comments = 1..(n + 1)
          /\ \A i \in 1..n : more.comments[i] = thread.comments[i]
          /\ more.comments[n + 1] = who
    BY OneMoreComment
<1>2. 1..n \subseteq 1..(n + 1) /\ n + 1 \in 1..(n + 1)
    OBVIOUS
<1> QED
    BY <1>1, <1>2 DEF Replied

LEMMA SameComments ==
    ASSUME NEW thread, NEW other, other.comments = thread.comments
    PROVE  /\ LastHeardIsReply(other) <=> LastHeardIsReply(thread)
           /\ AnsweredOnce(other) <=> AnsweredOnce(thread)
           /\ Replied(other) <=> Replied(thread)
<1>1. Heard(other) = Heard(thread)
    BY DEF Heard
<1> QED
    BY <1>1 DEF LastHeardIsReply, AnsweredOnce, Replied

\* From the read of the threads to the first reply.
Asking ==
    {"checks", "worktree", "mergingFirst", "gating", "readingLog", "mergingAfter", "role",
     "checkpoint", "pushing", "askingRemote", "answering"}

WellSaid(t) == threads[t].comments # <<>> /\ AnsweredOnce(threads[t])

\* Nobody answers behind the back of the run that holds the claim.
StillOpen(r) ==
    /\ claim = r /\ pc[r] \in Asking => \A t \in job[r].forRole : ~LastHeardIsReply(threads[t])
    /\ pc[r] = "replying" => \A t \in job[r].answering : ~LastHeardIsReply(threads[t])

MayResolve(r) ==
    \A t \in job[r].resolving : threads[t].comments[1] = "bot" /\ Replied(threads[t])

ThreadsInv ==
    /\ \A t \in Threads : WellSaid(t)
    /\ \A r \in Runs : StillOpen(r) /\ MayResolve(r)

LEMMA ThreadsStart == Init => ThreadsInv
<1> SUFFICES ASSUME Init PROVE ThreadsInv
    OBVIOUS
<1>1. \A t \in Threads : WellSaid(t)
    <2>1. \A t \in Threads : threads[t].comments \in {<<"bot">>, <<"owner">>, <<"stranger">>}
        BY DEF Init, ThreadIn
    <2>2. \A c \in {<<"bot">>, <<"owner">>, <<"stranger">>} : c # <<>> /\ Len(c) = 1 /\ DOMAIN c = 1..1
        OBVIOUS
    <2> QED
        BY <2>1, <2>2 DEF WellSaid, AnsweredOnce
<1>2. \A r \in Runs : pc[r] = "idle" /\ job[r].resolving = {}
    BY DEF Init, FreshJob
<1> QED
    BY <1>1, <1>2 DEF ThreadsInv, StillOpen, MayResolve, Asking

\* What a thread still is after somebody else has written in it.
LEMMA OthersKeepThreads ==
    ASSUME Types, ThreadsInv, CI \/ Others
    PROVE  ThreadsInv'
<1>1. UNCHANGED <<claim, pc, job>>
    BY DEF CI, CheckCompletes, Others, MainMoves, PersonPushes, Comments, OwnerTurnsThread,
        OwnerRequeues, bounds, history
<1>2. \A t \in Threads :
          \/ threads'[t].comments = threads[t].comments
          \/ \E who \in Authors \ {"reply"} : threads'[t].comments = Append(threads[t].comments, who)
    <2>1. CASE Comments
        <3>1. PICK t \in Threads, who \in {"bot", "owner", "stranger"} :
                    threads' = [threads EXCEPT ![t].comments = Append(@, who)]
            BY <2>1 DEF Comments
        <3>2. threads \in [Threads -> ThreadIn(Seq(Authors))]
            BY DEF Types
        <3> QED
            BY <3>1, <3>2 DEF ThreadIn, Authors
    <2>2. CASE OwnerTurnsThread
        <3>1. PICK t \in Threads : threads' = [threads EXCEPT ![t].resolved = ~@]
            BY <2>2 DEF OwnerTurnsThread
        <3>2. threads \in [Threads -> ThreadIn(Seq(Authors))]
            BY DEF Types
        <3> QED
            BY <3>1, <3>2 DEF ThreadIn
    <2>3. Comments \/ OwnerTurnsThread \/ threads' = threads
        BY DEF CI, CheckCompletes, Others, MainMoves, PersonPushes, OwnerRequeues
    <2> QED
        BY <2>1, <2>2, <2>3
<1>3. ASSUME NEW t \in Threads
      PROVE  /\ WellSaid(t)'
             /\ ~LastHeardIsReply(threads[t]) => ~LastHeardIsReply(threads[t])'
             /\ threads'[t].comments[1] = threads[t].comments[1]
             /\ Replied(threads[t]) => Replied(threads[t])'
    <2>1. WellSaid(t) /\ threads[t] \in ThreadIn(Seq(Authors))
        BY DEF ThreadsInv, Types
    <2>2. CASE threads'[t].comments = threads[t].comments
        BY <2>1, <2>2, SameComments DEF WellSaid
    <2>3. CASE \E who \in Authors \ {"reply"} : threads'[t].comments = Append(threads[t].comments, who)
        <3>1. PICK who \in Authors \ {"reply"} : threads'[t].comments = Append(threads[t].comments, who)
            BY <2>3
        <3>2. threads'[t].comments # <<>> /\ threads'[t].comments[1] = threads[t].comments[1]
            BY <2>1, <3>1, OneMoreComment DEF WellSaid
        <3>3. AnsweredOnce(threads'[t])
            BY <2>1, <3>1, CommentKeepsAnswers DEF WellSaid
        <3>4. ~LastHeardIsReply(threads[t]) => ~LastHeardIsReply(threads'[t])
            BY <2>1, <3>1, CommentKeepsOpen DEF WellSaid
        <3>5. Replied(threads[t]) => Replied(threads'[t])
            BY <2>1, <3>1, CommentKeepsReply DEF WellSaid
        <3> QED
            BY <3>2, <3>3, <3>4, <3>5 DEF WellSaid
    <2> QED
        BY <1>2, <2>2, <2>3
<1>4. \A r \in Runs : job[r].forRole \subseteq Threads /\ job[r].answering \subseteq Threads
                      /\ job[r].resolving \subseteq Threads
    BY DEF Types, Jobs
<1> QED
    BY <1>1, <1>3, <1>4 DEF ThreadsInv, StillOpen, MayResolve

\* What the steps that write nothing do to the threads a run is at.
LEMMA UnseenKeepsAsking ==
    ASSUME Types, NEW r \in Runs, Unseen(r)
    PROVE  /\ job'[r].resolving \subseteq job[r].resolving
           /\ pc'[r] \in Asking =>
                  \/ job'[r].forRole = {t \in Threads : Standing(threads[t]) \in ForRole}
                  \/ pc[r] \in Asking /\ job'[r].forRole = job[r].forRole
           /\ pc'[r] = "replying" =>
                  \/ pc[r] = "answering" /\ job'[r].answering \subseteq job[r].forRole
                  \/ pc[r] = "replying" /\ job'[r].answering = job[r].answering
<1> DEFINE Fine ==
           /\ job'[r].resolving \subseteq job[r].resolving
           /\ pc'[r] \in Asking =>
                  \/ job'[r].forRole = {t \in Threads : Standing(threads[t]) \in ForRole}
                  \/ pc[r] \in Asking /\ job'[r].forRole = job[r].forRole
           /\ pc'[r] = "replying" =>
                  \/ pc[r] = "answering" /\ job'[r].answering \subseteq job[r].forRole
                  \/ pc[r] = "replying" /\ job'[r].answering = job[r].answering
<1>a. pc \in [Runs -> Steps] /\ job \in [Runs -> Jobs] /\ job[r] \in Jobs
    BY DEF Types
<1>b. job'[r].resolving = {} /\ pc'[r] \in {"idle", "dead", "handingBack", "releasing"} => Fine
    BY DEF Asking
<1>c. FreshJob.resolving = {}
    BY DEF FreshJob
<1>d. (Leaves(r) => Fine) /\ (HandsBack(r) => Fine)
    BY <1>a, <1>b, <1>c DEF Leaves, HandsBack, Ends, Goto
<1>e. /\ job'[r].resolving = job[r].resolving
      /\ job'[r].forRole = job[r].forRole
      /\ pc'[r] # "replying"
      /\ pc[r] \in Asking \/ pc'[r] \notin Asking
      => Fine
    OBVIOUS
<1> SUFFICES Fine
    OBVIOUS
<1> HIDE DEF Fine
<1>1. CASE Sweeps(r) \/ Fetches(r)
    <2>1. /\ pc'[r] \in {"fetching", "threads"}
          /\ \/ \E dirty : job' = [job EXCEPT ![r].target = head, ![r].conflicted = dirty]
             \/ job' = [job EXCEPT ![r].base = main]
        BY <1>1, <1>a DEF Sweeps, Fetches, Goto
    <2>2. \A dirty : job' = [job EXCEPT ![r].target = head, ![r].conflicted = dirty]
                         => job'[r].resolving = job[r].resolving /\ job'[r].forRole = job[r].forRole
        BY <1>a DEF Jobs
    <2>3. job' = [job EXCEPT ![r].base = main]
              => job'[r].resolving = job[r].resolving /\ job'[r].forRole = job[r].forRole
        BY <1>a DEF Jobs
    <2> QED
        BY <1>e, <2>1, <2>2, <2>3 DEF Asking
<1>2. CASE ReadsThreads(r)
    <2>1. \/ Leaves(r)
          \/ /\ Goto(r, "checks")
             /\ job' = [job EXCEPT ![r].forRole = {t \in Threads : Standing(threads[t]) \in ForRole}]
        <3>1. \/ Leaves(r)
              \/ /\ Goto(r, "checks")
                 /\ job' = [job EXCEPT ![r].forRole =
                                {t \in Threads : [u \in Threads |-> Standing(threads[u])][t] \in ForRole}]
            BY Zenon, <1>2 DEF ReadsThreads
        <3>2. {t \in Threads : [u \in Threads |-> Standing(threads[u])][t] \in ForRole}
              = {t \in Threads : Standing(threads[t]) \in ForRole}
            OBVIOUS
        <3> QED
            BY Zenon, <3>1, <3>2
    <2> DEFINE open == {t \in Threads : Standing(threads[t]) \in ForRole}
    <2>2. \A S : job' = [job EXCEPT ![r].forRole = S]
                     => job'[r].resolving = job[r].resolving /\ job'[r].forRole = S
        BY <1>a DEF Jobs
    <2>3. CASE Goto(r, "checks") /\ job' = [job EXCEPT ![r].forRole = open]
        <3>1. job'[r].resolving = job[r].resolving /\ job'[r].forRole = open
            BY Zenon, <2>2, <2>3
        <3>2. pc'[r] = "checks"
            BY <1>a, <2>3 DEF Goto
        <3> QED
            BY <3>1, <3>2 DEF Fine
    <2> QED
        BY Zenon, <1>d, <2>1, <2>3
<1>3. CASE Plans(r)
    <2>1. \/ Leaves(r) \/ HandsBack(r)
          \/ /\ Goto(r, "worktree") \/ Goto(r, "claiming")
             /\ \E m, red : job' = [job EXCEPT ![r].needsMerge = m, ![r].red = red]
        BY Zenon, <1>3 DEF Plans
    <2>2. \A m, red : job' = [job EXCEPT ![r].needsMerge = m, ![r].red = red]
                          => job'[r].resolving = job[r].resolving /\ job'[r].forRole = job[r].forRole
        BY <1>a DEF Jobs
    <2>3. Goto(r, "worktree") \/ Goto(r, "claiming") => pc'[r] # "replying"
        BY <1>a DEF Goto
    <2>4. pc[r] \in Asking
        BY <1>3 DEF Plans, Asking
    <2> QED
        BY <1>d, <1>e, <2>1, <2>2, <2>3, <2>4
<1>4. CASE Prepares(r) \/ GatesHead(r) \/ ReadsLog(r)
    BY <1>4, <1>a, <1>d, <1>e DEF Prepares, GatesHead, ReadsLog, Goto, Asking, Jobs
<1>5. CASE MergesFirst(r) \/ MergesAfter(r)
    <2>1. pc[r] \in Asking /\ pc'[r] # "replying"
        BY <1>5, <1>a DEF MergesFirst, MergesAfter, MergesCleanly, Goto, Asking
    <2>2. job'[r].resolving = job[r].resolving /\ job'[r].forRole = job[r].forRole
        BY <1>5, <1>a DEF MergesFirst, MergesAfter, MergesCleanly, Jobs
    <2> QED
        BY <1>e, <2>1, <2>2
<1>6. CASE RunsRole(r)
    <2>1. pc[r] \in Asking /\ pc'[r] # "replying"
        BY <1>6, <1>a DEF RunsRole, Goto, Asking
    <2>2. \/ job' = job
          \/ \E tree, m, v : job' = [job EXCEPT ![r].tree = tree, ![r].midMerge = m, ![r].verdict = v]
        BY Zenon, <1>6 DEF RunsRole
    <2>3. \A tree, m, v :
              job' = [job EXCEPT ![r].tree = tree, ![r].midMerge = m, ![r].verdict = v]
              => job'[r].resolving = job[r].resolving /\ job'[r].forRole = job[r].forRole
        BY <1>a DEF Jobs
    <2> QED
        BY <1>e, <2>1, <2>2, <2>3
<1>7. CASE ChecksOut(r)
    <2>1. PICK fixed \in BOOLEAN :
              /\ job' = [job EXCEPT ![r].tree = IF fixed THEN @ \union {made} ELSE @]
              /\ Goto(r, IF job'[r].tree = job[r].target THEN "answering" ELSE "pushing")
        BY Zenon, <1>7 DEF ChecksOut
    <2>2. /\ job'[r].resolving = job[r].resolving /\ job'[r].forRole = job[r].forRole
          /\ pc'[r] # "replying"
        BY <1>a, <2>1 DEF Goto, Jobs
    <2>3. pc[r] \in Asking
        BY <1>7 DEF ChecksOut, Asking
    <2> QED
        BY <1>e, <2>2, <2>3
<1>8. CASE AsksRemote(r)
    BY <1>8, <1>a, <1>d, <1>e DEF AsksRemote, Goto, Asking, Jobs
<1>9. CASE \/ StepFails(r) \/ ReadFails(r) \/ StopsUncounted(r) \/ RemoteUnreadable(r)
           \/ LastWriteFails(r)
    BY Zenon, <1>9, <1>d DEF StepFails, ReadFails, StopsUncounted, RemoteUnreadable, LastWriteFails
<1>10. CASE StartsAnswers(r)
    <2>1. /\ pc[r] = "answering" /\ pc'[r] = "replying"
          /\ job'[r].resolving = job[r].resolving
          /\ job'[r].answering = ToAnswer(r)
        BY <1>10, <1>a DEF StartsAnswers, Goto, Jobs
    <2>2. ToAnswer(r) \subseteq job[r].forRole
        BY DEF ToAnswer
    <2> QED
        BY <2>1, <2>2 DEF Fine, Asking
<1>11. CASE \E t \in Threads : ResolveFails(r, t)
    <2>1. /\ pc' = pc /\ pc[r] = "replying"
          /\ job'[r].resolving = {} /\ job'[r].answering = job[r].answering
        BY <1>11, <1>a DEF ResolveFails, Jobs
    <2> QED
        BY <2>1 DEF Fine, Asking
<1>12. CASE Killed(r)
    BY <1>12, <1>a, <1>b, <1>c DEF Killed, Ends, Goto
<1> QED
    BY Zenon, <1>1, <1>2, <1>3, <1>4, <1>5, <1>6, <1>7, <1>8, <1>9, <1>10, <1>11, <1>12 DEF Unseen

LEMMA HostKeepsThreads ==
    ASSUME Types, ClaimIsHeld, ThreadsInv, NEW r \in Runs, HostStep(r) \/ Killed(r)
    PROVE  ThreadsInv'
<1>a. /\ pc \in [Runs -> Steps] /\ job \in [Runs -> Jobs] /\ job[r] \in Jobs
      /\ threads \in [Threads -> ThreadIn(Seq(Authors))]
      /\ StillOpen(r) /\ MayResolve(r)
      /\ NoRun \notin Runs
    BY ConstantsAssumption DEF Types, ThreadsInv, ConstantsAssumption
<1>b. claim' \in {claim, r, NoRun} /\ threads' = threads
      => /\ \A t \in Threads : WellSaid(t)'
         /\ \A s \in Runs \ {r} : StillOpen(s)' /\ MayResolve(s)'
    BY <1>a, HostTouchesOwn DEF ThreadsInv, WellSaid, StillOpen, MayResolve
<1>1. CASE Unseen(r)
    <2>1. UNCHANGED <<claim, threads>>
        BY Zenon, <1>1, UnseenChangesNothing DEF github
    <2>2. \A t \in Threads : Standing(threads[t]) \in ForRole => ~LastHeardIsReply(threads[t])
        BY DEF Standing, ForRole
    <2>3. pc[r] = "answering" => claim = r
        BY DEF ClaimIsHeld, Holding, Working
    <2>4. StillOpen(r)' /\ MayResolve(r)'
        BY <1>1, <1>a, <2>1, <2>2, <2>3, UnseenKeepsAsking DEF StillOpen, MayResolve, Asking
    <2> QED
        BY <1>b, <2>1, <2>4 DEF ThreadsInv
<1>2. CASE Claims(r) \/ Releases(r) \/ LabelCleared(r) \/ RerunsFlaky(r) \/ Summarises(r) \/ GivesUp(r)
    <2>1. claim' \in {claim, r, NoRun} /\ threads' = threads
        BY <1>2 DEF Claims, Releases, LabelCleared, RerunsFlaky, Summarises, GivesUp
    <2>2. /\ pc'[r] \notin Asking /\ pc'[r] # "replying"
          /\ job'[r].resolving \subseteq job[r].resolving
        <3>1. \/ Leaves(r) \/ HandsBack(r)
              \/ (Goto(r, "threads") \/ Goto(r, "idle") \/ Goto(r, "summary")) /\ job' = job
            BY Zenon, <1>2 DEF Claims, Releases, LabelCleared, RerunsFlaky, Summarises, GivesUp
        <3>2. FreshJob.resolving = {}
            BY DEF FreshJob
        <3> QED
            BY <1>a, <3>1, <3>2 DEF Leaves, HandsBack, Ends, Goto, Asking
    <2>3. StillOpen(r)' /\ MayResolve(r)'
        BY <1>a, <2>1, <2>2 DEF StillOpen, MayResolve
    <2> QED
        BY <1>b, <2>1, <2>3 DEF ThreadsInv
<1>3. CASE Pushes(r) \/ PushFails(r)
    <2>1. /\ UNCHANGED <<claim, threads>>
          /\ pc[r] \in Asking /\ pc'[r] # "replying"
          /\ job'[r].resolving = job[r].resolving /\ job'[r].forRole = job[r].forRole
        BY <1>3, <1>a DEF Pushes, PushFails, Goto, Asking, Jobs
    <2>2. StillOpen(r)' /\ MayResolve(r)'
        BY <1>a, <2>1 DEF StillOpen, MayResolve
    <2> QED
        BY <1>b, <2>1, <2>2 DEF ThreadsInv
<1>4. ASSUME NEW t \in Threads, Replies(r, t) \/ ReplyFails(r, t) \/ Resolves(r, t)
      PROVE  ThreadsInv'
    <2>1. pc[r] = "replying" /\ pc' = pc /\ claim' = claim /\ claim = r
        BY <1>4 DEF Replies, ReplyFails, Resolves, ClaimIsHeld, Holding, Working
    <2>2. \A u \in Threads \ {t} : threads'[u] = threads[u]
        BY <1>4, <1>a DEF Replies, ReplyFails, Resolves
    <2>3. \/ threads'[t].comments = threads[t].comments
          \/ /\ threads'[t].comments = Append(threads[t].comments, "reply")
             /\ t \in job[r].answering
        BY <1>4, <1>a DEF Replies, ReplyFails, Resolves, ThreadIn
    <2>4. t \in job[r].answering => ~LastHeardIsReply(threads[t])
        BY <1>a, <2>1 DEF StillOpen
    <2>5. /\ WellSaid(t)' /\ threads'[t].comments[1] = threads[t].comments[1]
          /\ Replied(threads[t]) => Replied(threads'[t])
          /\ threads'[t].comments = Append(threads[t].comments, "reply") => Replied(threads'[t])
        <3>1. WellSaid(t) /\ threads[t] \in ThreadIn(Seq(Authors)) /\ "reply" \in Authors
            BY <1>a DEF ThreadsInv, Authors
        <3>4. threads'[t].comments = Append(threads[t].comments, "reply") => Replied(threads'[t])
            BY <3>1, CommentKeepsReply DEF WellSaid
        <3>2. CASE threads'[t].comments = threads[t].comments
            BY <3>1, <3>2, <3>4, SameComments DEF WellSaid
        <3>3. CASE /\ threads'[t].comments = Append(threads[t].comments, "reply")
                   /\ t \in job[r].answering
            BY <2>4, <3>1, <3>3, OneMoreComment, CommentKeepsAnswers, CommentKeepsReply DEF WellSaid
        <3> QED
            BY <2>3, <3>2, <3>3
    <2>6. \A u \in Threads : WellSaid(u)'
        BY <2>2, <2>5 DEF ThreadsInv, WellSaid
    <2>7. ASSUME NEW s \in Runs, s # r
          PROVE  StillOpen(s)' /\ MayResolve(s)'
        <3>1. pc'[s] = pc[s] /\ job'[s] = job[s]
            BY <2>7, HostTouchesOwn
        <3>2. claim # s /\ pc[s] # "replying"
            BY <2>1, <2>7 DEF ClaimIsHeld, Holding, Working
        <3>3. job[s].resolving \subseteq Threads
            BY <1>a DEF Jobs
        <3>4. StillOpen(s)'
            BY <2>1, <3>1, <3>2 DEF StillOpen
        <3>5. MayResolve(s)
            BY DEF ThreadsInv
        <3>6. ASSUME NEW u \in job[s].resolving
              PROVE  threads'[u].comments[1] = "bot" /\ Replied(threads'[u])
            <4>1. u \in Threads /\ threads[u].comments[1] = "bot" /\ Replied(threads[u])
                BY <3>3, <3>5 DEF MayResolve
            <4>2. CASE u = t
                BY <2>5, <4>1, <4>2
            <4>3. CASE u # t
                BY <2>2, <4>1, <4>3
            <4> QED
                BY <4>2, <4>3
        <3> QED
            BY <3>1, <3>4, <3>6 DEF MayResolve
    <2>8. /\ job'[r].answering \subseteq job[r].answering \ {t} \/ threads'[t].comments = threads[t].comments
          /\ job'[r].answering \subseteq job[r].answering
          /\ \/ job'[r].resolving \subseteq job[r].resolving
             \/ /\ job'[r].resolving \subseteq {t} /\ threads[t].comments[1] = "bot"
                /\ threads'[t].comments = Append(threads[t].comments, "reply")
        <3>1. CASE Replies(r, t)
            <4>1. /\ threads'[t].comments = Append(threads[t].comments, "reply")
                  /\ job'[r].answering = job[r].answering \ {t}
                  /\ job'[r].resolving = IF threads[t].comments[1] = "bot" THEN {t} ELSE {}
                BY <1>a, <3>1 DEF Replies, ThreadIn, Jobs
            <4> QED
                BY <4>1
        <3>2. CASE ReplyFails(r, t)
            <4>1. job'[r].answering = job[r].answering \ {t} /\ job'[r].resolving = job[r].resolving
                BY <1>a, <3>2 DEF ReplyFails, Jobs
            <4> QED
                BY <4>1
        <3>3. CASE Resolves(r, t)
            <4>1. /\ job'[r].answering = job[r].answering /\ job'[r].resolving = {}
                  /\ threads'[t].comments = threads[t].comments
                BY <1>a, <3>3 DEF Resolves, ThreadIn, Jobs
            <4> QED
                BY <4>1
        <3> QED
            BY <1>4, <3>1, <3>2, <3>3
    <2>9. StillOpen(r)' /\ MayResolve(r)'
        <3>1. ASSUME NEW u \in job'[r].answering
              PROVE  ~LastHeardIsReply(threads'[u])
            <4>1. u \in Threads /\ ~LastHeardIsReply(threads[u])
                BY <1>a, <2>1, <2>8 DEF StillOpen, Jobs
            <4>2. CASE u = t
                BY <2>8, <4>1, <4>2, SameComments
            <4> QED
                BY <2>2, <4>1, <4>2
        <3>2. ASSUME NEW u \in job'[r].resolving
              PROVE  threads'[u].comments[1] = "bot" /\ Replied(threads'[u])
            <4>1. CASE u \in job[r].resolving
                BY <1>a, <2>2, <2>5, <4>1 DEF MayResolve, Jobs
            <4> QED
                BY <2>5, <2>8, <4>1
        <3> QED
            BY <2>1, <3>1, <3>2 DEF StillOpen, MayResolve, Asking
    <2> QED
        BY <2>6, <2>7, <2>9 DEF ThreadsInv
<1> QED
    BY HostSteps, <1>1, <1>2, <1>3, <1>4 DEF Seen

------------------------------------------------------------------------------
(* Every push is accounted for.                                               *)

\* Runs whose push landed and whose summary is still to come.
Owing == {r \in Runs : job[r].pushed /\ pc[r] \in {"answering", "replying", "summary"}}

Debt == IF Owing = {} THEN 0 ELSE 1

PushesAreOwed == landed <= counted + faults + Debt

\* Only the run that holds the claim can owe one.
LEMMA OneDebtor ==
    ASSUME ClaimIsHeld
    PROVE  Owing \subseteq {claim}
BY DEF ClaimIsHeld, Owing, Holding, Working

LEMMA DebtIsCardinality ==
    ASSUME ClaimIsHeld
    PROVE  Cardinality(Owing) = Debt
<1>1. CASE Owing = {}
    BY <1>1, FS_EmptySet DEF Debt
<1>2. CASE Owing # {}
    <2>1. Owing = {claim}
        BY <1>2, OneDebtor
    <2>2. Cardinality({claim}) = 1
        BY FS_Singleton
    <2> QED
        BY <1>2, <2>1, <2>2 DEF Debt
<1> QED
    BY <1>1, <1>2

LEMMA HostKeepsDebt ==
    ASSUME Types, ClaimIsHeld, PushesAreOwed, NEW r \in Runs, HostStep(r) \/ Killed(r)
    PROVE  PushesAreOwed'
<1> DEFINE Owes == job[r].pushed /\ pc[r] \in {"answering", "replying", "summary"}
<1>a. pc \in [Runs -> Steps] /\ job \in [Runs -> Jobs] /\ job[r] \in Jobs
    BY DEF Types
<1>b. Owing \ {r} = Owing' \ {r}
    BY HostTouchesOwn DEF Owing
<1>c. (Owes => Owes') => (Debt <= Debt')
    BY <1>b DEF Debt, Owing
<1>e. PICK before \in {0, 1}, after \in {0, 1} : before = Debt /\ after = Debt'
    BY DEF Debt
<1>d. /\ landed \in Nat /\ counted \in Nat /\ faults \in Nat
      /\ landed <= counted + faults + before
      /\ before \in {0, 1} /\ after \in {0, 1}
      /\ (Owes => Owes') => before <= after
    BY <1>c, <1>e, ConstantsAssumption DEF Types, PushesAreOwed, ConstantsAssumption
<1> SUFFICES landed' <= counted' + faults' + after
    BY <1>e DEF PushesAreOwed
<1> HIDE DEF Owes
<1>1. CASE Unseen(r)
    <2>1. UNCHANGED <<landed, counted>>
        BY Zenon, <1>1, UnseenChangesNothing DEF github, history
    <2>2. faults' = faults + 1 \/ (faults' = faults /\ (Owes => Owes'))
        <3>1. CASE /\ \/ Sweeps(r) \/ Fetches(r) \/ ReadsThreads(r) \/ Plans(r) \/ Prepares(r)
                      \/ MergesFirst(r) \/ GatesHead(r) \/ ReadsLog(r) \/ MergesAfter(r) \/ RunsRole(r)
                      \/ ChecksOut(r) \/ StepFails(r) \/ AsksRemote(r)
                   /\ faults' = faults
            <4>1. pc[r] \notin {"answering", "replying", "summary"}
                BY Zenon, <3>1 DEF Sweeps, Fetches, ReadsThreads, Plans, Prepares, MergesFirst,
                    GatesHead, ReadsLog, MergesAfter, RunsRole, ChecksOut, StepFails, AsksRemote,
                    LocalSteps
            <4> QED
                BY <3>1, <4>1 DEF Owes
        <3>2. CASE StartsAnswers(r)
            <4>1. /\ pc'[r] = "replying" /\ job'[r].pushed = job[r].pushed /\ faults' = faults
                BY <1>a, <3>2 DEF StartsAnswers, Goto, Jobs, bounds
            <4> QED
                BY <4>1 DEF Owes
        <3>3. CASE \/ StopsUncounted(r) \/ ReadFails(r) \/ RemoteUnreadable(r) \/ LastWriteFails(r)
                   \/ Killed(r) \/ (\E t \in Threads : ResolveFails(r, t))
            BY Zenon, <3>3 DEF StopsUncounted, ReadFails, RemoteUnreadable, LastWriteFails, Killed,
                ResolveFails, Fault
        <3>4. /\ \/ Sweeps(r) \/ Fetches(r) \/ ReadsThreads(r) \/ Plans(r) \/ Prepares(r)
                 \/ MergesFirst(r) \/ GatesHead(r) \/ ReadsLog(r) \/ MergesAfter(r) \/ RunsRole(r)
                 \/ ChecksOut(r) \/ StepFails(r) \/ AsksRemote(r)
              => faults' = faults
            BY Zenon DEF Sweeps, Fetches, ReadsThreads, Plans, Prepares, MergesFirst, GatesHead,
                ReadsLog, MergesAfter, RunsRole, ChecksOut, StepFails, AsksRemote, bounds
        <3> QED
            BY Zenon, <1>1, <3>1, <3>2, <3>3, <3>4 DEF Unseen
    <2> QED
        BY ONLY <1>d, <2>1, <2>2
<1>2. CASE Claims(r) \/ Releases(r) \/ LabelCleared(r) \/ GivesUp(r)
    <2>1. /\ UNCHANGED <<landed, counted, faults>>
          /\ pc[r] \notin {"answering", "replying", "summary"}
        BY <1>2 DEF Claims, Releases, LabelCleared, GivesUp, bounds, history
    <2>2. ~Owes
        BY <2>1 DEF Owes
    <2> QED
        BY ONLY <1>d, <2>1, <2>2
<1>3. CASE Pushes(r) \/ PushFails(r)
    <2>1. pc[r] = "pushing"
        BY <1>3 DEF Pushes, PushFails
    <2>2. Owing = {}
        BY <2>1 DEF Owing, ClaimIsHeld, Holding, Working
    <2>3. CASE Pushes(r)
        <3>1. landed' = landed + 1 /\ counted' = counted /\ faults' = faults
            BY <2>3 DEF Pushes, Lands, bounds
        <3>2. r \in Owing'
            BY <1>a, <2>3 DEF Pushes, Goto, Owing, Jobs
        <3> QED
            BY <1>d, <1>e, <2>2, <3>1, <3>2 DEF Debt
    <2>4. CASE PushFails(r)
        <3>1. /\ counted' = counted
              /\ \/ landed' = landed + 1 /\ faults' = faults + 1
                 \/ landed' = landed /\ faults' \in {faults, faults + 1}
            BY <2>4 DEF PushFails, Lands, Fault
        <3> QED
            BY <1>d, <1>e, <2>2, <3>1 DEF Debt
    <2> QED
        BY <1>3, <2>3, <2>4
<1>4. CASE \E t \in Threads : Replies(r, t) \/ ReplyFails(r, t) \/ Resolves(r, t)
    <2>1. /\ UNCHANGED <<landed, counted, pc>> /\ faults' \in {faults, faults + 1}
        BY <1>4 DEF Replies, ReplyFails, Resolves, Fault, bounds, history
    <2>2. job'[r].pushed = job[r].pushed
        BY <1>4, <1>a DEF Replies, ReplyFails, Resolves, Jobs
    <2>3. before <= after
        BY <1>d, <2>1, <2>2 DEF Owes
    <2>4. landed' = landed /\ counted' = counted /\ (faults' = faults \/ faults' = faults + 1)
        BY <2>1
    <2> QED
        BY ONLY <1>d, <2>3, <2>4
<1>5. CASE RerunsFlaky(r)
    <2>1. UNCHANGED <<landed, counted, faults>>
        BY <1>5 DEF RerunsFlaky, bounds, history
    <2>2. job[r].pushed => Goto(r, "summary") /\ UNCHANGED job
        BY <1>5 DEF RerunsFlaky
    <2>3. Owes => Owes'
        <3>1. pc'[r] = "summary" /\ job' = job => Owes'  \/ ~Owes
            BY DEF Owes
        <3>2. Goto(r, "summary") => pc'[r] = "summary"
            BY <1>a DEF Goto
        <3>3. Owes => job[r].pushed
            BY DEF Owes
        <3> QED
            BY Zenon, <2>2, <3>1, <3>2, <3>3
    <2> QED
        BY ONLY <1>d, <2>1, <2>3
<1>6. CASE Summarises(r)
    <2>1. landed' = landed /\ counted' = counted + 1 /\ faults' = faults
        BY <1>6 DEF Summarises, bounds, history
    <2> QED
        BY ONLY <1>d, <2>1
<1> QED
    BY HostSteps, <1>1, <1>2, <1>3, <1>4, <1>5, <1>6 DEF Seen

LEMMA OthersKeepDebt ==
    ASSUME Types, PushesAreOwed, CI \/ Others
    PROVE  PushesAreOwed'
<1>1. UNCHANGED <<pc, job, faults>>
    BY DEF CI, CheckCompletes, Others, MainMoves, PersonPushes, Comments, OwnerTurnsThread,
        OwnerRequeues, bounds, history
<1>2. UNCHANGED <<landed, counted>> \/ (landed' = 0 /\ counted' = 0)
    BY DEF CI, CheckCompletes, Others, MainMoves, PersonPushes, NewHead, Comments, OwnerTurnsThread,
        OwnerRequeues, bounds, history
<1>3. Debt' = Debt
    BY <1>1 DEF Debt, Owing
<1>4. landed \in Nat /\ counted \in Nat /\ faults \in Nat /\ Debt \in {0, 1}
    BY ConstantsAssumption DEF Types, Debt, ConstantsAssumption
<1> QED
    BY <1>1, <1>2, <1>3, <1>4 DEF PushesAreOwed

------------------------------------------------------------------------------
(* The theorems.                                                              *)

\* The inductive invariant.
PullRequestInv ==
    /\ Types
    /\ needsHuman \in BOOLEAN
    /\ ClaimIsHeld
    /\ RoomLeft
    /\ PublishedInv
    /\ ThreadsInv
    /\ PushesAreOwed

LEMMA PullRequestStarts == Init => PullRequestInv
<1> SUFFICES ASSUME Init PROVE PullRequestInv
    OBVIOUS
<1>1. needsHuman \in BOOLEAN
    BY Zenon DEF Init
<1>2. PushesAreOwed
    <2>1. landed = 0 /\ counted = 0 /\ faults = 0
        BY DEF Init
    <2> QED
        BY <2>1 DEF PushesAreOwed, Debt
<1> QED
    BY <1>1, <1>2, TypesStart, ClaimsStart, PublishedStart, ThreadsStart DEF PullRequestInv

LEMMA NeedsHumanStep ==
    ASSUME needsHuman \in BOOLEAN, Next
    PROVE  needsHuman' \in BOOLEAN
<1>1. CASE CI \/ Others
    BY Zenon, <1>1 DEF CI, CheckCompletes, Others, MainMoves, PersonPushes, Comments, OwnerTurnsThread,
        OwnerRequeues
<1>2. ASSUME NEW r \in Runs, Unseen(r)
      PROVE  needsHuman' \in BOOLEAN
    BY Zenon, <1>2, UnseenChangesNothing DEF github
<1>3. ASSUME NEW r \in Runs, Seen(r)
      PROVE  needsHuman' \in BOOLEAN
    BY Zenon, <1>3 DEF Seen, Claims, Releases, LabelCleared, Pushes, PushFails, Replies, ReplyFails,
        Resolves, RerunsFlaky, Summarises, GivesUp
<1> QED
    BY Zenon, <1>1, <1>2, <1>3, HostSteps DEF Next

LEMMA PullRequestStep == PullRequestInv /\ [Next]_vars => PullRequestInv'
<1> SUFFICES ASSUME PullRequestInv, [Next]_vars PROVE PullRequestInv'
    OBVIOUS
<1>1. CASE CI \/ Others
    <2>1. needsHuman' \in BOOLEAN
        BY Zenon, <1>1, NeedsHumanStep DEF Next, PullRequestInv
    <2> QED
        BY <1>1, <2>1, OthersKeepTypes, OthersLeaveClaims, OthersKeepPublished, OthersKeepThreads,
           OthersKeepDebt DEF PullRequestInv
<1>2. ASSUME NEW r \in Runs, HostStep(r) \/ Killed(r)
      PROVE  PullRequestInv'
    <2>1. needsHuman' \in BOOLEAN
        BY Zenon, <1>2, NeedsHumanStep DEF Next, PullRequestInv
    <2> QED
        BY <1>2, <2>1, HostKeepsTypes, HostKeepsClaims, HostKeepsPublished, HostKeepsThreads,
           HostKeepsDebt DEF PullRequestInv
<1>3. CASE UNCHANGED vars
    <2>1. needsHuman' \in BOOLEAN
        BY Zenon, <1>3 DEF PullRequestInv, vars, github
    <2>2. Types'
        BY <1>3, JobsSame DEF PullRequestInv, vars, github, bounds, history, Types
    <2> QED
        BY <1>3, <2>1, <2>2
        DEF PullRequestInv, vars, github, bounds, history, ClaimIsHeld, RoomLeft, PublishedInv,
            WorkIsNew, AnswersArePublished, ThreadsInv, WellSaid, StillOpen, MayResolve,
            PushesAreOwed, Debt, Owing
<1> QED
    BY <1>1, <1>2, <1>3 DEF Next

\* One run works on the pull request at a time, on what it read under the
\* claim; its worktree holds the head or work that nobody has seen; a thread it
\* is to answer stays open until it does; every push is owed, counted or lost.
THEOREM Invariant == Spec => []PullRequestInv
BY PullRequestStarts, PullRequestStep, PTL DEF Spec

\* No pull request has more counted passes than the cap since a person last
\* queued it again, whatever the number of runs that plan one at once.
THEOREM CapIsKept == Spec => []CapHonoured
<1>1. PullRequestInv => CapHonoured
    BY DEF PullRequestInv, RoomLeft, CapHonoured
<1> QED
    BY <1>1, Invariant, PTL

\* What a pull request is told and counted for is what was done to it: every
\* push that landed is counted, owed or lost to a fault, and every commit that
\* a reply names has been on the head.
THEOREM PassesAreTrue == Spec => []PassInv
<1>1. PullRequestInv => PassInv
    <2> SUFFICES ASSUME PullRequestInv PROVE PassInv
        OBVIOUS
    <2>1. TypeOK
        <3>1. Made \subseteq Commits /\ clash \subseteq main
            BY DEF PullRequestInv, Types, Made, Commits
        <3> QED
            BY <3>1 DEF PullRequestInv, Types, PublishedInv, TypeOK
    <2>2. PushesAreCounted
        BY DebtIsCardinality DEF PullRequestInv, PushesAreOwed, PushesAreCounted, Owing
    <2>3. FixedMeansPublished
        BY DEF PullRequestInv, PublishedInv, FixedMeansPublished
    <2> QED
        BY <2>1, <2>2, <2>3 DEF PassInv
<1> QED
    BY <1>1, Invariant, PTL

\* Between two replies of the host on a thread, somebody it listens to spoke.
THEOREM AnswersOnce == Spec => []NeverAnswersTwice
<1>1. PullRequestInv => NeverAnswersTwice
    BY DEF PullRequestInv, ThreadsInv, WellSaid, AnsweredOnce, NeverAnswersTwice
<1> QED
    BY <1>1, Invariant, PTL

\* Every change by others is an event.
LEMMA OthersAreEvents ==
    ASSUME Types, Others
    PROVE  events' # events
<1>1. Event
    BY Zenon DEF Others, MainMoves, PersonPushes, Comments, OwnerTurnsThread, OwnerRequeues
<1>2. events \in Nat
    BY ConstantsAssumption DEF Types, ConstantsAssumption
<1> QED
    BY <1>1, <1>2 DEF Event

LEMMA PushesAddOnly == PullRequestInv /\ [Next]_vars => PushKeepsHistory
<1> SUFFICES ASSUME PullRequestInv, [Next]_vars, events' = events
             PROVE  head \subseteq head'
    BY DEF PushKeepsHistory
<1>1. ~Others
    BY OthersAreEvents DEF PullRequestInv
<1>2. CASE CI \/ UNCHANGED vars
    BY Zenon, <1>2 DEF CI, CheckCompletes, vars, github
<1>3. ASSUME NEW r \in Runs, HostStep(r) \/ Killed(r)
      PROVE  head \subseteq head'
    <2>1. CASE Unseen(r)
        BY Zenon, <2>1, UnseenChangesNothing DEF github
    <2>2. CASE Pushes(r) \/ PushFails(r)
        BY <2>2 DEF Pushes, PushFails, Lands, NewHead
    <2>3. CASE Seen(r) /\ ~(Pushes(r) \/ PushFails(r))
        BY Zenon, <2>3 DEF Seen, Claims, Releases, LabelCleared, Replies, ReplyFails, Resolves,
            RerunsFlaky, Summarises, GivesUp
    <2> QED
        BY <1>3, <2>1, <2>2, <2>3, HostSteps
<1> QED
    BY <1>1, <1>2, <1>3 DEF Next

LEMMA ResolvesBotThreads == PullRequestInv /\ [Next]_vars => ResolvesAnswered
<1> SUFFICES ASSUME PullRequestInv, [Next]_vars, NEW t \in Threads, events' = events,
                    threads'[t].resolved, ~threads[t].resolved
             PROVE  threads[t].comments[1] = "bot" /\ Replied(threads[t])
    BY DEF ResolvesAnswered, Replied
<1>a. threads \in [Threads -> ThreadIn(Seq(Authors))] /\ job \in [Runs -> Jobs]
    BY DEF PullRequestInv, Types
<1>1. ~Others
    BY OthersAreEvents DEF PullRequestInv
<1>b. threads' # threads
    BY Zenon
<1>2. ~(CI \/ UNCHANGED vars)
    BY Zenon, <1>b DEF CI, CheckCompletes, vars, github
<1>3. PICK r \in Runs : HostStep(r) \/ Killed(r)
    BY <1>1, <1>2 DEF Next
<1>4. ~Unseen(r)
    BY Zenon, <1>b, UnseenChangesNothing DEF github
<1>5. PICK u \in Threads : Replies(r, u) \/ ReplyFails(r, u) \/ Resolves(r, u)
    BY Zenon, <1>b, <1>3, <1>4, HostSteps DEF Seen, Claims, Releases, LabelCleared, Pushes, PushFails,
        RerunsFlaky, Summarises, GivesUp
<1>6. ~(Replies(r, u) \/ ReplyFails(r, u))
    <2>1. Replies(r, u) \/ ReplyFails(r, u) =>
              threads' = threads \/ threads' = [threads EXCEPT ![u].comments = Append(@, "reply")]
        BY Zenon DEF Replies, ReplyFails
    <2>2. threads' = [threads EXCEPT ![u].comments = Append(@, "reply")]
              => threads'[t].resolved = threads[t].resolved
        BY <1>a DEF ThreadIn
    <2> QED
        BY Zenon, <1>b, <2>1, <2>2
<1>7. Resolves(r, u)
    BY Zenon, <1>5, <1>6
<1>8. u \in job[r].resolving /\ threads' = [threads EXCEPT ![u].resolved = TRUE]
    BY Zenon, <1>7 DEF Resolves
<1>9. u = t
    <2>1. u # t => threads'[t] = threads[t]
        BY <1>a, <1>8
    <2> QED
        BY Zenon, <2>1
<1>10. MayResolve(r)
    BY DEF PullRequestInv, ThreadsInv
<1> QED
    BY <1>8, <1>9, <1>10 DEF MayResolve

\* A new head is never the old one: it holds a commit nobody had seen.
LEMMA RerunsFirstAttempts == PullRequestInv /\ [Next]_vars => RerunsOnce
<1> SUFFICES ASSUME PullRequestInv, [Next]_vars, NEW c \in Checks, head' = head,
                    checks[c] # "running", checks'[c] = "running"
             PROVE  checks[c] = "red" /\ c \notin rerun /\ c \in rerun'
    BY DEF RerunsOnce
<1>a. checks' # checks
    OBVIOUS
<1>b. checks \in [Checks -> CheckStates \union {"none"}]
    BY DEF PullRequestInv, Types
<1>1. ~PersonPushes
    <2>1. made \notin head
        BY DEF PullRequestInv, Types, Made
    <2> QED
        BY <2>1 DEF PersonPushes, NewHead
<1>2. ~(Others \/ UNCHANGED vars)
    BY Zenon, <1>a, <1>1 DEF Others, MainMoves, Comments, OwnerTurnsThread, OwnerRequeues, vars, github
<1>3. ~CI
    BY <1>b DEF CI, CheckCompletes
<1>4. PICK r \in Runs : HostStep(r) \/ Killed(r)
    BY <1>2, <1>3 DEF Next
<1>5. ~Unseen(r)
    BY Zenon, <1>a, UnseenChangesNothing DEF github
<1>6. ~(Pushes(r) \/ PushFails(r))
    <2>1. Pushes(r) \/ PushFails(r) => pc[r] = "pushing" /\ (checks' = checks \/ head' = job[r].tree)
        BY DEF Pushes, PushFails, Lands, NewHead
    <2>2. pc[r] = "pushing" => ~(job[r].tree \subseteq published)
        BY DEF PullRequestInv, PublishedInv, WorkIsNew, Building
    <2>3. head \subseteq published
        BY DEF PullRequestInv, PublishedInv
    <2> QED
        BY <1>a, <2>1, <2>2, <2>3
<1>7. RerunsFlaky(r)
    BY Zenon, <1>a, <1>4, <1>5, <1>6, HostSteps DEF Seen, Claims, Releases, LabelCleared, Replies,
        ReplyFails, Resolves, Summarises, GivesUp, history
<1> QED
    BY <1>7, <1>b DEF RerunsFlaky

\* No step of the host takes a commit off the branch, resolves a thread it has
\* not answered or that is not a bot's, or starts a check's run twice on a head.
THEOREM StepsStaySafe == Spec => StepsAreSafe
<1>1. PullRequestInv /\ [Next]_vars => [PushKeepsHistory /\ ResolvesAnswered /\ RerunsOnce]_vars
    BY PushesAddOnly, ResolvesBotThreads, RerunsFirstAttempts
<1> QED
    BY <1>1, Invariant, PTL DEF Spec, StepsAreSafe

------------------------------------------------------------------------------
(* The sweep.                                                                 *)

USE SweepAssumption

\* Where a sweep still goes by the pull request it read.
Reading == {"origin", "restoring", "threads"} \union Decisions

SweepPlaces == {"idle", "closed", "handing back"} \union Reading

PullRequestTypes ==
    /\ pr \in PullRequests
    /\ pr.closedAt <= clock /\ \A c \in Checks : pr.checks[c].at <= clock

SeenTypes(s) ==
    /\ seen[s].issueHuman \in BOOLEAN
    /\ sweeping[s] \in Reading => seen[s].pr \in PullRequests

SweepTypes ==
    /\ clock \in 0..MaxClock /\ acts \in 0..MaxActs /\ callFaults \in 0..MaxCallFaults
    /\ issueHuman \in BOOLEAN /\ requeuedAt \in -1..MaxClock /\ requeuedAt <= clock
    /\ overlaps \in 0..MaxOverlaps
    /\ asked \in Nat /\ handed \in Nat /\ ranAgain \subseteq Checks
    /\ PullRequestTypes
    /\ sweeping \in [Sweepers -> SweepPlaces] /\ seen = [s \in Sweepers |-> seen[s]]
    /\ \A s \in Sweepers : SeenTypes(s)

\* A set of numbers that has one has a least.
LEMMA LeastNumber ==
    ASSUME NEW T \in SUBSET Nat, T # {}
    PROVE  \E m \in T : \A k \in T : m <= k
<1>1. PICK m \in T : \A k \in T : <<k, m>> \notin OpToRel(<, Nat)
    BY ONLY WFMin, NatLessThanWellFounded, T \in SUBSET Nat, T # {}, Zenon
<1>2. OpToRel(<, Nat) = {pair \in Nat \X Nat : pair[1] < pair[2]}
    BY ONLY Zenon DEF OpToRel
<1>3. \A k \in T : ~(k < m)
    BY <1>1, <1>2
<1> QED
    BY <1>3

------------------------------------------------------------------------------
(* What a step does to the pull request.                                      *)

SameHead ==
    /\ pr'.head = pr.head
    /\ pr.reviewed => pr'.reviewed
    /\ pr.requestedAt \subseteq pr'.requestedAt
    /\ pr'.state = "open" => pr.state = "open"
    /\ ranAgain \subseteq ranAgain' /\ ranAgain' \subseteq Checks
    /\ \A c \in Checks \ ranAgain' :
        pr.checks[c].state # "running" => pr'.checks[c] = pr.checks[c]

FreshHead == pr'.head = pr.head + 1 /\ asked' = 0 /\ ranAgain' = {}

LEMMA PullRequestIs ==
    ASSUME NEW p \in PullRequests
    PROVE  /\ p.state \in {"open", "closed", "merged"} /\ p.head \in Nat /\ p.closedAt \in 0..MaxClock
           /\ p.dirty \in BOOLEAN /\ p.behind \in BOOLEAN /\ p.checks \in [Checks -> CheckRuns]
           /\ p.threads \in SUBSET {"bot", "owner", "answered"}
           /\ p.pending \in BOOLEAN /\ p.reviewed \in BOOLEAN
           /\ p.requestedAt \in SUBSET (0..MaxClock)
           /\ p.human \in BOOLEAN /\ p.remover \in {"nobody", "owner", "stranger"}
BY DEF PullRequests

\* Checks that start again, on a new head, are at the beginning.
LEMMA RestartIs ==
    ASSUME NEW p \in PullRequests
    PROVE  Restart(p) \in [Checks -> CheckRuns] /\ \A c \in Checks : Restart(p)[c].at = 0
BY PullRequestIs DEF Restart, CheckRuns, CheckStates

LEMMA WithNewHeadIs ==
    ASSUME NEW p \in PullRequests
    PROVE  /\ WithNewHead(p) \in PullRequests
           /\ WithNewHead(p).head = p.head + 1 /\ WithNewHead(p).closedAt = p.closedAt
           /\ WithNewHead(p).state = p.state
           /\ \A c \in Checks : WithNewHead(p).checks[c].at = 0
<1>1. WithNewHead(p) = [p EXCEPT !.head = p.head + 1, !.reviewed = FALSE, !.checks = Restart(p)]
    BY DEF WithNewHead, PullRequests
<1>2. PICK runs \in [Checks -> CheckRuns] : runs = Restart(p) /\ \A c \in Checks : runs[c].at = 0
    BY RestartIs
<1>3. WithNewHead(p) = [p EXCEPT !.head = p.head + 1, !.reviewed = FALSE, !.checks = runs]
    BY <1>1, <1>2
<1>4. p.head + 1 \in Nat /\ FALSE \in BOOLEAN
    BY PullRequestIs
<1>5. WithNewHead(p) \in PullRequests
    BY <1>3, <1>4 DEF PullRequests
<1> QED
    BY <1>2, <1>3, <1>5 DEF PullRequests

LEMMA OpenedIs ==
    ASSUME NEW number \in Nat, clock \in 0..MaxClock
    PROVE  /\ Opened(number) \in PullRequests
           /\ Opened(number).head = number /\ Opened(number).closedAt = 0 /\ Opened(number).state = "open"
           /\ \A c \in Checks : Opened(number).checks[c].at = 0
<1> DEFINE p(runs) == [state |-> "open", head |-> number, closedAt |-> 0,
              dirty |-> FALSE, behind |-> FALSE, checks |-> runs,
              threads |-> {}, pending |-> TRUE, reviewed |-> FALSE, requestedAt |-> {clock},
              human |-> FALSE, remover |-> "nobody"]
           blank == p([c \in Checks |-> NotRead])
           runs == Restart(blank)
<1>1. Opened(number) = [blank EXCEPT !.checks = runs]
    BY DEF Opened
<1>2. runs \in [Checks -> CheckRuns] /\ \A c \in Checks : runs[c].at = 0
    BY DEF Restart, CheckRuns, CheckStates
<1> HIDE DEF runs
<1>3. Opened(number) = p(runs)
    BY <1>1
<1> QED
    BY <1>2, <1>3 DEF PullRequests

\* A step of anyone but the sweepers.
LEMMA TickKeeps ==
    ASSUME SweepTypes, Tick PROVE PullRequestTypes' /\ SameHead
BY PullRequestIs DEF SweepTypes, PullRequestTypes, Tick, SameHead, CheckRuns, sweepHistory

LEMMA RunCompletesKeeps ==
    ASSUME SweepTypes, NEW d \in Checks, RunCompletes(d) PROVE PullRequestTypes' /\ SameHead
<1>1. pr \in PullRequests /\ clock \in 0..MaxClock /\ clock' = clock /\ pr.checks[d].state = "running"
    BY DEF SweepTypes, PullRequestTypes, RunCompletes
<1>2. PICK result \in {"green", "red"} :
          pr' = [pr EXCEPT !.checks[d] = [state |-> result, at |-> clock]]
    BY DEF RunCompletes
<1> DEFINE runs == [pr.checks EXCEPT ![d] = [state |-> result, at |-> clock]]
<1>3. runs \in [Checks -> CheckRuns]
    BY <1>1, PullRequestIs DEF CheckRuns, CheckStates
<1>4. \A c \in Checks : runs[c] = IF c = d THEN [state |-> result, at |-> clock] ELSE pr.checks[c]
    BY <1>1, PullRequestIs
<1> HIDE DEF runs
<1>5. pr' = [pr EXCEPT !.checks = runs]
    BY <1>1, <1>2 DEF runs, PullRequests
<1>6. pr' \in PullRequests /\ pr'.checks = runs
    BY <1>1, <1>3, <1>5 DEF PullRequests
<1>7. \A c \in Checks : runs[c].at <= clock
    BY <1>1, <1>4 DEF SweepTypes, PullRequestTypes
<1>8. PullRequestTypes'
    BY <1>1, <1>5, <1>6, <1>7, PullRequestIs DEF SweepTypes, PullRequestTypes
<1>9. SameHead
    <2>1. ranAgain' = ranAgain /\ ranAgain \subseteq Checks
        BY DEF RunCompletes, sweepHistory, SweepTypes
    <2> QED
        BY <1>1, <1>4, <1>5, <1>6, <2>1, PullRequestIs DEF SameHead, PullRequests
<1> QED
    BY <1>8, <1>9

\* The pull request is edited where neither its checks nor its head are.
Edited ==
    /\ pr' \in PullRequests
    /\ pr'.head = pr.head /\ pr'.checks = pr.checks
    /\ pr.reviewed => pr'.reviewed
    /\ pr.requestedAt \subseteq pr'.requestedAt
    /\ pr'.state = "open" => pr.state = "open"
    /\ pr'.closedAt = pr.closedAt

LEMMA EditedKeeps ==
    ASSUME SweepTypes, Edited, UNCHANGED <<clock, ranAgain>> PROVE PullRequestTypes' /\ SameHead
BY DEF SweepTypes, PullRequestTypes, Edited, SameHead

LEMMA CopilotAnswersEdits == ASSUME SweepTypes, CopilotAnswers PROVE Edited
<1>1. pr \in PullRequests
    BY DEF SweepTypes, PullRequestTypes
<1>2. CASE pr' = [pr EXCEPT !.pending = FALSE]
    BY <1>1, <1>2 DEF Edited, PullRequests
<1>3. ASSUME NEW found \in {{}, {"bot"}},
             pr' = [pr EXCEPT !.pending = FALSE, !.reviewed = TRUE, !.threads = @ \union found]
      PROVE  Edited
    <2> DEFINE standings == pr.threads \union found
    <2>1. standings \in SUBSET {"bot", "owner", "answered"}
        BY <1>1, PullRequestIs
    <2>2. pr' = [pr EXCEPT !.pending = FALSE, !.reviewed = TRUE, !.threads = standings]
        BY <1>1, <1>3 DEF PullRequests
    <2> HIDE DEF standings
    <2>3. pr' \in PullRequests
        BY <1>1, <2>1, <2>2 DEF PullRequests
    <2>4. pr'.reviewed
        BY <1>1, <2>2 DEF PullRequests
    <2> QED
        BY <1>1, <2>2, <2>3, <2>4 DEF Edited, PullRequests
<1> QED
    BY <1>2, <1>3 DEF CopilotAnswers

LEMMA MainAdvancesEdits == ASSUME SweepTypes, MainAdvances PROVE Edited
<1>1. pr \in PullRequests
    BY DEF SweepTypes, PullRequestTypes
<1> QED
    BY <1>1 DEF MainAdvances, Edited, PullRequests

LEMMA ThreadsChangeEdits == ASSUME SweepTypes, ThreadsChange PROVE Edited
<1>1. pr \in PullRequests
    BY DEF SweepTypes, PullRequestTypes
<1> QED
    BY <1>1 DEF ThreadsChange, Edited, PullRequests

LEMMA LabelsEdit ==
    ASSUME SweepTypes, PullRequestLabelled \/ PullRequestUnlabelled PROVE Edited
<1>1. pr \in PullRequests
    BY DEF SweepTypes, PullRequestTypes
<1> QED
    BY <1>1 DEF PullRequestLabelled, PullRequestUnlabelled, Edited, PullRequests

LEMMA PersonRerunsKeeps ==
    ASSUME SweepTypes, PersonReruns PROVE PullRequestTypes' /\ SameHead
<1>1. pr \in PullRequests /\ clock \in 0..MaxClock /\ clock' = clock
    BY DEF SweepTypes, PullRequestTypes, PersonReruns
<1>2. PICK set \in Rerunnable :
          /\ pr' = [pr EXCEPT !.checks =
                    [c \in Checks |-> IF c \in set THEN [state |-> "running", at |-> 0] ELSE @[c]]]
          /\ ranAgain' = ranAgain \union set
    BY DEF PersonReruns
<1> DEFINE runs == [c \in Checks |-> IF c \in set THEN [state |-> "running", at |-> 0] ELSE pr.checks[c]]
<1>3. runs \in [Checks -> CheckRuns]
    BY <1>1, PullRequestIs DEF CheckRuns, CheckStates
<1>4. \A c \in Checks : runs[c] = IF c \in set THEN [state |-> "running", at |-> 0] ELSE pr.checks[c]
    OBVIOUS
<1>5. pr' = [pr EXCEPT !.checks = runs]
    BY <1>1, <1>2 DEF PullRequests
<1> HIDE DEF runs
<1>6. pr' \in PullRequests /\ pr'.checks = runs
    BY <1>1, <1>3, <1>5 DEF PullRequests
<1>7. \A c \in Checks : runs[c].at <= clock
    BY <1>1, <1>4 DEF SweepTypes, PullRequestTypes
<1>8. PullRequestTypes'
    BY <1>1, <1>5, <1>6, <1>7, PullRequestIs DEF SweepTypes, PullRequestTypes
<1>9. SameHead
    <2>1. ranAgain \subseteq Checks /\ ranAgain' = ranAgain \union set /\ set \subseteq Checks
        BY <1>2, SweepAssumption DEF SweepTypes
    <2> QED
        BY <1>1, <1>4, <1>5, <1>6, <2>1, PullRequestIs DEF SameHead, PullRequests
<1> QED
    BY <1>8, <1>9

LEMMA PullRequestClosesKeeps ==
    ASSUME SweepTypes, PullRequestCloses
    PROVE  PullRequestTypes' /\ SameHead /\ pr'.state # "open" /\ pr'.closedAt = clock
<1>1. pr \in PullRequests /\ clock \in 0..MaxClock /\ clock' = clock /\ pr.state = "open"
    BY DEF SweepTypes, PullRequestTypes, PullRequestCloses
<1>2. PICK state \in {"closed", "merged"} : pr' = [pr EXCEPT !.state = state, !.closedAt = clock]
    BY DEF PullRequestCloses
<1>3. pr' \in PullRequests /\ pr'.closedAt = clock /\ pr'.checks = pr.checks /\ pr'.state = state
    BY <1>1, <1>2 DEF PullRequests
<1>4. PullRequestTypes'
    BY <1>1, <1>3 DEF SweepTypes, PullRequestTypes
<1>5. SameHead
    <2>1. ranAgain' = ranAgain /\ ranAgain \subseteq Checks
        BY DEF PullRequestCloses, SweepTypes
    <2> QED
        BY <1>1, <1>2, <1>3, <2>1 DEF PullRequests, SameHead
<1> QED
    BY <1>2, <1>3, <1>4, <1>5

LEMMA WithNewHeadKeeps ==
    ASSUME SweepTypes, pr' = WithNewHead(pr) \/ pr' = [WithNewHead(pr) EXCEPT !.behind = FALSE],
           UNCHANGED clock, AtNewHead
    PROVE  PullRequestTypes' /\ FreshHead /\ pr'.state = pr.state
<1>1. pr \in PullRequests /\ clock \in 0..MaxClock /\ pr.closedAt <= clock /\ pr.head \in Nat
    BY PullRequestIs DEF SweepTypes, PullRequestTypes
<1>2. PICK p \in PullRequests : p = WithNewHead(pr)
    BY <1>1, WithNewHeadIs
<1>3. /\ p.head = pr.head + 1 /\ p.closedAt = pr.closedAt /\ p.state = pr.state
      /\ \A c \in Checks : p.checks[c].at = 0
    BY <1>1, <1>2, WithNewHeadIs
<1>4. pr' \in PullRequests
    <2>1. CASE pr' = [p EXCEPT !.behind = FALSE]
        BY <1>2, <2>1 DEF PullRequests
    <2> QED
        BY <1>2, <2>1
<1>5. pr'.head = p.head /\ pr'.closedAt = p.closedAt /\ pr'.state = p.state /\ pr'.checks = p.checks
    BY <1>2 DEF PullRequests
<1> QED
    BY <1>1, <1>3, <1>4, <1>5 DEF PullRequestTypes, FreshHead, AtNewHead

LEMMA IssueRebuiltKeeps ==
    ASSUME SweepTypes, IssueRebuilt
    PROVE  PullRequestTypes' /\ FreshHead /\ pr'.state = "open"
<1>1. pr \in PullRequests /\ clock \in 0..MaxClock /\ clock' = clock /\ pr.head + 1 \in Nat
    BY PullRequestIs DEF SweepTypes, PullRequestTypes, IssueRebuilt
<1>2. pr' = Opened(pr.head + 1) /\ AtNewHead
    BY DEF IssueRebuilt
<1> QED
    BY <1>1, <1>2, OpenedIs DEF PullRequestTypes, FreshHead, AtNewHead

LEMMA ActsCount ==
    ASSUME SweepTypes, PersonActs PROVE acts' \in 0..MaxActs /\ acts' = acts + 1
BY DEF SweepTypes, PersonActs

\* What everybody but the sweepers leaves as it is, and does to the pull request.
LEMMA OthersKeep ==
    ASSUME SweepTypes, Tick \/ PeopleAct \/ JudgesHead
    PROVE  /\ SweepTypes'
           /\ UNCHANGED <<sweeping, seen>>
           /\ (SameHead /\ asked' = asked) \/ (FreshHead /\ acts' # acts)
<1>1. PullRequestTypes' /\ ((SameHead /\ asked' = asked) \/ (FreshHead /\ acts' # acts))
    <2>1. CASE Tick
        BY <2>1, TickKeeps DEF Tick, sweepHistory
    <2>2. CASE MainAdvances \/ ThreadsChange \/ PullRequestLabelled \/ PullRequestUnlabelled \/ CopilotAnswers
        <3>1. Edited
            BY <2>2, MainAdvancesEdits, ThreadsChangeEdits, LabelsEdit, CopilotAnswersEdits
        <3>2. UNCHANGED <<clock, asked, ranAgain>>
            BY <2>2 DEF MainAdvances, ThreadsChange, PullRequestLabelled, PullRequestUnlabelled,
                CopilotAnswers, sweepHistory
        <3> QED
            BY <3>1, <3>2, EditedKeeps
    <2>3. CASE HeadPushed
        <3>1. pr' = WithNewHead(pr) /\ UNCHANGED clock /\ AtNewHead /\ PersonActs
            BY <2>3 DEF HeadPushed
        <3> QED
            BY <3>1, WithNewHeadKeeps, ActsCount DEF SweepTypes
    <2>4. CASE PersonReruns
        BY <2>4, PersonRerunsKeeps DEF PersonReruns, sweepHistory
    <2>5. CASE PullRequestCloses
        BY <2>5, PullRequestClosesKeeps DEF PullRequestCloses
    <2>6. CASE IssueRequeued
        <3>1. UNCHANGED <<clock, pr, asked, ranAgain>>
            BY <2>6 DEF IssueRequeued, sweepHistory
        <3> QED
            BY <3>1 DEF SweepTypes, PullRequestTypes, SameHead
    <2>7. CASE IssueRebuilt
        BY <2>7, IssueRebuiltKeeps, ActsCount DEF IssueRebuilt, SweepTypes
    <2>8. ASSUME NEW d \in Checks, RunCompletes(d)
          PROVE  PullRequestTypes' /\ SameHead /\ asked' = asked
        BY <2>8, RunCompletesKeeps DEF RunCompletes, sweepHistory
    <2> QED
        BY <2>1, <2>2, <2>3, <2>4, <2>5, <2>6, <2>7, <2>8 DEF PeopleAct, JudgesHead
<1>2. UNCHANGED <<sweeping, seen, callFaults, overlaps>>
    BY DEF Tick, PeopleAct, JudgesHead, sweepers, MainAdvances, HeadPushed, PersonReruns, ThreadsChange,
        PullRequestLabelled, PullRequestUnlabelled, PullRequestCloses, IssueRequeued, IssueRebuilt,
        CopilotAnswers, RunCompletes
<1>3. clock' \in 0..MaxClock /\ clock' >= clock
    <2>1. clock' = clock \/ (clock < MaxClock /\ clock' = clock + 1)
        BY DEF Tick, PeopleAct, JudgesHead, MainAdvances, HeadPushed, PersonReruns, ThreadsChange,
            PullRequestLabelled, PullRequestUnlabelled, PullRequestCloses, IssueRequeued, IssueRebuilt,
            CopilotAnswers, RunCompletes
    <2> QED
        BY <2>1 DEF SweepTypes
<1>4. acts' \in 0..MaxActs
    <2>1. CASE PeopleAct
        BY <2>1, ActsCount DEF PeopleAct, MainAdvances, HeadPushed, PersonReruns, ThreadsChange,
            PullRequestLabelled, PullRequestUnlabelled, PullRequestCloses, IssueRequeued, IssueRebuilt
    <2>2. CASE Tick \/ JudgesHead
        BY <2>2 DEF SweepTypes, Tick, JudgesHead, CopilotAnswers, RunCompletes
    <2> QED
        BY <2>1, <2>2
<1>5. \/ UNCHANGED <<issueHuman, requeuedAt>>
      \/ issueHuman' = FALSE /\ requeuedAt' = clock
    BY DEF Tick, PeopleAct, JudgesHead, issueVars, MainAdvances, HeadPushed, PersonReruns, ThreadsChange,
        PullRequestLabelled, PullRequestUnlabelled, PullRequestCloses, IssueRequeued, IssueRebuilt,
        CopilotAnswers, RunCompletes
<1>6. issueHuman' \in BOOLEAN
    BY <1>5 DEF SweepTypes
<1>7. requeuedAt' \in -1..MaxClock /\ requeuedAt' <= clock'
    BY <1>3, <1>5 DEF SweepTypes
<1>8. asked' \in Nat /\ handed' \in Nat
    <2>1. handed' = handed \/ handed' = 0
        BY DEF Tick, PeopleAct, JudgesHead, AtNewHead, sweepHistory, MainAdvances, HeadPushed, PersonReruns, ThreadsChange,
            PullRequestLabelled, PullRequestUnlabelled, PullRequestCloses, IssueRequeued, IssueRebuilt,
            CopilotAnswers, RunCompletes
    <2> QED
        BY <1>1, <2>1 DEF SweepTypes, FreshHead
<1>9. \A s \in Sweepers : SeenTypes(s)'
    BY <1>2 DEF SweepTypes, SeenTypes
<1>10. sweeping' \in [Sweepers -> SweepPlaces] /\ seen' = [s \in Sweepers |-> seen'[s]]
    BY <1>2 DEF SweepTypes
<1>11. callFaults' \in 0..MaxCallFaults /\ overlaps' \in 0..MaxOverlaps /\ ranAgain' \subseteq Checks
    BY <1>1, <1>2 DEF SweepTypes, SameHead, FreshHead
<1>12. SweepTypes'
    BY <1>1, <1>3, <1>4, <1>6, <1>7, <1>8, <1>9, <1>10, <1>11 DEF SweepTypes
<1> QED
    BY <1>1, <1>2, <1>12

------------------------------------------------------------------------------
(* A sweep.                                                                   *)

\* What a sweeper's step does to where it is and what it has read.
Moves(s) ==
    \/ Reads(s)
    \/ Decides(s)
    \/ /\ sweeping[s] \in Reading /\ seen'[s] = seen[s]
       /\ sweeping'[s] \in {"restoring", "threads", "needs-pass"}
    \/ /\ sweeping[s] \in Reading /\ sweeping'[s] = "closed"
       /\ seen'[s] = [pr |-> [state |-> seen[s].pr.state], now |-> 0, issueHuman |-> seen[s].issueHuman]
    \/ /\ sweeping[s] = "closed" /\ seen'[s] = seen[s] /\ sweeping'[s] = "handing back"
    \/ /\ sweeping'[s] = "idle"

OnlyMoves(s) ==
    /\ \A r \in Sweepers : r # s => sweeping'[r] = sweeping[r] /\ seen'[r] = seen[r]
    /\ sweeping' \in [Sweepers -> SweepPlaces] /\ seen' = [r \in Sweepers |-> seen'[r]]
    /\ Moves(s)

LEMMA GoesThere ==
    ASSUME SweepTypes, NEW s \in Sweepers, NEW place \in SweepPlaces, SweepsTo(s, place)
    PROVE  /\ sweeping' \in [Sweepers -> SweepPlaces] /\ sweeping'[s] = place
           /\ \A r \in Sweepers : r # s => sweeping'[r] = sweeping[r]
BY DEF SweepTypes, SweepsTo

LEMMA SweepEnds ==
    ASSUME SweepTypes, NEW s \in Sweepers, EndsSweep(s)
    PROVE  OnlyMoves(s) /\ sweeping'[s] = "idle" /\ seen'[s] = NotRead
<1>1. SweepsTo(s, "idle") /\ "idle" \in SweepPlaces /\ seen' = [seen EXCEPT ![s] = NotRead]
    BY DEF EndsSweep, SweepPlaces
<1>2. seen = [r \in Sweepers |-> seen[r]]
    BY DEF SweepTypes
<1>3. seen' = [r \in Sweepers |-> IF r = s THEN NotRead ELSE seen[r]]
    BY <1>1, <1>2
<1> QED
    BY <1>1, <1>3, GoesThere DEF OnlyMoves, Moves

\* The sweep is done with the pull request.
LEMMA SweepLeavesIt ==
    ASSUME SweepTypes, NEW s \in Sweepers, sweeping[s] \in Reading, PullRequestDone(s)
    PROVE  OnlyMoves(s)
<1>1. SweepsTo(s, "closed") /\ "closed" \in SweepPlaces
    BY DEF PullRequestDone, SweepPlaces
<1> DEFINE left == [pr |-> [state |-> seen[s].pr.state], now |-> 0, issueHuman |-> seen[s].issueHuman]
<1>2. seen = [r \in Sweepers |-> seen[r]] /\ seen' = [seen EXCEPT ![s] = left]
    BY DEF SweepTypes, PullRequestDone
<1>3. seen' = [r \in Sweepers |-> IF r = s THEN left ELSE seen[r]]
    BY <1>2
<1>4. seen'[s] = left /\ seen' = [r \in Sweepers |-> seen'[r]]
      /\ \A r \in Sweepers : r # s => seen'[r] = seen[r]
    BY <1>3
<1> QED
    BY <1>1, <1>4, GoesThere DEF OnlyMoves, Moves

\* The sweep goes on with what it read of the pull request.
LEMMA SweepGoesOn ==
    ASSUME SweepTypes, NEW s \in Sweepers, sweeping[s] \in Reading, UNCHANGED seen,
           NEW place \in {"restoring", "threads", "needs-pass"}, SweepsTo(s, place)
    PROVE  OnlyMoves(s)
<1>1. place \in SweepPlaces
    BY DEF SweepPlaces, Reading, Decisions
<1>2. seen = [r \in Sweepers |-> seen[r]]
    BY DEF SweepTypes
<1> QED
    BY <1>1, <1>2, GoesThere DEF OnlyMoves, Moves

LEMMA DecidesOne ==
    ASSUME NEW view PROVE Decide(view) \in Decisions
BY DEF Decide, Decisions

LEMMA StepMoves ==
    ASSUME SweepTypes, NEW s \in Sweepers, SweepStep(s)
    PROVE  OnlyMoves(s)
<1>1. CASE Reads(s)
    <2>1. PICK place \in {"origin", "closed"} : SweepsTo(s, place)
        BY <1>1 DEF Reads
    <2>2. place \in SweepPlaces
        BY DEF SweepPlaces, Reading
    <2>3. seen' = [seen EXCEPT ![s] = [pr |-> pr, now |-> clock, issueHuman |-> issueHuman]]
        BY <1>1 DEF Reads
    <2>4. seen = [r \in Sweepers |-> seen[r]]
        BY DEF SweepTypes
    <2>5. seen' = [r \in Sweepers |-> seen'[r]] /\ \A r \in Sweepers : r # s => seen'[r] = seen[r]
        BY <2>3, <2>4
    <2> QED
        BY <1>1, <2>1, <2>2, <2>5, GoesThere DEF OnlyMoves, Moves
<1>2. CASE Decides(s)
    <2>1. PICK place \in Decisions : SweepsTo(s, place)
        BY <1>2, DecidesOne DEF Decides
    <2>2. place \in SweepPlaces
        BY DEF SweepPlaces, Reading
    <2>3. seen' = seen /\ seen = [r \in Sweepers |-> seen[r]]
        BY <1>2 DEF Decides, SweepTypes
    <2> QED
        BY <1>2, <2>1, <2>2, <2>3, GoesThere DEF OnlyMoves, Moves
<1>3. CASE ChecksOrigin(s)
    <2>1. sweeping[s] \in Reading /\ UNCHANGED seen
        BY <1>3 DEF ChecksOrigin, Reading
    <2>2. PICK place \in {"restoring", "threads"} : SweepsTo(s, place)
        BY <1>3 DEF ChecksOrigin
    <2> QED
        BY <2>1, <2>2, SweepGoesOn
<1>4. CASE Restores(s) \/ RequestsReview(s) \/ UpdatesBranch(s) \/ LeavesIt(s)
    <2>1. sweeping[s] \in Reading /\ PullRequestDone(s)
        BY <1>4 DEF Restores, RequestsReview, UpdatesBranch, LeavesIt, Reading, Decisions
    <2> QED
        BY <2>1, SweepLeavesIt
<1>5. CASE ThreadsUnread(s)
    <2>1. sweeping[s] \in Reading
        BY <1>5 DEF ThreadsUnread, Reading
    <2>2. (SweepsTo(s, "needs-pass") /\ UNCHANGED seen) \/ PullRequestDone(s)
        BY <1>5 DEF ThreadsUnread
    <2> QED
        BY <2>1, <2>2, SweepGoesOn, SweepLeavesIt
<1>6. CASE CallFails(s)
    <2>1. CASE sweeping[s] \in {"closed", "handing back"}
        BY <1>6, <2>1, SweepEnds DEF CallFails
    <2>2. CASE sweeping[s] \notin {"closed", "handing back"}
        <3>1. sweeping[s] \in Reading /\ PullRequestDone(s)
            BY <1>6, <2>2 DEF CallFails, Sweepable, Reading, Decisions
        <3> QED
            BY <3>1, SweepLeavesIt
    <2> QED
        BY <2>1, <2>2
<1>7. CASE JudgesClosed(s)
    <2>1. CASE EndsSweep(s)
        BY <2>1, SweepEnds
    <2>2. CASE sweeping[s] = "closed" /\ SweepsTo(s, "handing back") /\ UNCHANGED seen
        <3>1. "handing back" \in SweepPlaces /\ seen = [r \in Sweepers |-> seen[r]]
            BY DEF SweepPlaces, SweepTypes
        <3> QED
            BY <2>2, <3>1, GoesThere DEF OnlyMoves, Moves
    <2> QED
        BY <1>7, <2>1, <2>2 DEF JudgesClosed
<1>8. CASE HandsIssueBack(s)
    BY <1>8, SweepEnds DEF HandsIssueBack
<1> QED
    BY <1>1, <1>2, <1>3, <1>4, <1>5, <1>6, <1>7, <1>8 DEF SweepStep

LEMMA RestoresEdits == ASSUME SweepTypes, NEW s \in Sweepers, Restores(s) PROVE Edited
<1>1. pr \in PullRequests
    BY DEF SweepTypes, PullRequestTypes
<1> QED
    BY <1>1 DEF Restores, Edited, PullRequests

LEMMA RequestsReviewEdits ==
    ASSUME SweepTypes, NEW s \in Sweepers, RequestsReview(s)
    PROVE  Edited /\ (pr.state = "open" => clock \in pr'.requestedAt) /\ pr'.state = pr.state
<1>1. pr \in PullRequests /\ clock \in 0..MaxClock
    BY DEF SweepTypes, PullRequestTypes
<1>2. CASE pr.state # "open"
    <2>1. pr' = pr
        BY <1>2 DEF RequestsReview
    <2> QED
        BY <1>1, <1>2, <2>1 DEF Edited
<1>3. CASE pr.state = "open"
    <2>1. PICK kept \in BOOLEAN :
              pr' = [pr EXCEPT !.pending = @ \/ kept, !.requestedAt = @ \union {clock}]
        BY <1>3 DEF RequestsReview
    <2>2. PICK pending \in BOOLEAN : pending = (pr.pending \/ kept)
        BY <1>1, PullRequestIs
    <2> DEFINE times == pr.requestedAt \union {clock}
    <2>3. pr' = [pr EXCEPT !.pending = pending, !.requestedAt = times]
        BY <1>1, <2>1, <2>2 DEF PullRequests
    <2>4. times \in SUBSET (0..MaxClock) /\ clock \in times /\ pr.requestedAt \subseteq times
        BY <1>1, PullRequestIs
    <2> HIDE DEF times
    <2>5. pr' \in PullRequests
        BY <1>1, <2>3, <2>4 DEF PullRequests
    <2> QED
        BY <1>1, <2>3, <2>4, <2>5 DEF Edited, PullRequests
<1> QED
    BY <1>2, <1>3

\* A sweep that is over has read nothing.
LEMMA SweepIdles ==
    ASSUME SweepTypes, NEW s \in Sweepers, SweepStep(s), sweeping'[s] = "idle"
    PROVE  EndsSweep(s)
<1>1. \A place : SweepsTo(s, place) => place = "idle"
    BY DEF SweepsTo, SweepTypes
<1>2. ~(Reads(s) \/ ChecksOrigin(s) \/ Restores(s) \/ RequestsReview(s) \/ UpdatesBranch(s)
        \/ LeavesIt(s) \/ ThreadsUnread(s))
    BY <1>1 DEF Reads, ChecksOrigin, Restores, RequestsReview, UpdatesBranch, LeavesIt,
        ThreadsUnread, PullRequestDone
<1>3. ~Decides(s)
    <2>1. ASSUME Decides(s) PROVE FALSE
        <3>1. PICK place \in Decisions : SweepsTo(s, place)
            BY <2>1, DecidesOne DEF Decides
        <3> QED
            BY <1>1, <3>1 DEF Decisions
    <2> QED
        BY <2>1
<1> QED
    BY <1>1, <1>2, <1>3 DEF SweepStep, CallFails, JudgesClosed, HandsIssueBack, PullRequestDone

\* What a sweeper's step does to the pull request, and to the bounds.
LEMMA StepKeeps ==
    ASSUME SweepTypes, NEW s \in Sweepers, SweepStep(s)
    PROVE  /\ SweepTypes'
           /\ acts' = acts
           /\ \/ SameHead /\ asked' = asked
              \/ SameHead /\ RequestsReview(s)
              \/ FreshHead /\ UpdatesBranch(s) /\ pr.head = seen[s].pr.head
<1>1. OnlyMoves(s)
    BY StepMoves
<1>2. clock' = clock /\ acts' = acts
    BY DEF SweepStep, sweepBounds, Reads, ChecksOrigin, Restores, Decides, ThreadsUnread, RequestsReview,
        UpdatesBranch, LeavesIt, CallFails, JudgesClosed, HandsIssueBack
<1>3. /\ PullRequestTypes'
      /\ \/ SameHead /\ asked' = asked
         \/ SameHead /\ RequestsReview(s)
         \/ FreshHead /\ UpdatesBranch(s) /\ pr.head = seen[s].pr.head
    <2>1. CASE Restores(s)
        BY <1>2, <2>1, RestoresEdits, EditedKeeps DEF Restores, sweepHistory
    <2>2. CASE RequestsReview(s)
        <3>1. ranAgain' = ranAgain
            BY <2>2 DEF RequestsReview
        <3> QED
            BY <1>2, <2>2, <3>1, RequestsReviewEdits, EditedKeeps
    <2>3. CASE UpdatesBranch(s) /\ pr.state = "open" /\ ~pr.dirty /\ pr.head = seen[s].pr.head
        <3>1. pr' = [WithNewHead(pr) EXCEPT !.behind = FALSE] /\ AtNewHead
            BY <2>3 DEF UpdatesBranch
        <3> QED
            BY <1>2, <2>3, <3>1, WithNewHeadKeeps
    <2>4. CASE UNCHANGED <<pr, asked, ranAgain>>
        BY <1>2, <2>4 DEF SweepTypes, PullRequestTypes, SameHead
    <2> QED
        BY <2>1, <2>2, <2>3, <2>4 DEF SweepStep, sweepHistory, Reads, ChecksOrigin, Decides,
            ThreadsUnread, UpdatesBranch, LeavesIt, CallFails, JudgesClosed, HandsIssueBack
<1>4. callFaults' \in 0..MaxCallFaults /\ overlaps' \in 0..MaxOverlaps
    <2>1. callFaults' = callFaults \/ CallFault
        BY DEF SweepStep, sweepBounds, Reads, ChecksOrigin, Restores, Decides, ThreadsUnread, RequestsReview,
            UpdatesBranch, LeavesIt, CallFails, JudgesClosed, HandsIssueBack
    <2>2. overlaps' = overlaps \/ Overlap
        BY DEF SweepStep, sweepBounds, Reads, ChecksOrigin, Restores, Decides, ThreadsUnread, RequestsReview,
            UpdatesBranch, LeavesIt, CallFails, JudgesClosed, HandsIssueBack
    <2> QED
        BY <2>1, <2>2 DEF SweepTypes, CallFault, Overlap
<1>5. requeuedAt' = requeuedAt /\ (issueHuman' = issueHuman \/ issueHuman' = TRUE)
    BY DEF SweepStep, issueVars, Reads, ChecksOrigin, Restores, Decides, ThreadsUnread, RequestsReview,
        UpdatesBranch, LeavesIt, CallFails, JudgesClosed, HandsIssueBack
<1>6. issueHuman' \in BOOLEAN /\ requeuedAt' \in -1..MaxClock /\ requeuedAt' <= clock'
    <2>1. issueHuman' \in BOOLEAN
        BY <1>5 DEF SweepTypes
    <2> QED
        BY <1>2, <1>5, <2>1 DEF SweepTypes
<1>7. asked' \in Nat /\ handed' \in Nat /\ ranAgain' \subseteq Checks
    <2>1. handed' \in {handed, handed + 1} /\ asked' \in {asked, asked + 1, 0} /\ ranAgain' \in {ranAgain, {}}
        BY DEF SweepStep, AtNewHead, sweepHistory, Reads, ChecksOrigin, Restores, Decides, ThreadsUnread,
            RequestsReview, UpdatesBranch, LeavesIt, CallFails, JudgesClosed, HandsIssueBack
    <2> QED
        BY <2>1 DEF SweepTypes
<1>8. \A r \in Sweepers : SeenTypes(r)'
    <2> SUFFICES ASSUME NEW r \in Sweepers PROVE SeenTypes(r)'
        OBVIOUS
    <2>1. SeenTypes(r)
        BY DEF SweepTypes
    <2>2. CASE r # s
        BY <1>1, <2>1, <2>2 DEF OnlyMoves, SeenTypes
    <2>3. CASE r = s /\ Reads(s)
        <3>1. seen'[s] = [pr |-> pr, now |-> clock, issueHuman |-> issueHuman]
            BY <2>3 DEF Reads, SweepTypes
        <3> QED
            BY <2>3, <3>1 DEF SweepTypes, PullRequestTypes, SeenTypes
    <2>4. CASE r = s /\ seen'[s] = seen[s] /\ sweeping[s] \in Reading
        BY <2>1, <2>4 DEF SeenTypes
    <2>5. CASE r = s /\ seen'[s] = seen[s] /\ sweeping'[s] \notin Reading
        BY <2>1, <2>5 DEF SeenTypes
    <2>9. CASE /\ r = s /\ sweeping'[s] = "closed"
               /\ seen'[s] = [pr |-> [state |-> seen[s].pr.state], now |-> 0,
                              issueHuman |-> seen[s].issueHuman]
        BY <2>1, <2>9 DEF SeenTypes, Reading, Decisions
    <2>6. CASE r = s /\ EndsSweep(s)
        <3>1. sweeping'[s] = "idle" /\ seen'[s] = NotRead
            BY <2>6, SweepEnds
        <3> QED
            BY <2>6, <3>1 DEF SeenTypes, NotRead, Reading, Decisions
    <2>7. Decides(s) => seen'[s] = seen[s] /\ sweeping[s] \in Reading
        BY DEF Decides, Reading
    <2>8. sweeping'[s] = "idle" => EndsSweep(s)
        BY SweepIdles
    <2>10. "handing back" \notin Reading
        BY DEF Reading, Decisions
    <2> QED
        BY <1>1, <2>2, <2>3, <2>4, <2>5, <2>6, <2>7, <2>8, <2>9, <2>10 DEF OnlyMoves, Moves
<1> QED
    BY <1>1, <1>2, <1>3, <1>4, <1>6, <1>7, <1>8 DEF SweepTypes, OnlyMoves

------------------------------------------------------------------------------
(* What a sweep decides.                                                      *)

LEMMA UpdatesWhenReviewed ==
    ASSUME NEW view, Decide(view) = "update-branch" PROVE view.reviewed
BY DEF Decide

LEMMA RequestsWhenDone ==
    ASSUME NEW view, Decide(view) = "request-review"
    PROVE  "running" \notin view.states /\ ~view.asked
BY DEF Decide, Settled

LEMMA DecidesOnView ==
    ASSUME SweepTypes, NEW s \in Sweepers, Decides(s)
    PROVE  /\ sweeping[s] = "threads" /\ UNCHANGED <<pr, seen, asked>>
           /\ \E standings : sweeping'[s] = Decide(View(s, standings))
<1> DEFINE standings == IF MayFlag(s) THEN pr.threads ELSE seen[s].pr.threads
           place == Decide(View(s, standings))
<1>1. SweepsTo(s, place)
    BY DEF Decides
<1> HIDE DEF place
<1>2. sweeping'[s] = place
    BY <1>1 DEF SweepsTo, SweepTypes
<1> QED
    BY <1>2 DEF place, Decides, sweepHistory

\* A request made since a check completed is since the first that did.
LEMMA AskedIsSeen ==
    ASSUME NEW p \in PullRequests, NEW c \in Checks,
           NEW t \in p.requestedAt, t >= p.checks[c].at
    PROVE  AskedSince(p)
<1>1. /\ p.checks \in [Checks -> CheckRuns] /\ t \in Nat
      /\ \A d \in Checks : p.checks[d].at \in Nat
    BY PullRequestIs DEF CheckRuns
<1>2. DoneAt(p) \in SUBSET Nat /\ p.checks[c].at \in DoneAt(p)
    BY <1>1 DEF DoneAt
<1>3. \E u \in DoneAt(p) : \A v \in DoneAt(p) : u <= v
    BY <1>2, LeastNumber
<1>4. FirstDone(p) \in DoneAt(p) /\ FirstDone(p) <= p.checks[c].at
    BY <1>2, <1>3 DEF FirstDone
<1>5. t >= FirstDone(p)
    BY <1>1, <1>2, <1>4
<1> QED
    BY <1>5 DEF AskedSince

------------------------------------------------------------------------------
(* Whose head an update replaces.                                             *)

\* What a sweep read of the review still stands while the head does.
ReviewIsSeen(s) ==
    sweeping[s] \in Reading =>
        /\ seen[s].pr.head <= pr.head
        /\ seen[s].pr.head = pr.head /\ seen[s].pr.reviewed => pr.reviewed
        /\ sweeping[s] = "update-branch" => seen[s].pr.reviewed

ReviewsAreSeen == SweepTypes /\ \A s \in Sweepers : ReviewIsSeen(s)

\* What was read of a head says so much of it after a step.
LEMMA ReviewStays ==
    ASSUME SweepTypes, NEW s \in Sweepers, ReviewIsSeen(s), SameHead \/ FreshHead,
           sweeping[s] \in Reading, seen'[s] = seen[s]
    PROVE  /\ seen'[s].pr.head <= pr'.head
           /\ seen'[s].pr.head = pr'.head /\ seen'[s].pr.reviewed => pr'.reviewed
<1>1. seen[s].pr.head \in Nat /\ pr.head \in Nat
    BY PullRequestIs DEF SweepTypes, SeenTypes, PullRequestTypes
<1>2. seen[s].pr.head <= pr.head /\ (seen[s].pr.head = pr.head /\ seen[s].pr.reviewed => pr.reviewed)
    BY DEF ReviewIsSeen
<1> QED
    BY <1>1, <1>2 DEF SameHead, FreshHead

LEMMA ReviewStillSeen ==
    ASSUME SweepTypes, NEW s \in Sweepers, ReviewIsSeen(s), SameHead \/ FreshHead,
           UNCHANGED <<sweeping[s], seen[s]>>
    PROVE  ReviewIsSeen(s)'
BY ReviewStays DEF ReviewIsSeen

LEMMA ReviewSeenNext ==
    ASSUME SweepTypes, NEW s \in Sweepers, ReviewIsSeen(s), OnlyMoves(s), SameHead \/ FreshHead
    PROVE  ReviewIsSeen(s)'
<1>1. CASE Reads(s)
    <2>1. seen'[s].pr = pr /\ pr' = pr /\ sweeping'[s] # "update-branch"
        <3>1. PICK place \in {"origin", "closed"} : SweepsTo(s, place)
            BY <1>1 DEF Reads
        <3> QED
            BY <1>1, <3>1 DEF Reads, SweepTypes, SweepsTo
    <2>2. pr.head \in Nat
        BY PullRequestIs DEF SweepTypes, PullRequestTypes
    <2> QED
        BY <2>1, <2>2 DEF ReviewIsSeen
<1>2. CASE Decides(s)
    <2>1. PICK standings : sweeping'[s] = Decide(View(s, standings))
        BY <1>2, DecidesOnView
    <2>2. sweeping'[s] = "update-branch" => seen[s].pr.reviewed
        BY <2>1, UpdatesWhenReviewed DEF View
    <2>3. seen' = seen /\ sweeping[s] \in Reading
        BY <1>2, DecidesOnView DEF Reading
    <2> QED
        BY <2>2, <2>3, ReviewStays DEF ReviewIsSeen
<1>3. CASE /\ sweeping[s] \in Reading /\ seen'[s] = seen[s]
           /\ sweeping'[s] \in {"restoring", "threads", "needs-pass"}
    BY <1>3, ReviewStays DEF ReviewIsSeen
<1>4. CASE sweeping'[s] \in {"idle", "handing back", "closed"}
    BY <1>4 DEF ReviewIsSeen, Reading, Decisions
<1> QED
    BY <1>1, <1>2, <1>3, <1>4 DEF OnlyMoves, Moves

LEMMA ReviewsKept == ReviewsAreSeen /\ [SweepNext]_sweepVars => ReviewsAreSeen'
<1> SUFFICES ASSUME ReviewsAreSeen, [SweepNext]_sweepVars PROVE ReviewsAreSeen'
    OBVIOUS
<1>1. SweepTypes /\ \A s \in Sweepers : ReviewIsSeen(s)
    BY DEF ReviewsAreSeen
<1>2. CASE Tick \/ PeopleAct \/ JudgesHead
    <2>1. SweepTypes' /\ UNCHANGED <<sweeping, seen>> /\ (SameHead \/ FreshHead)
        BY <1>1, <1>2, OthersKeep
    <2> QED
        BY <1>1, <2>1, ReviewStillSeen DEF ReviewsAreSeen
<1>3. ASSUME NEW s \in Sweepers, SweepStep(s) PROVE ReviewsAreSeen'
    <2>1. OnlyMoves(s) /\ SweepTypes' /\ (SameHead \/ FreshHead)
        BY <1>1, <1>3, StepMoves, StepKeeps
    <2> SUFFICES ASSUME NEW r \in Sweepers PROVE ReviewIsSeen(r)'
        BY <2>1 DEF ReviewsAreSeen
    <2>2. CASE r = s
        BY <1>1, <2>1, <2>2, ReviewSeenNext
    <2>3. CASE r # s
        <3>1. UNCHANGED <<sweeping[r], seen[r]>>
            BY <2>1, <2>3 DEF OnlyMoves
        <3> QED
            BY <1>1, <2>1, <3>1, ReviewStillSeen
    <2> QED
        BY <2>2, <2>3
<1>4. CASE UNCHANGED sweepVars
    BY <1>1, <1>4 DEF sweepVars, sweepHistory, sweepBounds, ReviewsAreSeen, SweepTypes, PullRequestTypes, SeenTypes,
        ReviewIsSeen
<1> QED
    BY <1>2, <1>3, <1>4 DEF SweepNext

LEMMA ReviewsStart == SweepInit => ReviewsAreSeen
<1> SUFFICES ASSUME SweepInit PROVE ReviewsAreSeen
    OBVIOUS
<1>1. PullRequestTypes
    BY OpenedIs DEF SweepInit, PullRequestTypes
<1>2. \A s \in Sweepers : sweeping[s] = "idle" /\ seen[s] = NotRead
    BY DEF SweepInit
<1>3. \A s \in Sweepers : SeenTypes(s) /\ ReviewIsSeen(s)
    <2>1. \A s \in Sweepers : sweeping[s] \notin Reading
        BY <1>2 DEF Reading, Decisions
    <2>2. NotRead.issueHuman = TRUE
        BY DEF NotRead
    <2>3. \A s \in Sweepers : seen[s].issueHuman \in BOOLEAN
        BY <1>2, <2>2
    <2> QED
        BY <1>2, <2>1, <2>2, <2>3 DEF SeenTypes, ReviewIsSeen
<1>4. sweeping \in [Sweepers -> SweepPlaces] /\ seen = [s \in Sweepers |-> seen[s]]
    BY DEF SweepInit, SweepPlaces
<1>5. /\ clock \in 0..MaxClock /\ acts \in 0..MaxActs /\ callFaults \in 0..MaxCallFaults
      /\ overlaps \in 0..MaxOverlaps /\ ranAgain \subseteq Checks
      /\ requeuedAt \in -1..MaxClock /\ requeuedAt <= clock /\ asked \in Nat /\ handed \in Nat
    BY DEF SweepInit
<1>6. issueHuman \in BOOLEAN
    BY DEF SweepInit
<1> QED
    BY <1>1, <1>3, <1>4, <1>5, <1>6 DEF ReviewsAreSeen, SweepTypes

\* Whatever a sweep read of the head it still finds, while the head stands.
THEOREM ReviewsInvariant == SweepSpec => []ReviewsAreSeen
BY ReviewsStart, ReviewsKept, PTL DEF SweepSpec

\* The host's update from main replaces only a head that Copilot has reviewed,
\* with any number of sweepers and whoever pushes meanwhile.
THEOREM UpdatesAreReviewed == SweepSpec => UpdatesReviewedHead
<1>1. ReviewsAreSeen /\ [SweepNext]_sweepVars =>
          [acts' = acts /\ pr'.head # pr.head => pr.reviewed]_sweepVars
    <2> SUFFICES ASSUME ReviewsAreSeen, SweepNext, acts' = acts, pr'.head # pr.head
                 PROVE  pr.reviewed
        BY DEF sweepVars
    <2>1. SweepTypes /\ \A s \in Sweepers : ReviewIsSeen(s)
        BY DEF ReviewsAreSeen
    <2>2. CASE Tick \/ PeopleAct \/ JudgesHead
        BY <2>1, <2>2, OthersKeep DEF SameHead
    <2>3. ASSUME NEW s \in Sweepers, SweepStep(s) PROVE pr.reviewed
        <3>1. UpdatesBranch(s) /\ pr.head = seen[s].pr.head
            BY <2>1, <2>3, StepKeeps DEF SameHead
        <3>2. sweeping[s] = "update-branch"
            BY <3>1 DEF UpdatesBranch
        <3> QED
            BY <2>1, <3>1, <3>2 DEF ReviewIsSeen, Reading, Decisions
    <2> QED
        BY <2>2, <2>3 DEF SweepNext
<1> QED
    BY <1>1, ReviewsInvariant, PTL DEF SweepSpec, UpdatesReviewedHead

\* Every value the sweep and the people around it leave has its type.
THEOREM SweepTypeCorrect == SweepSpec => []SweepTypeOK
<1>1. ReviewsAreSeen => SweepTypeOK
    BY DEF ReviewsAreSeen, SweepTypes, PullRequestTypes, SweepTypeOK, SweepPlaces, Reading
<1> QED
    BY <1>1, ReviewsInvariant, PTL

------------------------------------------------------------------------------
(* What a closed pull request hands back.                                    *)

\* The issue carries its mark, or was queued again since.
Accounted == handed > 0 /\ pr.state = "closed" => issueHuman \/ pr.closedAt <= requeuedAt

\* A sweep that found no mark, and no other has handed back since, looks since
\* the issue was queued again.
LooksSince(s) ==
    s \notin missedHand =>
        /\ sweeping[s] # "idle" /\ ~seen[s].issueHuman /\ handed > 0 /\ pr.state = "closed"
               => pr.closedAt <= requeuedAt
        /\ sweeping[s] = "handing back" => handed = 0

HandsInv ==
    /\ ReviewsAreSeen /\ HandedBackOnce /\ Accounted
    /\ \A s \in Sweepers : LooksSince(s)

\* What neither hands back, nor closes the pull request, nor queues the issue.
HandsNothing ==
    /\ UNCHANGED <<handed, issueHuman, requeuedAt>>
    /\ pr'.state = "closed" => pr.state = "closed" /\ pr'.closedAt = pr.closedAt

LEMMA NothingHanded ==
    ASSUME HandsInv, HandsNothing, UNCHANGED <<sweeping, seen, missedHand>>
    PROVE  HandedBackOnce' /\ Accounted' /\ \A s \in Sweepers : LooksSince(s)'
BY DEF HandsInv, HandedBackOnce, Accounted, LooksSince, HandsNothing

\* A sweep looks on while another hands nothing back.
LEMMA LooksOn ==
    ASSUME NEW r \in Sweepers, LooksSince(r), HandsNothing, r \in missedHand => r \in missedHand',
           UNCHANGED <<sweeping[r], seen[r]>>
    PROVE  LooksSince(r)'
BY DEF LooksSince, HandsNothing

LEMMA OthersHand ==
    ASSUME HandsInv, Tick \/ PeopleAct \/ JudgesHead
    PROVE  HandedBackOnce' /\ Accounted' /\ \A s \in Sweepers : LooksSince(s)'
<1>1. SweepTypes /\ HandedBackOnce /\ Accounted /\ \A s \in Sweepers : LooksSince(s)
    BY DEF HandsInv, ReviewsAreSeen
<1>2. UNCHANGED <<sweeping, seen, missedHand>>
    <2>1. UNCHANGED missedHand
        BY DEF Tick, PeopleAct, JudgesHead, AtNewHead, sweepHistory, missed, MainAdvances, HeadPushed,
            PersonReruns, ThreadsChange, PullRequestLabelled, PullRequestUnlabelled, PullRequestCloses,
            IssueRequeued, IssueRebuilt, CopilotAnswers, RunCompletes
    <2> QED
        BY <1>1, <2>1, OthersKeep
<1>3. CASE MainAdvances \/ ThreadsChange \/ PullRequestLabelled \/ PullRequestUnlabelled \/ CopilotAnswers
    <2>1. Edited
        BY <1>1, <1>3, MainAdvancesEdits, ThreadsChangeEdits, LabelsEdit, CopilotAnswersEdits
    <2>2. UNCHANGED <<handed, issueHuman, requeuedAt>> /\ pr.state = "open"
        BY <1>3 DEF MainAdvances, ThreadsChange, PullRequestLabelled, PullRequestUnlabelled,
            CopilotAnswers, sweepHistory, issueVars
    <2>3. pr'.state # "closed"
        <3>1. pr \in PullRequests
            BY <1>1 DEF SweepTypes, PullRequestTypes
        <3> QED
            BY <1>3, <2>2, <3>1 DEF MainAdvances, ThreadsChange, PullRequestLabelled,
                PullRequestUnlabelled, CopilotAnswers, PullRequests
    <2> QED
        BY <1>2, <2>2, <2>3, NothingHanded DEF HandsNothing
<1>4. CASE Tick
    <2>1. HandsNothing
        BY <1>4 DEF Tick, HandsNothing, sweepHistory, issueVars
    <2> QED
        BY <1>2, <2>1, NothingHanded
<1>5. CASE HeadPushed
    <2>1. pr'.state = "open"
        <3>1. PullRequestTypes /\ pr' = WithNewHead(pr) /\ pr.state = "open"
            BY <1>1, <1>5 DEF HeadPushed, SweepTypes
        <3> QED
            BY <3>1, WithNewHeadIs DEF PullRequestTypes
    <2>2. HandsNothing
        BY <1>5, <2>1 DEF HeadPushed, AtNewHead, HandsNothing, issueVars
    <2> QED
        BY <1>2, <2>2, NothingHanded
<1>6. CASE PersonReruns \/ JudgesHead
    <2>1. (pr \in PullRequests /\ pr' = [pr EXCEPT !.checks = pr'.checks]) \/ CopilotAnswers
        <3>1. pr \in PullRequests
            BY <1>1 DEF SweepTypes, PullRequestTypes
        <3> QED
            BY <1>6, <3>1 DEF PersonReruns, JudgesHead, RunCompletes, PullRequests
    <2>2. CASE pr \in PullRequests /\ pr' = [pr EXCEPT !.checks = pr'.checks]
        <3>1. pr'.state = pr.state /\ pr'.closedAt = pr.closedAt
            BY <2>2 DEF PullRequests
        <3>2. HandsNothing
            BY <1>6, <3>1 DEF HandsNothing, PersonReruns, JudgesHead, CopilotAnswers, RunCompletes, sweepHistory,
                issueVars
        <3> QED
            BY <1>2, <3>2, NothingHanded
    <2> QED
        BY <1>3, <2>1, <2>2
<1>7. CASE PullRequestCloses
    <2>1. handed' = 0
        BY <1>7 DEF PullRequestCloses
    <2> QED
        BY <2>1 DEF HandedBackOnce, Accounted, LooksSince
<1>8. CASE IssueRequeued
    <2>1. requeuedAt' = clock /\ UNCHANGED <<pr, handed>> /\ pr.closedAt <= clock
        BY <1>1, <1>8 DEF IssueRequeued, sweepHistory, SweepTypes, PullRequestTypes
    <2> QED
        BY <1>1, <1>2, <2>1 DEF HandedBackOnce, Accounted, LooksSince
<1>9. CASE IssueRebuilt
    <2>1. pr'.state = "open" /\ handed' = handed
        BY <1>1, <1>9, IssueRebuiltKeeps DEF IssueRebuilt, AtNewHead
    <2> QED
        BY <1>1, <1>2, <2>1 DEF HandedBackOnce, Accounted, LooksSince
<1> QED
    BY <1>3, <1>4, <1>5, <1>6, <1>7, <1>8, <1>9 DEF PeopleAct

\* A sweeper's own step, but for the hand-back.
LEMMA SweeperHandsNothing ==
    ASSUME SweepTypes, NEW s \in Sweepers, SweepStep(s), ~HandsIssueBack(s)
    PROVE  HandsNothing
<1>1. pr \in PullRequests
    BY DEF SweepTypes, PullRequestTypes
<1>2. UNCHANGED <<handed, issueHuman, requeuedAt>>
    BY DEF SweepStep, AtNewHead, sweepHistory, issueVars, Reads, ChecksOrigin, Restores, Decides, ThreadsUnread,
        RequestsReview, UpdatesBranch, LeavesIt, CallFails, JudgesClosed
<1>3. pr'.state = pr.state /\ pr'.closedAt = pr.closedAt
    <2>1. CASE Restores(s)
        BY <1>1, <2>1 DEF Restores, PullRequests
    <2>2. CASE RequestsReview(s)
        BY <2>2, RequestsReviewEdits DEF Edited
    <2>3. CASE pr' = [WithNewHead(pr) EXCEPT !.behind = FALSE]
        <3>1. PICK p \in PullRequests : p = WithNewHead(pr) /\ p.closedAt = pr.closedAt /\ p.state = pr.state
            BY <1>1, WithNewHeadIs
        <3> QED
            BY <2>3, <3>1 DEF PullRequests
    <2>4. CASE pr' = pr
        BY <2>4
    <2> QED
        BY <2>1, <2>2, <2>3, <2>4 DEF SweepStep, Reads, ChecksOrigin, Decides, ThreadsUnread,
            UpdatesBranch, LeavesIt, CallFails, JudgesClosed
<1> QED
    BY <1>2, <1>3 DEF HandsNothing

\* A hand-back is the first that the others' reads show, and they miss it.
LEMMA SweeperHandsBack ==
    ASSUME HandsInv, NEW s \in Sweepers, HandsIssueBack(s)
    PROVE  HandedBackOnce' /\ Accounted' /\ \A r \in Sweepers : LooksSince(r)'
<1>1. SweepTypes /\ HandedBackOnce /\ LooksSince(s)
    BY DEF HandsInv, ReviewsAreSeen
<1>2. /\ sweeping[s] = "handing back" /\ issueHuman' = TRUE /\ EndsSweep(s)
      /\ missedHand' = missedHand \union Underway
      /\ handed' = IF s \in missedHand THEN handed ELSE handed + 1
    BY DEF HandsIssueBack
<1>3. HandedBackOnce'
    <2>1. CASE s \in missedHand
        BY <1>1, <1>2, <2>1 DEF HandedBackOnce
    <2>2. CASE s \notin missedHand
        <3>1. handed = 0
            BY <1>1, <1>2, <2>2 DEF LooksSince
        <3>2. handed' = handed + 1
            BY <1>2, <2>2
        <3> QED
            BY <3>1, <3>2 DEF HandedBackOnce
    <2> QED
        BY <2>1, <2>2
<1>4. ASSUME NEW r \in Sweepers PROVE LooksSince(r)'
    <2>1. CASE sweeping[r] # "idle"
        <3>1. r \in missedHand'
            BY <1>2, <2>1 DEF Underway
        <3> QED
            BY <3>1 DEF LooksSince
    <2>2. CASE sweeping[r] = "idle"
        <3>1. sweeping'[r] = "idle"
            BY <1>1, <1>2, <2>2, SweepEnds DEF OnlyMoves
        <3> QED
            BY <3>1 DEF LooksSince
    <2> QED
        BY <2>1, <2>2
<1> QED
    BY <1>2, <1>3, <1>4 DEF Accounted

\* Any other step of a sweep, whose own look is since the issue was queued.
LEMMA SweeperLooks ==
    ASSUME HandsInv, NEW s \in Sweepers, SweepStep(s), ~HandsIssueBack(s)
    PROVE  LooksSince(s)'
<1>1. /\ SweepTypes /\ Accounted /\ LooksSince(s) /\ handed \in Nat
      /\ OnlyMoves(s) /\ seen[s].issueHuman \in BOOLEAN
    BY StepMoves DEF HandsInv, ReviewsAreSeen, SweepTypes, SeenTypes
<1>2. HandsNothing
    BY <1>1, SweeperHandsNothing
<1>3. Reads(s) \/ UNCHANGED missedHand
    BY DEF SweepStep, AtNewHead, sweepHistory, missed, ChecksOrigin, Restores, Decides, ThreadsUnread,
        RequestsReview, UpdatesBranch, LeavesIt, CallFails, JudgesClosed
<1>4. CASE Reads(s)
    <2>1. seen'[s].issueHuman = issueHuman
        BY <1>1, <1>4 DEF Reads, SweepTypes
    <2>2. sweeping'[s] # "handing back"
        <3>1. PICK place \in {"origin", "closed"} : SweepsTo(s, place)
            BY <1>4 DEF Reads
        <3> QED
            BY <1>1, <3>1 DEF SweepsTo, SweepTypes
    <2> QED
        BY <1>1, <1>2, <2>1, <2>2 DEF HandsNothing, Accounted, LooksSince
<1>5. CASE JudgesClosed(s) /\ sweeping'[s] = "handing back"
    <2>1. ~seen[s].issueHuman /\ pr.state = "closed" /\ ~(pr.closedAt <= requeuedAt)
          /\ sweeping[s] = "closed" /\ UNCHANGED missedHand
        <3>1. UNCHANGED missedHand
            BY <1>5 DEF JudgesClosed, sweepHistory, missed
        <3> QED
            BY <1>1, <1>5, <3>1, SweepEnds DEF JudgesClosed
    <2>2. s \notin missedHand => handed = 0
        BY <1>1, <2>1 DEF LooksSince
    <2> QED
        BY <1>2, <2>1, <2>2 DEF HandsNothing, LooksSince
<1>6. CASE /\ seen'[s].issueHuman = seen[s].issueHuman /\ UNCHANGED missedHand
           /\ sweeping'[s] # "handing back" /\ sweeping[s] # "idle"
    BY <1>1, <1>2, <1>6 DEF HandsNothing, LooksSince
<1>7. CASE sweeping'[s] = "idle"
    BY <1>7 DEF LooksSince
<1>8. Decides(s) => /\ seen'[s] = seen[s] /\ UNCHANGED missedHand
                    /\ sweeping'[s] # "handing back" /\ sweeping[s] # "idle"
    <2>1. \A place \in Decisions : place # "handing back"
        BY DEF Decisions
    <2> QED
        BY <1>1, <2>1, DecidesOnView, DecidesOne DEF Decides, sweepHistory, missed
<1>9. sweeping[s] \in Reading => sweeping[s] # "idle"
    BY DEF Reading, Decisions
<1>10. sweeping[s] = "closed" => JudgesClosed(s) \/ CallFails(s)
    BY DEF SweepStep, Reads, ChecksOrigin, Restores, Decides, ThreadsUnread, RequestsReview,
        UpdatesBranch, LeavesIt, HandsIssueBack
<1>11. sweeping[s] = "closed" /\ CallFails(s) => sweeping'[s] = "idle"
    BY <1>1, SweepEnds DEF CallFails
<1>12. CASE /\ sweeping[s] \in Reading /\ seen'[s] = seen[s]
            /\ sweeping'[s] \in {"restoring", "threads", "needs-pass"}
    BY <1>3, <1>4, <1>6, <1>9, <1>12
<1>13. CASE /\ sweeping[s] \in Reading /\ sweeping'[s] = "closed"
            /\ seen'[s] = [pr |-> [state |-> seen[s].pr.state], now |-> 0,
                           issueHuman |-> seen[s].issueHuman]
    <2>1. seen'[s].issueHuman = seen[s].issueHuman /\ sweeping'[s] # "handing back"
        BY <1>13
    <2> QED
        BY <1>3, <1>4, <1>6, <1>9, <1>13, <2>1
<1>14. CASE sweeping[s] = "closed" /\ sweeping'[s] = "handing back"
    BY <1>5, <1>10, <1>11, <1>14
<1> QED
    BY <1>1, <1>4, <1>6, <1>7, <1>8, <1>12, <1>13, <1>14 DEF OnlyMoves, Moves

LEMMA SweeperHands ==
    ASSUME HandsInv, NEW s \in Sweepers, SweepStep(s)
    PROVE  HandedBackOnce' /\ Accounted' /\ \A r \in Sweepers : LooksSince(r)'
<1>1. CASE HandsIssueBack(s)
    BY <1>1, SweeperHandsBack
<1>2. CASE ~HandsIssueBack(s)
    <2>1. SweepTypes /\ HandedBackOnce /\ Accounted /\ \A r \in Sweepers : LooksSince(r)
        BY DEF HandsInv, ReviewsAreSeen
    <2>2. HandsNothing
        BY <1>2, <2>1, SweeperHandsNothing
    <2>3. HandedBackOnce' /\ Accounted'
        BY <2>1, <2>2 DEF HandsNothing, HandedBackOnce, Accounted
    <2>4. ASSUME NEW r \in Sweepers, r # s PROVE LooksSince(r)'
        <3>1. UNCHANGED <<sweeping[r], seen[r]>>
            BY <2>1, <2>4, StepMoves DEF OnlyMoves
        <3>2. r \in missedHand => r \in missedHand'
            BY <1>2, <2>4 DEF SweepStep, AtNewHead, sweepHistory, missed, Reads, ChecksOrigin, Restores, Decides,
                ThreadsUnread, RequestsReview, UpdatesBranch, LeavesIt, CallFails, JudgesClosed
        <3> QED
            BY <2>1, <2>2, <3>1, <3>2, LooksOn
    <2> QED
        BY <1>2, <2>3, <2>4, SweeperLooks
<1> QED
    BY <1>1, <1>2

LEMMA HandsKept == HandsInv /\ [SweepNext]_sweepVars => HandsInv'
<1> SUFFICES ASSUME HandsInv, [SweepNext]_sweepVars PROVE HandsInv'
    OBVIOUS
<1>1. ReviewsAreSeen'
    BY ReviewsKept DEF HandsInv
<1>2. HandedBackOnce' /\ Accounted' /\ \A s \in Sweepers : LooksSince(s)'
    <2>1. CASE Tick \/ PeopleAct \/ JudgesHead
        BY <2>1, OthersHand
    <2>2. ASSUME NEW s \in Sweepers, SweepStep(s)
          PROVE  HandedBackOnce' /\ Accounted' /\ \A r \in Sweepers : LooksSince(r)'
        BY <2>2, SweeperHands
    <2>3. CASE UNCHANGED sweepVars
        BY <2>3, NothingHanded DEF sweepVars, sweepHistory, missed, HandsNothing
    <2> QED
        BY <2>1, <2>2, <2>3 DEF SweepNext
<1> QED
    BY <1>1, <1>2 DEF HandsInv

LEMMA HandsStart == SweepInit => HandsInv
<1> SUFFICES ASSUME SweepInit PROVE HandsInv
    OBVIOUS
<1>1. handed = 0
    BY DEF SweepInit
<1>2. \A s \in Sweepers : sweeping[s] = "idle"
    BY DEF SweepInit
<1> QED
    BY <1>1, <1>2, ReviewsStart DEF HandsInv, HandedBackOnce, Accounted, LooksSince

\* However many runs sweep at once, no closed pull request hands its issue back
\* twice, but for a sweep that read before another's hand-back.
THEOREM HandedBackOnlyOnce == SweepSpec => []SweepInv
<1>1. SweepInit => HandsInv
    BY HandsStart
<1>2. HandsInv /\ [SweepNext]_sweepVars => HandsInv'
    BY HandsKept
<1>3. HandsInv => HandedBackOnce
    BY DEF HandsInv
<1>4. SweepSpec => []HandedBackOnce
    BY <1>1, <1>2, <1>3, PTL DEF SweepSpec
<1> QED
    BY <1>4, SweepTypeCorrect, PTL DEF SweepInv

------------------------------------------------------------------------------
(* How often a head's review is asked for.                                    *)

\* A request made since the check `c` completed.
RequestedSince(p, c) == \E t \in p.requestedAt : t >= p.checks[c].at

\* GitHub has a record of what was asked, once the check was done.
AskIsRecorded(c) ==
    asked > 0 /\ pr.state = "open" => pr.checks[c].state # "running" /\ RequestedSince(pr, c)

\* A sweep that no other has asked during has read that record when it could,
\* and asks for a head of its own.
AskIsSeen(s, c) ==
    s \notin missedAsk /\ sweeping[s] \in Reading /\ seen[s].pr.head = pr.head =>
        /\ seen[s].pr.checks[c].state # "running" => pr.checks[c] = seen[s].pr.checks[c]
        /\ asked > 0 => RequestedSince(seen[s].pr, c)
        /\ sweeping[s] = "request-review" => asked = 0

\* A request is decided on a head whose checks were done.
AsksWhenDone(s) ==
    sweeping[s] = "request-review" => \A c \in Checks : seen[s].pr.checks[c].state # "running"

\* No sweep asks for a head's second review.
AskedAtMost == asked <= 1

\* What a check of this head that was not run again tells of the requests.
AsksSince(c) == AskedAtMost /\ AskIsRecorded(c) /\ \A s \in Sweepers : AskIsSeen(s, c)

AsksInv ==
    /\ ReviewsAreSeen
    /\ \A s \in Sweepers : AsksWhenDone(s)
    /\ \A c \in Checks \ ranAgain : AsksSince(c)

LEMMA RecordStays ==
    ASSUME NEW c \in Checks, c \notin ranAgain', SameHead, AskIsRecorded(c), asked' = asked
    PROVE  AskIsRecorded(c)'
BY DEF SameHead, AskIsRecorded, RequestedSince

\* The rest of what a sweep has read of the head, while it stands.
LEMMA SeenStays ==
    ASSUME SweepTypes, NEW s \in Sweepers, NEW c \in Checks, c \notin ranAgain', SameHead, asked' = asked,
           AskIsSeen(s, c), sweeping[s] \in Reading, seen'[s] = seen[s],
           s \in missedAsk => s \in missedAsk',
           sweeping'[s] = "request-review" => sweeping[s] = "request-review"
    PROVE  AskIsSeen(s, c)'
BY DEF SameHead, AskIsSeen, RequestedSince

\* A sweep that is not asking, and is not over, is of a head that has none.
LEMMA FreshIsSeen ==
    ASSUME SweepTypes, NEW s \in Sweepers, NEW c \in Checks, FreshHead, ReviewIsSeen(s),
           sweeping[s] \in Reading, seen'[s] = seen[s]
    PROVE  AskIsSeen(s, c)'
<1>1. seen[s].pr.head \in Nat /\ pr.head \in Nat /\ seen[s].pr.head <= pr.head
    BY PullRequestIs DEF SweepTypes, SeenTypes, PullRequestTypes, ReviewIsSeen
<1> QED
    BY <1>1 DEF FreshHead, AskIsSeen

\* A new head has been asked nothing about.
LEMMA FreshIsRecorded ==
    ASSUME NEW c \in Checks, FreshHead PROVE AskedAtMost' /\ AskIsRecorded(c)'
BY DEF FreshHead, AskedAtMost, AskIsRecorded

\* A sweep that does not step sees what it saw.
LEMMA StillSeen ==
    ASSUME AsksInv, NEW s \in Sweepers, NEW c \in Checks, c \notin ranAgain',
           (SameHead /\ asked' = asked) \/ FreshHead,
           s \in missedAsk => s \in missedAsk', UNCHANGED <<sweeping[s], seen[s]>>
    PROVE  AskIsSeen(s, c)'
<1>1. SweepTypes /\ ReviewIsSeen(s)
    BY DEF AsksInv, ReviewsAreSeen
<1>2. CASE sweeping[s] \notin Reading
    BY <1>2 DEF AskIsSeen
<1>3. CASE sweeping[s] \in Reading /\ FreshHead
    BY <1>1, <1>3, FreshIsSeen
<1>4. CASE sweeping[s] \in Reading /\ SameHead /\ asked' = asked
    <2>1. AskIsSeen(s, c)
        BY <1>4 DEF SameHead, AsksInv, AsksSince
    <2> QED
        BY <1>1, <1>4, <2>1, SeenStays
<1> QED
    BY <1>2, <1>3, <1>4

\* What was asked stays on record.
LEMMA StillRecorded ==
    ASSUME AsksInv, NEW c \in Checks, c \notin ranAgain', (SameHead /\ asked' = asked) \/ FreshHead
    PROVE  AskedAtMost' /\ AskIsRecorded(c)'
<1>1. CASE FreshHead
    BY <1>1, FreshIsRecorded
<1>2. CASE SameHead /\ asked' = asked
    <2>1. AskedAtMost /\ AskIsRecorded(c)
        BY <1>2 DEF SameHead, AsksInv, AsksSince
    <2> QED
        BY <1>2, <2>1, RecordStays DEF AskedAtMost
<1> QED
    BY <1>1, <1>2

LEMMA OthersAsk ==
    ASSUME AsksInv, Tick \/ PeopleAct \/ JudgesHead
    PROVE  AsksInv'
<1>1. SweepTypes
    BY DEF AsksInv, ReviewsAreSeen
<1>2. UNCHANGED <<sweeping, seen>> /\ ((SameHead /\ asked' = asked) \/ FreshHead)
    BY <1>1, OthersKeep
<1>3. UNCHANGED missedAsk
    BY DEF Tick, PeopleAct, JudgesHead, AtNewHead, sweepHistory, missed, MainAdvances, HeadPushed, PersonReruns,
        ThreadsChange, PullRequestLabelled, PullRequestUnlabelled, PullRequestCloses, IssueRequeued,
        IssueRebuilt, CopilotAnswers, RunCompletes
<1>4. ReviewsAreSeen'
    BY ReviewsKept DEF AsksInv, SweepNext
<1>5. \A s \in Sweepers : AsksWhenDone(s)'
    BY <1>2 DEF AsksInv, AsksWhenDone
<1>6. ASSUME NEW c \in Checks, c \notin ranAgain' PROVE AsksSince(c)'
    <2>1. AskedAtMost' /\ AskIsRecorded(c)'
        BY <1>2, <1>6, StillRecorded
    <2>2. \A s \in Sweepers : AskIsSeen(s, c)'
        BY <1>2, <1>3, <1>6, StillSeen
    <2> QED
        BY <2>1, <2>2 DEF AsksSince
<1> QED
    BY <1>4, <1>5, <1>6 DEF AsksInv

\* The request is the head's first, and GitHub has it on record.
LEMMA RequestIsFirst ==
    ASSUME AsksInv, NEW c \in Checks, c \notin ranAgain', NEW s \in Sweepers, RequestsReview(s)
    PROVE  AskedAtMost' /\ AskIsRecorded(c)'
<1>1. SweepTypes /\ ranAgain' = ranAgain /\ asked \in Nat /\ AsksWhenDone(s)
    BY DEF AsksInv, ReviewsAreSeen, SweepTypes, RequestsReview
<1>2. AskedAtMost /\ AskIsRecorded(c) /\ AskIsSeen(s, c)
    BY <1>1 DEF AsksInv, AsksSince
<1>3. UNCHANGED clock /\ sweeping[s] = "request-review" /\ "request-review" \in Reading
    BY DEF RequestsReview, Reading, Decisions
<1>4. SameHead
    BY <1>1, <1>3, RequestsReviewEdits, EditedKeeps
<1>5. CASE ~(pr.head = seen[s].pr.head /\ s \notin missedAsk)
    <2>1. asked' = asked
        BY <1>5 DEF RequestsReview
    <2> QED
        BY <1>2, <1>4, <2>1, RecordStays DEF AskedAtMost
<1>6. CASE pr.head = seen[s].pr.head /\ s \notin missedAsk
    <2>1. asked = 0 /\ asked' = 1 /\ pr.checks[c].state # "running"
        BY <1>1, <1>2, <1>3, <1>6 DEF RequestsReview, AskIsSeen, AsksWhenDone
    <2>2. pr'.checks = pr.checks /\ pr'.state = pr.state /\ (pr.state = "open" => clock \in pr'.requestedAt)
        BY <1>1, RequestsReviewEdits DEF Edited
    <2>3. clock >= pr.checks[c].at
        <3>1. pr.checks[c].at <= clock /\ pr.checks[c].at \in Nat /\ clock \in Nat
            BY <1>1, PullRequestIs DEF SweepTypes, PullRequestTypes, CheckRuns
        <3> QED
            BY <3>1
    <2> QED
        BY <2>1, <2>2, <2>3 DEF AskedAtMost, AskIsRecorded, RequestedSince
<1> QED
    BY <1>5, <1>6

\* Everyone under way misses the request, and the sweep that made it is done
\* with the pull request.
LEMMA RequestIsMissed ==
    ASSUME AsksInv, NEW c \in Checks, NEW s \in Sweepers, RequestsReview(s), NEW r \in Sweepers
    PROVE  AskIsSeen(r, c)'
<1>1. SweepTypes /\ missedAsk' = missedAsk \union Underway
    BY DEF AsksInv, ReviewsAreSeen, RequestsReview
<1>2. CASE sweeping[r] # "idle"
    <2>1. r \in missedAsk'
        BY <1>1, <1>2 DEF Underway
    <2> QED
        BY <2>1 DEF AskIsSeen
<1>3. CASE sweeping[r] = "idle"
    <2>1. r # s
        BY <1>3 DEF RequestsReview
    <2>2. sweeping'[r] = "idle"
        BY <1>1, <1>3, <2>1, StepMoves DEF OnlyMoves, SweepStep
    <2>3. "idle" \notin Reading
        BY DEF Reading, Decisions
    <2> QED
        BY <2>2, <2>3 DEF AskIsSeen
<1> QED
    BY <1>2, <1>3

\* A sweep decides to ask only for a head that nothing was asked of.
LEMMA DecidesToAsk ==
    ASSUME SweepTypes, NEW s \in Sweepers, Decides(s), sweeping'[s] = "request-review", NEW c \in Checks
    PROVE  seen[s].pr.checks[c].state # "running" /\ ~RequestedSince(seen[s].pr, c)
<1>1. sweeping[s] \in Reading /\ seen[s].pr \in PullRequests
    BY DecidesOnView DEF Reading, SweepTypes, SeenTypes
<1>2. PICK standings : sweeping'[s] = Decide(View(s, standings))
    BY DecidesOnView
<1>3. "running" \notin View(s, standings).states /\ ~View(s, standings).asked
    BY <1>2, RequestsWhenDone
<1>4. "running" \notin {seen[s].pr.checks[d].state : d \in Checks}
    BY <1>3 DEF View
<1>5. ~AskedSince(seen[s].pr)
    BY <1>3 DEF View
<1> QED
    BY <1>1, <1>4, <1>5, AskedIsSeen DEF RequestedSince

\* Any other step of a sweep: what it sees then of the requests.
LEMMA SweeperSees ==
    ASSUME AsksInv, NEW c \in Checks, c \notin ranAgain', NEW s \in Sweepers, SweepStep(s), ~RequestsReview(s)
    PROVE  AskIsSeen(s, c)'
<1>1. SweepTypes /\ ReviewIsSeen(s) /\ asked \in Nat
    BY DEF AsksInv, ReviewsAreSeen, SweepTypes
<1>2. OnlyMoves(s) /\ ((SameHead /\ asked' = asked) \/ FreshHead)
    BY <1>1, StepMoves, StepKeeps
<1>3. Reads(s) \/ UNCHANGED missedAsk
    BY DEF SweepStep, AtNewHead, sweepHistory, missed, ChecksOrigin, Restores, Decides, ThreadsUnread,
        UpdatesBranch, LeavesIt, CallFails, JudgesClosed, HandsIssueBack
<1>4. CASE Reads(s)
    <2>1. seen'[s].pr = pr /\ UNCHANGED <<pr, asked, ranAgain>>
        BY <1>1, <1>4 DEF Reads, SweepTypes
    <2>2. PICK place : place = (IF pr.state = "open" /\ ~pr.human THEN "origin" ELSE "closed")
        OBVIOUS
    <2>3. sweeping'[s] = place
        BY <1>1, <1>4, <2>2 DEF Reads, SweepsTo, SweepTypes
    <2>4. sweeping'[s] # "request-review" /\ (sweeping'[s] \in Reading => pr.state = "open")
        BY <2>2, <2>3 DEF Reading, Decisions
    <2>5. AskIsRecorded(c)
        BY <2>1 DEF AsksInv, AsksSince
    <2> QED
        BY <1>1, <2>1, <2>4, <2>5 DEF AskIsSeen, AskIsRecorded
<1>5. CASE Decides(s)
    <2>1. sweeping[s] \in Reading /\ UNCHANGED <<pr, seen, asked, ranAgain, missedAsk>>
        BY <1>1, <1>5, DecidesOnView DEF Reading, Decides, sweepHistory, missed
    <2>2. AskIsSeen(s, c)
        BY <2>1 DEF AsksInv, AsksSince
    <2>3. sweeping'[s] = "request-review" => ~RequestedSince(seen[s].pr, c)
        BY <1>1, <1>5, DecidesToAsk
    <2> QED
        BY <1>1, <2>1, <2>2, <2>3 DEF AskIsSeen
<1>6. CASE /\ sweeping[s] \in Reading /\ seen'[s] = seen[s] /\ UNCHANGED missedAsk
           /\ sweeping'[s] \in {"restoring", "threads", "needs-pass"}
    <2>1. CASE FreshHead
        BY <1>1, <1>6, <2>1, FreshIsSeen
    <2>2. CASE SameHead /\ asked' = asked
        <3>1. AskIsSeen(s, c)
            BY <2>2 DEF SameHead, AsksInv, AsksSince
        <3> QED
            BY <1>1, <1>6, <2>2, <3>1, SeenStays
    <2> QED
        BY <1>2, <2>1, <2>2
<1>7. CASE sweeping'[s] \in {"idle", "handing back", "closed"}
    BY <1>7 DEF AskIsSeen, Reading, Decisions
<1> QED
    BY <1>2, <1>3, <1>4, <1>5, <1>6, <1>7 DEF OnlyMoves, Moves

LEMMA SweeperAsks ==
    ASSUME AsksInv, NEW s \in Sweepers, SweepStep(s)
    PROVE  AsksInv'
<1>1. SweepTypes /\ \A r \in Sweepers : AsksWhenDone(r)
    BY DEF AsksInv, ReviewsAreSeen
<1>2. OnlyMoves(s)
    BY <1>1, StepMoves
<1>3. ReviewsAreSeen'
    BY ReviewsKept DEF AsksInv, SweepNext
<1>4. ASSUME NEW r \in Sweepers PROVE AsksWhenDone(r)'
    <2>1. CASE r # s
        BY <1>1, <1>2, <2>1 DEF OnlyMoves, AsksWhenDone
    <2>2. CASE r = s /\ sweeping'[s] = "request-review"
        <3>1. Decides(s)
            <4>1. ASSUME Reads(s) PROVE FALSE
                <5>1. PICK place \in {"origin", "closed"} : SweepsTo(s, place)
                    BY <4>1 DEF Reads
                <5> QED
                    BY <1>1, <2>2, <5>1 DEF SweepsTo, SweepTypes
            <4> QED
                BY <1>2, <2>2, <4>1 DEF OnlyMoves, Moves
        <3>2. seen' = seen
            BY <3>1 DEF Decides
        <3> QED
            BY <1>1, <2>2, <3>1, <3>2, DecidesToAsk DEF AsksWhenDone
    <2> QED
        BY <2>1, <2>2 DEF AsksWhenDone
<1>5. ASSUME NEW c \in Checks, c \notin ranAgain' PROVE AsksSince(c)'
    <2>1. CASE RequestsReview(s)
        BY <1>5, <2>1, RequestIsFirst, RequestIsMissed DEF AsksSince
    <2>2. CASE ~RequestsReview(s)
        <3>1. (SameHead /\ asked' = asked) \/ FreshHead
            BY <1>1, <2>2, StepKeeps
        <3>2. AskedAtMost' /\ AskIsRecorded(c)'
            BY <1>5, <3>1, StillRecorded
        <3>3. ASSUME NEW r \in Sweepers, r # s PROVE AskIsSeen(r, c)'
            <4>1. UNCHANGED <<sweeping[r], seen[r]>>
                BY <1>2, <3>3 DEF OnlyMoves
            <4>2. r \in missedAsk => r \in missedAsk'
                BY <2>2, <3>3 DEF SweepStep, AtNewHead, sweepHistory, missed, Reads, ChecksOrigin, Restores,
                    Decides, ThreadsUnread, UpdatesBranch, LeavesIt, CallFails, JudgesClosed, HandsIssueBack
            <4> QED
                BY <1>5, <3>1, <4>1, <4>2, StillSeen
        <3> QED
            BY <1>5, <2>2, <3>2, <3>3, SweeperSees DEF AsksSince
    <2> QED
        BY <2>1, <2>2
<1> QED
    BY <1>3, <1>4, <1>5 DEF AsksInv

LEMMA AsksKept == AsksInv /\ [SweepNext]_sweepVars => AsksInv'
<1> SUFFICES ASSUME AsksInv, [SweepNext]_sweepVars PROVE AsksInv'
    OBVIOUS
<1>1. CASE UNCHANGED sweepVars
    <2>1. ReviewsAreSeen'
        BY ReviewsKept DEF AsksInv
    <2> QED
        BY <1>1, <2>1 DEF sweepVars, sweepHistory, missed, AsksInv, AsksWhenDone, AsksSince, AskedAtMost,
            AskIsRecorded, AskIsSeen, RequestedSince
<1> QED
    BY <1>1, OthersAsk, SweeperAsks DEF SweepNext

LEMMA AsksStart == SweepInit => AsksInv
<1> SUFFICES ASSUME SweepInit PROVE AsksInv
    OBVIOUS
<1>1. asked = 0 /\ \A s \in Sweepers : sweeping[s] = "idle"
    BY DEF SweepInit
<1> QED
    BY <1>1, ReviewsStart DEF AsksInv, AsksWhenDone, AsksSince, AskedAtMost, AskIsRecorded, AskIsSeen,
        Reading, Decisions

\* However many runs sweep at once, a head's review is asked for at most once
\* unless every check of it was run again, but for a sweep that read before
\* another's request.
THEOREM AskedAtMostOnce == SweepSpec => []AskedOncePerHead
<1>1. AsksInv => AskedOncePerHead
    <2> SUFFICES ASSUME AsksInv, ranAgain # Checks PROVE asked <= 1
        BY DEF AskedOncePerHead
    <2>1. PICK c \in Checks : c \notin ranAgain
        BY DEF AsksInv, ReviewsAreSeen, SweepTypes
    <2> QED
        BY <2>1 DEF AsksInv, AsksSince, AskedAtMost
<1> QED
    BY <1>1, AsksStart, AsksKept, PTL DEF SweepSpec
=============================================================================
