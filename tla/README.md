# Verification of Sandcastle

The repository is a Blazor application template, and the program that builds it:
**Sandcastle** (`src/.sandcastle/`), a TypeScript host that takes GitHub issues labelled
`Sandcastle`, plans a round, lets agents work on each issue in a sandbox of its own, gates and
reviews their work, and opens a pull request per issue. This project models Sandcastle's host
in TLA+, model-checks the models with TLC and proves their main results with TLAPS. Around the
host are the workflows that merge its pull requests and release the result, and the
application itself, a small one.

Paths in this file are those of the repository; `lib/` is `src/.sandcastle/lib/`.

## 1. Inventory

### The system

Nothing of Sandcastle's lasts but what is on GitHub: labels, comments, timelines, branches,
pull requests. The host process keeps only what one run needs (which labels it added, what it
holds back, what it handed back). Two runs may be under way at once: the scheduled workflow
(`.github/workflows/sandcastle.yml`, one at a time) and runs started by hand on a developer's
machine, on another queue label. People edit issues and `main` moves at any time. Apart from
this, a developer's clone keeps the ledgers of local reviews.

| Component | State | Operations | Correct when |
|---|---|---|---|
| Main loop (`main.mts`, `round.mts`, `work.mts`) | round number, issues held back for files, issues published this run, stop reason | startup (labels, stale labels), a round (sweep, umbrellas, label release, work check, passes, intake, gate, plan, overlap, critique, builds), the end | a round that builds nothing and goes on has changed what the next one sees; no issue is built again on an answer read before its pull request |
| Building label (`building.mts`, `build.mts#buildIssue`) | `sandcastle:building` on the issue; the process's claims (`markedByThisRun`), failed removals | clear stale at startup, claim (read, add, undo), release at the build's end, again each round, and at exit | no issue is built by two runs; a build keeps its label; a dead run's label goes |
| Build (`build.mts`, `checkpoint.mts`, `agents.mts`, `limits.mts`, `scan.mts`, `branches.mts`) | sandbox, worktree and branch, commits noted (base, reviewed, merged main), origin's branch, pull request | roles, two checkpoints with gate fixers, merge of main, scan, push, pull request, clean-up | what is pushed was gated and scanned; the ending and the records agree |
| Hand-back (`handback.mts`, `github.mts`, `report.mts`) | marker comments, `sandcastle:ready`, `sandcastle:needs-human`, queue label; the run's report | record a failed attempt, give up, hand back or move a workflow change | counted attempts are real; given up at the cap and not before; nobody is left unaware |
| Queue and gate (`queue.mts`, `gate.mts`) | a round's cache of the reads per issue | read the listing, the events and the edits; undo what others did to labels; hand the issues on; dispatch | an issue is worked on only when the owner queued it as its text is now, and its labels are the owner's or the host's doing |
| Planning (`plan.mts`, `critique.mts`, `overlap.mts`) | dependency links on GitHub, holds of the run | filter picks, apply the critic's verdicts, hold overlapping picks | one round's builds touch disjoint files; nothing waits on itself |
| Intake (`intake.mts`, `umbrella.mts`) | labels, sub-issues, dependency links, the umbrella comment | batch and halve, judge, split, mark ready, hand back, give a broken-off split up; close a finished parent | no issue is judged twice or lost half split; children are built in their turn; a batch that keeps failing stops the round and nothing else does |
| Follow-up (`follow-up.mts`, `follow-up-pass.mts`) | review threads, checks, pass summaries, labels of the pull request | sweep the pull requests (flag, ask Copilot, update, hand back, undo labels); one fix-up pass (merge, roles, gate, push, replies, re-run, summary) | each remark is answered once; nothing is called fixed that was not pushed; at most `FOLLOW_UP_PASS_CAP` passes between two re-queues |
| Review ledger (`review-ledger.mts`) | a ledger file per diff key, a lock, findings with ids and answers | prepare, record, accept, check | a branch passes only with code that was reviewed whole and with every finding answered |
| Automerge (`pr-automerge.yml`) | checks, reviews, PR head | decide and merge | merged only at the head it judged |
| Release (`release_queue.py`, `release.yml`, `release_post.py`) | tags, releases, posts | queue, tag, publish, post | each merge is released once, in order |
| Application (`src/`) | a cookie per visitor | sign in, choose a theme and palette | page and cookie agree; only local return addresses |

### Interactions

- A round calls sweep → umbrellas → work check → passes → intake → gate → plan → overlap →
  critique → builds, in that order, each phase on its own read of the queue; passes and builds
  of a round run concurrently in the process (`Promise.allSettled`). `gh` is called synchronously, so
  the calls of one process never interleave; those of two processes do.
- A build shares with the others of its run the usage-limit stop (`limits.mts`), the run's
  report and `origin/main` as fetched. It hands its result to the loop, a failed one to the
  hand-back, which writes to the issue.
- A follow-up pass takes the same building label as a build, on the issue of the pull request,
  and uses the build's sandbox, gate, fixer and scan.
- Issues, comments and labels are how runs talk to each other and to people: what the queue,
  the gate and the sweep read is what intake, the hand-back and the passes wrote in this round
  or another, here or on another machine.

### What is hard

Two runs between each other's GitHub calls; calls that fail after landing; a killed run, whose
labels stay; snapshots that are stale when used; reads of one issue in three calls while people
edit it; `main` moving during a build; processes an agent left running, which may commit while
the gate runs; one failing step of several at publish and clean-up, in a split and in a pass;
counts kept as comments; a lock whose holder was killed. `PROJECT.json` lists each hazard at its
line with the properties for it.

## 2. Plan

| | Module | Models | State |
|---|---|---|---|
| 1 | `BuildingLabel`, `BuildingLabel_proofs` | the label protocol between runs | checked, proved |
| 2 | `BuildPipeline`, abstract `BuildAttempt`, `BuildPipeline_proofs` | one build, and what it promises | checked, proved, refinement checked and its safety part proved |
| 3 | `HandBack`, `HandBack_proofs` | failed attempts and hand-backs | checked, proved |
| 4 | `Round`, `Round_proofs` | what a round builds: gate, plan, overlap, critique, over the rounds of a run | checked, proved |
| 5 | `Queue`, `Queue_proofs` | who queued an issue, whether its text and labels are still theirs, the cache | checked, proved |
| 6 | `IntakeRound`, `Intake_proofs` | the batches of a round of intake, their halving, the two stops | checked, proved |
| 7 | `Intake`, `Intake_proofs` | a verdict applied, a split child by child, umbrella issues | checked, proved |
| 8 | `FollowUp`, extended by `FollowUpSweep` and `FollowUpPass`, `FollowUp_proofs` | the rules both share; the sweep; the passes | checked, proved |
| 9 | `ReviewLedger`, `ReviewLedger_proofs` | the local review's ledgers under their lock | checked, proved |
| 10 | `Sandcastle`, abstract `IssueLifecycle` | an issue from the queue to merged or handed back, composed of `BuildAttempt`, `HandBack`, `Round` and `Intake` | not written |
| 11 | `Automerge`, `ReleaseQueue` | the workflows after the pull request | not written |

Every safety property of the runs is stated by a theorem (section 5), under the modules' own assumptions on
their constants, and `RoundStopsForCause` also under the bounds of `config.mts`. Where the code does
not keep a claim in some interleaving, a history variable marks that interleaving and the property excepts
it by name (section 6). No module declares a RECURSIVE operator, so each can be proved about.

## 3. The modules and the code

`PROJECT.json` maps every definition to its lines. Definitions whose comment begins with
*Mutation* are plausible bugs: each replaces the definition after it in one run to show that
the property can fail; no specification uses them. A module `MC...` gives the constants of a
run their values. In every module a call that fails may have landed or not, and a killed run
just stops; the number of such mishaps is bounded.

### BuildingLabel

`Runs` are host processes; a slot that ended may start again. `label`/`labelledAt` are GitHub's;
`marked[r]` is `markedByThisRun` of run `r` with the claim's time, `builds[r]` what it is
building. Each action is one `gh` call with what the code does on its answer, or one step
without a call. `todo` is the rest of the loop the run is in (`for ... of` over issues: the
order is left free). `RemovalFailed`, `ClaimAddFails` and the like are calls that throw; each
may have landed. `Killed` is SIGKILL, `Exits` the exit listener, which runs for every signal,
crash and normal end (`building.mts:172-194`). `Tick` is held back while a build is `MaxBuild`
old: roles have time-outs that add up to less (`config.test.mts`), and the models leave
`MaxBuild > MaxAge` in, so that the overdue build is a case and not an assumption.

Three ways in which the label does not exclude another run are in the code and named in `holes`:
`racing` (between reading the labels and adding one, which the comment above `claimBuildingLabel`
concedes), `remembered` (an earlier claim whose removal failed, released later), and `overdue`
(a build older than `MaxAge`). `holes` is written when they open and read by no action. The properties say: without
one, no two builders; none of them is defined as "two builders".

### BuildPipeline and BuildAttempt

One call of `buildIssue`. Commits are numbers; a commit record says what it holds: `main`'s
commit it contains, and which edits in it no finished review has seen. `pc` follows the code's order:
sandbox, developers, checkpoint 1, scribe, reviewer, merge of `main` with its gate, checkpoint
2, scan, push, pull request, clean-up. A checkpoint is a loop over gate, fixer, gate
(`GATE_FIXER_ATTEMPTS`); the gate is split into its start, its exit and the worktree checks
after it, because `Stray` (a process an agent left behind) may commit or write between. `MainMoves`
is everyone else's merges. `LimitReached` is another build of the run meeting the usage limit.
`Throws` stands for a call that throws and lands in `buildMarkedIssue`'s `finally`. There the last look at the worktree
(`FindsNoProblems`) and `close()` (`ClosesSandbox`) are two steps, with the left-behind process free to act between.

`BuildAttempt` is what a build promises its caller: it ends, once, with one of `Results`;
it opens at most one pull request and counts at most one failed attempt, never both; and a build
that was stopped did neither. `BuildPipeline` reads its state off its own: `result` is the
outcome once the clean-up is over, `counted` and `opened` are the two counters.

### HandBack

One issue over any number of builds and runs. `comments` are the host's comments with their
markers (the marker is the kind), `removedAt` is the later of the issue's creation and the last
removal of `needs-human` (timeline). The actions are the calls of `recordFailedAttempt`,
`handBackWorkflowChange` and `handBack` in order: read the comments, read the timeline, post,
edit the labels, record in the report. People add and remove `needs-human` at any time.

### Round

GitHub is `state`, `label`, `links`, `pr`, `changes` and `requeued`; the run is at a `pc`, one step per read: the
sweep, the work check and intake, the gate's list of issues, its open pull requests and
blockers, the planner's answer, the pull requests and files the overlap check reads, one read of an issue's links or one verdict
of the critique, the builds. People and merges act between any two. `held` is `heldForFiles`, the only
thing a round leaves to the next; `behind`/`behindPR` are one round's `overlaps`. `IsWalk(K)`
says what the loop over the picks with files computes, as the one set K it can end in.
`RulesOutCycle` is the search of `critique.mts`, which reads each issue's links once in the critique: `readOf` are the issues read,
`cached` what was read and `added` the links the critique put there since; a cycle is ruled out when a set of issues
read, closed under both, leaves the pick out. `DeferFails` is the call to link that throws after its link landed: the
pick is kept, and neither `added` nor `cached` has the link. The planner picks any issues in any order with any files; the
critic any verdicts. `IssuePROpens` is a pull request that somebody else, or another run, opens on an issue's branch.

Three histories, read by no guard, name what the code does not see: `lost` the links of this critique that landed under
a failed call, `unseen` those of them on an issue whose links had been read, `opened` the issues whose pull request opened
after the gate's read.

Left out: folders (two paths overlap when equal), comments, links of other runs, and the label
(`BuildingLabel`). An issue has one pull request, its latest. `Aborts` is every failed read
that ends a run, a limit and a kill; `EndsUnpublished` every ending of a build without a URL.

### Queue

One issue as GitHub keeps it: `log`, every labelling, renaming and edit with who made it and in which second.
`loadQueue` reads the listing, the events and the edits in three calls, so each may show more of
the log than the one before (`listed`, `read.events`, `read.edits`); the round's `cache` answers
for the last two while the key (labels and `updatedAt`, a second) has not moved. Then it
judges who queued the issue and whether its text changed since, works out the label corrections
and makes them call by call. `kept` is the last issue handed on. The owner and a person without
push access act between any two calls. `sandcastle:needs-info` and `sandcastle:needs-human` are
one label, `hold`. `Corrects` is one label call of the host's, which may have landed though it failed. `for` is
the listing whose reads a load was judged on; with the cache it may be an earlier one, and when that shares its second with the
latest the two are `Collided`. `MaxAdds` bounds the labels intake adds.

### IntakeRound and Intake

`IntakeRound` is `intakeRound` on the list `needsIntake` left: an issue is its place in the list, a
batch two places. `RunsOn(batch)` is one run of the role on it, which answers (for a lone issue,
or whatever does not hold a breaking one) or fails and is cut in half (`narrow`); the two counts of
failures in a row go up, are reset and end the round as the code has them. Its `RoundInit`,
`RoundNext` and so on are named apart from `Intake`'s, for a module that extends both.

`Intake` is what happens with one issue's verdict, call by call (`applyVerdicts`): ready, needs
information, or a split: mark the issue, create each child marked, make it a sub-issue, link it to
the one before, take the issue out of the queue, post the umbrella comment, release the
children; or, when a step fails, the marks that tell a person (`failed`). `kids` are the children in
the order GitHub made them. `Sweeps` is `umbrella.mts`, which closes the parent. People answer a
hand-back, finish, drop or reopen a child; `Builds` is everything a released child goes through until it is merged.
Two histories, read by no guard: `raced`, a run went on although another had just gone on too or had taken the issue out of
the queue since it was listed, neither of which its look at the labels shows (`Races`); `overtaken`, a
person changed what the umbrella check had read, or an issue it had closed.

### FollowUp, FollowUpSweep and FollowUpPass

`FollowUp` holds the rules that the sweep and the pass share, at constant level: how a thread stands
(`threadStanding`), what is done about a pull request (`decide`), which red checks are re-run or
given to the role (`planRedCi`), and which commits may be named as a fix (`fixesInPush`).

`FollowUpSweep` is the sweep of one issue and its latest pull request: one read, then the calls the
decision takes, while people push, comment, close, re-run checks and change the labels and CI
reports. `seen[s]` is what the sweeper read, which may be old when it acts. `clock` ticks count
`COPILOT_REREQUEST_AFTER_MS`. Any number of sweepers may be under way at once. `missedAsk` and `missedHand` are the sweepers
that read before another's request or hand-back, and so cannot know of it; `asked` and `handed` count what is decided by the
others. `ranAgain` are the checks of the head that were run again. No guard reads any of these.

`FollowUpPass` is a pass of any number of runs on one pull request: the reads, the building label's claim
and the reads after it, the worktree, the merge of `main` with its conflict, gate and fixer, the
role's verdicts, the push with its lease, each reply and resolve, the re-run of checks, the summary that
counts the pass, and the hand-back at the cap. A branch is the set of its commits, so "contains" is
inclusion. `job[r]` is what the run remembers between its calls.

### ReviewLedger

`commits` are the branch's, each with its diff's key (`patchKey`); `ledgers` the file per key; `lock`
the lock file, which may be held by the dead. A session prepares (reads HEAD and the diff), lets its reviewers
read, then records under the lock: it takes ids that no ledger of an ancestor has, and writes. The person reads a
report and accepts a finding by id, under the lock as well. `Passes` is the check before a push. `Commits`,
`MergesMain` and `AmendsHead` go on meanwhile. A command that finds the lock taken fails at once (`RecordFails`,
`AcceptFails`). `Killed` leaves the lock with the dead; no command takes it over, and `DeletesLock` is the person who
deletes the file, who need not. `overtaken` remembers that a review was recorded after HEAD had moved on, the one case in
which ids are given out again (section 6).

## 4. The runs

| Run | Shows | Bounds |
|---|---|---|
| `building_label` | two builders only through a named hole; a build keeps its label and a young label stays; a dead run's label is cleared | two runs of two rounds, one issue, a label stale after one tick and builds of up to two, two faults |
| `build_pipeline` | what is pushed was gated and scanned, no repair of main goes out unreviewed, what is said is true, nothing is left behind | the shortest and the longest plan, one fixer per checkpoint, two publish attempts, `main` moves once, one fault, one left-behind process |
| `build_attempt` | the build implements `BuildAttempt`, liveness included; no gate in mid-merge | the same plans, two faults |
| `hand_back` | the count, the cap, the explanations, and intake before a build | cap 2, four builds, clock to 3, two faults |
| `rounds` | what a round builds, holds and defers, and what it leaves to the next | three issues, two files, one pull request of no issue, three rounds of one run, two events (people's, or calls that fail, the critique's links among them), symmetric issues and files |
| `queue` | what is handed on was queued as it is, with labels that are sound; what others did to labels is undone | two changes by people over the queue, ready and hold labels, the title and the text; one label added by intake; one fault |
| `intake_round` | every issue judged once, the stops have their cause, the round ends | the repository's sizes: batches of 10, 8 failed runs, 2 refused batches; 13 issues, any four of them breaking, two bad runs by chance |
| `intake` | a split is kept and not made twice, children in turn, the umbrella closed when done and only then | two runs, three drafts, one failing call, one kill, one act of a person |
| `follow_up_pass` | a pass counts its pushes, answers and pushes safely, and passes come to an end | one run, one thread, a check the gate reproduces and one it does not, cap 1, one event and one fault |
| `follow_up_runs` | the cap, and one answer per remark, for runs that overlap | two runs (symmetric), one check, cap 2, one event or fault |
| `follow_up_sweep` | one request for a review of a head, one hand-back of a closed pull request, updates only of reviewed heads; conflicts and closed pull requests are acted on | two sweepers, of which one (`Leaders`) starts when nobody sweeps, one sweep begun while another is under way, two checks of which one is re-run, clock to 4, two events, one fault, of which a trace has at most 8 ticks' worth (`Effort`: a tick 1, or 2 after an overlap; an event, fault or overlap 4) |
| `review_ledger` | a pass means code reviewed whole and findings answered; ids name one finding; the lock comes free, or its command was killed | two sessions, two commits, two findings, one command killed |

Why these are enough: the label protocol is per issue (no action reads two issues' labels
together, and the proof covers any number); two runs are needed to race and the third would
repeat one of them. A build meets a push, a move of `main` and a left-behind process at most where they
matter, and each is offered at every step; the proof covers any number of them. Four builds pass the cap of two twice, with a
re-queue between. Three issues make a hold behind a pick that is itself compared with a third, and a
ring of three links; three rounds let a hold outlive the round after it. Two changes over the
owner's first queueing reach every order of a change, a read and an undo of it; a third
only repeats one under the rules, which look at the last change of each label. Thirteen issues are a whole
batch and a part of one, so that runs of failures cross from one to the next. Three drafts have
a first, a middle and a last child; two runs race each other's looks, and one failure, one kill and one
person's act break a split off at any of its steps and meet each other in any order (the proofs cover any
number of each). One event and one fault in a pass meet each other at every pair of its steps. In the
sweep the third event or fault starts another pull request's story over, since each head resets what was
recorded; two sweepers are alike, so which one starts alone does not matter, and a third would meet a request or a hand-back
it missed as the second does. Two sessions with a person contend for the lock in every order, and two commits
make an ancestor, an amended and a merged head.

**Deadlock** is checked where the system should never stop (`build_pipeline`, `build_attempt`);
the other specifications end where their bounds or their runs do.

**Fairness.** Each live run assumes only that the host's own steps are taken, and never that a call succeeds
or that people do anything. Roles, the gate and every command have time-outs and the retries are bounded,
so a process that was not killed goes on.

| Run | Fair | Because |
|---|---|---|
| `building_label` | `Tick`; every step of a live run, a new start included | time passes; the workflow is scheduled |
| `build_attempt` | `HostStep` | as above |
| `follow_up_pass` | `CI`; each run's steps | GitHub finishes the checks it started; rounds are scheduled |
| `follow_up_sweep` | `JudgesHead`; the sweepers' steps, whichever takes one | the same |
| `intake` | each run's steps once it lists the issue, each umbrella sweep, the children's builds, whichever is next | a released child is in the queue and is built or handed back |
| `intake_round` | the next run | the loop of `intakeRound` |
| `queue` | `Tick`, the steps of a load; strongly, the start of a round | a round starts again and again on a schedule, if not at every moment |
| `review_ledger` | a command that has the lock goes on unless it is killed | it is short and waits for nothing; nobody is assumed to delete a dead one's lock |

## 5. What is proved

Every theorem holds for all values of the constants that the module's assumptions allow; TLC evaluates these
on every run.

`BuildingLabel_proofs`, for every set of runs and issues and every bound, from
`ConstantsAssumption` alone (natural-number bounds, `NoIssue` not an issue):

- `TypeCorrect`: types, and a call is under way exactly between two round trips;
- `InvCorrect`: `LabelInv`, the inductive invariant;
- `OneBuilderCorrect`, `LabelCoversBuildCorrect`, `OnlyFaultsCorrect`: the safety properties;
- `YoungLabelStaysCorrect`: the action property.

`OneBuilder` is not inductive: that the label excludes another run depends on who added it, how old it
is, and which calls are under way. `LabelInv` adds those: a label has an adder (`LabelHasAdder`); on an
issue without a hole, a builder is its label's only adder and the label is no older than
`MaxAge` (`BuilderAlone`), nobody is mid-call on it (`NoCallOnBuild`), a call under way still
sees what it read (`CallsSeeOwn`), and claims of other runs are too old to be acted on
(`OldClaimsIdle`); `TimesPast` and `WorkMatchesStep` tie claims, clock and step together. The
proof has one lemma per action and part.

`BuildPipeline_proofs`, for any plans, attempts, failures, moves of `main` and left-behind processes:

- `Invariant`: `BuildInv`, the inductive invariant;
- `SaysWhatIsTrue`, `PushesAreChecked`, `RepairsStayOffMain`, `GatesMeetNoMerge`, `NothingIsLeft`: the five properties of the runs;
- `ImplementsAttempt`: the initial states and every step are `BuildAttempt`'s.

The properties speak of what is on GitHub, long after the step that decided it, so `BuildInv` carries each
fact from there on. A gate run that may still pass checked HEAD itself, since a HEAD that moved is a new
commit (`GateIsFair`, `FreshIsNew`). A merge shows in the worktree until it is undone (`MergeIsUndone`). What is being published is
the commit gated last, and scanned before it is pushed (`PublishesGated`). `FixerStaysOffMain` says at which
checkpoints `main` or the fixer can be in what no review saw, also in the commit a merge would be undone to;
`ReviewIsKept` says the same of unreviewed work. `EndAgrees` ties the end to the counters, which is the refinement;
`BaseIsTemporary` and `SandboxIsKnown` follow what a build must take away again.

`HandBack_proofs`, for any cap and number of builds, people's acts and failures:

- `Invariant`: `HandBackInv`, the inductive invariant;
- `CountIsRight`: `CountInv`, the count right both ways;
- `CapIsReached`, `HandBacksAreExplained`, `BuildsAreJudged`: the action properties.

The count is of comments and the claim is about builds. `Records` makes the marker comments and the failed
builds correspond, one to one, in order; `Numbers` then compares their cardinalities: every failure
since the re-queue has its marker, or a fault paid for it, but for the one being recorded or handed over at
this moment (`FaultsPay`), so while the issue is not given up on there is room below the cap
(`RoomLeft`), and when it is, the marked failures reach it (`GaveUpRightly`).

`Round_proofs`, for every finite set of issues, any files and bounds, from `ConstantsAssumption`:

- `TypeCorrect`: types, and no more than `MAX_ITERATIONS` rounds;
- `RoundInvariant`: `RoundInv`, the inductive invariant;
- `BuildsAreApart`, `HoldsHaveAWayOut`, `LinksAreAcyclic`, `WorkWaitsForBlockers`;
- `OneOpenPRAlways`: no branch with an open pull request is built again;
- `RoundsDoMoveOn`, `EveryStepHasCause`: the action properties.

`BuildsApart` and `WorkIsUnblocked` speak of the builds; `RoundInv` carries what they rest on from
the gate on: picks passed it and were not held (`PicksChosen`), what the walk kept is apart
(`KeptApart`), and what passed the gate waits only on what the critique has linked since
(`ReadyIsUnblocked`), knowingly or not (`lost`). That a step which plans nothing keeps the invariant is shown once
(`CalmStep`, `EarlyStep`). No issue of the round has an open
pull request until its own build or somebody else opens one (`PRsAside`), which is what `OneOpenPR` and the causes of a hold
rest on. `NoNewRing` is the argument for the critique: the set the search found,
of the blocker and all it waits on, is closed under the links, so a ring would have a part in it
without the new link. That takes the links of the issues read to be known, all but the `unseen` (`ReadsAreKnown`); a link
that landed under a failed call before its issue was read is found like any other.

`Intake_proofs` is about both modules of intake. Of `Intake`, for any number of drafts, failing calls,
kills and things people do:

- `TurnInvariant`: `TurnInv`, the inductive invariant for any number of runs;
- `AlwaysInTurn`: `ChildrenInTurn`, for any number of runs;
- `SplitInvariant`: `KeptInv`, which adds what holds until two verdicts race;
- `SplitAlwaysKept`, `ClosedAlwaysDone`: `SplitIsKept` and `ClosedMeansDone`, for any number of runs.

That children come in turn needs no agreement between runs: each run's own list carries its drafts in
order and is linked up to where the run is (`Fits`), and no call undoes a link or an umbrella (`KidsKept`,
`RestKept`). That a split is made once does: two runs that look before either marks the issue split it
twice (`intake.mts:350`, section 6). `KeptInv` follows the code's own protection as far as it goes: as long as no verdict
has `raced`, at most one run is between its look and the end of its split (`Alone`), since the mark, or the issue's absence from
the queue, stops every other. `Stage` then says what GitHub holds at each place of that run, and what outlives a kill is
`Held`, a live child leaves the issue marked or out of the queue, and `Whole`, an umbrella with neither label is over
every draft; both are what the next run, or the umbrella check, reads. `ClosedDone` is `Whole` once more after the children were
read, which a person who reopens one may overtake.

Of `IntakeRound`, for any number of issues, batch size, limits and breaking issues:

- `IntakeInvariant`: `IntakeInv`, the inductive invariant;
- `EveryIssueJudgedOnce`: `JudgedOnce`;
- `RefusalsDoAddUp`: a round refused to its end has two refused issues in each of the limit's batches;
- `RoundStopsForCause`: `StopsForCause`, with batches of at most ten and a limit of eight or more, the values of
  `config.mts:96` and `:105`. The run has them with 13 issues and any four breaking; the theorem has any number.

That no issue is answered on twice needs that the batches waiting share no issue (`Apart`) and hold none
that was answered on (`Waiting`); that halving keeps both is arithmetic on the places. `BelowLimits` is why the counts are sound.

`RoomForThree`, the other half of `StopsForCause`, is a bound on failures in a row. Every batch is a node of the
tree its cut halves into (`Shaped`, `Tree`), so at most `Chain(n, o)` batches begin at place `o` of a cut of `n`,
and three places next to each other begin no more than seven (`SevenAtMost`, by cases over cuts of up to ten). What
waits has no gap (`NoGap`), so the run after an issue that failed alone is on the place after it. The count at the
next batch is then no more than the larger batches that began where it does, plus what the breaking issues
right before it began (`Accounted`, `Carry`); past the cut of the breaking issues no run fails. `TreesAre` is shown
size by size, since the trees are given by what they contain rather than by recursion.

`FollowUp_proofs` is about both modules of follow-up. Of `FollowUpPass`, for any number of runs, threads and
checks, any cap and bounds:

- `Invariant`: `PullRequestInv`, the inductive invariant;
- `CapIsKept`, `PassesAreTrue`: the count of passes, what is pushed for each, and what replies name;
- `AnswersOnce`: no thread is answered twice in a row;
- `StepsStaySafe`: the action property.

All of it rests on the building label being one run's at a time (`ClaimIsHeld`): only that run can owe a
push its count (`OneDebtor`), so `Debt` is a number that one step changes and `PushesAreOwed` is
arithmetic. The cap is read under the claim and the count grows only there, so a pass under way has room
(`RoomLeft`). `WorkIsNew` and `AnswersArePublished` say what the worktree and the answers may hold at each step.
A thread the run is to answer is still unanswered (`StillOpen`) and one it is to resolve is a bot's and
answered (`MayResolve`): others may speak on it meanwhile, but no other run may.

Of `FollowUpSweep`, for any checks, re-runs, delay and bounds:

- `ReviewsInvariant`, `UpdatesAreReviewed`: `ReviewsAreSeen` and `UpdatesReviewedHead`;
- `HandedBackOnlyOnce`: `SweepInv`;
- `AskedAtMostOnce`: `AskedOncePerHead`,

each for any number of sweepers. Each step either leaves the head as it is, taking nothing from what GitHub has recorded of
it, or puts a new one there (`SameHead`, `FreshHead`), so what a sweep read is old only when the head is, and GitHub refuses to
update a head that is. Two sweepers may still both read before either acts. `HandsInv` therefore speaks of the sweepers that
did not miss a hand-back: one that found the issue without its label looks since the issue was queued again
(`LooksSince`), which `requeuedSince` then tells. `AsksInv` does the same for the requests, check by check: for a check nobody
ran again, a sweep that can still ask and missed none has read every request made for the head (`AskIsSeen`), because the
time the check first completed stays below every request (`AskIsRecorded`); when all are run again the host asks again
(`follow-up.mts:193`, section 6).

`ReviewLedger_proofs`, for any number of sessions, commits, findings and killed commands:

- `LedgerInvariant`: `LedgerInv`, the inductive invariant;
- `ReviewsAlwaysWhole`: the check passes only code that one session's reviewers read whole;
- `FindingsAlwaysKept`: no finding is lost, and an id accepts the finding that was read.

A later round reads only the fixes; that it completes the whole rests on the line of a commit holding the
lines of its commits (`LinesInv`), so that what the round before read is all that the fixes leave out. A session keeps the
code it reviewed and the code it is to record equal (`SessionIsSound`), a ledger is of code that was read and its
last finding stays open until it is accepted (`LedgerIsSound`), and what the person's command read under the lock is still there when it
writes (`LockInv`). For the ids, `IdsInv`: along a branch that only grew every ledger is of a commit of HEAD's line, so an id
above all they hold is above every id the person has read (`AllIdsAreTaken`, `IdsWritten`). `IdsAreBounded` is what makes
the greatest of them exist.

`Queue_proofs`, for any number of changes, loads, rounds and faults:

- `LogInvariant`: `LogInv`, what holds of the log alone;
- `NeverUndoesOwn`: the host takes off only the `sandcastle:ready` a stranger put on;
- `DecidedInvariant`, `KeptAlwaysQueued`, `LabelsAlwaysSound`: `DecidedInv`, and the other invariants of the run.

The log is in the order of its seconds (`InOrder`), so the latest change by time is the last in the log (`LatestIsLast`). Reads
made after a listing show at least what it showed (`Covers`). Reads found under its key may be of an earlier
listing, and then of the same second, since GitHub's `updatedAt` counts seconds; that is what the properties except
(`Mistaken` while the load goes on, `Collided` at its end) and what the invariant has to trace from the cache (`CacheInv`)
through the load (`LoadInv`) to what was handed on (`KeptInv`). From then on what was decided stays so as the log
grows (`ApprovalStays`, `DecisionsStay`).

## 6. Only model-checked, and not modelled

**Only model-checked.** Liveness (`OrphanCleared`, `EndsQuiet`, `SweepsAct`, `EndsAccounted`,
`Ends`, `StrangerUndone`, `LockComesFree`, the liveness of `AttemptSpec`): the prover does not do
fairness or ENABLED. Every safety property is also proved.

**Disagreements seen while modelling.** The models say what the code does. Where a document or a comment
says something else, no property claims it, and these are the places (paths under `.sandcastle/lib/`; the workflow
document is `docs/plans/sandcastle-workflow.md`):

| Code | Does | Against |
|---|---|---|
| `building.mts:115` | the undo of a failed add removes whatever label is there, another run's too | workflow document, 43: only the run that added it removes it |
| `building.mts:132` | the end of a build removes its label whatever the claim's age | workflow document, 46: never a label claimed more than 6 hours ago |
| `build.mts:1145` | a reviewer that ran out of iterations is not noticed | workflow document, 328 and 253: a role failure, published with a warning |
| `build.mts:1011` | throws when the branch is not back at the reviewed commit after a red merge | workflow document, 292: checkpoint 2 runs as usual |
| `build.mts:1181` | a publish already reached goes ahead after a stop | `agents.mts:130-131`: no later role starts or publishes |
| `github.mts:1318` | a hand-back whose edit lands but fails is not recorded | workflow document, 350-351: every hand-back is |
| `follow-up-pass.mts:1176` | replies on a thread as it was read: the owner's later remark counts as answered | `follow-up.mts:300-303`: the host waits on the owner |
| `follow-up.mts:193` | when all checks of a head are run again, Copilot is asked again | `config.mts:286-287`, `follow-up.mts:187-189`: once per head |
| `follow-up.mts:472` | a sweep that read before another's hand-back hands the issue back again, also after it was re-queued | `follow-up.mts:471`: must not |
| `follow-up.mts:198` | a sweep that read before another's request asks Copilot again | `config.mts:286-287`: once per head |
| `critique.mts:201-206` | a link that landed under a failed call is not among those added: a later verdict of the critique may close a ring with it | `critique.mts:144-145`: can't close a loop with an earlier one |
| `critique.mts:201-206` | and its pick is built although linked to an open blocker | `gate.mts:4`: blocked while any issue it depends on is unfinished |
| `follow-up.mts:157` | a conflict gets its pass with checks running, a red check before Copilot's review | workflow document, 102: only once both are done |
| `follow-up.mts:175` | an owner's thread alone starts a pass | workflow document, 122: only alongside something else |
| `intake.mts:648` | failures in a row carry over from one batch to the next: three breaking issues across a cut stop the round | `config.mts:99-101`: the limit leaves room for three |
| `intake.mts:350` | two runs that both look at the issue before either marked it split it twice | `intake.mts:309-311`: never a second time |
| `intake.mts:217` | the look reads only the judged labels: a run that listed the issue before another's whole split, and looks after it, splits it again | `intake.mts:309-311`: the same |
| `queue.mts:286` | the text listed before the owner queued the issue again is handed on | `queue.mts:3`: only what the owner queued and approved |
| `queue.mts:228` | a label taken off and put back within the second of the last read is not seen | `queue.mts:225-227`: `updatedAt` catches it |
| `review-ledger.mts:582` | HEAD is read before the lock, so a session that commits and records between has its ids given out again | `review-ledger.mts:565-568`: an id names one finding |

The properties except these by name, and nothing else: `racing`, `remembered` and `overdue` in
`BuildingLabel`; `lost` and `unseen` in `Round`, and `opened` of what is listed below; `raced` in `Intake`,
and `overtaken` of what is listed below; `missedAsk`, `missedHand` and a head whose every check was
`ranAgain` in the sweep; `Collided` in `Queue`; `overtaken`, and a branch that was amended, in
`AcceptedWasRead`. Each is written where the interleaving happens, not where its harm shows. Two are
bounds instead: in `RoomForThree` the breaking issues lie in one batch, and `KeptWasQueued` speaks of
the text as listed.

**Seen, and claimed by no document.** The gate lists the issues before it reads the open pull requests, so
one that merges in between lets a finished issue through to a build (`gate.mts:139`), and one that somebody opens after
that read is built over (`gate.mts:140`); an umbrella is closed on a read of its children although a person reopened one
since (`umbrella.mts:70`); the lock of a killed command stays, and every later one fails, until a person deletes the file
(`review-ledger.mts:491-498`); a left-behind process may break the worktree's link between the last check of it and `close()`,
which runs git there (`build.mts:1281-1286`); an issue withdrawn
from the queue during intake is still judged (`intake.mts:217`); a branch created at base stays
on origin when the push after it fails with server errors to the last try; and a failing worktree
check or `close()` at the end of a build leaves the sandbox open, said only in the log.

**Not modelled**, and why:

- the composition of the parts over an issue's life (`Sandcastle`): each part is checked with its surroundings
  free to do anything, which is more than the other parts do;
- `pr-automerge.yml`, `release_queue.py` and the release workflow: their state is GitHub's own (checks, tags,
  concurrency groups), and none of it is Sandcastle's; they are the next modules to write;
- release posts, the Claude review workflow, CI and test discovery, the git hooks: one pass from input
  to text or to a verdict, with nothing kept;
- host set-up: read once at startup;
- the application: a page, a cookie and pure functions of a request;
- in Queue, the lag of GitHub's event list behind an edit; in Branches, the names (the `bug` label picks one);
- in Round, folders as overlapping paths;
- in ReviewLedger, rendering, damaged files, an empty diff, `GATE_SKIP_REVIEW` and a dirty worktree;
- what agents write (a role's work is a choice of new commits), prompts, wording of comments and logs, the
  patterns of the scan (its verdict is a choice), the sandbox's insides.
