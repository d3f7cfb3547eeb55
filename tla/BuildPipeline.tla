---------------------------- MODULE BuildPipeline ----------------------------
(* One build of an issue whose building label is held (lib/build.mts,         *)
(* lib/checkpoint.mts, lib/agents.mts, lib/limits.mts): from the sandbox to   *)
(* the pull request.                                                          *)
(*                                                                            *)
(* The host awaits one thing at a time. Between its steps GitHub's main       *)
(* advances, another build or the clock stops the run, and a process a role   *)
(* left in the sandbox commits or leaves files behind. Every gh call and      *)
(* every command may fail; a failed write may have landed.                    *)
(*                                                                            *)
(* A commit is its number and what the properties tell apart: the main commit *)
(* the host merged into it, and which edits in it no finished review has      *)
(* seen. What a gate run says is free, so a branch that changes the gate      *)
(* script is one reason of many for a red gate.                               *)
EXTENDS Integers, Sequences

CONSTANTS
    Optional,        \* SUBSET {"architect", "ui", "scribe"} a plan may pick
    FixerAttempts,   \* GATE_FIXER_ATTEMPTS
    PublishAttempts, \* PUBLISH_RETRY_ATTEMPTS
    MaxMain,         \* bound: how often GitHub's main advances
    MaxFaults,       \* bound: failed calls
    MaxStrays        \* bound: what left-behind sandbox processes do

ASSUME ConstantsAssumption ==
    /\ Optional \subseteq SUBSET {"architect", "ui", "scribe"}
    /\ FixerAttempts \in Nat
    /\ PublishAttempts \in Nat \ {0}
    /\ MaxMain \in Nat
    /\ MaxFaults \in Nat
    /\ MaxStrays \in Nat

VARIABLES
    pc,
    picked,        \* the optional roles the plan picked
    kept,          \* the branch is kept from an earlier round's older main
    todo,          \* developer runs left, in order
    \* Around the build.
    inActions,     \* pushRefusesWorkflowChanges
    main,          \* GitHub's main: how often it advanced since `base`
    wfMain,        \* main changed a workflow file since `base`
    stop,          \* the run's limits say stop (RunLimits.stopReason)
    faults,
    strays,
    \* The sandbox's worktree.
    box,           \* "none", "open", "closed" or "left" in place
    linked,        \* the worktree points at this repository
    head,
    dirty,         \* uncommitted "tracked" edits, "untracked" files
    merging,       \* a merge is under way
    \* The host's locals.
    cp,            \* which gate: "checkpoint1", "merged", "checkpoint2"
    before,        \* HEAD as the gate began
    fixes,         \* gate-fixer runs used at this checkpoint
    review,        \* how the reviewer's run went
    reviewedHead,
    gated,         \* the commit the last checkpoint passed on
    atBase,        \* triedCreatingBranchAtBase: "no", "created", "failed"
    tries,         \* attempts of the publish step under way
    outcome,
    \* On GitHub.
    remote,        \* the branch on origin
    prs,           \* pull requests this build opened
    prNote,        \* the latest says that the review failed
    attempts,      \* failed attempts this build recorded
    handed,        \* "no", "needs-human" or "local"
    said,          \* comments this build posted
    \* History, read by no guard.
    green,         \* the last commit the gate exited 0 on, with nothing else there
    scanned,       \* what the last secret scan read, and left out
    stopped        \* an UncountedStopError ended the build's work

frame == <<picked, kept, todo, inActions, box, linked>>
world == <<main, wfMain, stop, faults, strays>>
tree == <<head, dirty, merging>>
gate == <<cp, before, fixes, gated>>
reviewing == <<review, reviewedHead>>
records == <<attempts, handed, said>>
github == <<atBase, tries, remote, prs, prNote, records>>
history == <<green, scanned, stopped>>
vars == <<pc, frame, world, tree, gate, reviewing, outcome, github, history>>

NoCommit == [n |-> -1, main |-> 0, unseen |-> {}]

\* `base`, the main commit the round's branches were cut from.
Base == [n |-> 0, main |-> 0, unseen |-> {}]

\* A branch kept from an earlier round, cut from a main older than `base`.
Older == -2

Kept == [n |-> 1, main |-> Older, unseen |-> {"work"}]

\* What fetchMain answers when refs/remotes/origin/main, in the .git the
\* sandbox shares, no longer names what the fetch wrote there.
Elsewhere == -1

NothingScanned == [commit |-> NoCommit, except |-> 0]

GateSteps == {"gate", "gateRuns", "gateChecks", "gateEnds"}

\* Steps with the sandbox open where a command, or a call nobody catches, can
\* throw.
OpenSteps == GateSteps \union
    {"roles", "ahead", "fixing", "sync", "undo", "undone", "reset", "wasReset", "scan"}

Steps == OpenSteps \union
    {"start", "create", "scribe", "reviewer", "leak", "record", "branch", "push",
     "openPR", "refused", "handing", "comment", "finally", "closing", "ended"}

Init ==
    /\ pc = "start"
    /\ picked \in Optional
    /\ todo = (IF "architect" \in picked THEN <<"architect">> ELSE <<>>)
                  \o <<"tester", "backend">>
                  \o (IF "ui" \in picked THEN <<"ui">> ELSE <<>>)
    /\ inActions \in BOOLEAN
    /\ main = 0 /\ wfMain = FALSE /\ stop = FALSE /\ faults = 0 /\ strays = 0
    /\ box = "none" /\ linked = TRUE
    /\ kept \in BOOLEAN
    /\ head = IF kept THEN Kept ELSE Base
    /\ dirty = {} /\ merging = FALSE
    /\ cp = "checkpoint1" /\ before = NoCommit /\ fixes = 0
    /\ review = "pending" /\ reviewedHead = NoCommit
    /\ gated = NoCommit /\ atBase = "no" /\ tries = 0 /\ outcome = "none"
    /\ remote \in {NoCommit} \union (IF kept THEN {Kept} ELSE {})
    /\ prs = 0 /\ prNote = FALSE
    /\ attempts = 0 /\ handed = "no" /\ said = {}
    /\ green = NoCommit /\ scanned = NothingScanned /\ stopped = FALSE

------------------------------------------------------------------------------
(* What every step may meet.                                                  *)

Goto(step) == pc' = step

\* A commit id: a number that no commit still spoken of has.
Fresh ==
    CHOOSE k \in 2 .. 9 :
        \A c \in {head, before, reviewedHead, gated, remote, green, scanned.commit} : c.n # k

Fault == faults < MaxFaults /\ faults' = faults + 1 /\ UNCHANGED <<main, wfMain, stop, strays>>

\* What a role or a left-behind process leaves of the worktree: maybe a commit
\* of `kind` edits, and any uncommitted files.
Edits(kind) ==
    /\ dirty' \in SUBSET {"tracked", "untracked"}
    /\ head' \in {head, [head EXCEPT !.n = Fresh, !.unseen = @ \union {kind}]}

\* An UncountedStopError leaves the pipeline through its finally.
StopsUncounted ==
    /\ Goto("finally")
    /\ outcome' = "stopped"
    /\ stopped' = TRUE

\* runWithinLimits: no role starts once the limits say stop.
RefusedRole ==
    /\ stop
    /\ StopsUncounted
    /\ UNCHANGED <<frame, world, tree, gate, reviewing, github, green, scanned>>

\* A role run that failed on Claude's usage limit stops the run.
HitsUsageLimit(kind) ==
    /\ ~stop
    /\ stop' = TRUE
    /\ Edits(kind)
    /\ StopsUncounted
    /\ UNCHANGED <<frame, main, wfMain, faults, strays, merging, gate, reviewing,
                   github, green, scanned>>

\* A command or call whose error nothing catches: not a counted attempt.
Throws ==
    /\ pc \in OpenSteps
    /\ Fault
    /\ Goto("finally")
    /\ outcome' = "threw"
    /\ UNCHANGED <<frame, tree, gate, reviewing, github, history>>

MainMoves ==
    /\ main < MaxMain
    /\ main' = main + 1
    /\ wfMain' \in {wfMain, TRUE}
    /\ UNCHANGED <<pc, frame, stop, faults, strays, tree, gate, reviewing, github,
                   outcome, history>>

\* The time budget passes, or another build hits the usage limit.
LimitReached ==
    /\ ~stop
    /\ stop' = TRUE
    /\ UNCHANGED <<pc, frame, main, wfMain, faults, strays, tree, gate, reviewing,
                   github, outcome, history>>

\* A process a role left running commits (in mid-merge, the merge as it
\* stands), leaves files, or breaks the worktree's link to the repository.
Stray ==
    /\ box = "open"
    /\ strays < MaxStrays
    /\ strays' = strays + 1
    /\ \/ /\ head' = [n |-> Fresh,
                      main |-> IF merging THEN main ELSE head.main,
                      unseen |-> head.unseen \union {"stray"}
                                   \union (IF merging THEN {"main"} ELSE {})]
          /\ merging' = FALSE
          /\ dirty' \in SUBSET dirty
          /\ UNCHANGED linked
       \/ /\ dirty' \in {dirty \union {d} : d \in {"tracked", "untracked"}}
          /\ UNCHANGED <<head, merging, linked>>
       \/ linked' = FALSE /\ UNCHANGED tree
    /\ UNCHANGED <<pc, picked, kept, todo, inActions, main, wfMain, stop, faults,
                   box, gate, reviewing, github, outcome, history>>

------------------------------------------------------------------------------
(* The sandbox.                                                               *)

\* The refs of a pull request that was closed unmerged are deleted first; a
\* failure there leaves no sandbox to close.
StartsFromMain ==
    /\ pc = "start"
    /\ \/ Goto("create") /\ UNCHANGED <<kept, head, remote, world, outcome>>
       \/ /\ kept
          /\ Goto("create")
          /\ kept' = FALSE
          /\ head' = Base
          /\ remote' = NoCommit
          /\ UNCHANGED <<world, outcome>>
       \/ /\ Goto("ended") /\ Fault
          /\ outcome' = "threw"
          /\ UNCHANGED <<kept, head, remote>>
    /\ UNCHANGED <<picked, todo, inActions, box, linked, dirty, merging, gate,
                   reviewing, atBase, tries, prs, prNote, records, history>>

\* createCheckedSandbox. A reused worktree may hold what an earlier round left
\* uncommitted; one found tampered with is left in place and reported.
CreatesSandbox ==
    /\ pc = "create"
    /\ \/ /\ Goto("roles")
          /\ box' = "open"
          /\ dirty' \in IF kept THEN SUBSET {"tracked", "untracked"} ELSE {{}}
          /\ UNCHANGED <<world, linked, outcome, said>>
       \/ /\ Goto("ended") /\ Fault
          /\ outcome' = "threw"
          /\ \/ box' \in {"none", "closed"} /\ UNCHANGED <<linked, said>>
             \/ /\ box' = "left"
                /\ linked' = FALSE
                /\ said' = said \union {"tampered"}
          /\ UNCHANGED dirty
    /\ UNCHANGED <<picked, kept, todo, inActions, head, merging, gate, reviewing,
                   atBase, tries, remote, prs, prNote, attempts, handed, history>>

\* The finally of buildMarkedIssue: worktreeProblems, then close(). What either
\* throws replaces the outcome, and what is left running acts between them.
FindsNoProblems ==
    /\ pc = "finally"
    /\ linked
    /\ \/ Goto("closing") /\ UNCHANGED <<world, outcome>>
       \/ Goto("ended") /\ Fault /\ outcome' = "threw"
    /\ UNCHANGED <<frame, tree, gate, reviewing, github, history>>

ClosesSandbox ==
    /\ pc = "closing"
    /\ Goto("ended")
    /\ \/ box' = "closed" /\ UNCHANGED <<world, outcome>>
       \/ Fault /\ outcome' = "threw" /\ box' \in {"open", "closed"}
    /\ UNCHANGED <<picked, kept, todo, inActions, linked, tree, gate, reviewing,
                   github, history>>

LeavesSandbox ==
    /\ pc = "finally"
    /\ ~linked
    /\ Goto("ended")
    /\ \/ box' = "left" /\ said' = said \union {"tampered"} /\ UNCHANGED <<world, outcome>>
       \/ Fault /\ outcome' = "threw" /\ box' \in {"open", "left"} /\ UNCHANGED said
    /\ UNCHANGED <<picked, kept, todo, inActions, linked, tree, gate, reviewing,
                   atBase, tries, remote, prs, prNote, attempts, handed, history>>

------------------------------------------------------------------------------
(* The developers.                                                            *)

\* developerFails: the role finishes, or fails, times out or runs out of
\* iterations, which stops the issue and is recorded as a failed attempt.
DeveloperRuns ==
    /\ pc = "roles"
    /\ todo # <<>>
    /\ ~stop
    /\ Edits("work")
    /\ \/ Goto("roles") /\ todo' = Tail(todo) /\ UNCHANGED outcome
       \/ Goto("record") /\ outcome' = "failedAttempt" /\ UNCHANGED todo
    /\ UNCHANGED <<picked, kept, inActions, world, box, linked, merging, gate,
                   reviewing, github, history>>

DeveloperStops == pc = "roles" /\ todo # <<>> /\ (RefusedRole \/ HitsUsageLimit("work"))

\* Nothing ahead of main, and nothing left for a gate-fixer to commit.
NothingAhead ==
    /\ pc = "roles"
    /\ todo = <<>>
    /\ IF head.n = 0 /\ dirty = {}
       THEN Goto("finally") /\ outcome' = "notPublished"
       ELSE Goto("gate") /\ UNCHANGED outcome
    /\ UNCHANGED <<frame, world, tree, gate, reviewing, github, history>>

\* Checkpoint 1 passed: asked again, since only a fixer's commit may be ahead.
StillNothingAhead ==
    /\ pc = "ahead"
    /\ IF head.n = 0
       THEN Goto("finally") /\ outcome' = "notPublished"
       ELSE /\ Goto(IF "scribe" \in picked THEN "scribe" ELSE "reviewer")
            /\ UNCHANGED outcome
    /\ UNCHANGED <<frame, world, tree, gate, reviewing, github, history>>

------------------------------------------------------------------------------
(* A gate run (runGate), in its four reads of the sandbox.                    *)

\* The gate of `merged` runs once; the others have the gate-fixer.
GateIsRed ==
  /\ before' = NoCommit
  /\ \/ cp = "merged" /\ Goto("undo") /\ UNCHANGED outcome
     \/ cp # "merged" /\ fixes < FixerAttempts /\ Goto("fixing") /\ UNCHANGED outcome
     \/ cp # "merged" /\ fixes = FixerAttempts /\ Goto("record") /\ outcome' = "failedAttempt"

GateBegins ==
    /\ pc = "gate"
    /\ \/ Goto("gateRuns") /\ before' = head /\ UNCHANGED outcome
       \/ GateIsRed
    /\ UNCHANGED <<frame, world, tree, cp, fixes, gated, reviewing, github,
                   history>>

GateExits ==
    /\ pc = "gateRuns"
    /\ \/ /\ Goto("gateChecks")
          /\ green' = IF dirty = {} THEN head ELSE green
          /\ UNCHANGED <<outcome, before>>
       \/ GateIsRed /\ UNCHANGED green
    /\ UNCHANGED <<frame, world, tree, cp, fixes, gated, reviewing, github,
                   scanned, stopped>>

\* A pass over a dirty worktree is red: the edits were gated, never pushed.
GateChecksWorktree ==
    /\ pc = "gateChecks"
    /\ IF dirty = {} THEN Goto("gateEnds") /\ UNCHANGED <<outcome, before>> ELSE GateIsRed
    /\ UNCHANGED <<frame, world, tree, cp, fixes, gated, reviewing, github,
                   history>>

\* So is a pass during which HEAD moved: the commit it checked isn't known.
GateEnds ==
    /\ pc = "gateEnds"
    /\ IF head = before
       THEN /\ Goto(IF cp = "checkpoint1" THEN "ahead" ELSE "scan")
            /\ gated' = before
            /\ before' = NoCommit
            /\ UNCHANGED outcome
       ELSE GateIsRed /\ UNCHANGED gated
    /\ UNCHANGED <<frame, world, tree, cp, fixes, reviewing, github, history>>

\* A gate-fixer run uses up its attempt however it ends.
FixerRuns ==
    /\ pc = "fixing"
    /\ ~stop
    /\ Edits(IF cp = "checkpoint1" THEN "work" ELSE "fixer")
    /\ fixes' = fixes + 1
    /\ Goto("gate")
    /\ UNCHANGED <<frame, world, merging, cp, before, gated, reviewing, github,
                   outcome, history>>

FixerStops ==
    /\ pc = "fixing"
    /\ RefusedRole \/ HitsUsageLimit(IF cp = "checkpoint1" THEN "work" ELSE "fixer")

\* recordBuildFailure: the attempt is counted by a comment the host posts. A
\* call that fails replaces the outcome.
RecordsFailure ==
    /\ pc = "record"
    /\ Goto("finally")
    /\ \/ attempts' = attempts + 1 /\ UNCHANGED <<world, outcome>>
       \/ Fault /\ outcome' = "threw" /\ attempts' \in {attempts, attempts + 1}
    /\ UNCHANGED <<frame, tree, gate, reviewing, atBase, tries, remote, prs,
                   prNote, handed, said, history>>

------------------------------------------------------------------------------
(* The scribe and the reviewer.                                               *)

\* A scribe that fails or runs out of iterations is only noted in the PR.
ScribeRuns ==
    /\ pc = "scribe"
    /\ ~stop
    /\ Edits("work")
    /\ Goto("reviewer")
    /\ UNCHANGED <<frame, world, merging, gate, review, reviewedHead, github,
                   outcome, history>>

ScribeStops == pc = "scribe" /\ (RefusedRole \/ HitsUsageLimit("work"))

\* A run that returned has seen the branch, whether or not it signalled that it
\* finished; one that threw has not.
ReviewerRuns ==
    /\ pc = "reviewer"
    /\ ~stop
    /\ \/ /\ review' \in {"finished", "unfinished"}
          /\ \E n \in {head.n, Fresh} : head' = [head EXCEPT !.n = n, !.unseen = {}]
          /\ dirty' \in SUBSET {"tracked", "untracked"}
       \/ review' = "failed" /\ Edits("work")
    /\ Goto("sync")
    /\ UNCHANGED <<frame, world, merging, gate, reviewedHead, github, outcome,
                   history>>

ReviewerStops == pc = "reviewer" /\ (RefusedRole \/ HitsUsageLimit("work"))

------------------------------------------------------------------------------
(* Merging main before checkpoint 2 (syncWithMain, restoredTo).               *)

Checkpoint2 ==
    /\ Goto("gate")
    /\ cp' = "checkpoint2"
    /\ fixes' = 0
    /\ reviewedHead' = NoCommit
    /\ UNCHANGED review

\* main can't be fetched, is in the branch already, or changed a workflow file
\* since the branch left it that this token could not push.
SkipsMerge ==
    /\ pc = "sync"
    /\ \/ Fault
       \/ main = head.main /\ UNCHANGED world
       \/ inActions /\ (wfMain \/ head.main = Older) /\ UNCHANGED world
    /\ Checkpoint2
    /\ UNCHANGED <<frame, tree, before, gated, github, outcome, history>>

\* The commit fetchMain answered is main, unless a stray process moved the ref.
Merges(m) ==
    /\ pc = "sync"
    /\ \/ m = main /\ UNCHANGED strays
       \/ m = Elsewhere /\ strays < MaxStrays /\ strays' = strays + 1
    /\ m # head.main
    /\ ~(inActions /\ wfMain)
    /\ reviewedHead' = head
    /\ \/ /\ head' = [n |-> Fresh, main |-> m, unseen |-> head.unseen \union {"main"}]
          /\ Goto("gate") /\ cp' = "merged"
          /\ UNCHANGED <<dirty, merging>>
       \/ /\ Goto("undo") /\ cp' = "checkpoint2"
          /\ \/ merging' = TRUE /\ dirty' = dirty \union {"tracked"}
             \/ dirty # {} /\ UNCHANGED <<dirty, merging>>
          /\ UNCHANGED head
    /\ UNCHANGED <<frame, main, wfMain, stop, faults, before, fixes, gated,
                   review, github, outcome, history>>

BackAtReviewed == head = reviewedHead /\ dirty = {}

\* git reset --hard, which keeps untracked files.
HardReset ==
    /\ head' = reviewedHead
    /\ merging' = FALSE
    /\ dirty' = dirty \ {"tracked"}
    /\ UNCHANGED world

\* Mutation: the merged tree is left for checkpoint 2 and its fixer.
UndoesConflictOnly ==
    /\ pc = "undo"
    /\ \/ /\ cp = "merged"
          /\ Goto("gate") /\ cp' = "checkpoint2"
          /\ UNCHANGED <<world, tree>>
       \/ /\ cp # "merged" /\ merging
          /\ Goto("undone")
          /\ merging' = FALSE
          /\ dirty' \in {dirty, dirty \ {"tracked"}}
          /\ UNCHANGED <<world, head, cp>>
    /\ UNCHANGED <<frame, before, fixes, gated, reviewing, github, outcome,
                   history>>

\* A conflicting merge is aborted; one that turned the gate red is reset.
Undoes ==
    /\ pc = "undo"
    /\ \/ cp = "merged" /\ HardReset /\ Goto("undone")
       \/ /\ cp # "merged" /\ merging
          /\ Goto("undone")
          /\ merging' = FALSE
          /\ dirty' \in {dirty, dirty \ {"tracked"}}
          /\ UNCHANGED <<world, head>>
       \/ cp # "merged" /\ ~merging /\ Goto("reset") /\ UNCHANGED <<world, tree>>
       \/ Fault /\ Goto("reset") /\ UNCHANGED tree
    /\ UNCHANGED <<frame, gate, reviewing, github, outcome, history>>

UndoneInPlace ==
    /\ pc = "undone"
    /\ BackAtReviewed
    /\ Checkpoint2
    /\ UNCHANGED <<frame, world, tree, before, gated, github, outcome, history>>

UndoneElsewhere ==
    /\ pc = "undone"
    /\ ~BackAtReviewed
    /\ Goto("reset")
    /\ UNCHANGED <<frame, world, tree, gate, reviewing, github, outcome, history>>

\* The command's exit code is not read.
Resets ==
    /\ pc = "reset"
    /\ Goto("wasReset")
    /\ HardReset \/ (Fault /\ UNCHANGED tree)
    /\ UNCHANGED <<frame, gate, reviewing, github, outcome, history>>

\* Mutation: the worktree is not looked at after the reset.
FallsBackUnchecked ==
    /\ pc = "wasReset"
    /\ Checkpoint2
    /\ UNCHANGED <<frame, world, tree, before, gated, github, outcome, history>>

FallsBack ==
    /\ pc = "wasReset"
    /\ BackAtReviewed
    /\ Checkpoint2
    /\ UNCHANGED <<frame, world, tree, before, gated, github, outcome, history>>

CannotFallBack ==
    /\ pc = "wasReset"
    /\ ~BackAtReviewed
    /\ Goto("finally")
    /\ outcome' = "threw"
    /\ UNCHANGED <<frame, world, tree, gate, reviewing, github, history>>

------------------------------------------------------------------------------
(* The secret scan and publishing.                                            *)

\* Mutation: the merged commit is taken for main without asking the remote.
TrustedUnasked(m) == cp = "merged" /\ m = gated.main

\* trustedMergedMain: main's history is left out of the scan only while the
\* merged commit is what GitHub's main names; 0 leaves nothing out.
Trusted(m) == IF cp = "merged" /\ gated.main = main THEN m \in {main, 0} ELSE m = 0

Scans(m) ==
    /\ pc = "scan"
    /\ Trusted(m)
    /\ scanned' = [commit |-> gated, except |-> m]
    /\ Goto("leak") \/ Goto("branch")
    /\ UNCHANGED <<frame, world, tree, gate, reviewing, github, outcome, green,
                   stopped>>

ReportsLeak ==
    /\ pc = "leak"
    /\ Goto("finally")
    /\ \/ said' = said \union {"leak"} /\ outcome' = "notPublished" /\ UNCHANGED world
       \/ Fault /\ outcome' = "threw" /\ UNCHANGED said
    /\ UNCHANGED <<frame, tree, gate, reviewing, atBase, tries, remote, prs,
                   prNote, attempts, handed, history>>

\* The branch is first created at `base`, so that GitHub judges the push as an
\* update: only when main changed a workflow, for a new branch that descends
\* from `base`.
WantsBranchAtBase ==
    inActions /\ wfMain /\ remote = NoCommit /\ (kept => gated.main # Older)

PushesAsUsual ==
    /\ pc = "branch"
    /\ \/ (~WantsBranchAtBase \/ (kept /\ gated.main = Elsewhere)) /\ UNCHANGED world
       \/ Fault
    /\ Goto("push")
    /\ tries' = 0
    /\ UNCHANGED <<frame, tree, gate, reviewing, atBase, remote, prs, prNote,
                   outcome, records, history>>

CreatesBranchAtBase ==
    /\ pc = "branch"
    /\ WantsBranchAtBase
    /\ \/ atBase' = "created" /\ remote' = Base /\ UNCHANGED world
       \/ Fault /\ atBase' = "failed" /\ remote' \in {NoCommit, Base}
    /\ Goto("push")
    /\ tries' = 0
    /\ UNCHANGED <<frame, tree, gate, reviewing, prs, prNote, outcome, records,
                   history>>

Pushes ==
    /\ pc = "push"
    /\ remote' = gated
    /\ Goto("openPR")
    /\ tries' = 0
    /\ UNCHANGED <<frame, world, tree, gate, reviewing, atBase, prs, prNote,
                   outcome, records, history>>

\* retryOnServerError: the step is tried again until its attempts are used up.
Retries == tries' = tries + 1 /\ Goto(IF tries + 1 < PublishAttempts THEN pc ELSE "comment")

\* A failure that isn't GitHub's server error is not retried.
GivesUp == Goto("comment") /\ UNCHANGED tries

PushFails ==
    /\ pc = "push"
    /\ Fault
    /\ \/ Retries /\ remote' \in {remote, gated}
       \/ GivesUp /\ UNCHANGED remote
    /\ UNCHANGED <<frame, tree, gate, reviewing, atBase, prs, prNote, outcome,
                   records, history>>

\* GitHub refuses a workflow change for lack of the Workflows permission.
PushRefused ==
    /\ pc = "push"
    /\ inActions
    /\ remote # gated
    /\ Goto("refused")
    /\ UNCHANGED <<frame, world, tree, gate, reviewing, github, outcome, history>>

\* openPullRequest's create.
PRCreated == prs' = prs + 1 /\ prNote' = (review = "failed")

\* Mutation: no open pull request from the branch is looked for.
OpensAnotherPR ==
    /\ pc = "openPR"
    /\ PRCreated
    /\ Goto("finally")
    /\ outcome' = "published"
    /\ UNCHANGED <<frame, world, tree, gate, reviewing, atBase, tries, remote,
                   records, history>>

\* An open pull request from the branch is found before one is created.
OpensPR ==
    /\ pc = "openPR"
    /\ IF prs > 0 THEN UNCHANGED <<prs, prNote>> ELSE PRCreated
    /\ Goto("finally")
    /\ outcome' = "published"
    /\ UNCHANGED <<frame, world, tree, gate, reviewing, atBase, tries, remote,
                   records, history>>

OpenPRFails ==
    /\ pc = "openPR"
    /\ Fault
    /\ Retries \/ GivesUp
    /\ UNCHANGED <<prs, prNote>> \/ (prs = 0 /\ PRCreated)
    /\ UNCHANGED <<frame, tree, gate, reviewing, atBase, remote, outcome, records,
                   history>>

\* Mutation: a publish that fails counts as a failed attempt.
CommentsCounting ==
    /\ pc = "comment"
    /\ Goto("finally")
    /\ said' = said \union {"publishFailed"}
    /\ attempts' = attempts + 1
    /\ outcome' = "notPublished"
    /\ UNCHANGED <<frame, world, tree, gate, reviewing, atBase, tries, remote,
                   prs, prNote, handed, history>>

\* Whatever still fails needs a person, who is told; it is no failed attempt.
Comments ==
    /\ pc = "comment"
    /\ Goto("finally")
    /\ \/ said' = said \union {"publishFailed"} /\ outcome' = "notPublished" /\ UNCHANGED world
       \/ Fault /\ outcome' = "threw" /\ UNCHANGED said
    /\ UNCHANGED <<frame, tree, gate, reviewing, atBase, tries, remote, prs,
                   prNote, attempts, handed, history>>

\* Mutation: the branch created at base is left on origin.
KeepsStrayBranch ==
    /\ pc = "refused"
    /\ Goto("handing")
    /\ UNCHANGED <<frame, world, tree, gate, reviewing, github, outcome, history>>

\* deleteBranchAt, with a lease on base: a branch that moved is left alone.
DeletesStrayBranch ==
    /\ pc = "refused"
    /\ Goto("handing")
    /\ \/ /\ atBase = "created"
          /\ remote' = IF remote = Base THEN NoCommit ELSE remote
          /\ UNCHANGED world
       \/ atBase # "created" /\ UNCHANGED <<remote, world>>
       \/ atBase = "created" /\ Fault /\ remote' \in {remote, NoCommit}
    /\ UNCHANGED <<frame, tree, gate, reviewing, atBase, tries, prs, prNote,
                   outcome, records, history>>

\* moveToLocal when the branch was to be created at base, else
\* handBackWorkflowChange; a failure leaves it to the next round.
HandsOver ==
    /\ pc = "handing"
    /\ LET queue == IF atBase = "no" THEN "needs-human" ELSE "local"
       IN \/ handed' = queue /\ UNCHANGED world
          \/ Fault /\ handed' \in {handed, queue}
    /\ Goto("finally")
    /\ outcome' = "notPublished"
    /\ UNCHANGED <<frame, tree, gate, reviewing, atBase, tries, remote, prs,
                   prNote, attempts, said, history>>

------------------------------------------------------------------------------

HostStep ==
    \/ StartsFromMain
    \/ CreatesSandbox
    \/ DeveloperRuns
    \/ DeveloperStops
    \/ NothingAhead
    \/ StillNothingAhead
    \/ GateBegins
    \/ GateExits
    \/ GateChecksWorktree
    \/ GateEnds
    \/ FixerRuns
    \/ FixerStops
    \/ RecordsFailure
    \/ ScribeRuns
    \/ ScribeStops
    \/ ReviewerRuns
    \/ ReviewerStops
    \/ SkipsMerge
    \/ \E m \in {main, Elsewhere} : Merges(m)
    \/ Undoes
    \/ UndoneInPlace
    \/ UndoneElsewhere
    \/ Resets
    \/ FallsBack
    \/ CannotFallBack
    \/ \E m \in {Elsewhere} \union 0 .. MaxMain : Scans(m)
    \/ ReportsLeak
    \/ PushesAsUsual
    \/ CreatesBranchAtBase
    \/ Pushes
    \/ PushFails
    \/ PushRefused
    \/ OpensPR
    \/ OpenPRFails
    \/ Comments
    \/ DeletesStrayBranch
    \/ HandsOver
    \/ FindsNoProblems
    \/ ClosesSandbox
    \/ LeavesSandbox
    \/ Throws

Ended == pc = "ended" /\ UNCHANGED vars

Next == HostStep \/ MainMoves \/ LimitReached \/ Stray \/ Ended

Spec == Init /\ [][Next]_vars

\* Every role has a timeout and every command returns, so the host goes on;
\* what goes on around it is never required.
FairSpec == Spec /\ WF_vars(HostStep)

------------------------------------------------------------------------------
(* Properties.                                                                *)

Commits == [n : Int, main : Int, unseen : SUBSET {"work", "fixer", "main", "stray"}]

TypeOK ==
    /\ pc \in Steps
    /\ picked \in Optional
    /\ kept \in BOOLEAN
    /\ todo \in Seq({"architect", "tester", "backend", "ui"})
    /\ inActions \in BOOLEAN
    /\ main \in 0 .. MaxMain
    /\ wfMain \in BOOLEAN
    /\ stop \in BOOLEAN
    /\ faults \in 0 .. MaxFaults
    /\ strays \in 0 .. MaxStrays
    /\ box \in {"none", "open", "closed", "left"}
    /\ linked \in BOOLEAN
    /\ head \in Commits
    /\ dirty \in SUBSET {"tracked", "untracked"}
    /\ merging \in BOOLEAN
    /\ cp \in {"checkpoint1", "merged", "checkpoint2"}
    /\ before \in Commits
    /\ fixes \in 0 .. FixerAttempts
    /\ review \in {"pending", "finished", "unfinished", "failed"}
    /\ reviewedHead \in Commits
    /\ gated \in Commits
    /\ atBase \in {"no", "created", "failed"}
    /\ tries \in 0 .. PublishAttempts
    /\ outcome \in {"none", "published", "failedAttempt", "notPublished", "stopped", "threw"}
    /\ remote \in Commits
    /\ prs \in Nat
    /\ prNote \in BOOLEAN
    /\ attempts \in Nat
    /\ handed \in {"no", "needs-human", "local"}
    /\ said \in SUBSET {"tampered", "leak", "publishFailed"}
    /\ green \in Commits
    /\ scanned \in [commit : Commits, except : Int]
    /\ stopped \in BOOLEAN

\* What this build pushed; `base` and an earlier round's work are on GitHub
\* already.
Pushed == remote \notin {NoCommit, Base, Kept}

\* What reaches GitHub is a commit the gate exited 0 on, run in a worktree that
\* held exactly that commit (publish: "pushes only the commit the gate passed
\* on"), whatever a left-behind process committed or left there meanwhile.
PushedWasGated == Pushed => remote = green

\* The last secret scan read the commit that was pushed, past `base`, and left
\* out nothing but a commit that GitHub's main has named.
ScanCoversPush ==
    Pushed => scanned.commit = remote /\ scanned.except \in 0 .. main

\* What is pushed was both gated and scanned, as one commit (publish).
PushWasChecked == PushedWasGated /\ ScanCoversPush

\* The gate-fixer's repairs to what main broke, which nobody would review, are
\* never published: no pushed commit has both main merged in after the review
\* and the fixer's edits made after it.
FixerNeverRepairsMain == Pushed => ~({"main", "fixer"} \subseteq remote.unseen)

\* No gate runs, and no fixer starts, in the middle of a merge: the conflict
\* markers could be committed.
NeverGatedMidMerge == pc \in GateSteps \union {"fixing"} => ~merging

\* A pull request that doesn't say its review failed was reviewed: a reviewer
\* run returned after the last developer's, scribe's and checkpoint-1 fixer's
\* edit, and nothing but main, strays and checkpoint-2 repairs came after it.
UnreviewedSaysSo ==
    prs > 0 /\ ~prNote =>
        review \in {"finished", "unfinished"} /\ "work" \notin remote.unseen

\* A build that the usage limit or the time budget stopped counts no failed
\* attempt and publishes nothing, from whichever role.
StopNeverCounts == stopped => attempts = 0 /\ prs = 0 /\ ~Pushed

\* A server error that hid a created pull request is retried into no second one.
OnePullRequest == prs <= 1

\* Without a failed call, no build leaves a branch on origin that holds no work:
\* the one created at base is gone again when its push was refused.
NoStrayBranch == pc = "ended" /\ faults = 0 => remote # Base

\* A build ends with its sandbox closed, or left in place because its worktree
\* no longer points at the repository, which a comment says; only a failed call
\* leaves it open, or without the comment.
SandboxAccountedFor ==
    pc = "ended" =>
        /\ box = "open" => faults > 0
        /\ box = "left" => ~linked /\ ("tampered" \in said \/ faults > 0)

\* A build that has ended leaves nothing behind it that nobody knows of: no
\* branch without work on origin, no sandbox unaccounted for.
NothingLeftBehind == NoStrayBranch /\ SandboxAccountedFor

\* The state is well formed, and what the build says on GitHub is true of it:
\* one pull request, with its warning; no attempt counted for a stop.
PipelineInv ==
    /\ TypeOK
    /\ UnreviewedSaysSo
    /\ StopNeverCounts
    /\ OnePullRequest

Attempt == INSTANCE BuildAttempt WITH
    result <- IF pc = "ended" THEN outcome ELSE "building",
    counted <- attempts > 0,
    opened <- prs > 0

\* The pipeline implements what a build promises.
AttemptSpec == Attempt!Spec

==============================================================================
