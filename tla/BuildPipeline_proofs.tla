------------------------ MODULE BuildPipeline_proofs ------------------------
(* That a build publishes only what was gated and scanned, says the truth     *)
(* about it, and implements BuildAttempt (BuildPipeline), for any plan of     *)
(* roles, any number of fixer runs, retries, failed calls, moves of main and  *)
(* steps of a left-behind process.                                            *)
EXTENDS BuildPipeline, TLAPS

Over == {"finally", "closing", "ended"}
Undoing == {"undo", "undone", "reset", "wasReset"}
Publishing == {"scan", "leak", "branch", "push", "openPR", "comment", "refused", "handing"}
Scanned == Publishing \ {"scan"}

\* A gate run that may yet pass: HEAD moved, or something uncommitted is there,
\* or the gate exited 0 on exactly the commit it began on.
\* The fixer, and a publish step, start only with an attempt left.
RoomToTry ==
    /\ pc = "fixing" => fixes < FixerAttempts
    /\ pc \in {"push", "openPR"} => tries < PublishAttempts

GateIsFair ==
    /\ pc = "gateChecks" => head # before \/ dirty # {} \/ green = before
    /\ pc = "gateEnds" => head # before \/ green = before

\* A merge is under way only until it is undone, and shows in the worktree.
MergeIsUndone ==
    /\ merging => "tracked" \in dirty /\ pc \in {"undo", "reset", "wasReset"} \union Over
    /\ pc \in Undoing => cp # "checkpoint1"
    /\ pc = "fixing" => cp # "merged"
    /\ pc \in {"ahead", "scribe", "reviewer", "sync", "roles", "start", "create"} => cp = "checkpoint1"
    /\ pc \in Publishing => cp # "checkpoint1"

\* What is being published is the last commit gated, and scanned before it is
\* pushed; what was pushed is that commit.
PublishesGated ==
    /\ pc \in Publishing => gated = green
    /\ pc \in Scanned => scanned.commit = gated /\ scanned.except \in 0 .. main
    /\ Pushed =>
        /\ remote = gated /\ gated = green /\ scanned.commit = gated /\ scanned.except \in 0 .. main
        /\ pc \in {"push", "openPR", "comment", "refused", "handing"} \union Over
    /\ pc = "openPR" => remote = gated

Mixed(commit) == {"main", "fixer"} \subseteq commit.unseen

\* Where main and the fixer may have been in what no review has seen: main not
\* before the merge nor once it is undone, the fixer not before checkpoint 2.
FixerStaysOffMain ==
    /\ ~Mixed(gated)
    /\ pc \notin Over =>
        /\ cp = "checkpoint1" => "main" \notin head.unseen
        /\ cp = "checkpoint2" /\ pc \notin Undoing => "main" \notin head.unseen
        /\ cp # "checkpoint2" \/ pc \in Undoing => "fixer" \notin head.unseen
        /\ cp = "merged" \/ pc \in Undoing =>
               "main" \notin reviewedHead.unseen /\ "fixer" \notin reviewedHead.unseen

\* What a reviewer's run has seen holds no work but what it saw.
Reviewed == review \in {"finished", "unfinished"}

ReviewIsKept ==
    /\ pc \notin Over =>
        /\ cp # "checkpoint1" => review # "pending"
        /\ cp = "checkpoint1" /\ pc # "sync" => review = "pending"
        /\ pc = "sync" => review # "pending"
        /\ Reviewed => "work" \notin head.unseen
        /\ Reviewed /\ (cp = "merged" \/ pc \in Undoing) => "work" \notin reviewedHead.unseen
        /\ Reviewed /\ pc \in Publishing => "work" \notin gated.unseen
    /\ prs > 0 => pc \in {"openPR", "comment"} \union Over
    /\ prs > 0 /\ ~prNote => Reviewed /\ "work" \notin remote.unseen

\* An attempt is counted, and a build stopped, only at its end, which agrees
\* with what was counted and opened.
EndAgrees ==
    /\ pc \notin Over => attempts = 0 /\ ~stopped
    /\ attempts > 0 => prs = 0
    /\ stopped => attempts = 0 /\ prs = 0 /\ ~Pushed
    /\ prs \in 0 .. 1
    /\ pc = "record" => outcome = "failedAttempt"
    /\ pc \in Over =>
        /\ outcome # "none"
        /\ outcome = "published" => prs > 0
        /\ outcome = "failedAttempt" => attempts > 0
        /\ outcome = "notPublished" => attempts = 0
        /\ outcome = "stopped" => attempts = 0 /\ prs = 0

\* A commit beside base, from where nothing ahead of main was ruled out.
Ahead == Publishing \union Undoing \union {"scribe", "reviewer", "sync"}

\* A branch at base on origin is one the build made and is about to push to or
\* to delete.
BaseIsTemporary ==
    /\ pc \in Ahead \/ (pc \notin Over /\ cp # "checkpoint1") => head.n # 0
    /\ pc \notin Over /\ (cp = "merged" \/ pc \in Undoing) => reviewedHead.n # 0
    /\ pc \in Publishing => gated.n # 0
    /\ remote = Base /\ faults = 0 => atBase = "created" /\ pc \in {"push", "refused"}

\* Where the sandbox is.
SandboxIsKnown ==
    /\ pc \in {"start", "create"} => linked /\ box = "none"
    /\ pc \notin {"start", "create", "ended"} => box = "open"
    /\ box = "open" /\ pc = "ended" => faults > 0
    /\ box = "left" => ~linked /\ ("tampered" \in said \/ faults > 0)

BuildInv ==
    /\ TypeOK
    /\ RoomToTry
    /\ GateIsFair
    /\ MergeIsUndone
    /\ PublishesGated
    /\ FixerStaysOffMain
    /\ ReviewIsKept
    /\ EndAgrees
    /\ BaseIsTemporary
    /\ SandboxIsKnown

------------------------------------------------------------------------------
(* Types.                                                                     *)

\* TypeOK by kind of variable.
CommitsOK ==
    /\ head \in Commits /\ before \in Commits /\ reviewedHead \in Commits /\ gated \in Commits
    /\ remote \in Commits /\ green \in Commits
    /\ scanned \in [commit : Commits, except : Int]

CountsOK ==
    /\ main \in 0 .. MaxMain /\ faults \in 0 .. MaxFaults /\ strays \in 0 .. MaxStrays
    /\ fixes \in 0 .. FixerAttempts /\ tries \in 0 .. PublishAttempts
    /\ prs \in Nat /\ attempts \in Nat

StepsOK ==
    /\ pc \in Steps
    /\ outcome \in {"none", "published", "failedAttempt", "notPublished", "stopped", "threw"}
    /\ cp \in {"checkpoint1", "merged", "checkpoint2"}
    /\ review \in {"pending", "finished", "unfinished", "failed"}

PlacesOK ==
    /\ picked \in Optional
    /\ todo \in Seq({"architect", "tester", "backend", "ui"})
    /\ box \in {"none", "open", "closed", "left"}
    /\ dirty \in SUBSET {"tracked", "untracked"}
    /\ atBase \in {"no", "created", "failed"}
    /\ handed \in {"no", "needs-human", "local"}
    /\ said \in SUBSET {"tampered", "leak", "publishFailed"}

FlagsOK ==
    /\ kept \in BOOLEAN /\ inActions \in BOOLEAN /\ wfMain \in BOOLEAN /\ stop \in BOOLEAN
    /\ linked \in BOOLEAN /\ merging \in BOOLEAN /\ prNote \in BOOLEAN /\ stopped \in BOOLEAN

\* Of eight numbers, seven commits leave one free.
LEMMA SevenLeaveOne ==
    ASSUME NEW a \in Int, NEW b \in Int, NEW c \in Int, NEW d \in Int, NEW e \in Int,
           NEW f \in Int, NEW g \in Int
    PROVE  \E k \in 2 .. 9 : k # a /\ k # b /\ k # c /\ k # d /\ k # e /\ k # f /\ k # g
    OBVIOUS

\* A new commit is none of those still spoken of.
LEMMA FreshIsNew ==
    ASSUME TypeOK
    PROVE  /\ Fresh \in 2 .. 9
           /\ Fresh # head.n /\ Fresh # before.n /\ Fresh # reviewedHead.n /\ Fresh # gated.n
           /\ Fresh # remote.n /\ Fresh # green.n /\ Fresh # scanned.commit.n
<1>1. /\ head.n \in Int /\ before.n \in Int /\ reviewedHead.n \in Int /\ gated.n \in Int
      /\ remote.n \in Int /\ green.n \in Int /\ scanned.commit.n \in Int
    BY DEF TypeOK, Commits
<1>2. \E k \in 2 .. 9 : /\ k # head.n /\ k # before.n /\ k # reviewedHead.n /\ k # gated.n
                        /\ k # remote.n /\ k # green.n /\ k # scanned.commit.n
    BY <1>1, SevenLeaveOne
<1>3. \E k \in 2 .. 9 :
        \A c \in {head, before, reviewedHead, gated, remote, green, scanned.commit} : c.n # k
    BY <1>2
<1> QED
    BY <1>3 DEF Fresh

\* The types of the flags; only the actions named touch one.
LEMMA FlagsStep ==
    ASSUME TypeOK, [Next]_vars
    PROVE  FlagsOK'
<1> USE DEF Goto, Fault, frame, world, tree, gate, reviewing, records, github, history
<1>1. CASE StartsFromMain
    BY <1>1 DEF StartsFromMain, FlagsOK, TypeOK
<1>2. CASE MainMoves
    BY <1>2 DEF MainMoves, FlagsOK, TypeOK
<1>3. CASE LimitReached
    BY <1>3 DEF LimitReached, FlagsOK, TypeOK
<1>4. CASE DeveloperStops
    BY <1>4 DEF DeveloperStops, RefusedRole, HitsUsageLimit, StopsUncounted, Edits,
        FlagsOK, TypeOK
<1>5. CASE FixerStops
    BY <1>5 DEF FixerStops, RefusedRole, HitsUsageLimit, StopsUncounted, Edits, FlagsOK,
        TypeOK
<1>6. CASE ScribeStops
    BY <1>6 DEF ScribeStops, RefusedRole, HitsUsageLimit, StopsUncounted, Edits,
        FlagsOK, TypeOK
<1>7. CASE ReviewerStops
    BY <1>7 DEF ReviewerStops, RefusedRole, HitsUsageLimit, StopsUncounted, Edits,
        FlagsOK, TypeOK
<1>8. CASE CreatesSandbox
    BY <1>8 DEF CreatesSandbox, FlagsOK, TypeOK
<1>9. CASE Stray
    BY <1>9 DEF Stray, FlagsOK, TypeOK
<1>10. CASE (\E m \in {main, Elsewhere} : Merges(m))
    BY <1>10 DEF Merges, FlagsOK, TypeOK
<1>11. CASE Undoes
    BY <1>11 DEF Undoes, HardReset, FlagsOK, TypeOK
<1>12. CASE Resets
    BY <1>12 DEF Resets, HardReset, FlagsOK, TypeOK
<1>13. CASE OpensPR
    BY <1>13 DEF OpensPR, PRCreated, FlagsOK, TypeOK
<1>14. CASE OpenPRFails
    BY <1>14 DEF OpenPRFails, Retries, GivesUp, PRCreated, FlagsOK, TypeOK
<1>15. CASE UNCHANGED <<kept, inActions, wfMain, stop, linked, merging, prNote, stopped>>
    BY <1>15 DEF FlagsOK, TypeOK
<1>16. \/ UNCHANGED <<kept, inActions, wfMain, stop, linked, merging, prNote, stopped>>
      \/ StartsFromMain
      \/ MainMoves
      \/ LimitReached
      \/ DeveloperStops
      \/ FixerStops
      \/ ScribeStops
      \/ ReviewerStops
      \/ CreatesSandbox
      \/ Stray
      \/ (\E m \in {main, Elsewhere} : Merges(m))
      \/ Undoes
      \/ Resets
      \/ OpensPR
      \/ OpenPRFails
    BY DEF Next, HostStep, Ended, vars, DeveloperRuns, Edits, NothingAhead,
        StillNothingAhead, GateBegins, GateIsRed, GateExits, GateChecksWorktree,
        GateEnds, FixerRuns, RecordsFailure, ScribeRuns, ReviewerRuns, SkipsMerge,
        Checkpoint2, UndoneInPlace, UndoneElsewhere, FallsBack, CannotFallBack, Scans,
        Trusted, ReportsLeak, PushesAsUsual, CreatesBranchAtBase, Pushes, PushFails,
        Retries, GivesUp, PushRefused, Comments, DeletesStrayBranch, HandsOver,
        FindsNoProblems, ClosesSandbox, LeavesSandbox, Throws
<1> QED
    BY ONLY <1>1, <1>2, <1>3, <1>4, <1>5, <1>6, <1>7, <1>8, <1>9, <1>10, <1>11, <1>12,
        <1>13, <1>14, <1>15, <1>16

\* The commits with a name are commits.
LEMMA NamedCommits == NoCommit \in Commits /\ Base \in Commits /\ Kept \in Commits
    BY DEF NoCommit, Base, Kept, Older, Commits

\* A commit with another number and other unseen edits is one.
LEMMA ChangedCommit ==
    ASSUME NEW c \in Commits, NEW k \in Int, NEW u \in SUBSET {"work", "fixer", "main", "stray"}
    PROVE  [c EXCEPT !.n = k, !.unseen = u] \in Commits
    BY DEF Commits

\* So is a commit with one more kind of unseen edits.
LEMMA ExtendedCommit ==
    ASSUME NEW c \in Commits, NEW k \in Int, NEW x \in {"work", "fixer", "main", "stray"}
    PROVE  [c EXCEPT !.n = k, !.unseen = @ \union {x}] \in Commits
    BY DEF Commits

\* So is what a role leaves.
LEMMA EditedCommit ==
    ASSUME TypeOK, NEW kind \in {"work", "fixer"}, Edits(kind)
    PROVE  head' \in Commits
<1>1. head \in Commits /\ Fresh \in Int
    BY FreshIsNew DEF TypeOK
<1>2. [head EXCEPT !.n = Fresh, !.unseen = @ \union {kind}] \in Commits
    BY <1>1, ExtendedCommit
<1> QED
    BY <1>1, <1>2 DEF Edits

\* The types of the commits the build speaks of.
LEMMA CommitsStep ==
    ASSUME TypeOK, [Next]_vars
    PROVE  CommitsOK'
<1> USE DEF Goto, Fault, frame, world, tree, gate, reviewing, records, github, history
<1>1. CASE StartsFromMain
    BY <1>1, NamedCommits DEF StartsFromMain, CommitsOK, TypeOK
<1>2. CASE DeveloperRuns
    BY <1>2, EditedCommit DEF DeveloperRuns, CommitsOK, TypeOK
<1>3. CASE DeveloperStops
    BY <1>3, EditedCommit DEF DeveloperStops, RefusedRole, HitsUsageLimit,
        StopsUncounted, Edits, CommitsOK, TypeOK
<1>4. CASE FixerRuns
    BY <1>4, EditedCommit DEF FixerRuns, CommitsOK, TypeOK
<1>5. CASE FixerStops
    BY <1>5, EditedCommit DEF FixerStops, RefusedRole, HitsUsageLimit, StopsUncounted,
        Edits, CommitsOK, TypeOK
<1>6. CASE ScribeRuns
    BY <1>6, EditedCommit DEF ScribeRuns, CommitsOK, TypeOK
<1>7. CASE ScribeStops
    BY <1>7, EditedCommit DEF ScribeStops, RefusedRole, HitsUsageLimit, StopsUncounted,
        Edits, CommitsOK, TypeOK
<1>8. CASE ReviewerRuns
    <2>1. CASE review' = "failed" /\ Edits("work")
        BY <1>8, <2>1, EditedCommit DEF ReviewerRuns, CommitsOK, TypeOK
    <2>2. CASE \E n \in {head.n, Fresh} : head' = [head EXCEPT !.n = n, !.unseen = {}]
        <3>1. head' \in Commits
            <4>1. head \in Commits /\ Fresh \in Int
                BY FreshIsNew DEF TypeOK
            <4>2. head.n \in Int
                BY <4>1 DEF Commits
            <4>3. \A n \in {head.n, Fresh} : [head EXCEPT !.n = n, !.unseen = {}] \in Commits
                BY <4>1, <4>2, ChangedCommit
            <4> QED
                BY <2>2, <4>3
        <3> QED
            BY <1>8, <3>1 DEF ReviewerRuns, CommitsOK, TypeOK
    <2> QED
        BY <1>8, <2>1, <2>2 DEF ReviewerRuns
<1>9. CASE ReviewerStops
    BY <1>9, EditedCommit DEF ReviewerStops, RefusedRole, HitsUsageLimit,
        StopsUncounted, Edits, CommitsOK, TypeOK
<1>10. CASE (\E m \in {main, Elsewhere} : Merges(m))
    <2>1. PICK m \in {main, Elsewhere} : Merges(m)
        BY <1>10
    <2>2. m \in Int /\ head \in Commits
        BY ConstantsAssumption DEF Elsewhere, TypeOK
    <2>3. [n |-> Fresh, main |-> m, unseen |-> head.unseen \union {"main"}] \in Commits
        BY <2>2, FreshIsNew DEF Commits
    <2> QED
        BY <2>1, <2>2, <2>3 DEF Merges, CommitsOK, TypeOK
<1>11. CASE Undoes
    BY <1>11 DEF Undoes, HardReset, CommitsOK, TypeOK
<1>12. CASE Resets
    BY <1>12 DEF Resets, HardReset, CommitsOK, TypeOK
<1>13. CASE Stray
    <2>1. main \in Int /\ head \in Commits
        BY ConstantsAssumption DEF TypeOK
    <2>2. [n |-> Fresh, main |-> IF merging THEN main ELSE head.main,
           unseen |-> head.unseen \union {"stray"} \union (IF merging THEN {"main"} ELSE {})] \in Commits
        BY <2>1, FreshIsNew DEF Commits
    <2> QED
        BY <1>13, <2>1, <2>2 DEF Stray, CommitsOK, TypeOK
<1>14. CASE GateBegins
    BY <1>14, NamedCommits DEF GateBegins, GateIsRed, CommitsOK, TypeOK
<1>15. CASE GateExits
    BY <1>15, NamedCommits DEF GateExits, GateIsRed, CommitsOK, TypeOK
<1>16. CASE GateChecksWorktree
    BY <1>16, NamedCommits DEF GateChecksWorktree, GateIsRed, CommitsOK, TypeOK
<1>17. CASE GateEnds
    BY <1>17, NamedCommits DEF GateEnds, GateIsRed, CommitsOK, TypeOK
<1>18. CASE SkipsMerge
    BY <1>18, NamedCommits DEF SkipsMerge, Checkpoint2, CommitsOK, TypeOK
<1>19. CASE UndoneInPlace
    BY <1>19, NamedCommits DEF UndoneInPlace, Checkpoint2, CommitsOK, TypeOK
<1>20. CASE FallsBack
    BY <1>20, NamedCommits DEF FallsBack, Checkpoint2, CommitsOK, TypeOK
<1>21. CASE CreatesBranchAtBase
    BY <1>21, NamedCommits DEF CreatesBranchAtBase, CommitsOK, TypeOK
<1>22. CASE Pushes
    BY <1>22 DEF Pushes, CommitsOK, TypeOK
<1>23. CASE PushFails
    BY <1>23 DEF PushFails, Retries, GivesUp, CommitsOK, TypeOK
<1>24. CASE DeletesStrayBranch
    BY <1>24, NamedCommits DEF DeletesStrayBranch, CommitsOK, TypeOK
<1>25. CASE (\E m \in {Elsewhere} \union 0 .. MaxMain : Scans(m))
    <2>1. PICK m \in {Elsewhere} \union 0 .. MaxMain : Scans(m)
        BY <1>25
    <2>2. m \in Int /\ gated \in Commits
        BY ConstantsAssumption DEF Elsewhere, TypeOK
    <2>3. scanned' = [commit |-> gated, except |-> m]
        BY <2>1 DEF Scans
    <2> QED
        BY <2>1, <2>2, <2>3 DEF Scans, CommitsOK, TypeOK
<1>26. CASE UNCHANGED <<head, before, reviewedHead, gated, remote, green, scanned>>
    BY <1>26 DEF CommitsOK, TypeOK
<1>27. \/ UNCHANGED <<head, before, reviewedHead, gated, remote, green, scanned>>
      \/ StartsFromMain
      \/ DeveloperRuns
      \/ DeveloperStops
      \/ FixerRuns
      \/ FixerStops
      \/ ScribeRuns
      \/ ScribeStops
      \/ ReviewerRuns
      \/ ReviewerStops
      \/ (\E m \in {main, Elsewhere} : Merges(m))
      \/ Undoes
      \/ Resets
      \/ Stray
      \/ GateBegins
      \/ GateExits
      \/ GateChecksWorktree
      \/ GateEnds
      \/ SkipsMerge
      \/ UndoneInPlace
      \/ FallsBack
      \/ CreatesBranchAtBase
      \/ Pushes
      \/ PushFails
      \/ DeletesStrayBranch
      \/ (\E m \in {Elsewhere} \union 0 .. MaxMain : Scans(m))
    BY DEF Next, HostStep, Ended, vars, CreatesSandbox, NothingAhead, StillNothingAhead,
        RecordsFailure, UndoneElsewhere, CannotFallBack, ReportsLeak, PushesAsUsual,
        PushRefused, OpensPR, PRCreated, OpenPRFails, Retries, GivesUp, Comments,
        HandsOver, FindsNoProblems, ClosesSandbox, LeavesSandbox, Throws, MainMoves, LimitReached
<1> QED
    BY ONLY <1>1, <1>2, <1>3, <1>4, <1>5, <1>6, <1>7, <1>8, <1>9, <1>10, <1>11, <1>12,
        <1>13, <1>14, <1>15, <1>16, <1>17, <1>18, <1>19, <1>20, <1>21, <1>22, <1>23,
        <1>24, <1>25, <1>26, <1>27

\* The counters stay within their bounds.
LEMMA CountsStep ==
    ASSUME TypeOK, RoomToTry, [Next]_vars
    PROVE  CountsOK'
<1> USE DEF Goto, Fault, frame, world, tree, gate, reviewing, records, github, history
<1>1. CASE StartsFromMain
    BY <1>1, ConstantsAssumption DEF StartsFromMain, CountsOK, TypeOK
<1>2. CASE CreatesSandbox
    BY <1>2, ConstantsAssumption DEF CreatesSandbox, CountsOK, TypeOK
<1>3. CASE FixerRuns
    BY <1>3, ConstantsAssumption DEF FixerRuns, Edits, CountsOK, TypeOK, RoomToTry
<1>4. CASE RecordsFailure
    BY <1>4, ConstantsAssumption DEF RecordsFailure, CountsOK, TypeOK
<1>5. CASE SkipsMerge
    BY <1>5, ConstantsAssumption DEF SkipsMerge, Checkpoint2, CountsOK, TypeOK
<1>6. CASE (\E m \in {main, Elsewhere} : Merges(m))
    BY <1>6, ConstantsAssumption DEF Merges, CountsOK, TypeOK
<1>7. CASE Undoes
    BY <1>7, ConstantsAssumption DEF Undoes, HardReset, CountsOK, TypeOK
<1>8. CASE UndoneInPlace
    BY <1>8, ConstantsAssumption DEF UndoneInPlace, Checkpoint2, CountsOK, TypeOK
<1>9. CASE Resets
    BY <1>9, ConstantsAssumption DEF Resets, HardReset, CountsOK, TypeOK
<1>10. CASE FallsBack
    BY <1>10, ConstantsAssumption DEF FallsBack, Checkpoint2, CountsOK, TypeOK
<1>11. CASE ReportsLeak
    BY <1>11, ConstantsAssumption DEF ReportsLeak, CountsOK, TypeOK
<1>12. CASE PushesAsUsual
    BY <1>12, ConstantsAssumption DEF PushesAsUsual, CountsOK, TypeOK
<1>13. CASE CreatesBranchAtBase
    BY <1>13, ConstantsAssumption DEF CreatesBranchAtBase, CountsOK, TypeOK
<1>14. CASE Pushes
    BY <1>14, ConstantsAssumption DEF Pushes, CountsOK, TypeOK
<1>15. CASE PushFails
    BY <1>15, ConstantsAssumption DEF PushFails, Retries, GivesUp, CountsOK, TypeOK,
        RoomToTry
<1>16. CASE OpensPR
    BY <1>16, ConstantsAssumption DEF OpensPR, PRCreated, CountsOK, TypeOK
<1>17. CASE OpenPRFails
    BY <1>17, ConstantsAssumption DEF OpenPRFails, Retries, GivesUp, PRCreated,
        CountsOK, TypeOK, RoomToTry
<1>18. CASE Comments
    BY <1>18, ConstantsAssumption DEF Comments, CountsOK, TypeOK
<1>19. CASE DeletesStrayBranch
    BY <1>19, ConstantsAssumption DEF DeletesStrayBranch, CountsOK, TypeOK
<1>20. CASE HandsOver
    BY <1>20, ConstantsAssumption DEF HandsOver, CountsOK, TypeOK
<1>21. CASE FindsNoProblems \/ ClosesSandbox
    BY <1>21, ConstantsAssumption DEF FindsNoProblems, ClosesSandbox, CountsOK, TypeOK
<1>22. CASE LeavesSandbox
    BY <1>22, ConstantsAssumption DEF LeavesSandbox, CountsOK, TypeOK
<1>23. CASE Throws
    BY <1>23, ConstantsAssumption DEF Throws, CountsOK, TypeOK
<1>24. CASE MainMoves
    BY <1>24, ConstantsAssumption DEF MainMoves, CountsOK, TypeOK
<1>25. CASE Stray
    BY <1>25, ConstantsAssumption DEF Stray, CountsOK, TypeOK
<1>26. CASE UNCHANGED <<main, faults, strays, fixes, tries, prs, attempts>>
    BY <1>26 DEF CountsOK, TypeOK
<1>27. \/ UNCHANGED <<main, faults, strays, fixes, tries, prs, attempts>>
      \/ StartsFromMain
      \/ CreatesSandbox
      \/ FixerRuns
      \/ RecordsFailure
      \/ SkipsMerge
      \/ (\E m \in {main, Elsewhere} : Merges(m))
      \/ Undoes
      \/ UndoneInPlace
      \/ Resets
      \/ FallsBack
      \/ ReportsLeak
      \/ PushesAsUsual
      \/ CreatesBranchAtBase
      \/ Pushes
      \/ PushFails
      \/ OpensPR
      \/ OpenPRFails
      \/ Comments
      \/ DeletesStrayBranch
      \/ HandsOver
      \/ FindsNoProblems
      \/ ClosesSandbox
      \/ LeavesSandbox
      \/ Throws
      \/ MainMoves
      \/ Stray
    BY DEF Next, HostStep, Ended, vars, DeveloperRuns, Edits, DeveloperStops,
        RefusedRole, HitsUsageLimit, StopsUncounted, NothingAhead, StillNothingAhead,
        GateBegins, GateIsRed, GateExits, GateChecksWorktree, GateEnds, FixerStops,
        ScribeRuns, ScribeStops, ReviewerRuns, ReviewerStops, UndoneElsewhere,
        CannotFallBack, Scans, Trusted, PushRefused, LimitReached
<1> QED
    BY ONLY <1>1, <1>2, <1>3, <1>4, <1>5, <1>6, <1>7, <1>8, <1>9, <1>10, <1>11, <1>12,
        <1>13, <1>14, <1>15, <1>16, <1>17, <1>18, <1>19, <1>20, <1>21, <1>22, <1>23,
        <1>24, <1>25, <1>26, <1>27

\* The types of the program counter and of what was decided.
LEMMA StepsStep ==
    ASSUME TypeOK, [Next]_vars
    PROVE  StepsOK'
<1> USE DEF Goto, Fault, frame, world, tree, gate, reviewing, records, github, history,
        Steps, OpenSteps, GateSteps
<1>1. CASE StartsFromMain \/ CreatesSandbox \/ DeveloperRuns \/ DeveloperStops \/
             NothingAhead \/ StillNothingAhead
    BY <1>1 DEF StartsFromMain, CreatesSandbox, DeveloperRuns, Edits, DeveloperStops,
        RefusedRole, HitsUsageLimit, StopsUncounted, NothingAhead, StillNothingAhead,
        StepsOK, TypeOK
<1>2. CASE GateBegins \/ GateExits \/ GateChecksWorktree \/ GateEnds \/ FixerRuns \/
             FixerStops \/ RecordsFailure
    BY <1>2 DEF GateBegins, GateIsRed, GateExits, GateChecksWorktree, GateEnds,
        FixerRuns, Edits, FixerStops, RefusedRole, HitsUsageLimit, StopsUncounted,
        RecordsFailure, StepsOK, TypeOK
<1>3. CASE ScribeRuns \/ ScribeStops \/ ReviewerRuns \/ ReviewerStops
    BY <1>3 DEF ScribeRuns, Edits, ScribeStops, RefusedRole, HitsUsageLimit,
        StopsUncounted, ReviewerRuns, ReviewerStops, StepsOK, TypeOK
<1>4. CASE SkipsMerge \/ (\E m \in {main, Elsewhere} : Merges(m)) \/ Undoes \/
             UndoneInPlace \/ UndoneElsewhere \/ Resets \/ FallsBack \/ CannotFallBack
    BY <1>4 DEF SkipsMerge, Checkpoint2, Merges, Undoes, HardReset, UndoneInPlace,
        UndoneElsewhere, Resets, FallsBack, CannotFallBack, StepsOK, TypeOK
<1>5. CASE (\E m \in {Elsewhere} \union 0 .. MaxMain : Scans(m)) \/ ReportsLeak \/
             PushesAsUsual \/ CreatesBranchAtBase \/ Pushes \/ PushFails \/ PushRefused
    BY <1>5 DEF Scans, Trusted, ReportsLeak, PushesAsUsual, CreatesBranchAtBase, Pushes,
        PushFails, Retries, GivesUp, PushRefused, StepsOK, TypeOK
<1>6. CASE OpensPR \/ OpenPRFails \/ Comments \/ DeletesStrayBranch \/ HandsOver
    BY <1>6 DEF OpensPR, PRCreated, OpenPRFails, Retries, GivesUp, Comments,
        DeletesStrayBranch, HandsOver, StepsOK, TypeOK
<1>7. CASE FindsNoProblems \/ ClosesSandbox \/ LeavesSandbox \/ Throws
    BY <1>7 DEF FindsNoProblems, ClosesSandbox, LeavesSandbox, Throws, StepsOK, TypeOK
<1>8. CASE MainMoves
    BY <1>8 DEF MainMoves, StepsOK, TypeOK
<1>9. CASE LimitReached
    BY <1>9 DEF LimitReached, StepsOK, TypeOK
<1>10. CASE Stray
    BY <1>10 DEF Stray, StepsOK, TypeOK
<1>11. CASE UNCHANGED vars
    BY <1>11 DEF vars, StepsOK, TypeOK
<1> QED
    BY ONLY [Next]_vars, <1>1, <1>2, <1>3, <1>4, <1>5, <1>6, <1>7, <1>8, <1>9, <1>10,
        <1>11 DEF Next, HostStep, Ended

\* The types of the worktree, the sandbox and the records.
LEMMA PlacesStep ==
    ASSUME TypeOK, [Next]_vars
    PROVE  PlacesOK'
<1> USE DEF Goto, Fault, frame, world, tree, gate, reviewing, records, github, history
<1>1. CASE DeveloperRuns
    <2>1. todo' \in {todo, Tail(todo)} /\ todo # <<>>
        BY <1>1 DEF DeveloperRuns
    <2>2. todo \in Seq({"architect", "tester", "backend", "ui"})
        BY DEF TypeOK
    <2>3. todo' \in Seq({"architect", "tester", "backend", "ui"})
        BY ONLY <2>1, <2>2
    <2>4. /\ UNCHANGED <<picked, box, atBase, handed, said>>
          /\ dirty' \in SUBSET {"tracked", "untracked"}
        BY <1>1 DEF DeveloperRuns, Edits
    <2> QED
        BY <2>3, <2>4 DEF PlacesOK, TypeOK
<1>2. CASE DeveloperStops
    BY <1>2 DEF DeveloperStops, RefusedRole, HitsUsageLimit, StopsUncounted, Edits,
        PlacesOK, TypeOK
<1>3. CASE FixerRuns
    BY <1>3 DEF FixerRuns, Edits, PlacesOK, TypeOK
<1>4. CASE FixerStops
    BY <1>4 DEF FixerStops, RefusedRole, HitsUsageLimit, StopsUncounted, Edits,
        PlacesOK, TypeOK
<1>5. CASE ScribeRuns
    BY <1>5 DEF ScribeRuns, Edits, PlacesOK, TypeOK
<1>6. CASE ScribeStops
    BY <1>6 DEF ScribeStops, RefusedRole, HitsUsageLimit, StopsUncounted, Edits,
        PlacesOK, TypeOK
<1>7. CASE ReviewerRuns
    BY <1>7 DEF ReviewerRuns, Edits, PlacesOK, TypeOK
<1>8. CASE ReviewerStops
    BY <1>8 DEF ReviewerStops, RefusedRole, HitsUsageLimit, StopsUncounted, Edits,
        PlacesOK, TypeOK
<1>9. CASE CreatesSandbox
    BY <1>9 DEF CreatesSandbox, PlacesOK, TypeOK
<1>10. CASE (\E m \in {main, Elsewhere} : Merges(m))
    BY <1>10 DEF Merges, PlacesOK, TypeOK
<1>11. CASE Undoes
    BY <1>11 DEF Undoes, HardReset, PlacesOK, TypeOK
<1>12. CASE Resets
    BY <1>12 DEF Resets, HardReset, PlacesOK, TypeOK
<1>13. CASE Stray
    BY <1>13 DEF Stray, PlacesOK, TypeOK
<1>14. CASE ReportsLeak
    BY <1>14 DEF ReportsLeak, PlacesOK, TypeOK
<1>15. CASE CreatesBranchAtBase
    BY <1>15 DEF CreatesBranchAtBase, PlacesOK, TypeOK
<1>16. CASE Comments
    BY <1>16 DEF Comments, PlacesOK, TypeOK
<1>17. CASE HandsOver
    BY <1>17 DEF HandsOver, PlacesOK, TypeOK
<1>18. CASE FindsNoProblems \/ ClosesSandbox
    BY <1>18 DEF FindsNoProblems, ClosesSandbox, PlacesOK, TypeOK
<1>19. CASE LeavesSandbox
    BY <1>19 DEF LeavesSandbox, PlacesOK, TypeOK
<1>20. CASE UNCHANGED <<picked, todo, box, dirty, atBase, handed, said>>
    BY <1>20 DEF PlacesOK, TypeOK
<1>21. \/ UNCHANGED <<picked, todo, box, dirty, atBase, handed, said>>
      \/ DeveloperRuns
      \/ DeveloperStops
      \/ FixerRuns
      \/ FixerStops
      \/ ScribeRuns
      \/ ScribeStops
      \/ ReviewerRuns
      \/ ReviewerStops
      \/ CreatesSandbox
      \/ (\E m \in {main, Elsewhere} : Merges(m))
      \/ Undoes
      \/ Resets
      \/ Stray
      \/ ReportsLeak
      \/ CreatesBranchAtBase
      \/ Comments
      \/ HandsOver
      \/ FindsNoProblems
      \/ ClosesSandbox
      \/ LeavesSandbox
    BY DEF Next, HostStep, Ended, vars, StartsFromMain, NothingAhead, StillNothingAhead,
        GateBegins, GateIsRed, GateExits, GateChecksWorktree, GateEnds, RecordsFailure,
        SkipsMerge, Checkpoint2, UndoneInPlace, UndoneElsewhere, FallsBack,
        CannotFallBack, Scans, Trusted, PushesAsUsual, Pushes, PushFails, Retries,
        GivesUp, PushRefused, OpensPR, PRCreated, OpenPRFails, DeletesStrayBranch,
        Throws, MainMoves, LimitReached
<1> QED
    BY ONLY <1>1, <1>2, <1>3, <1>4, <1>5, <1>6, <1>7, <1>8, <1>9, <1>10, <1>11, <1>12,
        <1>13, <1>14, <1>15, <1>16, <1>17, <1>18, <1>19, <1>20, <1>21

\* Together, the type invariant.
LEMMA TypesStep ==
    ASSUME TypeOK, RoomToTry, [Next]_vars
    PROVE  TypeOK'
<1>1. FlagsOK' /\ CommitsOK' /\ CountsOK' /\ StepsOK' /\ PlacesOK'
    BY FlagsStep, CommitsStep, CountsStep, StepsStep, PlacesStep
<1> QED
    BY <1>1 DEF TypeOK, FlagsOK, CommitsOK, CountsOK, StepsOK, PlacesOK

------------------------------------------------------------------------------
(* The steps of the facts.                                                    *)

\* What a role's edits do to the commits the invariants speak of.
LEMMA EditsAdd ==
    ASSUME TypeOK, NEW kind \in {"work", "fixer"}, Edits(kind)
    PROVE  /\ head'.unseen \in {head.unseen, head.unseen \union {kind}}
           /\ head'.n \in {head.n} \union 2 .. 9
<1>1. /\ head \in [n : Int, main : Int, unseen : SUBSET {"work", "fixer", "main", "stray"}]
      /\ Fresh \in 2 .. 9
    BY FreshIsNew DEF TypeOK, Commits
<1> QED
    BY <1>1 DEF Edits

\* What is in the commits with a name.
LEMMA NamedNumbers ==
    /\ NoCommit.n = -1 /\ Base.n = 0 /\ Kept.n = 1 /\ Older = -2
    /\ Base.unseen = {} /\ Kept.unseen = {"work"} /\ NoCommit.unseen = {}
    BY DEF NoCommit, Base, Kept, Older

\* GateIsRed and Retries look at the attempts before they go on.
LEMMA RoomToTryStep ==
    ASSUME TypeOK, RoomToTry, [Next]_vars
    PROVE  RoomToTry'
<1> USE FreshIsNew DEF Goto, Fault, frame, world, tree, gate, reviewing, records,
        github, history, RoomToTry, TypeOK
<1>1. CASE StartsFromMain \/ CreatesSandbox \/ DeveloperRuns \/ DeveloperStops \/
             NothingAhead \/ StillNothingAhead
    BY <1>1, ConstantsAssumption DEF StartsFromMain, CreatesSandbox, DeveloperRuns,
        Edits, DeveloperStops, RefusedRole, HitsUsageLimit, StopsUncounted,
        NothingAhead, StillNothingAhead
<1>2. CASE GateBegins \/ GateExits \/ GateChecksWorktree \/ GateEnds \/ FixerRuns \/
             FixerStops \/ RecordsFailure
    BY <1>2, ConstantsAssumption DEF GateBegins, GateIsRed, GateExits,
        GateChecksWorktree, GateEnds, FixerRuns, Edits, FixerStops, RefusedRole,
        HitsUsageLimit, StopsUncounted, RecordsFailure
<1>3. CASE ScribeRuns \/ ScribeStops \/ ReviewerRuns \/ ReviewerStops
    BY <1>3, ConstantsAssumption DEF ScribeRuns, Edits, ScribeStops, RefusedRole,
        HitsUsageLimit, StopsUncounted, ReviewerRuns, ReviewerStops
<1>4. CASE SkipsMerge \/ (\E m \in {main, Elsewhere} : Merges(m)) \/ Undoes \/
             UndoneInPlace \/ UndoneElsewhere \/ Resets \/ FallsBack \/ CannotFallBack
    BY <1>4, ConstantsAssumption DEF SkipsMerge, Checkpoint2, Merges, Undoes, HardReset,
        UndoneInPlace, UndoneElsewhere, Resets, FallsBack, CannotFallBack
<1>5. CASE (\E m \in {Elsewhere} \union 0 .. MaxMain : Scans(m)) \/ ReportsLeak \/
             PushesAsUsual \/ CreatesBranchAtBase \/ Pushes \/ PushFails \/ PushRefused
    BY <1>5, ConstantsAssumption DEF Scans, Trusted, ReportsLeak, PushesAsUsual,
        CreatesBranchAtBase, Pushes, PushFails, Retries, GivesUp, PushRefused
<1>6. CASE OpensPR \/ OpenPRFails \/ Comments \/ DeletesStrayBranch \/ HandsOver
    BY <1>6, ConstantsAssumption DEF OpensPR, PRCreated, OpenPRFails, Retries, GivesUp,
        Comments, DeletesStrayBranch, HandsOver
<1>7. CASE FindsNoProblems \/ ClosesSandbox \/ LeavesSandbox \/ Throws
    BY <1>7, ConstantsAssumption DEF FindsNoProblems, ClosesSandbox, LeavesSandbox, Throws
<1>8. CASE MainMoves
    BY <1>8, ConstantsAssumption DEF MainMoves
<1>9. CASE LimitReached
    BY <1>9, ConstantsAssumption DEF LimitReached
<1>10. CASE Stray
    BY <1>10, ConstantsAssumption DEF Stray
<1>11. CASE UNCHANGED vars
    BY <1>11 DEF vars
<1> QED
    BY ONLY [Next]_vars, <1>1, <1>2, <1>3, <1>4, <1>5, <1>6, <1>7, <1>8, <1>9, <1>10,
        <1>11 DEF Next, HostStep, Ended

\* HEAD only moves on to a new commit, so a gate that began on a commit still
\* at HEAD checked that commit.
LEMMA GateIsFairStep ==
    ASSUME TypeOK, GateIsFair, [Next]_vars
    PROVE  GateIsFair'
<1> USE FreshIsNew DEF Goto, Fault, frame, world, tree, gate, reviewing, records,
        github, history, GateIsFair
<1>1. CASE StartsFromMain \/ CreatesSandbox \/ DeveloperRuns \/ DeveloperStops \/
             NothingAhead \/ StillNothingAhead
    BY <1>1 DEF StartsFromMain, CreatesSandbox, DeveloperRuns, Edits, DeveloperStops,
        RefusedRole, HitsUsageLimit, StopsUncounted, NothingAhead, StillNothingAhead
<1>2. CASE GateBegins \/ GateExits \/ GateChecksWorktree \/ GateEnds \/ FixerRuns \/
             FixerStops \/ RecordsFailure
    BY <1>2 DEF GateBegins, GateIsRed, GateExits, GateChecksWorktree, GateEnds,
        FixerRuns, Edits, FixerStops, RefusedRole, HitsUsageLimit, StopsUncounted,
        RecordsFailure
<1>3. CASE ScribeRuns \/ ScribeStops \/ ReviewerRuns \/ ReviewerStops
    BY <1>3 DEF ScribeRuns, Edits, ScribeStops, RefusedRole, HitsUsageLimit,
        StopsUncounted, ReviewerRuns, ReviewerStops
<1>4. CASE SkipsMerge \/ (\E m \in {main, Elsewhere} : Merges(m)) \/ Undoes \/
             UndoneInPlace \/ UndoneElsewhere \/ Resets \/ FallsBack \/ CannotFallBack
    BY <1>4 DEF SkipsMerge, Checkpoint2, Merges, Undoes, HardReset, UndoneInPlace,
        UndoneElsewhere, Resets, FallsBack, CannotFallBack
<1>5. CASE (\E m \in {Elsewhere} \union 0 .. MaxMain : Scans(m)) \/ ReportsLeak \/
             PushesAsUsual \/ CreatesBranchAtBase \/ Pushes \/ PushFails \/ PushRefused
    BY <1>5 DEF Scans, Trusted, ReportsLeak, PushesAsUsual, CreatesBranchAtBase, Pushes,
        PushFails, Retries, GivesUp, PushRefused
<1>6. CASE OpensPR \/ OpenPRFails \/ Comments \/ DeletesStrayBranch \/ HandsOver
    BY <1>6 DEF OpensPR, PRCreated, OpenPRFails, Retries, GivesUp, Comments,
        DeletesStrayBranch, HandsOver
<1>7. CASE FindsNoProblems \/ ClosesSandbox \/ LeavesSandbox \/ Throws
    BY <1>7 DEF FindsNoProblems, ClosesSandbox, LeavesSandbox, Throws
<1>8. CASE MainMoves
    BY <1>8 DEF MainMoves
<1>9. CASE LimitReached
    BY <1>9 DEF LimitReached
<1>10. CASE Stray
    BY <1>10 DEF Stray
<1>11. CASE UNCHANGED vars
    BY <1>11 DEF vars
<1> QED
    BY ONLY [Next]_vars, <1>1, <1>2, <1>3, <1>4, <1>5, <1>6, <1>7, <1>8, <1>9, <1>10,
        <1>11 DEF Next, HostStep, Ended

\* Each way out of a merge under way ends it, or ends the build.
LEMMA MergeIsUndoneStep ==
    ASSUME TypeOK, MergeIsUndone, [Next]_vars
    PROVE  MergeIsUndone'
<1> USE FreshIsNew DEF Goto, Fault, frame, world, tree, gate, reviewing, records,
        github, history, MergeIsUndone, Over, Undoing, Publishing, OpenSteps, GateSteps,
        BackAtReviewed
<1>1. CASE StartsFromMain \/ CreatesSandbox \/ DeveloperRuns \/ DeveloperStops \/
             NothingAhead \/ StillNothingAhead
    BY <1>1 DEF StartsFromMain, CreatesSandbox, DeveloperRuns, Edits, DeveloperStops,
        RefusedRole, HitsUsageLimit, StopsUncounted, NothingAhead, StillNothingAhead
<1>2. CASE GateBegins \/ GateExits \/ GateChecksWorktree \/ GateEnds \/ FixerRuns \/
             FixerStops \/ RecordsFailure
    BY <1>2 DEF GateBegins, GateIsRed, GateExits, GateChecksWorktree, GateEnds,
        FixerRuns, Edits, FixerStops, RefusedRole, HitsUsageLimit, StopsUncounted,
        RecordsFailure
<1>3. CASE ScribeRuns \/ ScribeStops \/ ReviewerRuns \/ ReviewerStops
    BY <1>3 DEF ScribeRuns, Edits, ScribeStops, RefusedRole, HitsUsageLimit,
        StopsUncounted, ReviewerRuns, ReviewerStops
<1>4. CASE SkipsMerge \/ (\E m \in {main, Elsewhere} : Merges(m)) \/ Undoes \/
             UndoneInPlace \/ UndoneElsewhere \/ Resets \/ FallsBack \/ CannotFallBack
    BY <1>4 DEF SkipsMerge, Checkpoint2, Merges, Undoes, HardReset, UndoneInPlace,
        UndoneElsewhere, Resets, FallsBack, CannotFallBack
<1>5. CASE (\E m \in {Elsewhere} \union 0 .. MaxMain : Scans(m)) \/ ReportsLeak \/
             PushesAsUsual \/ CreatesBranchAtBase \/ Pushes \/ PushFails \/ PushRefused
    BY <1>5 DEF Scans, Trusted, ReportsLeak, PushesAsUsual, CreatesBranchAtBase, Pushes,
        PushFails, Retries, GivesUp, PushRefused
<1>6. CASE OpensPR \/ OpenPRFails \/ Comments \/ DeletesStrayBranch \/ HandsOver
    BY <1>6 DEF OpensPR, PRCreated, OpenPRFails, Retries, GivesUp, Comments,
        DeletesStrayBranch, HandsOver
<1>7. CASE FindsNoProblems \/ ClosesSandbox \/ LeavesSandbox \/ Throws
    BY <1>7 DEF FindsNoProblems, ClosesSandbox, LeavesSandbox, Throws
<1>8. CASE MainMoves
    BY <1>8 DEF MainMoves
<1>9. CASE LimitReached
    BY <1>9 DEF LimitReached
<1>10. CASE Stray
    BY <1>10 DEF Stray
<1>11. CASE UNCHANGED vars
    BY <1>11 DEF vars
<1> QED
    BY ONLY [Next]_vars, <1>1, <1>2, <1>3, <1>4, <1>5, <1>6, <1>7, <1>8, <1>9, <1>10,
        <1>11 DEF Next, HostStep, Ended

\* The commit the gate passed on is not replaced before the build ends; a later
\* move of main only adds to what was main's.
LEMMA PublishesGatedStep ==
    ASSUME TypeOK, GateIsFair, MergeIsUndone, PublishesGated, [Next]_vars
    PROVE  PublishesGated'
<1> USE FreshIsNew DEF Goto, Fault, frame, world, tree, gate, reviewing, records,
        github, history, PublishesGated, GateIsFair, MergeIsUndone, Over, Undoing,
        Publishing, Scanned, OpenSteps, GateSteps, BackAtReviewed, HardReset, Edits,
        NoCommit, Base, Kept, Older, Pushed
<1>1. CASE StartsFromMain \/ CreatesSandbox \/ DeveloperRuns \/ DeveloperStops \/
             NothingAhead \/ StillNothingAhead
    BY <1>1, ConstantsAssumption DEF StartsFromMain, CreatesSandbox, DeveloperRuns,
        Edits, DeveloperStops, RefusedRole, HitsUsageLimit, StopsUncounted,
        NothingAhead, StillNothingAhead
<1>2. CASE GateBegins \/ GateExits \/ GateChecksWorktree \/ GateEnds \/ FixerRuns \/
             FixerStops \/ RecordsFailure
    BY <1>2, ConstantsAssumption DEF GateBegins, GateIsRed, GateExits,
        GateChecksWorktree, GateEnds, FixerRuns, Edits, FixerStops, RefusedRole,
        HitsUsageLimit, StopsUncounted, RecordsFailure
<1>3. CASE ScribeRuns \/ ScribeStops \/ ReviewerRuns \/ ReviewerStops
    BY <1>3, ConstantsAssumption DEF ScribeRuns, Edits, ScribeStops, RefusedRole,
        HitsUsageLimit, StopsUncounted, ReviewerRuns, ReviewerStops
<1>4. CASE SkipsMerge \/ (\E m \in {main, Elsewhere} : Merges(m)) \/ Undoes \/
             UndoneInPlace \/ UndoneElsewhere \/ Resets \/ FallsBack \/ CannotFallBack
    BY <1>4, ConstantsAssumption DEF SkipsMerge, Checkpoint2, Merges, Undoes, HardReset,
        UndoneInPlace, UndoneElsewhere, Resets, FallsBack, CannotFallBack
<1>5. CASE (\E m \in {Elsewhere} \union 0 .. MaxMain : Scans(m))
    <2>1. PICK m \in {Elsewhere} \union 0 .. MaxMain : Scans(m)
        BY <1>5
    <2>2. main \in Nat /\ UNCHANGED <<gated, green, remote, main>> /\ pc = "scan"
        BY <2>1, ConstantsAssumption DEF Scans, TypeOK
    <2>3. scanned'.commit = gated /\ scanned'.except \in 0 .. main
        <3>1. m \in 0 .. main
            BY <2>1, <2>2 DEF Scans, Trusted
        <3> QED
            BY <2>1, <3>1 DEF Scans
    <2>4. pc' \in {"leak", "branch"} /\ ~Pushed
        BY <2>1 DEF Scans
    <2> QED
        BY <2>2, <2>3, <2>4
<1>6. CASE ReportsLeak \/ PushesAsUsual \/ CreatesBranchAtBase \/ Pushes \/ PushFails
             \/ PushRefused
    BY <1>6, ConstantsAssumption DEF ReportsLeak, PushesAsUsual, CreatesBranchAtBase,
        Pushes, PushFails, Retries, GivesUp, PushRefused
<1>7. CASE OpensPR \/ OpenPRFails \/ Comments \/ DeletesStrayBranch \/ HandsOver
    BY <1>7, ConstantsAssumption DEF OpensPR, PRCreated, OpenPRFails, Retries, GivesUp,
        Comments, DeletesStrayBranch, HandsOver
<1>8. CASE FindsNoProblems \/ ClosesSandbox \/ LeavesSandbox \/ Throws
    BY <1>8, ConstantsAssumption DEF FindsNoProblems, ClosesSandbox, LeavesSandbox, Throws
<1>9. CASE MainMoves
    <2>1. main \in Nat /\ main' = main + 1
        BY <1>9, ConstantsAssumption DEF MainMoves, TypeOK
    <2>2. \A x : x \in 0 .. main => x \in 0 .. main'
        BY ONLY <2>1
    <2>3. UNCHANGED <<pc, gated, green, scanned, remote>>
        BY <1>9 DEF MainMoves
    <2> QED
        BY <2>2, <2>3
<1>10. CASE LimitReached
    BY <1>10, ConstantsAssumption DEF LimitReached
<1>11. CASE Stray
    BY <1>11, ConstantsAssumption DEF Stray
<1>12. CASE UNCHANGED vars
    BY <1>12 DEF vars
<1> QED
    BY ONLY [Next]_vars, <1>1, <1>2, <1>3, <1>4, <1>5, <1>6, <1>7, <1>8, <1>9, <1>10,
        <1>11, <1>12 DEF Next, HostStep, Ended

\* The fixer runs after the merge only at checkpoint 2, where the merge is gone
\* or the gate passed on it.
LEMMA FixerStaysOffMainStep ==
    ASSUME TypeOK, MergeIsUndone, PublishesGated, FixerStaysOffMain, [Next]_vars
    PROVE  FixerStaysOffMain'
<1> USE FreshIsNew DEF Goto, Fault, frame, world, tree, gate, reviewing, records,
        github, history, FixerStaysOffMain, MergeIsUndone, PublishesGated, Mixed,
        TypeOK, Commits, Over, Undoing, Publishing, Scanned, OpenSteps, GateSteps,
        BackAtReviewed, HardReset, Edits, NoCommit, Base, Kept, Older, Pushed
<1>1. CASE StartsFromMain
    <2>1. /\ UNCHANGED <<cp, reviewedHead, gated, atBase, review, prs, prNote>>
          /\ pc = "start" /\ pc' \in {"create", "ended"}
          /\ head' \in {head, Base}
          /\ remote' \in {remote, NoCommit}
          /\ faults' \in {faults, faults + 1}
        BY <1>1 DEF StartsFromMain
    <2>2. faults \in Nat
        BY ConstantsAssumption
    <2> HIDE DEF TypeOK, Commits, Edits, NoCommit, Base, Kept
    <2> QED
        BY <2>1, <2>2, NamedNumbers
<1>2. CASE DeveloperRuns
    <2>1. "work" \in {"work", "fixer"}
        OBVIOUS
    <2>2. /\ head'.unseen \in {head.unseen, head.unseen \union {"work"}}
          /\ head'.n \in {head.n} \union 2 .. 9
        <3>1. Edits("work")
            BY <1>2 DEF DeveloperRuns
        <3> HIDE DEF TypeOK
        <3> QED
            BY <2>1, <3>1, EditsAdd
    <2>3. /\ UNCHANGED <<cp, review, reviewedHead, gated, remote, prs, prNote, faults, atBase>>
          /\ pc = "roles" /\ pc' \in {"roles", "record"}
        BY <1>2 DEF DeveloperRuns
    <2> HIDE DEF TypeOK, Commits, Edits
    <2> QED
        BY <2>2, <2>3
<1>3. CASE CreatesSandbox \/ DeveloperStops \/ NothingAhead \/ StillNothingAhead
    BY <1>3 DEF CreatesSandbox, DeveloperStops, RefusedRole, HitsUsageLimit,
        StopsUncounted, Edits, NothingAhead, StillNothingAhead
<1>4. CASE FixerRuns
    <2> DEFINE kind == IF cp = "checkpoint1" THEN "work" ELSE "fixer"
    <2>1. kind \in {"work", "fixer"}
        OBVIOUS
    <2>2. /\ head'.unseen \in {head.unseen, head.unseen \union {kind}}
          /\ head'.n \in {head.n} \union 2 .. 9
        <3>1. Edits(kind)
            BY <1>4 DEF FixerRuns
        <3> HIDE DEF TypeOK
        <3> QED
            BY <2>1, <3>1, EditsAdd
    <2>3. /\ UNCHANGED <<cp, review, reviewedHead, gated, remote, prs, prNote, faults, atBase>>
          /\ pc = "fixing" /\ pc' = "gate"
        BY <1>4 DEF FixerRuns
    <2>4. cp \in {"checkpoint1", "checkpoint2"}
        BY <2>3
    <2> HIDE DEF TypeOK, Commits, Edits
    <2>5. CASE cp = "checkpoint1"
        BY <2>2, <2>3, <2>5
    <2>6. CASE cp = "checkpoint2"
        BY <2>2, <2>3, <2>6
    <2> QED
        BY <2>4, <2>5, <2>6
<1>5. CASE GateBegins \/ GateExits \/ GateChecksWorktree \/ GateEnds \/ FixerStops \/
             RecordsFailure
    BY <1>5 DEF GateBegins, GateIsRed, GateExits, GateChecksWorktree, GateEnds,
        FixerStops, RefusedRole, HitsUsageLimit, StopsUncounted, Edits, RecordsFailure
<1>6. CASE ScribeRuns
    <2>1. "work" \in {"work", "fixer"}
        OBVIOUS
    <2>2. /\ head'.unseen \in {head.unseen, head.unseen \union {"work"}}
          /\ head'.n \in {head.n} \union 2 .. 9
        <3>1. Edits("work")
            BY <1>6 DEF ScribeRuns
        <3> HIDE DEF TypeOK
        <3> QED
            BY <2>1, <3>1, EditsAdd
    <2>3. /\ UNCHANGED <<cp, review, reviewedHead, gated, remote, prs, prNote, faults, atBase>>
          /\ pc = "scribe" /\ pc' = "reviewer"
        BY <1>6 DEF ScribeRuns
    <2> HIDE DEF TypeOK, Commits, Edits
    <2> QED
        BY <2>2, <2>3
<1>7. CASE ReviewerRuns
    <2>1. CASE /\ review' \in {"finished", "unfinished"}
               /\ \E n \in {head.n, Fresh} : head' = [head EXCEPT !.n = n, !.unseen = {}]
        <3>1. head'.unseen = {} /\ head'.n \in {head.n, Fresh} /\ Fresh \in 2 .. 9
            BY <2>1
        <3>2. /\ UNCHANGED <<cp, reviewedHead, gated, remote, prs, prNote, faults, atBase>>
              /\ pc = "reviewer" /\ pc' = "sync"
            BY <1>7 DEF ReviewerRuns
        <3> HIDE DEF TypeOK, Commits, Edits
        <3> QED
            BY <3>1, <3>2
    <2>2. CASE review' = "failed" /\ Edits("work")
        <3>1. /\ head'.unseen \in {head.unseen, head.unseen \union {"work"}}
              /\ head'.n \in {head.n} \union 2 .. 9
            <4> HIDE DEF TypeOK
            <4>1. "work" \in {"work", "fixer"}
                OBVIOUS
            <4> QED
                BY <2>2, <4>1, EditsAdd
        <3>2. /\ UNCHANGED <<cp, reviewedHead, gated, remote, prs, prNote, faults, atBase>>
              /\ pc = "reviewer" /\ pc' = "sync"
            BY <1>7 DEF ReviewerRuns
        <3> HIDE DEF TypeOK, Commits, Edits
        <3> QED
            BY <3>1, <3>2
    <2> QED
        BY <1>7, <2>1, <2>2 DEF ReviewerRuns
<1>8. CASE ScribeStops \/ ReviewerStops
    BY <1>8 DEF ScribeStops, RefusedRole, HitsUsageLimit, StopsUncounted, Edits,
        ReviewerStops
<1>9. CASE (\E m \in {main, Elsewhere} : Merges(m))
    BY <1>9 DEF Merges
<1>10. CASE Undoes
    BY <1>10 DEF Undoes, HardReset
<1>11. CASE UndoneInPlace
    BY <1>11 DEF UndoneInPlace, Checkpoint2
<1>12. CASE Resets
    BY <1>12 DEF Resets, HardReset
<1>13. CASE FallsBack
    BY <1>13 DEF FallsBack, Checkpoint2
<1>14. CASE SkipsMerge \/ UndoneElsewhere \/ CannotFallBack
    BY <1>14 DEF SkipsMerge, Checkpoint2, UndoneElsewhere, CannotFallBack
<1>15. CASE (\E m \in {Elsewhere} \union 0 .. MaxMain : Scans(m)) \/ ReportsLeak \/
             PushesAsUsual \/ CreatesBranchAtBase \/ Pushes \/ PushFails \/ PushRefused
    BY <1>15 DEF Scans, Trusted, ReportsLeak, PushesAsUsual, CreatesBranchAtBase,
        Pushes, PushFails, Retries, GivesUp, PushRefused
<1>16. CASE OpensPR \/ OpenPRFails \/ Comments \/ DeletesStrayBranch \/ HandsOver
    BY <1>16 DEF OpensPR, PRCreated, OpenPRFails, Retries, GivesUp, Comments,
        DeletesStrayBranch, HandsOver
<1>17. CASE FindsNoProblems \/ ClosesSandbox \/ LeavesSandbox \/ Throws
    BY <1>17 DEF FindsNoProblems, ClosesSandbox, LeavesSandbox, Throws
<1>18. CASE MainMoves
    BY <1>18 DEF MainMoves
<1>19. CASE LimitReached
    BY <1>19 DEF LimitReached
<1>20. CASE Stray
    <2>1. UNCHANGED <<pc, cp, reviewedHead, gated>>
        BY <1>20 DEF Stray
    <2>2. /\ "fixer" \in head'.unseen => "fixer" \in head.unseen
          /\ "main" \in head'.unseen => "main" \in head.unseen \/ merging
        <3>1. CASE UNCHANGED head
            BY <3>1
        <3>2. CASE head'.unseen = head.unseen \union {"stray"} \union (IF merging THEN {"main"} ELSE {})
            <4>1. CASE merging
                BY <3>2, <4>1
            <4>2. CASE ~merging
                BY <3>2, <4>2
            <4> QED
                BY <4>1, <4>2
        <3> QED
            BY <1>20, <3>1, <3>2 DEF Stray
    <2> HIDE DEF TypeOK, Commits, Edits
    <2> QED
        BY <2>1, <2>2
<1>21. CASE UNCHANGED vars
    BY <1>21 DEF vars
<1> QED
    BY ONLY [Next]_vars, <1>1, <1>2, <1>3, <1>4, <1>5, <1>6, <1>7, <1>8, <1>9, <1>10,
        <1>11, <1>12, <1>13, <1>14, <1>15, <1>16, <1>17, <1>18, <1>19, <1>20, <1>21 DEF Next, HostStep, Ended

\* After the reviewer's run no role but the fixer of checkpoint 2 edits.
LEMMA ReviewIsKeptStep ==
    ASSUME TypeOK, MergeIsUndone, PublishesGated, ReviewIsKept, EndAgrees, [Next]_vars
    PROVE  ReviewIsKept'
<1> USE FreshIsNew DEF Goto, Fault, frame, world, tree, gate, reviewing, records,
        github, history, ReviewIsKept, Reviewed, MergeIsUndone, PublishesGated,
        EndAgrees, TypeOK, Commits, Over, Undoing, Publishing, Scanned, OpenSteps,
        GateSteps, BackAtReviewed, HardReset, Edits, NoCommit, Base, Kept, Older, Pushed
<1>1. CASE StartsFromMain \/ CreatesSandbox \/ DeveloperRuns \/ DeveloperStops \/
             NothingAhead \/ StillNothingAhead
    BY <1>1 DEF StartsFromMain, CreatesSandbox, DeveloperRuns, Edits, DeveloperStops,
        RefusedRole, HitsUsageLimit, StopsUncounted, NothingAhead, StillNothingAhead
<1>2. CASE FixerRuns
    <2> DEFINE kind == IF cp = "checkpoint1" THEN "work" ELSE "fixer"
    <2>1. kind \in {"work", "fixer"}
        OBVIOUS
    <2>2. /\ head'.unseen \in {head.unseen, head.unseen \union {kind}}
          /\ head'.n \in {head.n} \union 2 .. 9
        <3>1. Edits(kind)
            BY <1>2 DEF FixerRuns
        <3> HIDE DEF TypeOK
        <3> QED
            BY <2>1, <3>1, EditsAdd
    <2>3. /\ UNCHANGED <<cp, review, reviewedHead, gated, remote, prs, prNote, faults, atBase>>
          /\ pc = "fixing" /\ pc' = "gate"
        BY <1>2 DEF FixerRuns
    <2> HIDE DEF TypeOK, Commits, Edits
    <2> QED
        BY <2>2, <2>3
<1>3. CASE GateBegins \/ GateExits \/ GateChecksWorktree \/ GateEnds \/ FixerStops \/
             RecordsFailure
    BY <1>3 DEF GateBegins, GateIsRed, GateExits, GateChecksWorktree, GateEnds,
        FixerStops, RefusedRole, HitsUsageLimit, StopsUncounted, Edits, RecordsFailure
<1>4. CASE ScribeRuns \/ ScribeStops \/ ReviewerRuns \/ ReviewerStops
    BY <1>4 DEF ScribeRuns, Edits, ScribeStops, RefusedRole, HitsUsageLimit,
        StopsUncounted, ReviewerRuns, ReviewerStops
<1>5. CASE (\E m \in {main, Elsewhere} : Merges(m))
    <2>1. PICK m \in {main, Elsewhere} : Merges(m)
        BY <1>5
    <2>2. /\ head'.unseen \in {head.unseen, head.unseen \union {"main"}}
          /\ head'.n \in {head.n} \union 2 .. 9
          /\ head' = head \/ (pc' = "gate" /\ cp' = "merged")
        <3>1. CASE head' = [n |-> Fresh, main |-> m, unseen |-> head.unseen \union {"main"}]
                   /\ pc' = "gate" /\ cp' = "merged"
            BY <3>1
        <3>2. CASE UNCHANGED head
            BY <3>2
        <3> QED
            BY <2>1, <3>1, <3>2 DEF Merges
    <2>3. /\ UNCHANGED <<review, gated, remote, prs, prNote, faults, atBase>>
          /\ reviewedHead' = head
          /\ pc = "sync"
          /\ (pc' = "gate" /\ cp' = "merged") \/ (pc' = "undo" /\ cp' = "checkpoint2")
        BY <2>1 DEF Merges
    <2> HIDE DEF TypeOK, Commits, Edits
    <2> QED
        BY <2>2, <2>3
<1>6. CASE SkipsMerge \/ Undoes \/ UndoneInPlace \/ UndoneElsewhere \/ Resets \/
             FallsBack \/ CannotFallBack
    BY <1>6 DEF SkipsMerge, Checkpoint2, Undoes, HardReset, UndoneInPlace,
        UndoneElsewhere, Resets, FallsBack, CannotFallBack
<1>7. CASE (\E m \in {Elsewhere} \union 0 .. MaxMain : Scans(m)) \/ ReportsLeak \/
             PushesAsUsual \/ CreatesBranchAtBase \/ Pushes \/ PushFails \/ PushRefused
    BY <1>7 DEF Scans, Trusted, ReportsLeak, PushesAsUsual, CreatesBranchAtBase, Pushes,
        PushFails, Retries, GivesUp, PushRefused
<1>8. CASE OpenPRFails
    <2>1. /\ UNCHANGED <<head, review, reviewedHead, cp, gated, remote>>
          /\ pc = "openPR" /\ pc' \in {"openPR", "comment"}
        BY <1>8 DEF OpenPRFails, Retries, GivesUp
    <2>2. remote = gated /\ (Reviewed \/ review = "failed")
        BY <2>1 DEF TypeOK
    <2>3. CASE UNCHANGED <<prs, prNote>>
        <3> HIDE DEF TypeOK, Commits, Edits
        <3> QED
            BY <2>1, <2>3
    <2>4. CASE PRCreated
        <3>1. prNote' = (review = "failed")
            BY <2>4 DEF PRCreated
        <3>2. ~prNote' => Reviewed /\ remote = gated /\ "work" \notin gated.unseen
            BY <2>1, <2>2, <3>1
        <3> HIDE DEF TypeOK, Commits, Edits
        <3> QED
            BY <2>1, <3>2
    <2> QED
        BY <1>8, <2>3, <2>4 DEF OpenPRFails
<1>9. CASE OpensPR \/ Comments \/ DeletesStrayBranch \/ HandsOver
    BY <1>9 DEF OpensPR, PRCreated, Comments, DeletesStrayBranch, HandsOver
<1>10. CASE FindsNoProblems \/ ClosesSandbox \/ LeavesSandbox \/ Throws
    BY <1>10 DEF FindsNoProblems, ClosesSandbox, LeavesSandbox, Throws
<1>11. CASE MainMoves
    BY <1>11 DEF MainMoves
<1>12. CASE LimitReached
    BY <1>12 DEF LimitReached
<1>13. CASE Stray
    BY <1>13 DEF Stray
<1>14. CASE UNCHANGED vars
    BY <1>14 DEF vars
<1> QED
    BY ONLY [Next]_vars, <1>1, <1>2, <1>3, <1>4, <1>5, <1>6, <1>7, <1>8, <1>9, <1>10,
        <1>11, <1>12, <1>13, <1>14 DEF Next, HostStep, Ended

\* The end agrees with what was counted and opened.
LEMMA EndAgreesStep ==
    ASSUME TypeOK, EndAgrees, PublishesGated, ReviewIsKept, [Next]_vars
    PROVE  EndAgrees'
<1> USE FreshIsNew DEF Goto, Fault, frame, world, tree, gate, reviewing, records,
        github, history, EndAgrees, Over, OpenSteps, GateSteps, Pushed, PublishesGated,
        ReviewIsKept
<1>1. CASE StartsFromMain \/ CreatesSandbox \/ DeveloperRuns \/ DeveloperStops \/
             NothingAhead \/ StillNothingAhead
    BY <1>1 DEF StartsFromMain, CreatesSandbox, DeveloperRuns, Edits, DeveloperStops,
        RefusedRole, HitsUsageLimit, StopsUncounted, NothingAhead, StillNothingAhead
<1>2. CASE GateBegins \/ GateExits \/ GateChecksWorktree \/ GateEnds \/ FixerRuns \/
             FixerStops \/ RecordsFailure
    BY <1>2 DEF GateBegins, GateIsRed, GateExits, GateChecksWorktree, GateEnds,
        FixerRuns, Edits, FixerStops, RefusedRole, HitsUsageLimit, StopsUncounted,
        RecordsFailure
<1>3. CASE ScribeRuns \/ ScribeStops \/ ReviewerRuns \/ ReviewerStops
    BY <1>3 DEF ScribeRuns, Edits, ScribeStops, RefusedRole, HitsUsageLimit,
        StopsUncounted, ReviewerRuns, ReviewerStops
<1>4. CASE SkipsMerge \/ (\E m \in {main, Elsewhere} : Merges(m)) \/ Undoes \/
             UndoneInPlace \/ UndoneElsewhere \/ Resets \/ FallsBack \/ CannotFallBack
    BY <1>4 DEF SkipsMerge, Checkpoint2, Merges, Undoes, HardReset, UndoneInPlace,
        UndoneElsewhere, Resets, FallsBack, CannotFallBack
<1>5. CASE (\E m \in {Elsewhere} \union 0 .. MaxMain : Scans(m)) \/ ReportsLeak \/
             PushesAsUsual \/ CreatesBranchAtBase \/ Pushes \/ PushFails \/ PushRefused
    BY <1>5 DEF Scans, Trusted, ReportsLeak, PushesAsUsual, CreatesBranchAtBase, Pushes,
        PushFails, Retries, GivesUp, PushRefused
<1>6. CASE OpensPR \/ OpenPRFails \/ Comments \/ DeletesStrayBranch \/ HandsOver
    BY <1>6 DEF OpensPR, PRCreated, OpenPRFails, Retries, GivesUp, Comments,
        DeletesStrayBranch, HandsOver
<1>7. CASE FindsNoProblems \/ ClosesSandbox \/ LeavesSandbox \/ Throws
    BY <1>7 DEF FindsNoProblems, ClosesSandbox, LeavesSandbox, Throws
<1>8. CASE MainMoves
    BY <1>8 DEF MainMoves
<1>9. CASE LimitReached
    BY <1>9 DEF LimitReached
<1>10. CASE Stray
    BY <1>10 DEF Stray
<1>11. CASE UNCHANGED vars
    BY <1>11 DEF vars
<1> QED
    BY ONLY [Next]_vars, <1>1, <1>2, <1>3, <1>4, <1>5, <1>6, <1>7, <1>8, <1>9, <1>10,
        <1>11 DEF Next, HostStep, Ended

\* What is published is past base, so that base on origin is the build's own.
LEMMA BaseIsTemporaryStep ==
    ASSUME TypeOK, MergeIsUndone, PublishesGated, BaseIsTemporary, [Next]_vars
    PROVE  BaseIsTemporary'
<1> USE FreshIsNew DEF Goto, Fault, frame, world, tree, gate, reviewing, records,
        github, history, BaseIsTemporary, Ahead, MergeIsUndone, PublishesGated, TypeOK,
        Commits, Over, Undoing, Publishing, Scanned, OpenSteps, GateSteps,
        BackAtReviewed, HardReset, Edits, NoCommit, Base, Kept, Older, Pushed
<1>1. CASE StartsFromMain
    <2>1. /\ UNCHANGED <<cp, reviewedHead, gated, atBase, review, prs, prNote>>
          /\ pc = "start" /\ pc' \in {"create", "ended"}
          /\ head' \in {head, Base}
          /\ remote' \in {remote, NoCommit}
          /\ faults' \in {faults, faults + 1}
        BY <1>1 DEF StartsFromMain
    <2>2. faults \in Nat
        BY ConstantsAssumption
    <2> HIDE DEF TypeOK, Commits, Edits, NoCommit, Base, Kept
    <2> QED
        BY <2>1, <2>2, NamedNumbers
<1>2. CASE CreatesSandbox
    <2>1. /\ UNCHANGED <<cp, reviewedHead, gated, atBase, head, remote>>
          /\ pc = "create" /\ pc' \in {"roles", "ended"}
          /\ faults' \in {faults, faults + 1}
        BY <1>2 DEF CreatesSandbox
    <2>2. faults \in Nat
        BY ConstantsAssumption
    <2> HIDE DEF TypeOK, Commits, Edits, NoCommit, Base, Kept
    <2> QED
        BY <2>1, <2>2, NamedNumbers
<1>3. CASE DeveloperRuns \/ DeveloperStops \/ NothingAhead \/ StillNothingAhead
    BY <1>3, ConstantsAssumption DEF DeveloperRuns, Edits, DeveloperStops, RefusedRole,
        HitsUsageLimit, StopsUncounted, NothingAhead, StillNothingAhead
<1>4. CASE GateBegins
    BY <1>4, ConstantsAssumption DEF GateBegins, GateIsRed
<1>5. CASE GateExits
    BY <1>5, ConstantsAssumption DEF GateExits, GateIsRed
<1>6. CASE GateChecksWorktree
    BY <1>6, ConstantsAssumption DEF GateChecksWorktree, GateIsRed
<1>7. CASE GateEnds
    BY <1>7, ConstantsAssumption DEF GateEnds, GateIsRed
<1>8. CASE FixerRuns
    <2> DEFINE kind == IF cp = "checkpoint1" THEN "work" ELSE "fixer"
    <2>1. kind \in {"work", "fixer"}
        OBVIOUS
    <2>2. /\ head'.unseen \in {head.unseen, head.unseen \union {kind}}
          /\ head'.n \in {head.n} \union 2 .. 9
        <3>1. Edits(kind)
            BY <1>8 DEF FixerRuns
        <3> HIDE DEF TypeOK
        <3> QED
            BY <2>1, <3>1, EditsAdd
    <2>3. /\ UNCHANGED <<cp, review, reviewedHead, gated, remote, prs, prNote, faults, atBase>>
          /\ pc = "fixing" /\ pc' = "gate"
        BY <1>8 DEF FixerRuns
    <2> HIDE DEF TypeOK, Commits, Edits
    <2> QED
        BY <2>2, <2>3
<1>9. CASE FixerStops
    BY <1>9, ConstantsAssumption DEF FixerStops, RefusedRole, HitsUsageLimit,
        StopsUncounted, Edits
<1>10. CASE RecordsFailure
    BY <1>10, ConstantsAssumption DEF RecordsFailure
<1>11. CASE ScribeRuns
    <2>1. "work" \in {"work", "fixer"}
        OBVIOUS
    <2>2. /\ head'.unseen \in {head.unseen, head.unseen \union {"work"}}
          /\ head'.n \in {head.n} \union 2 .. 9
        <3>1. Edits("work")
            BY <1>11 DEF ScribeRuns
        <3> HIDE DEF TypeOK
        <3> QED
            BY <2>1, <3>1, EditsAdd
    <2>3. /\ UNCHANGED <<cp, review, reviewedHead, gated, remote, prs, prNote, faults, atBase>>
          /\ pc = "scribe" /\ pc' = "reviewer"
        BY <1>11 DEF ScribeRuns
    <2> HIDE DEF TypeOK, Commits, Edits
    <2> QED
        BY <2>2, <2>3
<1>12. CASE ReviewerRuns
    <2>1. CASE /\ review' \in {"finished", "unfinished"}
               /\ \E n \in {head.n, Fresh} : head' = [head EXCEPT !.n = n, !.unseen = {}]
        <3>1. head'.unseen = {} /\ head'.n \in {head.n, Fresh} /\ Fresh \in 2 .. 9
            BY <2>1
        <3>2. /\ UNCHANGED <<cp, reviewedHead, gated, remote, prs, prNote, faults, atBase>>
              /\ pc = "reviewer" /\ pc' = "sync"
            BY <1>12 DEF ReviewerRuns
        <3> HIDE DEF TypeOK, Commits, Edits
        <3> QED
            BY <3>1, <3>2
    <2>2. CASE review' = "failed" /\ Edits("work")
        <3>1. /\ head'.unseen \in {head.unseen, head.unseen \union {"work"}}
              /\ head'.n \in {head.n} \union 2 .. 9
            <4> HIDE DEF TypeOK
            <4>1. "work" \in {"work", "fixer"}
                OBVIOUS
            <4> QED
                BY <2>2, <4>1, EditsAdd
        <3>2. /\ UNCHANGED <<cp, reviewedHead, gated, remote, prs, prNote, faults, atBase>>
              /\ pc = "reviewer" /\ pc' = "sync"
            BY <1>12 DEF ReviewerRuns
        <3> HIDE DEF TypeOK, Commits, Edits
        <3> QED
            BY <3>1, <3>2
    <2> QED
        BY <1>12, <2>1, <2>2 DEF ReviewerRuns
<1>13. CASE ScribeStops \/ ReviewerStops
    BY <1>13, ConstantsAssumption DEF ScribeStops, RefusedRole, HitsUsageLimit,
        StopsUncounted, Edits, ReviewerStops
<1>14. CASE SkipsMerge
    BY <1>14, ConstantsAssumption DEF SkipsMerge, Checkpoint2
<1>15. CASE (\E m \in {main, Elsewhere} : Merges(m))
    <2>1. PICK m \in {main, Elsewhere} : Merges(m)
        BY <1>15
    <2>2. /\ head'.unseen \in {head.unseen, head.unseen \union {"main"}}
          /\ head'.n \in {head.n} \union 2 .. 9
          /\ head' = head \/ (pc' = "gate" /\ cp' = "merged")
        <3>1. CASE head' = [n |-> Fresh, main |-> m, unseen |-> head.unseen \union {"main"}]
                   /\ pc' = "gate" /\ cp' = "merged"
            BY <3>1
        <3>2. CASE UNCHANGED head
            BY <3>2
        <3> QED
            BY <2>1, <3>1, <3>2 DEF Merges
    <2>3. /\ UNCHANGED <<review, gated, remote, prs, prNote, faults, atBase>>
          /\ reviewedHead' = head
          /\ pc = "sync"
          /\ (pc' = "gate" /\ cp' = "merged") \/ (pc' = "undo" /\ cp' = "checkpoint2")
        BY <2>1 DEF Merges
    <2> HIDE DEF TypeOK, Commits, Edits
    <2> QED
        BY <2>2, <2>3
<1>16. CASE Undoes
    <2>1. /\ head' \in {head, reviewedHead}
          /\ UNCHANGED <<cp, reviewedHead, gated, remote, atBase>>
          /\ faults' \in {faults, faults + 1}
          /\ pc = "undo" /\ pc' \in {"undone", "reset"}
        BY <1>16 DEF Undoes
    <2>2. faults \in Nat
        BY ConstantsAssumption
    <2> HIDE DEF TypeOK, Commits, Edits, NoCommit, Base, Kept
    <2> QED
        BY <2>1, <2>2, NamedNumbers
<1>17. CASE UndoneInPlace
    BY <1>17, ConstantsAssumption DEF UndoneInPlace, Checkpoint2
<1>18. CASE UndoneElsewhere
    BY <1>18, ConstantsAssumption DEF UndoneElsewhere
<1>19. CASE Resets
    BY <1>19, ConstantsAssumption DEF Resets, HardReset
<1>20. CASE FallsBack
    BY <1>20, ConstantsAssumption DEF FallsBack, Checkpoint2
<1>21. CASE CannotFallBack
    BY <1>21, ConstantsAssumption DEF CannotFallBack
<1>22. CASE (\E m \in {Elsewhere} \union 0 .. MaxMain : Scans(m))
    BY <1>22, ConstantsAssumption DEF Scans, Trusted
<1>23. CASE ReportsLeak
    BY <1>23, ConstantsAssumption DEF ReportsLeak
<1>24. CASE PushesAsUsual
    BY <1>24, ConstantsAssumption DEF PushesAsUsual
<1>25. CASE CreatesBranchAtBase
    BY <1>25, ConstantsAssumption DEF CreatesBranchAtBase
<1>26. CASE Pushes
    BY <1>26, ConstantsAssumption DEF Pushes
<1>27. CASE PushFails
    BY <1>27, ConstantsAssumption DEF PushFails, Retries, GivesUp
<1>28. CASE PushRefused
    BY <1>28, ConstantsAssumption DEF PushRefused
<1>29. CASE OpensPR
    BY <1>29, ConstantsAssumption DEF OpensPR, PRCreated
<1>30. CASE OpenPRFails
    BY <1>30, ConstantsAssumption DEF OpenPRFails, Retries, GivesUp, PRCreated
<1>31. CASE Comments
    BY <1>31, ConstantsAssumption DEF Comments
<1>32. CASE DeletesStrayBranch
    BY <1>32, ConstantsAssumption DEF DeletesStrayBranch
<1>33. CASE HandsOver
    BY <1>33, ConstantsAssumption DEF HandsOver
<1>34. CASE ClosesSandbox
    BY <1>34, ConstantsAssumption DEF ClosesSandbox
<1>41. CASE FindsNoProblems
    <2>1. /\ UNCHANGED <<frame, tree, gate, reviewing, github, history>> /\ pc = "finally"
          /\ (pc' = "closing" /\ faults' = faults) \/ (pc' = "ended" /\ faults' = faults + 1)
        BY <1>41 DEF FindsNoProblems
    <2>2. faults \in Nat
        BY ConstantsAssumption
    <2> HIDE DEF TypeOK, Commits
    <2> QED
        BY <2>1, <2>2
<1>35. CASE LeavesSandbox
    BY <1>35, ConstantsAssumption DEF LeavesSandbox
<1>36. CASE Throws
    BY <1>36, ConstantsAssumption DEF Throws
<1>37. CASE MainMoves
    BY <1>37, ConstantsAssumption DEF MainMoves
<1>38. CASE LimitReached
    BY <1>38, ConstantsAssumption DEF LimitReached
<1>39. CASE Stray
    <2>1. UNCHANGED <<pc, cp, reviewedHead, gated, remote, atBase, faults>>
        BY <1>39 DEF Stray
    <2>2. head' = head \/ head'.n = Fresh
        BY <1>39 DEF Stray
    <2> HIDE DEF TypeOK, Commits, Edits
    <2> QED
        BY <2>1, <2>2
<1>40. CASE UNCHANGED vars
    BY <1>40 DEF vars
<1> QED
    BY ONLY [Next]_vars, <1>1, <1>2, <1>3, <1>4, <1>5, <1>6, <1>7, <1>8, <1>9, <1>10,
        <1>11, <1>12, <1>13, <1>14, <1>15, <1>16, <1>17, <1>18, <1>19, <1>20, <1>21,
        <1>22, <1>23, <1>24, <1>25, <1>26, <1>27, <1>28, <1>29, <1>30, <1>31, <1>32,
        <1>33, <1>34, <1>35, <1>36, <1>37, <1>38, <1>39, <1>40, <1>41 DEF Next, HostStep, Ended

\* Where the sandbox is follows from the step and the link.
LEMMA SandboxIsKnownStep ==
    ASSUME TypeOK, SandboxIsKnown, [Next]_vars
    PROVE  SandboxIsKnown'
<1> USE FreshIsNew DEF Goto, Fault, frame, world, tree, gate, reviewing, records,
        github, history, SandboxIsKnown, OpenSteps, GateSteps
<1>1. CASE StartsFromMain \/ CreatesSandbox \/ DeveloperRuns \/ DeveloperStops \/
             NothingAhead \/ StillNothingAhead
    BY <1>1, ConstantsAssumption DEF StartsFromMain, CreatesSandbox, DeveloperRuns,
        Edits, DeveloperStops, RefusedRole, HitsUsageLimit, StopsUncounted,
        NothingAhead, StillNothingAhead
<1>2. CASE GateBegins \/ GateExits \/ GateChecksWorktree \/ GateEnds \/ FixerRuns \/
             FixerStops \/ RecordsFailure
    BY <1>2, ConstantsAssumption DEF GateBegins, GateIsRed, GateExits,
        GateChecksWorktree, GateEnds, FixerRuns, Edits, FixerStops, RefusedRole,
        HitsUsageLimit, StopsUncounted, RecordsFailure
<1>3. CASE ScribeRuns \/ ScribeStops \/ ReviewerRuns \/ ReviewerStops
    BY <1>3, ConstantsAssumption DEF ScribeRuns, Edits, ScribeStops, RefusedRole,
        HitsUsageLimit, StopsUncounted, ReviewerRuns, ReviewerStops
<1>4. CASE SkipsMerge \/ (\E m \in {main, Elsewhere} : Merges(m)) \/ Undoes \/
             UndoneInPlace \/ UndoneElsewhere \/ Resets \/ FallsBack \/ CannotFallBack
    BY <1>4, ConstantsAssumption DEF SkipsMerge, Checkpoint2, Merges, Undoes, HardReset,
        UndoneInPlace, UndoneElsewhere, Resets, FallsBack, CannotFallBack
<1>5. CASE (\E m \in {Elsewhere} \union 0 .. MaxMain : Scans(m)) \/ ReportsLeak \/
             PushesAsUsual \/ CreatesBranchAtBase \/ Pushes \/ PushFails \/ PushRefused
    BY <1>5, ConstantsAssumption DEF Scans, Trusted, ReportsLeak, PushesAsUsual,
        CreatesBranchAtBase, Pushes, PushFails, Retries, GivesUp, PushRefused
<1>6. CASE OpensPR \/ OpenPRFails \/ Comments \/ DeletesStrayBranch \/ HandsOver
    BY <1>6, ConstantsAssumption DEF OpensPR, PRCreated, OpenPRFails, Retries, GivesUp,
        Comments, DeletesStrayBranch, HandsOver
<1>14. CASE FindsNoProblems
    <2>1. /\ UNCHANGED <<box, linked, said>> /\ pc = "finally"
          /\ (pc' = "closing" /\ faults' = faults) \/ (pc' = "ended" /\ faults' = faults + 1)
        BY <1>14 DEF FindsNoProblems
    <2>2. faults \in Nat
        BY ConstantsAssumption DEF TypeOK
    <2> QED
        BY <2>1, <2>2
<1>7. CASE ClosesSandbox
    <2>1. linked' = linked /\ pc' = "ended"
        BY <1>7 DEF ClosesSandbox
    <2>2. /\ box' \in {"open", "closed"}
          /\ box' = "open" => faults' = faults + 1
        BY <1>7 DEF ClosesSandbox
    <2>3. faults \in Nat
        BY ConstantsAssumption DEF TypeOK
    <2> QED
        BY <2>1, <2>2, <2>3
<1>8. CASE LeavesSandbox
    <2>1. ~linked /\ linked' = linked /\ pc' = "ended"
        BY <1>8 DEF LeavesSandbox
    <2>2. /\ box' \in {"open", "left"}
          /\ faults' = faults + 1 \/ (box' = "left" /\ said' = said \union {"tampered"})
        BY <1>8 DEF LeavesSandbox
    <2>3. faults \in Nat
        BY ConstantsAssumption DEF TypeOK
    <2> QED
        BY <2>1, <2>2, <2>3
<1>9. CASE Throws
    BY <1>9, ConstantsAssumption DEF Throws
<1>10. CASE MainMoves
    BY <1>10, ConstantsAssumption DEF MainMoves
<1>11. CASE LimitReached
    BY <1>11, ConstantsAssumption DEF LimitReached
<1>12. CASE Stray
    BY <1>12, ConstantsAssumption DEF Stray
<1>13. CASE UNCHANGED vars
    BY <1>13 DEF vars
<1> QED
    BY ONLY [Next]_vars, <1>1, <1>2, <1>3, <1>4, <1>5, <1>6, <1>7, <1>8, <1>9, <1>10,
        <1>11, <1>12, <1>13, <1>14 DEF Next, HostStep, Ended

------------------------------------------------------------------------------

\* The facts hold as a build starts.
LEMMA InitInv == Init => BuildInv
<1> SUFFICES ASSUME Init PROVE BuildInv
    OBVIOUS
<1>1. TypeOK
    <2>1. FlagsOK
        BY DEF Init, FlagsOK
    <2>4. CountsOK
        BY ConstantsAssumption DEF Init, CountsOK
    <2>5. StepsOK
        BY DEF Init, StepsOK, Steps
    <2>2. CommitsOK
        BY NamedCommits DEF Init, CommitsOK, NothingScanned
    <2>3. PlacesOK
        <3>1. todo \in Seq({"architect", "tester", "backend", "ui"})
            BY DEF Init
        <3> QED
            BY <3>1 DEF Init, PlacesOK
    <2> QED
        BY <2>1, <2>2, <2>3, <2>4, <2>5 DEF TypeOK, FlagsOK, CommitsOK, CountsOK, StepsOK, PlacesOK
<1>2. pc = "start" /\ cp = "checkpoint1" /\ ~merging /\ remote \in {NoCommit, Kept} /\ gated = NoCommit
    BY DEF Init
<1>3. RoomToTry /\ GateIsFair /\ MergeIsUndone
    BY <1>1, <1>2 DEF RoomToTry, GateIsFair, MergeIsUndone, Undoing, Publishing
<1>4. PublishesGated
    BY <1>2 DEF PublishesGated, Publishing, Scanned, Pushed
<1>5. FixerStaysOffMain
    BY <1>2, NamedNumbers DEF Init, FixerStaysOffMain, Mixed, Over, Undoing
<1>6. ReviewIsKept /\ EndAgrees
    BY <1>2 DEF Init, ReviewIsKept, Reviewed, EndAgrees, Over, Undoing, Publishing
<1>7. BaseIsTemporary
    BY <1>2, NamedNumbers DEF Init, BaseIsTemporary, Ahead, Over, Undoing, Publishing
<1>8. SandboxIsKnown
    BY DEF Init, SandboxIsKnown
<1> QED
    BY <1>1, <1>3, <1>4, <1>5, <1>6, <1>7, <1>8 DEF BuildInv

\* Every step keeps them.
LEMMA InvStep == BuildInv /\ [Next]_vars => BuildInv'
    BY TypesStep, RoomToTryStep, GateIsFairStep, MergeIsUndoneStep, PublishesGatedStep,
       FixerStaysOffMainStep, ReviewIsKeptStep, EndAgreesStep, BaseIsTemporaryStep,
       SandboxIsKnownStep DEF BuildInv

\* The state is well formed, and the facts hold that make the rest true, along
\* every build (buildIssue): where the gate, the merge, the branch, the review
\* and the sandbox stand at each step.
THEOREM Invariant == Spec => []BuildInv
<1>1. Init => BuildInv
    BY InitInv
<1>2. BuildInv /\ [Next]_vars => BuildInv'
    BY InvStep
<1> QED
    BY <1>1, <1>2, PTL DEF Spec

\* What a build says on GitHub is true of it (PipelineInv): one pull request at
\* most, with its warning when no review saw the work; a usage-limit or
\* time-budget stop counts no attempt and publishes nothing.
THEOREM SaysWhatIsTrue == Spec => []PipelineInv
<1>1. BuildInv => PipelineInv
    <2> SUFFICES ASSUME BuildInv PROVE PipelineInv
        OBVIOUS
    <2>1. TypeOK /\ ReviewIsKept /\ EndAgrees
        BY DEF BuildInv
    <2>2. UnreviewedSaysSo
        BY <2>1 DEF ReviewIsKept, Reviewed, UnreviewedSaysSo
    <2>3. StopNeverCounts
        BY <2>1 DEF EndAgrees, StopNeverCounts
    <2>4. OnePullRequest
        BY <2>1 DEF EndAgrees, OnePullRequest
    <2> QED
        BY <2>1, <2>2, <2>3, <2>4 DEF PipelineInv
<1> QED
    BY <1>1, Invariant, PTL

\* What is pushed is the very commit the gate exited 0 on with nothing else in
\* the worktree, and the secret scan read it (publish), however many strays,
\* fixer runs and retries there were.
THEOREM PushesAreChecked == Spec => []PushWasChecked
<1>1. BuildInv => PushWasChecked
    BY DEF BuildInv, PublishesGated, PushWasChecked, PushedWasGated, ScanCoversPush
<1> QED
    BY <1>1, Invariant, PTL

\* No pushed commit has main's merge and repairs of a gate-fixer that no review
\* saw: a merge that breaks the gate is undone before checkpoint 2's fixer runs
\* (syncWithMain).
THEOREM RepairsStayOffMain == Spec => []FixerNeverRepairsMain
<1>1. BuildInv => FixerNeverRepairsMain
    BY DEF BuildInv, PublishesGated, FixerStaysOffMain, Mixed, FixerNeverRepairsMain
<1> QED
    BY <1>1, Invariant, PTL

\* No gate runs and no fixer starts in the middle of a merge (restoredTo).
THEOREM GatesMeetNoMerge == Spec => []NeverGatedMidMerge
<1>1. BuildInv => NeverGatedMidMerge
    BY DEF BuildInv, MergeIsUndone, NeverGatedMidMerge, GateSteps, Over
<1> QED
    BY <1>1, Invariant, PTL

\* A build that ended leaves no branch without work on origin, its own calls
\* having worked, and no sandbox that is neither closed nor reported
\* (deleteBranchAt, the finally of buildMarkedIssue).
THEOREM NothingIsLeft == Spec => []NothingLeftBehind
<1>1. BuildInv => NothingLeftBehind
    <2> SUFFICES ASSUME BuildInv PROVE NothingLeftBehind
        OBVIOUS
    <2>1. BaseIsTemporary /\ SandboxIsKnown
        BY DEF BuildInv
    <2>2. NoStrayBranch
        BY <2>1 DEF BaseIsTemporary, NoStrayBranch
    <2>3. SandboxAccountedFor
        BY <2>1 DEF SandboxIsKnown, SandboxAccountedFor
    <2> QED
        BY <2>2, <2>3 DEF NothingLeftBehind
<1> QED
    BY <1>1, Invariant, PTL

------------------------------------------------------------------------------

\* A build that ended changes nothing that BuildAttempt speaks of.
LEMMA EndedStays ==
    ASSUME pc = "ended", [Next]_vars
    PROVE  UNCHANGED <<pc, outcome, attempts, prs>>
<1> USE DEF Goto, Fault, frame, world, tree, gate, reviewing, records, github, history,
        OpenSteps, GateSteps
<1>1. CASE StartsFromMain \/ CreatesSandbox \/ DeveloperRuns \/ DeveloperStops \/
             NothingAhead \/ StillNothingAhead
    BY <1>1 DEF StartsFromMain, CreatesSandbox, DeveloperRuns, Edits, DeveloperStops,
        RefusedRole, HitsUsageLimit, StopsUncounted, NothingAhead, StillNothingAhead
<1>2. CASE GateBegins \/ GateExits \/ GateChecksWorktree \/ GateEnds \/ FixerRuns \/
             FixerStops \/ RecordsFailure
    BY <1>2 DEF GateBegins, GateIsRed, GateExits, GateChecksWorktree, GateEnds,
        FixerRuns, Edits, FixerStops, RefusedRole, HitsUsageLimit, StopsUncounted,
        RecordsFailure
<1>3. CASE ScribeRuns \/ ScribeStops \/ ReviewerRuns \/ ReviewerStops
    BY <1>3 DEF ScribeRuns, Edits, ScribeStops, RefusedRole, HitsUsageLimit,
        StopsUncounted, ReviewerRuns, ReviewerStops
<1>4. CASE SkipsMerge \/ (\E m \in {main, Elsewhere} : Merges(m)) \/ Undoes \/
             UndoneInPlace \/ UndoneElsewhere \/ Resets \/ FallsBack \/ CannotFallBack
    BY <1>4 DEF SkipsMerge, Checkpoint2, Merges, Undoes, HardReset, UndoneInPlace,
        UndoneElsewhere, Resets, FallsBack, CannotFallBack
<1>5. CASE (\E m \in {Elsewhere} \union 0 .. MaxMain : Scans(m)) \/ ReportsLeak \/
             PushesAsUsual \/ CreatesBranchAtBase \/ Pushes \/ PushFails \/ PushRefused
    BY <1>5 DEF Scans, Trusted, ReportsLeak, PushesAsUsual, CreatesBranchAtBase, Pushes,
        PushFails, Retries, GivesUp, PushRefused
<1>6. CASE OpensPR \/ OpenPRFails \/ Comments \/ DeletesStrayBranch \/ HandsOver
    BY <1>6 DEF OpensPR, PRCreated, OpenPRFails, Retries, GivesUp, Comments,
        DeletesStrayBranch, HandsOver
<1>7. CASE FindsNoProblems \/ ClosesSandbox \/ LeavesSandbox \/ Throws
    BY <1>7 DEF FindsNoProblems, ClosesSandbox, LeavesSandbox, Throws
<1>8. CASE MainMoves
    BY <1>8 DEF MainMoves
<1>9. CASE LimitReached
    BY <1>9 DEF LimitReached
<1>10. CASE Stray
    BY <1>10 DEF Stray
<1>11. CASE UNCHANGED vars
    BY <1>11 DEF vars
<1> QED
    BY ONLY [Next]_vars, <1>1, <1>2, <1>3, <1>4, <1>5, <1>6, <1>7, <1>8, <1>9, <1>10,
        <1>11 DEF Next, HostStep, Ended

\* Until then a step counts the attempt, opens the pull request, ends the
\* build, or none of these.
LEMMA OneThingAtATime ==
    ASSUME TypeOK, EndAgrees, pc # "ended", [Next]_vars
    PROVE  \/ UNCHANGED <<attempts, prs>>
           \/ pc' # "ended" /\ pc = "record" /\ UNCHANGED prs /\ attempts' \in {attempts, attempts + 1}
           \/ pc' # "ended" /\ pc = "openPR" /\ UNCHANGED attempts /\ prs' \in {prs, prs + 1}
<1> USE DEF Goto, Fault, frame, world, tree, gate, reviewing, records, github, history,
        OpenSteps, GateSteps
<1>1. CASE StartsFromMain \/ CreatesSandbox \/ DeveloperRuns \/ DeveloperStops \/
             NothingAhead \/ StillNothingAhead
    BY <1>1 DEF StartsFromMain, CreatesSandbox, DeveloperRuns, Edits, DeveloperStops,
        RefusedRole, HitsUsageLimit, StopsUncounted, NothingAhead, StillNothingAhead
<1>2. CASE GateBegins \/ GateExits \/ GateChecksWorktree \/ GateEnds \/ FixerRuns \/
             FixerStops \/ RecordsFailure
    BY <1>2 DEF GateBegins, GateIsRed, GateExits, GateChecksWorktree, GateEnds,
        FixerRuns, Edits, FixerStops, RefusedRole, HitsUsageLimit, StopsUncounted,
        RecordsFailure
<1>3. CASE ScribeRuns \/ ScribeStops \/ ReviewerRuns \/ ReviewerStops
    BY <1>3 DEF ScribeRuns, Edits, ScribeStops, RefusedRole, HitsUsageLimit,
        StopsUncounted, ReviewerRuns, ReviewerStops
<1>4. CASE SkipsMerge \/ (\E m \in {main, Elsewhere} : Merges(m)) \/ Undoes \/
             UndoneInPlace \/ UndoneElsewhere \/ Resets \/ FallsBack \/ CannotFallBack
    BY <1>4 DEF SkipsMerge, Checkpoint2, Merges, Undoes, HardReset, UndoneInPlace,
        UndoneElsewhere, Resets, FallsBack, CannotFallBack
<1>5. CASE (\E m \in {Elsewhere} \union 0 .. MaxMain : Scans(m)) \/ ReportsLeak \/
             PushesAsUsual \/ CreatesBranchAtBase \/ Pushes \/ PushFails \/ PushRefused
    BY <1>5 DEF Scans, Trusted, ReportsLeak, PushesAsUsual, CreatesBranchAtBase, Pushes,
        PushFails, Retries, GivesUp, PushRefused
<1>6. CASE OpensPR \/ OpenPRFails \/ Comments \/ DeletesStrayBranch \/ HandsOver
    BY <1>6 DEF OpensPR, PRCreated, OpenPRFails, Retries, GivesUp, Comments,
        DeletesStrayBranch, HandsOver
<1>7. CASE FindsNoProblems \/ ClosesSandbox \/ LeavesSandbox \/ Throws
    BY <1>7 DEF FindsNoProblems, ClosesSandbox, LeavesSandbox, Throws
<1>8. CASE MainMoves
    BY <1>8 DEF MainMoves
<1>9. CASE LimitReached
    BY <1>9 DEF LimitReached
<1>10. CASE Stray
    BY <1>10 DEF Stray
<1>11. CASE UNCHANGED vars
    BY <1>11 DEF vars
<1> QED
    BY ONLY [Next]_vars, <1>1, <1>2, <1>3, <1>4, <1>5, <1>6, <1>7, <1>8, <1>9, <1>10,
        <1>11 DEF Next, HostStep, Ended

\* Every step is one of BuildAttempt's, or none.
LEMMA AttemptStep ==
    ASSUME BuildInv, BuildInv', [Next]_vars
    PROVE  [Attempt!Next]_(Attempt!vars)
<1>1. /\ TypeOK /\ EndAgrees /\ EndAgrees' /\ TypeOK'
    BY DEF BuildInv
<1>2. attempts \in Nat /\ attempts' \in Nat /\ prs \in Nat /\ prs' \in Nat
    BY <1>1 DEF TypeOK
<1>3. CASE pc = "ended"
    BY <1>3, EndedStays DEF Attempt!vars
<1>4. CASE pc # "ended" /\ pc' # "ended"
    <2>1. CASE UNCHANGED <<attempts, prs>>
        BY <1>4, <2>1 DEF Attempt!vars
    <2>2. CASE pc = "record" /\ UNCHANGED prs /\ attempts' = attempts + 1
        <3>1. attempts = 0 /\ attempts' = 1 /\ prs' = prs /\ prs = 0
            BY <1>1, <1>2, <2>2 DEF EndAgrees, Over
        <3> QED
            BY <1>4, <3>1 DEF Attempt!Next, Attempt!Count
    <2>3. CASE pc = "openPR" /\ UNCHANGED attempts /\ prs' = prs + 1
        <3>1. attempts = 0 /\ attempts' = 0 /\ prs = 0 /\ prs' = 1
            BY <1>1, <1>2, <2>3 DEF EndAgrees, Over
        <3> QED
            BY <1>4, <3>1 DEF Attempt!Next, Attempt!Open
    <2> QED
        BY <1>1, <1>4, <2>1, <2>2, <2>3, OneThingAtATime
<1>5. CASE pc # "ended" /\ pc' = "ended"
    <2>1. UNCHANGED <<attempts, prs>>
        BY <1>1, <1>5, OneThingAtATime
    <2>2. outcome' \in Attempt!Results
        BY <1>1, <1>5 DEF TypeOK, EndAgrees, Over, Attempt!Results
    <2>3. Attempt!End(outcome')
        <3>1. /\ outcome' = "published" => prs > 0
              /\ outcome' = "failedAttempt" => attempts > 0
              /\ outcome' = "notPublished" => attempts = 0
              /\ outcome' = "stopped" => attempts = 0 /\ prs = 0
            BY <1>1, <1>5, <2>1 DEF EndAgrees, Over
        <3> QED
            BY <1>2, <1>5, <2>1, <3>1 DEF Attempt!End
    <2> QED
        BY <2>2, <2>3 DEF Attempt!Next
<1> QED
    BY <1>3, <1>4, <1>5

\* The pipeline keeps what BuildAttempt promises (buildIssue's BuildResult): one
\* counted attempt or one pull request at most, and an end that agrees with it.
THEOREM ImplementsAttempt == Spec => Attempt!Safety
<1>1. Init => Attempt!Init
    BY DEF Init, Attempt!Init
<1>2. BuildInv /\ BuildInv' /\ [Next]_vars => [Attempt!Next]_(Attempt!vars)
    BY AttemptStep
<1> QED
    BY <1>1, <1>2, Invariant, PTL DEF Spec, Attempt!Safety
=============================================================================
