------------------------------- MODULE Round -------------------------------
(* The rounds of a run (main.mts, lib/gate.mts, lib/plan.mts,                 *)
(* lib/overlap.mts, lib/critique.mts, lib/round.mts): which issues a round    *)
(* builds side by side, which it holds back and for how long.                 *)
(*                                                                            *)
(* A round decides from reads made minutes apart: the issues, then the open   *)
(* pull requests, then (after the planner ran) the pull requests and their    *)
(* files again, then (after the critic ran) the blockers of an issue. Between *)
(* any two of them a person, or a merge, may change what was read.            *)
(*                                                                            *)
(* Left out: folders (a path is a member of Files, so that sharing a path is  *)
(* equality), comments, and the building label (BuildingLabel).               *)
EXTENDS Integers, Sequences, FiniteSets, Functions

CONSTANTS
    Issues,     \* issues queued and approved by the owner
    Files,      \* paths the planner names and pull requests change
    OtherPR,    \* a pull request into main on no issue's branch
    MaxRounds,  \* MAX_ITERATIONS
    MaxRuns,    \* bound: runs
    MaxEvents   \* bound: what people and failed calls do

ASSUME ConstantsAssumption ==
    /\ IsFiniteSet(Issues)
    /\ OtherPR \notin Issues
    /\ MaxRounds \in Nat \ {0}
    /\ MaxRuns \in Nat
    /\ MaxEvents \in Nat

VARIABLES
    \* On GitHub.
    state,     \* state[i]: issue i is "open", or closed as "completed" or "not_planned"
    label,     \* label[i]: "queued", "ready" or "needs-human"
    links,     \* <<i, j>>: issue i is blocked by issue j
    pr,        \* pr[p]: the latest pull request of issue p, or of OtherPR
    changes,   \* changes[p]: the files it changes
    requeued,  \* issues whose needs-human was removed after their pull request closed
    \* The run.
    pc,
    round,
    held,      \* heldForFiles
    listed,    \* the gate's list of open issues, its pull requests unread
    cleared,   \* those it lists as ready
    ready,     \* issues that passed the gate
    inFlight,  \* the gate held an issue back for its pull request
    picks,     \* the planner's order
    files,     \* files[i]: what it expects pick i to change; {} is anything
    behind,    \* <<i, j>>: pick i is held behind pick j
    behindPR,  \* picks held behind an open pull request
    added,     \* links the critique added this round
    readOf,    \* issues whose links it has read,
    cached,    \* and what it read of them
    lost,      \* links that landed this round although adding them failed
    unseen,    \* those of them whose issue's links it had read already
    work,      \* issues being built this round
    claimed,   \* those whose build has yet to look at a closed pull request
    building,  \* those past it
    published, \* those whose build returned a pull request's URL
    stopped,   \* a build ended on the usage limit or the time budget
    opened,    \* issues whose pull request somebody else opened since the gate's read
    \* Bounds.
    runs,
    events

github == <<state, label, links, pr, changes, requeued>>
gated == <<listed, cleared, ready, inFlight>>
plan == <<picks, files, behind, behindPR, added, lost>>
cache == <<readOf, cached, unseen>>
builds == <<work, claimed, building, published, stopped, opened>>
vars == <<github, pc, round, held, gated, plan, cache, builds, runs, events>>

PRs == Issues \union {OtherPR}

OpenPRs == {p \in PRs : pr[p] = "open"}

\* Files the open pull requests change (pullRequestFiles).
Changed == UNION {changes[p] : p \in OpenPRs}

Picked == Range(picks)

\* Pick i comes before pick j in the planner's order.
Before(i, j) ==
    \E m, n \in DOMAIN picks : m < n /\ picks[m] = i /\ picks[n] = j

First(S) == CHOOSE i \in S : \A j \in S : j = i \/ Before(i, j)

\* Picks neither held nor dropped, of which the critique may defer some.
HeldNow == behindPR \union {i \in Issues : \E j \in Issues : <<i, j>> \in behind}
Kept == Picked \ HeldNow
Deferred == {i \in Issues : \E j \in Issues : <<i, j>> \in added}

Acyclic(L) ==
    \A S \in (SUBSET Issues) \ {{}} : \E i \in S : \A j \in S : <<i, j>> \notin L

\* What a critique did not see is as good as seen once it is over, unless it
\* let a ring close.
NoPlan ==
    /\ picks' = << >>
    /\ files' = [i \in Issues |-> {}]
    /\ behind' = {} /\ behindPR' = {}
    /\ added' = {} /\ lost' = {}
    /\ readOf' = {} /\ cached' = {}
    /\ unseen' = IF Acyclic(links) THEN {} ELSE unseen

NoBuilds ==
    /\ work' = {} /\ claimed' = {} /\ building' = {} /\ published' = {}
    /\ stopped' = FALSE /\ opened' = {}

NotGated == listed' = {} /\ cleared' = {} /\ ready' = {} /\ inFlight' = FALSE

Init ==
    /\ state = [i \in Issues |-> "open"]
    /\ label = [i \in Issues |-> "ready"]
    /\ links \in {L \in SUBSET (Issues \X Issues) : Acyclic(L)}
    /\ pr = [p \in PRs |-> "none"]
    /\ changes = [p \in PRs |-> {}]
    /\ requeued = {}
    /\ pc = "off" /\ round = 0 /\ held = {}
    /\ listed = {} /\ cleared = {} /\ ready = {} /\ inFlight = FALSE
    /\ picks = << >> /\ files = [i \in Issues |-> {}]
    /\ behind = {} /\ behindPR = {} /\ added = {} /\ lost = {}
    /\ readOf = {} /\ cached = {} /\ unseen = {}
    /\ work = {} /\ claimed = {} /\ building = {} /\ published = {}
    /\ stopped = FALSE /\ opened = {}
    /\ runs = 0 /\ events = 0

Event == events < MaxEvents /\ events' = events + 1

------------------------------------------------------------------------------
(* Around the run.                                                            *)

\* "Closes #i" closes the issue with its pull request.
PRMerges(p) ==
    /\ Event
    /\ pr[p] = "open"
    /\ pr' = [pr EXCEPT ![p] = "merged"]
    /\ state' = [i \in Issues |-> IF i = p THEN "completed" ELSE state[i]]
    /\ UNCHANGED <<label, links, changes, requeued, pc, round, held, gated, plan, cache, builds, runs>>

PRCloses(p) ==
    /\ Event
    /\ pr[p] = "open"
    /\ pr' = [pr EXCEPT ![p] = "closed"]
    /\ requeued' = requeued \ {p}
    /\ UNCHANGED <<state, label, links, changes, pc, round, held, gated, plan, cache, builds, runs>>

OtherPROpens ==
    /\ Event
    /\ pr[OtherPR] # "open"
    /\ pr' = [pr EXCEPT ![OtherPR] = "open"]
    /\ \E fs \in (SUBSET Files) \ {{}} : changes' = [changes EXCEPT ![OtherPR] = fs]
    /\ UNCHANGED <<state, label, links, requeued, pc, round, held, gated, plan, cache, builds, runs>>

\* Another run or a person opens issue i's pull request, or opens it again.
IssuePROpens(i) ==
    /\ Event
    /\ pr[i] \in {"none", "closed"}
    /\ pr' = [pr EXCEPT ![i] = "open"]
    /\ \E fs \in (SUBSET Files) \ {{}} : changes' = [changes EXCEPT ![i] = fs]
    /\ opened' = IF pc \in {"planning", "overlap", "critique", "building"}
                 THEN opened \union {i} ELSE opened
    /\ UNCHANGED <<state, label, links, requeued, pc, round, held, gated, plan, cache, work,
                   claimed, building, published, stopped, runs>>

\* A push, or a follow-up pass, changes other files.
PRChanges(p) ==
    /\ Event
    /\ pr[p] = "open"
    /\ \E fs \in (SUBSET Files) \ {{}} : changes' = [changes EXCEPT ![p] = fs]
    /\ UNCHANGED <<state, label, links, pr, requeued, pc, round, held, gated, plan, cache, builds, runs>>

\* The owner removes sandcastle:needs-human.
PersonRequeues(i) ==
    /\ Event
    /\ label[i] = "needs-human"
    /\ label' = [label EXCEPT ![i] = "queued"]
    /\ requeued' = requeued \union {i}
    /\ UNCHANGED <<state, links, pr, changes, pc, round, held, gated, plan, cache, builds, runs>>

\* "To override, delete the blocked by link on this issue."
PersonUnlinks(i, j) ==
    /\ Event
    /\ <<i, j>> \in links
    /\ links' = links \ {<<i, j>>}
    /\ unseen' = unseen \ {<<i, j>>}
    /\ UNCHANGED <<state, label, pr, changes, requeued, pc, round, held, gated, plan, readOf, cached,
                   builds, runs>>

\* Closed with its work never landed: it still blocks.
PersonDrops(i) ==
    /\ Event
    /\ state[i] = "open"
    /\ state' = [state EXCEPT ![i] = "not_planned"]
    /\ UNCHANGED <<label, links, pr, changes, requeued, pc, round, held, gated, plan, cache, builds, runs>>

------------------------------------------------------------------------------
(* The run, its rounds and their first phases.                                *)

Startup ==
    /\ pc = "off"
    /\ runs < MaxRuns
    /\ runs' = runs + 1
    /\ pc' = "top" /\ round' = 1
    /\ UNCHANGED <<github, held, gated, plan, cache, builds, events>>

\* The run ends, however it does: what it held back goes with the process.
RunEnds ==
    /\ pc' = "off" /\ round' = 0 /\ held' = {}
    /\ NotGated /\ NoPlan /\ NoBuilds

\* The loop's next iteration, or its end.
NextRound(holds) ==
    /\ IF round < MaxRounds
       THEN pc' = "top" /\ round' = round + 1 /\ held' = holds
       ELSE pc' = "off" /\ round' = 0 /\ held' = {}
    /\ NotGated /\ NoPlan /\ NoBuilds

\* Issues the sweep hands back: their latest pull request closed without
\* merging, and nobody has re-queued them since (sweepPullRequests).
ToHandBack == {i \in Issues : /\ state[i] = "open"
                              /\ label[i] # "needs-human"
                              /\ pr[i] = "closed" /\ i \notin requeued}

\* The sweep, each issue of it in a try of its own. One that fails is left.
Sweeps ==
    /\ pc = "top"
    /\ \E failed \in SUBSET ToHandBack :
        /\ events' = events + Cardinality(failed)
        /\ events' <= MaxEvents
        /\ label' = [i \in Issues |->
                        IF i \in ToHandBack \ failed THEN "needs-human" ELSE label[i]]
    /\ pc' = "intake"
    /\ UNCHANGED <<state, links, pr, changes, requeued, round, held, gated, plan, cache, builds, runs>>

Blocked(i) == \E j \in Issues : <<i, j>> \in links /\ state[j] # "completed"

\* What findWork asks about, apart from the passes: an issue for intake or one
\* the gate lets through.
WorkFor(i) ==
    /\ state[i] = "open"
    /\ label[i] # "needs-human"
    /\ pr[i] # "open"
    /\ label[i] = "ready" => ~Blocked(i)

FindsNoWork ==
    /\ pc = "intake"
    /\ \A i \in Issues : ~WorkFor(i)
    /\ RunEnds
    /\ UNCHANGED <<github, runs, events>>

\* intakePhase judges what is queued, not handed back and not in review; an
\* open pull request that needs a pass keeps the round going without any.
Intakes ==
    /\ pc = "intake"
    /\ \E i \in Issues : WorkFor(i) \/ pr[i] = "open"
    /\ \E judged \in SUBSET {i \in Issues : WorkFor(i) /\ label[i] = "queued"} :
        label' = [i \in Issues |-> IF i \in judged THEN "ready" ELSE label[i]]
    /\ pc' = "listing"
    /\ UNCHANGED <<state, links, pr, changes, requeued, round, held, gated, plan, cache, builds,
                   runs, events>>

------------------------------------------------------------------------------
(* gateIssues and the planner.                                                *)

ListsIssues ==
    /\ pc = "listing"
    /\ listed' = {i \in Issues : state[i] = "open"}
    /\ cleared' = {i \in listed' : label[i] = "ready"}
    /\ pc' = "gate"
    /\ UNCHANGED <<github, round, held, ready, inFlight, plan, cache, builds, runs, events>>

\* Mutation: open pull requests are not asked about.
GateBlindToPRs ==
    /\ pc = "gate"
    /\ \E unread \in SUBSET cleared :
        /\ events' = events + Cardinality(unread)
        /\ events' <= MaxEvents
        /\ ready' = {i \in cleared \ unread : ~Blocked(i)}
    /\ inFlight' = FALSE
    /\ listed' = {} /\ cleared' = {}
    /\ pc' = "planning"
    /\ UNCHANGED <<github, round, held, plan, cache, builds, runs>>

\* The open pull requests, then each issue's blockers; a blocker or a link that
\* cannot be read holds its issue back.
Gate ==
    /\ pc = "gate"
    /\ \E unread \in SUBSET cleared :
        /\ events' = events + Cardinality(unread)
        /\ events' <= MaxEvents
        /\ ready' = {i \in cleared \ unread : pr[i] # "open" /\ ~Blocked(i)}
    /\ inFlight' = (\E i \in listed : pr[i] = "open")
    /\ listed' = {} /\ cleared' = {}
    /\ pc' = "planning"
    /\ UNCHANGED <<github, round, held, plan, cache, builds, runs>>

\* planRound and readyPicks: some of the plannable issues, in an order, each
\* once, with the files resolveFiles made of its answer.
Plans ==
    /\ pc = "planning"
    /\ \E S \in (SUBSET (ready \ held)) \ {{}} :
        /\ picks' \in Bijection(1 .. Cardinality(S), S)
        /\ \E expected \in [S -> SUBSET Files] :
            files' = [i \in Issues |-> IF i \in S THEN expected[i] ELSE {}]
    /\ pc' = "overlap"
    /\ UNCHANGED <<github, round, held, gated, behind, behindPR, added, lost, cache, builds, runs, events>>

\* Nothing is ready, all of it is held, or the planner picks nothing.
NothingToPlan ==
    /\ pc = "planning"
    /\ RunEnds
    /\ UNCHANGED <<github, runs, events>>

------------------------------------------------------------------------------
(* findOverlaps: the picks with files are walked in the planner's order.      *)

\* K is the walk's result: a pick with files is kept when no open pull request
\* changes one of them and no earlier kept pick claims one.
IsWalk(K) ==
    /\ K \subseteq Picked
    /\ \A i \in Picked :
        i \in K <=> /\ files[i] # {}
                    /\ files[i] \intersect Changed = {}
                    /\ \A j \in K : Before(j, i) => files[i] \intersect files[j] = {}

\* The kept picks that claim the path f of pick i: at most one.
Claimants(K, i, f) == {j \in K : Before(j, i) /\ f \in files[j]}

\* What the held picks with files wait on, by the first overlapping path of
\* each. A kept pick wins over a pull request for the same path.
FilesBehind(K, path) ==
    {h \in (DOMAIN path) \X K : h[2] \in Claimants(K, h[1], path[h[1]])}
FilesBehindPR(K, path) == {i \in DOMAIN path : Claimants(K, i, path[i]) = {}}

NoFiles == {i \in Picked : files[i] = {}}

\* What the picks with no files wait on, with K kept: the first of them is
\* built when there is no pull request and K is empty.
NoFilesBehind(K) ==
    IF OpenPRs # {} \/ NoFiles = {} THEN {}
    ELSE LET blocker == First(IF K # {} THEN K ELSE NoFiles)
         IN (NoFiles \ {blocker}) \X {blocker}
NoFilesBehindPR == IF OpenPRs # {} THEN NoFiles ELSE {}

\* holdOverlappingPicks. With no pick kept, every hold is behind a pull request.
HoldsOverlaps ==
    /\ pc = "overlap"
    /\ \E K \in SUBSET Picked :
        /\ IsWalk(K)
        /\ \E path \in [(Picked \ K) \ NoFiles -> Files] :
            /\ \A i \in DOMAIN path :
                path[i] \in files[i] /\ (path[i] \in Changed \/ Claimants(K, i, path[i]) # {})
            /\ behind' = FilesBehind(K, path) \union NoFilesBehind(K)
            /\ behindPR' = FilesBehindPR(K, path) \union NoFilesBehindPR
    /\ pc' = "critique"
    /\ UNCHANGED <<github, round, held, gated, picks, files, added, lost, cache, builds, runs, events>>

\* Mutation: a hold behind any pick of the round lasts.
LastingAll(done) == HeldNow

\* lastingHolds: the holds that last the run, once the issues in done have
\* opened a pull request.
LastingHolds(done) ==
    behindPR \union {i \in Issues : \E j \in done : <<i, j>> \in behind}

\* Mutation: the round is planned again.
KeepsNoneForgetting ==
    /\ pc = "critique"
    /\ Kept = {}
    /\ NextRound(held)
    /\ UNCHANGED <<github, runs, events>>

\* Every pick is held: the loop goes on.
KeepsNone ==
    /\ pc = "critique"
    /\ Kept = {}
    /\ NextRound(held \union LastingHolds({}))
    /\ UNCHANGED <<github, runs, events>>

------------------------------------------------------------------------------
(* critiqueRound and applyVerdicts.                                           *)

\* What a verdict is judged on: the links read, each issue's once, and those
\* added since (blockersOf).
Known == cached \union added

\* A lone pick, nothing in flight and nothing unpicked: no critic is run.
NothingToCompare == Cardinality(Kept) = 1 /\ ~inFlight /\ ready = Kept

Judging == pc = "critique" /\ ~NothingToCompare

\* The search for a cycle with a pick reads another issue's links: issue k is a
\* verdict's open blocker, or one already read waits on it.
ReadsLinks(k) ==
    /\ Judging
    /\ k \notin readOf /\ ~(Kept \ Deferred \subseteq {k})
    /\ state[k] = "open" \/ \E a \in readOf : <<a, k>> \in Known
    /\ readOf' = readOf \union {k}
    /\ cached' = cached \union {l \in links : l[1] = k}
    /\ UNCHANGED <<github, pc, round, held, gated, plan, unseen, builds, runs, events>>

\* Whether wouldCycle has ended without meeting issue i: issue j and all it
\* waits on is in a set of issues read, of which i is none.
RulesOutCycle(i, j) ==
    \E C \in SUBSET (readOf \ {i}) :
        j \in C /\ \A a \in C, b \in Issues : <<a, b>> \in Known => b \in C

\* A verdict that can be applied, and the link GitHub has then.
Links(i, j) ==
    /\ Judging
    /\ i \in Kept \ Deferred
    /\ state[j] = "open"
    /\ RulesOutCycle(i, j)
    /\ links' = links \union {<<i, j>>}
    /\ UNCHANGED <<state, label, pr, changes, requeued, pc, round, held, gated, picks, files,
                   behind, behindPR, readOf, cached, builds, runs>>

\* Mutation: links this critique added are not looked at.
DefersUnadded(i, j) ==
    /\ Judging
    /\ i \in Kept \ Deferred
    /\ state[j] = "open"
    /\ \E C \in SUBSET (readOf \ {i}) :
        j \in C /\ \A a \in C, b \in Issues : <<a, b>> \in cached => b \in C
    /\ links' = links \union {<<i, j>>}
    /\ added' = added \union {<<i, j>>}
    /\ UNCHANGED <<state, label, pr, changes, requeued, pc, round, held, gated, picks, files,
                   behind, behindPR, lost, cache, builds, runs, events>>

\* One verdict: a kept pick without one is deferred behind an open issue, and
\* linked to it. A verdict that is ignored keeps its pick.
Defers(i, j) ==
    /\ Links(i, j)
    /\ added' = added \union {<<i, j>>}
    /\ UNCHANGED <<lost, unseen, events>>

\* The call throws after the link landed: the verdict is ignored, so the pick is
\* kept and may get another, and the link is not among those added.
DeferFails(i, j) ==
    /\ Event
    /\ <<i, j>> \notin links
    /\ Links(i, j)
    /\ lost' = lost \union {<<i, j>>}
    /\ unseen' = IF i \in readOf /\ <<i, j>> \notin Known THEN unseen \union {<<i, j>>} ELSE unseen
    /\ UNCHANGED added

\* Every kept pick was deferred: the loop goes on, and only the holds behind a
\* pull request last.
DefersAll ==
    /\ pc = "critique"
    /\ Kept # {} /\ Kept \subseteq Deferred
    /\ NextRound(held \union LastingHolds({}))
    /\ UNCHANGED <<github, runs, events>>

Builds(S) ==
    /\ pc' = "building"
    /\ work' = S /\ claimed' = S
    /\ NotGated
    /\ readOf' = {} /\ cached' = {}
    /\ UNCHANGED <<github, round, held, plan, unseen, building, published, stopped, opened, runs, events>>

\* The critique is done, or had nothing to compare.
CritiqueEnds ==
    /\ pc = "critique"
    /\ ~(Kept \subseteq Deferred)
    /\ Builds(Kept \ Deferred)

\* It failed before any verdict was applied: only the first pick is built.
CritiqueFails ==
    /\ pc = "critique"
    /\ ~NothingToCompare
    /\ Kept # {} /\ readOf = {} /\ added = {} /\ lost = {}
    /\ Builds({First(Kept)})

------------------------------------------------------------------------------
(* The builds of the round, side by side. What each does is BuildPipeline's.  *)

\* startFromMain finds no closed pull request, or one whose issue was re-queued
\* since. The issue is open, or was when it was listed.
Begins(i) ==
    /\ i \in claimed
    /\ pr[i] = "closed" => i \in requeued
    /\ claimed' = claimed \ {i}
    /\ building' = building \union {i}
    /\ UNCHANGED <<github, pc, round, held, gated, plan, cache, work, published, stopped, opened,
                   runs, events>>

\* It finds one, hands the issue back and throws.
HandsBackInstead(i) ==
    /\ i \in claimed
    /\ pr[i] = "closed" /\ i \notin requeued
    /\ label' = [label EXCEPT ![i] = "needs-human"]
    /\ claimed' = claimed \ {i}
    /\ UNCHANGED <<state, links, pr, changes, requeued, pc, round, held, gated, plan, cache, work,
                   building, published, stopped, opened, runs, events>>

\* A pull request, with whatever files the work came to change; one that opened
\* under a call that failed has no URL.
Publishes(i) ==
    /\ i \in building
    /\ building' = building \ {i}
    /\ pr' = [pr EXCEPT ![i] = "open"]
    /\ \E fs \in (SUBSET Files) \ {{}} : changes' = [changes EXCEPT ![i] = fs]
    /\ \/ published' = published \union {i} /\ UNCHANGED events
       \/ Event /\ UNCHANGED published
    /\ UNCHANGED <<state, label, links, requeued, pc, round, held, gated, plan, cache, work, claimed,
                   stopped, opened, runs>>

\* Any other end: a failed attempt, counted or handed back, or an error.
EndsUnpublished(i) ==
    /\ i \in claimed \union building
    /\ claimed' = claimed \ {i}
    /\ building' = building \ {i}
    /\ \/ UNCHANGED label
       \/ i \in building /\ label' = [label EXCEPT ![i] = "needs-human"]
    /\ UNCHANGED <<state, links, pr, changes, requeued, pc, round, held, gated, plan, cache, work,
                   published, stopped, opened, runs, events>>

\* The usage limit or the time budget.
Stops(i) ==
    /\ i \in claimed \union building
    /\ Event
    /\ claimed' = claimed \ {i}
    /\ building' = building \ {i}
    /\ stopped' = TRUE
    /\ UNCHANGED <<github, pc, round, held, gated, plan, cache, work, published, opened, runs>>

AllSettled == pc = "building" /\ claimed = {} /\ building = {}

\* roundSummary: a round that published nothing, or was stopped, is the last.
RoundEnds ==
    /\ AllSettled
    /\ IF stopped \/ published = {}
       THEN RunEnds
       ELSE NextRound(held \union LastingHolds(published))
    /\ UNCHANGED <<github, runs, events>>

\* A failed read, a role's structured output that does not parse, a limit, a
\* kill: the run ends where it is, its builds with it.
Aborts ==
    /\ pc # "off"
    /\ Event
    /\ RunEnds
    /\ UNCHANGED <<github, runs>>

------------------------------------------------------------------------------

Around ==
    \/ \E p \in PRs : PRMerges(p) \/ PRCloses(p) \/ PRChanges(p)
    \/ OtherPROpens
    \/ \E i \in Issues : IssuePROpens(i) \/ PersonRequeues(i) \/ PersonDrops(i)
    \/ \E i, j \in Issues : PersonUnlinks(i, j)

RoundStep ==
    \/ Startup
    \/ Sweeps
    \/ FindsNoWork
    \/ Intakes
    \/ ListsIssues
    \/ Gate
    \/ Plans
    \/ NothingToPlan
    \/ HoldsOverlaps
    \/ KeepsNone
    \/ \E k \in Issues : ReadsLinks(k)
    \/ \E i, j \in Issues : Defers(i, j) \/ DeferFails(i, j)
    \/ DefersAll
    \/ CritiqueEnds
    \/ CritiqueFails
    \/ \E i \in Issues :
        Begins(i) \/ HandsBackInstead(i) \/ Publishes(i) \/ EndsUnpublished(i) \/ Stops(i)
    \/ RoundEnds
    \/ Aborts

Next == Around \/ RoundStep

Spec == Init /\ [][Next]_vars

------------------------------------------------------------------------------
(* Properties.                                                                *)

Steps == {"off", "top", "intake", "listing", "gate", "planning", "overlap", "critique", "building"}

TypeOK ==
    /\ state \in [Issues -> {"open", "completed", "not_planned"}]
    /\ label \in [Issues -> {"queued", "ready", "needs-human"}]
    /\ links \subseteq Issues \X Issues
    /\ pr \in [PRs -> {"none", "open", "merged", "closed"}]
    /\ changes \in [PRs -> SUBSET Files]
    /\ requeued \subseteq Issues
    /\ pc \in Steps
    /\ round \in 0 .. MaxRounds
    /\ held \subseteq Issues /\ listed \subseteq Issues /\ cleared \subseteq Issues
    /\ ready \subseteq Issues /\ behindPR \subseteq Issues /\ work \subseteq Issues
    /\ claimed \subseteq Issues /\ building \subseteq Issues /\ published \subseteq Issues
    /\ inFlight \in BOOLEAN
    /\ picks \in Seq(Issues)
    /\ files \in [Issues -> SUBSET Files]
    /\ behind \subseteq Issues \X Issues
    /\ added \subseteq Issues \X Issues /\ lost \subseteq Issues \X Issues
    /\ readOf \subseteq Issues
    /\ cached \subseteq Issues \X Issues /\ unseen \subseteq Issues \X Issues
    /\ stopped \in BOOLEAN /\ opened \subseteq Issues
    /\ runs \in 0 .. MaxRuns
    /\ events \in 0 .. MaxEvents

\* Issues built side by side are planned to change no file in common, and one
\* that may change anything is built alone ("a pick with no files counts as
\* changing every file").
Apart(S) ==
    \A i, j \in S : i # j => files[i] # {} /\ files[i] \intersect files[j] = {}

BuildsApart == Apart(work)

\* A pick is held only behind a pull request or behind a pick that is not held
\* itself: no two picks wait on each other, and when none is held behind a pull
\* request some pick is kept.
HoldsAreBehindKept ==
    pc = "critique" =>
        /\ \A i, j \in Issues : <<i, j>> \in behind => i \in Picked /\ j \in Kept
        /\ behindPR = {} => Kept # {}

\* The links the critique adds make issues wait on each other in a ring only
\* through a link it could not know of, one that landed under a call that failed
\* when its issue's links had been read: without those, in any set of issues some
\* issue waits on none of them, whatever links people remove and however old what
\* was read is.
NoRing == Acyclic(links \ unseen)

\* No issue is built while an issue it is blocked by has not landed: neither one
\* the gate read nor one the critique has just linked, unless the call that linked
\* it failed and its verdict was ignored.
WorkIsUnblocked ==
    \A i \in work : \A j \in Issues :
        <<i, j>> \in links => state[j] = "completed" \/ <<i, j>> \in lost

\* A round that built nothing and goes on has taken at least one of its picks
\* away from the rounds after it, held for the run or linked to a blocker: the
\* planner is never given the same issues over and over.
RoundsMoveOn ==
    [][pc = "critique" /\ pc' = "top" =>
        \E i \in Picked : i \in Deferred \/ i \in held' \ held]_vars

\* No issue is kept out of the rest of the run behind work that came to nothing:
\* a hold that lasts is behind a pull request, one the round found open or one
\* it opened.
HeldForCause ==
    \A i \in held' \ held :
        i \in behindPR \/ \E j \in work : <<i, j>> \in behind /\ pr[j] # "none"

\* The work of a pull request closed without merging is only built over once
\* somebody has re-queued its issue since ("the hand-back's comment is the only
\* consent to discarding the work"), however late it closes.
ClosedWorkNeedsConsent ==
    \A i \in Issues : i \in building' \ building => (pr[i] = "closed" => i \in requeued)

\* Of every step: what it keeps back for the run, and what it builds over, it
\* has a cause for.
StepsHaveCause == [][HeldForCause /\ ClosedWorkNeedsConsent]_vars

\* A branch with an open pull request is built again only when somebody else
\* opened it after the gate's read of the open pull requests: one opened before,
\* be it after the issues were listed, holds its issue back, and none of the
\* run's own is built over.
OneOpenPR == \A i \in building : pr[i] = "open" => i \in opened

\* What makes them inductive, in parts.

\* What the planner picked passed the gate and was not held.
PicksChosen ==
    pc \in {"overlap", "critique"} => Picked # {} /\ Picked \subseteq ready \ held

\* What the walk kept is apart already, and what it held was picked.
KeptApart == pc = "critique" => HeldNow \subseteq Picked /\ Apart(Kept)

\* From the gate to the builds, what passed it waits only on what has landed
\* or on what a verdict linked.
ReadyIsUnblocked ==
    pc \in {"planning", "overlap", "critique"} =>
        \A i \in ready, j \in Issues :
            <<i, j>> \in links => state[j] = "completed" \/ <<i, j>> \in added \union lost

\* Of the issues it has read, the critique knows every link but the unseen ones.
ReadsAreKnown ==
    \A a \in readOf, b \in Issues : <<a, b>> \in links => <<a, b>> \in Known \union unseen

\* Issues are built in the builds' phase only.
WorkIsBuilding == work # {} => pc = "building"

\* The inductive invariant.
RoundInv ==
    /\ TypeOK
    /\ PicksChosen
    /\ KeptApart
    /\ HoldsAreBehindKept
    /\ ReadyIsUnblocked
    /\ ReadsAreKnown
    /\ WorkIsBuilding
    /\ BuildsApart
    /\ WorkIsUnblocked
    /\ NoRing
=============================================================================
