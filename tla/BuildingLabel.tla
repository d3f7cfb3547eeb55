--------------------------- MODULE BuildingLabel ---------------------------
(* The sandcastle:building label (lib/building.mts, lib/build.mts#buildIssue, *)
(* main.mts): how concurrent Sandcastle runs keep off each other's issues.    *)
(*                                                                            *)
(* A run is one host process. It clears stale labels at startup, then works   *)
(* in rounds: release what it still remembers, take a gate snapshot, plan,    *)
(* claim each pick (read the labels, then add the label: two round trips),    *)
(* build, and remove the label. Its memory of its claims is process state:    *)
(* SIGKILL loses it, a signal or a crash releases it from an exit listener.   *)
(*                                                                            *)
(* Every gh call may fail, and a failed write may or may not have landed.     *)
(* gh is called synchronously, so a run's own calls never interleave; other   *)
(* runs' calls may fall between any two of them.                              *)
EXTENDS Integers

CONSTANTS
    Runs,       \* host processes (slots: a run that ended may start again)
    Issues,     \* issues of the queue
    NoIssue,    \* not an issue: no call under way
    MaxAge,     \* BUILDING_LABEL_MAX_AGE_MS, in ticks
    MaxBuild,   \* the longest a build lasts, in ticks
    MaxRounds,  \* MAX_ITERATIONS
    MaxClock,   \* bound: the clock stops here
    MaxFaults   \* bound: failed calls and kills, together

ASSUME ConstantsAssumption ==
    /\ NoIssue \notin Issues
    /\ MaxAge \in Nat
    /\ MaxBuild \in Nat
    /\ MaxRounds \in Nat
    /\ MaxClock \in Nat
    /\ MaxFaults \in Nat

VARIABLES
    clock,
    \* On GitHub.
    label,      \* label[i]: issue i carries sandcastle:building
    labelledAt, \* labelledAt[i]: time of its latest "labeled" event, or Never
    \* Each run's process.
    pc,
    round,
    todo,       \* issues the loop the run is in has yet to visit
    at,         \* the issue of a call that began with a read, or NoIssue
    now,        \* the Date.now() the current pass or claim was called with
    marked,     \* markedByThisRun: claim time of each remembered issue, or Never
    builds,     \* issues the run has marked and is building
    faults,
    \* History, read by no action's guard.
    adders,     \* adders[i]: runs whose add reached the label issue i carries
    holes       \* holes[i]: how issue i's label stopped excluding other runs

github == <<label, labelledAt, adders, holes>>
process == <<pc, round, todo, at, now, marked, builds>>
vars == <<clock, github, process, faults>>

Never == -1

Steps == {"off", "clearing", "removing", "releasing", "planned", "claiming",
          "adding", "undoing", "building", "exiting"}

\* Steps between the two round trips of one operation on at[r].
MidCall == {"removing", "adding", "undoing"}

\* Steps of releaseAllBuildingLabels.
Releasing == {"releasing", "exiting"}

Init ==
    /\ clock = 0
    /\ label = [i \in Issues |-> FALSE]
    /\ labelledAt = [i \in Issues |-> Never]
    /\ pc = [r \in Runs |-> "off"]
    /\ round = [r \in Runs |-> 0]
    /\ todo = [r \in Runs |-> {}]
    /\ at = [r \in Runs |-> NoIssue]
    /\ now = [r \in Runs |-> 0]
    /\ marked = [r \in Runs |-> [i \in Issues |-> Never]]
    /\ builds = [r \in Runs |-> {}]
    /\ faults = 0
    /\ adders = [i \in Issues |-> {}]
    /\ holes = [i \in Issues |-> {}]

------------------------------------------------------------------------------
(* GitHub's answers to the calls.                                             *)

\* Mutation: a label exactly MaxAge old counts as stale.
LabelIsStaleAtMaxAge(i, time) == labelledAt[i] # Never /\ time - labelledAt[i] >= MaxAge

\* labelIsStale, with the pass's `time`: no "labeled" event is not stale.
LabelIsStale(i, time) == labelledAt[i] # Never /\ time - labelledAt[i] > MaxAge

Remembers(s, i) == marked[s][i] # Never

Remembered(r) == {i \in Issues : Remembers(r, i)}

\* Run s may yet write to issue i on the strength of something it read before
\* now: it is between two calls on i, or its release pass will remove i's label.
Underway(s, i) ==
    \/ at[s] = i
    \/ pc[s] \in Releasing /\ i \in todo[s] /\ Remembers(s, i)
       /\ now[s] - marked[s][i] <= MaxAge

\* Run s remembers a claim on i that it will act on at its next release.
Pending(s, i) ==
    /\ ~Underway(s, i)
    /\ i \notin builds[s]
    /\ Remembers(s, i)
    /\ clock - marked[s][i] <= MaxAge

\* What run r's add meets, if another run can still spoil the claim.
HolesAtAdd(r, i) ==
    {h \in {"racing", "remembered"} :
        \E s \in Runs \ {r} : IF h = "racing" THEN Underway(s, i) ELSE Pending(s, i)}

\* An add that lands. Adding a label that is there makes no "labeled" event.
LabelAdded(r, i) ==
    /\ label' = [label EXCEPT ![i] = TRUE]
    /\ labelledAt' = [labelledAt EXCEPT ![i] = IF label[i] THEN @ ELSE clock]
    /\ adders' = [adders EXCEPT ![i] = @ \union {r}]
    /\ holes' = [holes EXCEPT ![i] = @ \union HolesAtAdd(r, i)]

\* A removal that lands. Removing a label that is not there is no error.
LabelRemoved(i) ==
    /\ label' = [label EXCEPT ![i] = FALSE]
    /\ adders' = [adders EXCEPT ![i] = {}]
    /\ UNCHANGED <<labelledAt, holes>>

Fault == faults < MaxFaults /\ faults' = faults + 1

\* A removal that failed: it landed or it did not.
RemovalFailed(i) == Fault /\ (LabelRemoved(i) \/ UNCHANGED github)

Goto(r, step) == pc' = [pc EXCEPT ![r] = step]

Visited(r, i) == todo' = [todo EXCEPT ![r] = @ \ {i}]

Forget(r, i) == marked' = [marked EXCEPT ![r][i] = Never]

------------------------------------------------------------------------------
(* Startup: clearStaleBuildingLabels.                                         *)

\* Mutation: only labels this process remembers are looked at.
StartupClearsOwn(r) ==
    /\ pc[r] = "off"
    /\ Goto(r, "clearing")
    /\ todo' = [todo EXCEPT ![r] = Remembered(r)]
    /\ now' = [now EXCEPT ![r] = clock]
    /\ round' = [round EXCEPT ![r] = 0]
    /\ UNCHANGED <<clock, github, at, marked, builds, faults>>

Startup(r) ==
    /\ pc[r] = "off"
    /\ Goto(r, "clearing")
    /\ todo' = [todo EXCEPT ![r] = {i \in Issues : label[i]}]
    /\ now' = [now EXCEPT ![r] = clock]
    /\ round' = [round EXCEPT ![r] = 0]
    /\ UNCHANGED <<clock, github, at, marked, builds, faults>>

ClearKeeps(r, i) ==
    /\ pc[r] = "clearing"
    /\ i \in todo[r]
    /\ ~LabelIsStale(i, now[r])
    /\ Visited(r, i)
    /\ UNCHANGED <<clock, github, pc, round, at, now, marked, builds, faults>>

ClearFinds(r, i) ==
    /\ pc[r] = "clearing"
    /\ i \in todo[r]
    /\ LabelIsStale(i, now[r])
    /\ Goto(r, "removing")
    /\ at' = [at EXCEPT ![r] = i]
    /\ Visited(r, i)
    /\ UNCHANGED <<clock, github, round, now, marked, builds, faults>>

ClearRemoves(r) ==
    /\ pc[r] = "removing"
    /\ LabelRemoved(at[r])
    /\ Goto(r, "clearing")
    /\ at' = [at EXCEPT ![r] = NoIssue]
    /\ UNCHANGED <<clock, round, todo, now, marked, builds, faults>>

\* A timeline that can't be read, or a removal that fails, ends the run.
ClearFails(r) ==
    /\ \/ pc[r] = "clearing" /\ todo[r] # {} /\ Fault /\ UNCHANGED github
       \/ pc[r] = "removing" /\ RemovalFailed(at[r])
    /\ Goto(r, "exiting")
    /\ at' = [at EXCEPT ![r] = NoIssue]
    /\ todo' = [todo EXCEPT ![r] = Remembered(r)]
    /\ now' = [now EXCEPT ![r] = clock]
    /\ UNCHANGED <<clock, round, marked, builds>>

------------------------------------------------------------------------------
(* A round: releaseAllBuildingLabels, the gate's snapshot, the claims.        *)

BeginRound(r) ==
    /\ pc[r] \in {"clearing", "releasing", "building"}
    /\ todo[r] = {}
    /\ builds[r] = {}
    /\ round[r] < MaxRounds
    /\ round' = [round EXCEPT ![r] = @ + 1]
    /\ Goto(r, "releasing")
    /\ todo' = [todo EXCEPT ![r] = Remembered(r)]
    /\ now' = [now EXCEPT ![r] = clock]
    /\ UNCHANGED <<clock, github, at, marked, builds, faults>>

\* A claim older than MaxAge is forgotten and its label left in place.
ReleaseForgets(r, i) ==
    /\ pc[r] \in Releasing
    /\ i \in todo[r]
    /\ now[r] - marked[r][i] > MaxAge
    /\ Forget(r, i)
    /\ Visited(r, i)
    /\ UNCHANGED <<clock, github, pc, round, at, now, builds, faults>>

\* Mutation: the claim's age is not asked.
ReleaseRemovesAnyAge(r, i) ==
    /\ pc[r] \in Releasing
    /\ i \in todo[r]
    /\ LabelRemoved(i)
    /\ Forget(r, i)
    /\ Visited(r, i)
    /\ UNCHANGED <<clock, pc, round, at, now, builds, faults>>

ReleaseRemoves(r, i) ==
    /\ pc[r] \in Releasing
    /\ i \in todo[r]
    /\ now[r] - marked[r][i] <= MaxAge
    /\ LabelRemoved(i)
    /\ Forget(r, i)
    /\ Visited(r, i)
    /\ UNCHANGED <<clock, pc, round, at, now, builds, faults>>

\* A removal that fails leaves the claim remembered for the next pass.
ReleaseFails(r, i) ==
    /\ pc[r] \in Releasing
    /\ i \in todo[r]
    /\ now[r] - marked[r][i] <= MaxAge
    /\ RemovalFailed(i)
    /\ Visited(r, i)
    /\ UNCHANGED <<clock, pc, round, at, now, marked, builds>>

\* The gate holds back an issue whose label is in the round's snapshot; the
\* planner and the critique leave some nonempty part of the rest.
Gate(r, picks) ==
    /\ pc[r] = "releasing"
    /\ todo[r] = {}
    /\ picks \subseteq {i \in Issues : ~label[i]}
    /\ picks # {}
    /\ Goto(r, "planned")
    /\ todo' = [todo EXCEPT ![r] = picks]
    /\ UNCHANGED <<clock, github, round, at, now, marked, builds, faults>>

StartBuilds(r) ==
    /\ pc[r] = "planned"
    /\ Goto(r, "claiming")
    /\ UNCHANGED <<clock, github, round, todo, at, now, marked, builds, faults>>

\* claimBuildingLabel, first call: the labels are read again. An issue that
\* carries the label now is left to the run that marked it.
ClaimSkips(r, i) ==
    /\ pc[r] = "claiming"
    /\ i \in todo[r]
    /\ label[i]
    /\ Visited(r, i)
    /\ UNCHANGED <<clock, github, pc, round, at, now, marked, builds, faults>>

\* Mutation: the gate's snapshot is trusted and the labels not read again.
ClaimTrustsGate(r, i) ==
    /\ pc[r] = "claiming"
    /\ i \in todo[r]
    /\ Goto(r, "adding")
    /\ at' = [at EXCEPT ![r] = i]
    /\ now' = [now EXCEPT ![r] = clock]
    /\ marked' = [marked EXCEPT ![r][i] = clock]
    /\ Visited(r, i)
    /\ UNCHANGED <<clock, github, round, builds, faults>>

\* The issue is remembered, with the time the claim began, before the add.
ClaimReads(r, i) ==
    /\ pc[r] = "claiming"
    /\ i \in todo[r]
    /\ ~label[i]
    /\ Goto(r, "adding")
    /\ at' = [at EXCEPT ![r] = i]
    /\ now' = [now EXCEPT ![r] = clock]
    /\ marked' = [marked EXCEPT ![r][i] = clock]
    /\ Visited(r, i)
    /\ UNCHANGED <<clock, github, round, builds, faults>>

ClaimReadFails(r, i) ==
    /\ pc[r] = "claiming"
    /\ i \in todo[r]
    /\ Fault
    /\ Visited(r, i)
    /\ UNCHANGED <<clock, github, pc, round, at, now, marked, builds>>

\* claimBuildingLabel, second call.
ClaimAdds(r) ==
    /\ pc[r] = "adding"
    /\ LabelAdded(r, at[r])
    /\ builds' = [builds EXCEPT ![r] = @ \union {at[r]}]
    /\ Goto(r, "claiming")
    /\ at' = [at EXCEPT ![r] = NoIssue]
    /\ UNCHANGED <<clock, round, todo, now, marked, faults>>

\* A failed add may have landed, so it is undone at once.
ClaimAddFails(r) ==
    /\ pc[r] = "adding"
    /\ Fault
    /\ LabelAdded(r, at[r]) \/ UNCHANGED github
    /\ Goto(r, "undoing")
    /\ UNCHANGED <<clock, round, todo, at, now, marked, builds>>

Undoes(r) ==
    /\ pc[r] = "undoing"
    /\ LabelRemoved(at[r])
    /\ Forget(r, at[r])
    /\ Goto(r, "claiming")
    /\ at' = [at EXCEPT ![r] = NoIssue]
    /\ UNCHANGED <<clock, round, todo, now, builds, faults>>

\* The issue stays remembered, whether or not it carries the label.
UndoFails(r) ==
    /\ pc[r] = "undoing"
    /\ RemovalFailed(at[r])
    /\ Goto(r, "claiming")
    /\ at' = [at EXCEPT ![r] = NoIssue]
    /\ UNCHANGED <<clock, round, todo, now, marked, builds>>

ClaimsDone(r) ==
    /\ pc[r] = "claiming"
    /\ todo[r] = {}
    /\ Goto(r, "building")
    /\ UNCHANGED <<clock, github, round, todo, at, now, marked, builds, faults>>

------------------------------------------------------------------------------
(* The end of a build (buildIssue's finally) and of a run.                    *)

\* releaseBuildingLabel, which asks nothing about the claim's age.
BuildEnds(r, i) ==
    /\ pc[r] = "building"
    /\ i \in builds[r]
    /\ LabelRemoved(i)
    /\ Forget(r, i)
    /\ builds' = [builds EXCEPT ![r] = @ \ {i}]
    /\ UNCHANGED <<clock, pc, round, todo, at, now, faults>>

BuildEndsUnmarkFails(r, i) ==
    /\ pc[r] = "building"
    /\ i \in builds[r]
    /\ RemovalFailed(i)
    /\ builds' = [builds EXCEPT ![r] = @ \ {i}]
    /\ UNCHANGED <<clock, pc, round, todo, at, now, marked>>

\* The process ends with an exit event, which runs the release pass: nothing
\* left to do, a limit, a crash, Ctrl-C or SIGTERM. Node delivers a signal only
\* between synchronous calls: while planning, or while the builds run.
Exits(r) ==
    /\ \/ pc[r] \in {"planned", "building"}
       \/ pc[r] \in {"clearing", "releasing"} /\ todo[r] = {}
    /\ Goto(r, "exiting")
    /\ todo' = [todo EXCEPT ![r] = Remembered(r)]
    /\ builds' = [builds EXCEPT ![r] = {}]
    /\ now' = [now EXCEPT ![r] = clock]
    /\ UNCHANGED <<clock, github, round, at, marked, faults>>

\* The process's memory goes with it.
Gone(r) ==
    /\ Goto(r, "off")
    /\ todo' = [todo EXCEPT ![r] = {}]
    /\ at' = [at EXCEPT ![r] = NoIssue]
    /\ marked' = [marked EXCEPT ![r] = [i \in Issues |-> Never]]
    /\ builds' = [builds EXCEPT ![r] = {}]
    /\ UNCHANGED <<clock, github, round, now>>

Exited(r) == pc[r] = "exiting" /\ todo[r] = {} /\ Gone(r) /\ UNCHANGED faults

\* SIGKILL: no exit event.
Killed(r) == pc[r] # "off" /\ Fault /\ Gone(r)

\* A claim of run r that outlives MaxAge while it builds is a hole of its own.
Overdue(r, i, time) == i \in builds[r] /\ time - marked[r][i] > MaxAge

Tick ==
    /\ clock < MaxClock
    /\ \A r \in Runs : \A i \in builds[r] : clock - marked[r][i] < MaxBuild
    /\ clock' = clock + 1
    /\ holes' = [i \in Issues |->
                    IF \E r \in Runs : Overdue(r, i, clock + 1)
                    THEN holes[i] \union {"overdue"} ELSE holes[i]]
    /\ UNCHANGED <<label, labelledAt, adders, process, faults>>

------------------------------------------------------------------------------

\* What a run does on its own, kills apart.
RunStep(r) ==
    \/ Startup(r)
    \/ ClearRemoves(r)
    \/ ClearFails(r)
    \/ BeginRound(r)
    \/ StartBuilds(r)
    \/ ClaimAdds(r)
    \/ ClaimAddFails(r)
    \/ Undoes(r)
    \/ UndoFails(r)
    \/ ClaimsDone(r)
    \/ Exits(r)
    \/ Exited(r)
    \/ \E picks \in SUBSET Issues : Gate(r, picks)
    \/ \E i \in Issues :
        \/ ClearKeeps(r, i)
        \/ ClearFinds(r, i)
        \/ ReleaseForgets(r, i)
        \/ ReleaseRemoves(r, i)
        \/ ReleaseFails(r, i)
        \/ ClaimSkips(r, i)
        \/ ClaimReads(r, i)
        \/ ClaimReadFails(r, i)
        \/ BuildEnds(r, i)
        \/ BuildEndsUnmarkFails(r, i)

Next ==
    \/ Tick
    \/ \E r \in Runs : RunStep(r) \/ Killed(r)

Spec == Init /\ [][Next]_vars

\* The schedule keeps starting runs, every call returns and every build ends;
\* kills and failed calls are never required.
Fairness == WF_vars(Tick) /\ \A r \in Runs : WF_vars(RunStep(r))

FairSpec == Spec /\ Fairness

------------------------------------------------------------------------------
(* Properties.                                                                *)

Time == 0 .. MaxClock

\* Every variable has its type, and a call is under way on an issue exactly in
\* the steps between an operation's two round trips.
TypeOK ==
    /\ clock \in Time
    /\ label \in [Issues -> BOOLEAN]
    /\ labelledAt \in [Issues -> Time \union {Never}]
    /\ pc \in [Runs -> Steps]
    /\ round \in [Runs -> 0 .. MaxRounds]
    /\ todo \in [Runs -> SUBSET Issues]
    /\ at \in [Runs -> Issues \union {NoIssue}]
    /\ now \in [Runs -> Time]
    /\ marked \in [Runs -> [Issues -> Time \union {Never}]]
    /\ builds \in [Runs -> SUBSET Issues]
    /\ faults \in 0 .. MaxFaults
    /\ adders \in [Issues -> SUBSET Runs]
    /\ holes \in [Issues -> SUBSET {"racing", "remembered", "overdue"}]
    /\ \A r \in Runs : at[r] \in Issues <=> pc[r] \in MidCall

\* No two runs build one issue at the same time, unless one of the three named
\* holes opened on it: an add met a call or release pass under way in another
\* run (the read-then-add window claimBuildingLabel's comment concedes), or
\* another run's remembered claim whose removal had failed, or a build outlived
\* MaxAge. No hole is defined by two runs building.
OneBuilder ==
    \A i \in Issues : holes[i] = {} =>
        \A r, s \in Runs : i \in builds[r] /\ i \in builds[s] => r = s

\* From the end of its claim to its end, a build's issue carries the label that
\* run added and nobody else (buildIssue: "from before its sandbox is created
\* until after it closes"), with the same exceptions.
LabelCoversBuild ==
    \A r \in Runs : \A i \in builds[r] :
        holes[i] = {} => label[i] /\ adders[i] = {r}

\* A label no older than MaxAge leaves its issue only by the run that added it
\* ("a newer label belongs to a run that's still going, and stays"), with the
\* same exceptions: no startup, undo or release pass of another run takes it.
YoungLabelStep ==
    \A i \in Issues :
        label[i] /\ ~label'[i] /\ holes[i] = {} /\ clock - labelledAt[i] <= MaxAge
            => \E r \in adders[i] : Remembers(r, i)

YoungLabelStays == [][YoungLabelStep]_vars

\* What makes the properties above inductive, in parts.

\* The clock is ahead of every time read from it.
TimesPast ==
    /\ \A i \in Issues : labelledAt[i] <= clock
    /\ \A r \in Runs : now[r] <= clock
    /\ \A r \in Runs, i \in Issues : marked[r][i] <= clock

\* Where in its round a run is, from what it holds.
WorkMatchesStep ==
    \A r \in Runs :
        /\ builds[r] # {} => pc[r] \in {"claiming", "adding", "undoing", "building"}
        /\ builds[r] \subseteq Remembered(r)
        /\ builds[r] \intersect todo[r] = {}
        /\ at[r] \notin builds[r] \union todo[r]
        /\ pc[r] \in {"adding", "undoing"} => at[r] \in Remembered(r)
        /\ pc[r] \in Releasing => todo[r] \subseteq Remembered(r)
        /\ pc[r] \in {"off", "clearing", "removing"} => Remembered(r) = {}

\* A label is there because some run added it.
LabelHasAdder == \A i \in Issues : label[i] <=> adders[i] # {}

\* The builder of issue i is its label's only adder, and the label is young.
BuilderAlone(i) ==
    \A r \in Runs : i \in builds[r] =>
        /\ adders[i] = {r}
        /\ marked[r][i] <= labelledAt[i]
        /\ clock - labelledAt[i] <= MaxAge

\* Nobody is in the middle of a call on an issue that is being built.
NoCallOnBuild(i) == \A r, s \in Runs : at[s] = i => i \notin builds[r]

\* A call under way on issue i still finds there what it read before.
CallsSeeOwn(i) ==
    \A r \in Runs : at[r] = i =>
        /\ pc[r] = "adding" => adders[i] = {}
        /\ pc[r] = "undoing" => adders[i] \subseteq {r}
        /\ pc[r] = "removing" /\ label[i] => clock - labelledAt[i] > MaxAge

\* A claim remembered on an issue whose label is another run's is too old to be
\* acted on, by a release pass under way too.
OldClaimsIdle(i) ==
    \A s \in Runs : Remembers(s, i) /\ label[i] /\ s \notin adders[i] =>
        /\ clock - marked[s][i] > MaxAge
        /\ pc[s] \in Releasing /\ i \in todo[s] => now[s] - marked[s][i] > MaxAge

ApartAt(i) == BuilderAlone(i) /\ NoCallOnBuild(i) /\ CallsSeeOwn(i) /\ OldClaimsIdle(i)

\* All of that holds of every issue no hole has opened on.
ClaimsApart == \A i \in Issues : holes[i] = {} => ApartAt(i)

\* Until a call fails, a remembered claim is being built, added, undone or
\* released.
ClaimsInUse ==
    faults = 0 => \A r \in Runs, i \in Issues : Remembers(r, i) =>
        i \in builds[r] \/ at[r] = i \/ (pc[r] \in Releasing /\ i \in todo[r])

\* The inductive invariant.
LabelInv ==
    /\ TypeOK
    /\ TimesPast
    /\ WorkMatchesStep
    /\ LabelHasAdder
    /\ ClaimsApart
    /\ ClaimsInUse

\* Without a failed call or a kill, no run's forgotten claim is left to spoil
\* another's: the only way to share an issue is the read-then-add window or a
\* build longer than MaxAge.
OnlyFaultsAreRemembered ==
    faults = 0 => \A i \in Issues : "remembered" \notin holes[i]

\* Nobody holds issue i's label: it is there, and no process remembers it.
Orphan(i) == label[i] /\ \A r \in Runs : ~Remembers(r, i)

\* A label left by a killed run is cleared by a later startup once it is older
\* than MaxAge, so it never holds its issue back forever. (Only labels old
\* enough to turn stale before the clock's bound are asked about.)
OrphanCleared ==
    \A i \in Issues :
        (Orphan(i) /\ labelledAt[i] + MaxAge < MaxClock) ~> ~Orphan(i)

==============================================================================
