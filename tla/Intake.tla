------------------------------- MODULE Intake --------------------------------
(* What intake does with its verdict on one issue (lib/intake.mts, from        *)
(* applyVerdicts), and how the umbrella a split leaves is closed               *)
(* (lib/umbrella.mts). Every call to GitHub may fail, with or without having   *)
(* done its work; a run may be killed between two calls; people may answer a   *)
(* hand-back, and close or reopen a child.                                     *)
EXTENDS Integers, FiniteSets, Sequences, SequencesExt

CONSTANTS
    Runs,       \* Sandcastle runs that share the repository
    Drafts,     \* children a split verdict drafts
    MaxFaults,  \* bound: calls that fail
    MaxKills,   \* bound: runs killed
    MaxPeople   \* bound: things people do

ASSUME ConstantsAssumption ==
    /\ IsFiniteSet(Runs)
    /\ Drafts \in Nat \ {0}
    /\ MaxFaults \in Nat /\ MaxKills \in Nat /\ MaxPeople \in Nat

VARIABLES
    labels,     \* the issue's: "queue", "ready", "needs-info", "needs-human"
    open,       \* is it open
    umbrella,   \* does it carry the umbrella comment
    kids,       \* the child issues, in the order GitHub created them
    pc,         \* where each run is
    mine,       \* the children each run's split has created
    faults, kills, people,
    \* History, read by no guard.
    raced,      \* a run went on after its look although another had the issue
    overtaken   \* a person changed what a run had read of an umbrella

history == <<raced, overtaken>>
vars == <<labels, open, umbrella, kids, pc, mine, faults, kills, people, history>>
issue == <<labels, open, umbrella>>

\* JUDGED_LABELS.
Judged == {"ready", "needs-info", "needs-human"}
Kids == DOMAIN kids
Live(k) == kids[k].state # "dropped"

\* A child: the draft it was made from, its needs-human mark, whether it is the
\* issue's sub-issue, the child it is blocked by (0: none), and its state.
Kid(draft) == [draft |-> draft, marked |-> TRUE, sub |-> FALSE, after |-> 0, state |-> "open"]

Init ==
    /\ labels = {"queue"} /\ open = TRUE /\ umbrella = FALSE
    /\ kids = <<>>
    /\ pc = [r \in Runs |-> "idle"]
    /\ mine = [r \in Runs |-> <<>>]
    /\ faults = 0 /\ kills = 0 /\ people = 0
    /\ raced = FALSE /\ overtaken = FALSE

Goes(r, place) == pc' = [pc EXCEPT ![r] = place]

\* A call to GitHub that did its work or not, and answered or failed.
Calls(r, worked, answered, failed) ==
    \/ worked /\ Goes(r, answered) /\ UNCHANGED faults
    \/ faults < MaxFaults /\ faults' = faults + 1 /\ Goes(r, failed)

Labels(worked, changed) ==
    /\ labels' = IF worked THEN changed ELSE labels
    /\ UNCHANGED <<open, umbrella, history>>

Unless(worked, changed) == kids' = IF worked THEN changed ELSE kids

------------------------------------------------------------------------------
(* A verdict.                                                                 *)

\* The queue is read and the issue sent to intake: needsIntake.
Lists(r) ==
    /\ pc[r] = "idle" /\ open
    /\ "queue" \in labels /\ labels \cap Judged = {}
    /\ Goes(r, "sent")
    /\ UNCHANGED <<issue, kids, mine, faults, kills, people, history>>

\* A run whose look has let it go on, and whose verdict is not applied yet.
PastLook == {"ready", "asks", "needs-info", "marks", "unmark"}

\* What the look does not see: that another run, too, has gone on, and that
\* another has taken the issue out of the queue since it was listed.
Races(r) == "queue" \notin labels \/ \E q \in Runs \ {r} : pc[q] \in PastLook

\* intake's verdict, after a look at whether another run has judged the issue.
\* A split that is malformed is handed back like a needs-info verdict; one that
\* is not first reads the issue's blockers.
Verdict(r) ==
    /\ pc[r] = "sent"
    /\ \/ /\ labels \cap Judged # {}
          /\ Goes(r, "idle")
          /\ UNCHANGED raced
       \/ /\ labels \cap Judged = {}
          /\ \E next \in {"idle", "ready", "asks", "marks"} :
                Goes(r, next) /\ raced' = (raced \/ (next # "idle" /\ Races(r)))
    /\ UNCHANGED <<issue, kids, mine, faults, kills, people, overtaken>>

MarksReady(r) ==
    /\ pc[r] = "ready"
    /\ \E worked \in BOOLEAN :
        /\ Calls(r, worked, "idle", "idle")
        /\ Labels(worked, labels \union {"ready"})
    /\ UNCHANGED <<kids, mine, kills, people, history>>

\* handBack: the comment, then the label.
Asks(r) ==
    /\ pc[r] = "asks"
    /\ \E worked \in BOOLEAN : Calls(r, worked, "needs-info", "idle")
    /\ UNCHANGED <<issue, kids, mine, kills, people, history>>

AsksLabel(r) ==
    /\ pc[r] = "needs-info"
    /\ \E worked \in BOOLEAN :
        /\ Calls(r, worked, "idle", "idle")
        /\ Labels(worked, labels \union {"needs-info"})
    /\ UNCHANGED <<kids, mine, kills, people, history>>

------------------------------------------------------------------------------
(* A split: applySplit.                                                       *)

Marks(r) ==
    /\ pc[r] = "marks"
    /\ \E worked \in BOOLEAN :
        /\ Calls(r, worked, "create", "unmark")
        /\ Labels(worked, labels \union {"needs-human"})
    /\ UNCHANGED <<kids, mine, kills, people, history>>

\* A mark that failed is taken back, in case GitHub added it.
TakesMarkBack(r) ==
    /\ pc[r] = "unmark"
    /\ \E worked \in BOOLEAN :
        /\ Calls(r, worked, "idle", "idle")
        /\ Labels(worked, labels \ {"needs-human"})
    /\ UNCHANGED <<kids, mine, kills, people, history>>

\* A create that failed may have created the child: the host then does not
\* know its number.
Creates(r) ==
    /\ pc[r] = "create"
    /\ \E worked \in BOOLEAN :
        /\ Calls(r, worked, "sub", "failed")
        /\ Unless(worked, Append(kids, Kid(Len(mine[r]) + 1)))
    /\ mine' = [mine EXCEPT ![r] = IF pc'[r] = "sub" THEN Append(@, Len(kids')) ELSE @]
    /\ UNCHANGED <<issue, kills, people, history>>

NextDraft(r) == IF Len(mine[r]) < Drafts THEN "create" ELSE "dequeue"

\* Mutation: a link that fails is left out of the chain.
LinksIfItCan(r) ==
    /\ pc[r] = "link"
    /\ \E worked \in BOOLEAN :
        /\ Calls(r, worked, NextDraft(r), NextDraft(r))
        /\ Unless(worked, [kids EXCEPT ![Last(mine[r])].after = mine[r][Len(mine[r]) - 1]])
    /\ UNCHANGED <<issue, mine, kills, people, history>>

AddsSubIssue(r) ==
    /\ pc[r] = "sub"
    /\ \E worked \in BOOLEAN :
        /\ Calls(r, worked, IF Len(mine[r]) > 1 THEN "link" ELSE NextDraft(r), "failed")
        /\ Unless(worked, [kids EXCEPT ![Last(mine[r])].sub = TRUE])
    /\ UNCHANGED <<issue, mine, kills, people, history>>

\* addBlockedBy: on the child before it in build order.
Links(r) ==
    /\ pc[r] = "link"
    /\ \E worked \in BOOLEAN :
        /\ Calls(r, worked, NextDraft(r), "failed")
        /\ Unless(worked, [kids EXCEPT ![Last(mine[r])].after = mine[r][Len(mine[r]) - 1]])
    /\ UNCHANGED <<issue, mine, kills, people, history>>

\* removeSandcastle: the issue becomes an umbrella.
Dequeues(r) ==
    /\ pc[r] = "dequeue"
    /\ \E worked \in BOOLEAN :
        /\ Calls(r, worked, "comment", "failed")
        /\ Labels(worked, labels \ {"queue"})
    /\ UNCHANGED <<kids, mine, kills, people, history>>

\* Mutation: a comment that fails costs only the explanation.
CommentsIfItCan(r) ==
    /\ pc[r] = "comment"
    /\ \E worked \in BOOLEAN :
        /\ Calls(r, worked, "release", "release")
        /\ umbrella' = (umbrella \/ worked)
    /\ UNCHANGED <<labels, open, kids, mine, kills, people, history>>

\* The umbrella comment, which lists the children.
Comments(r) ==
    /\ pc[r] = "comment"
    /\ \E worked \in BOOLEAN :
        /\ Calls(r, worked, "release", "failed")
        /\ umbrella' = (umbrella \/ worked)
    /\ UNCHANGED <<labels, open, kids, mine, kills, people, history>>

\* The marks come off, the children's first; one that will not is left for a
\* person.
ReleasesChild(r) ==
    /\ pc[r] = "release" /\ mine[r] # <<>>
    /\ \E worked \in BOOLEAN :
        /\ Calls(r, worked, "release", "release")
        /\ Unless(worked, [kids EXCEPT ![Head(mine[r])].marked = FALSE])
    /\ mine' = [mine EXCEPT ![r] = Tail(@)]
    /\ UNCHANGED <<issue, kills, people, history>>

ReleasesIssue(r) ==
    /\ pc[r] = "release" /\ mine[r] = <<>>
    /\ \E worked \in BOOLEAN :
        /\ Calls(r, worked, "idle", "idle")
        /\ Labels(worked, labels \ {"needs-human"})
    /\ UNCHANGED <<kids, mine, kills, people, history>>

\* Mutation: a split that failed partway lets the issue be judged again.
GivesUpUnmarking(r) ==
    /\ pc[r] = "failed"
    /\ Goes(r, "idle")
    /\ mine' = [mine EXCEPT ![r] = <<>>]
    /\ Labels(TRUE, labels \ {"needs-human"})
    /\ UNCHANGED <<kids, faults, kills, people, history>>

\* The catch: handBack with needs-human, which the issue already carries, so
\* the hand-back's own failure changes nothing.
GivesUp(r) ==
    /\ pc[r] = "failed"
    /\ \E worked \in BOOLEAN :
        /\ Calls(r, worked, "idle", "idle")
        /\ Labels(worked, labels \union {"needs-human"})
    /\ mine' = [mine EXCEPT ![r] = <<>>]
    /\ UNCHANGED <<kids, kills, people, history>>

------------------------------------------------------------------------------
(* closeFinishedUmbrellas.                                                    *)

FindsUmbrella(r) ==
    /\ pc[r] = "idle" /\ open /\ umbrella
    /\ labels \cap {"queue", "needs-human"} = {}
    /\ Goes(r, "children")
    /\ UNCHANGED <<issue, kids, mine, faults, kills, people, history>>

SubIssues == {k \in Kids : kids[k].sub}

\* Mutation: a child closed as not planned counts as done.
ReadsAnyClosed(r) ==
    /\ pc[r] = "children"
    /\ Goes(r, IF SubIssues # {} /\ \A k \in SubIssues : kids[k].state # "open" THEN "close" ELSE "idle")
    /\ UNCHANGED <<issue, kids, mine, faults, kills, people, history>>

ReadsChildren(r) ==
    /\ pc[r] = "children"
    /\ Goes(r, IF SubIssues # {} /\ \A k \in SubIssues : kids[k].state = "completed" THEN "close" ELSE "idle")
    /\ UNCHANGED <<issue, kids, mine, faults, kills, people, history>>

ClosesUmbrella(r) ==
    /\ pc[r] = "close"
    /\ \E worked \in BOOLEAN :
        /\ Calls(r, worked, "idle", "idle")
        /\ open' = (open /\ ~worked)
    /\ UNCHANGED <<labels, umbrella, kids, mine, kills, people, history>>

------------------------------------------------------------------------------
(* The children's builds, people, and the end of a run.                       *)

\* The gate holds a child back while it is marked or its blocker is open.
Builds(k) ==
    /\ kids[k].state = "open" /\ ~kids[k].marked
    /\ \A j \in Kids : kids[k].after = j => kids[j].state # "open"
    /\ kids' = [kids EXCEPT ![k].state = "completed"]
    /\ UNCHANGED <<issue, pc, mine, faults, kills, people, history>>

AtRest == \A r \in Runs : pc[r] \in {"idle", "sent", "children", "close"}

\* The umbrella was read: its labels, or its children too.
Overtakes == overtaken' = (overtaken \/ ~open \/ \E r \in Runs : pc[r] \in {"children", "close"})

Person == people < MaxPeople /\ people' = people + 1

\* A person takes a needs-human or needs-info issue up as the hand-back's
\* comment says: the children, none of them built, are closed as not planned
\* and taken off the issue, which is queued again.
StartsOver ==
    /\ AtRest /\ open /\ labels \cap {"needs-human", "needs-info"} # {}
    /\ \A k \in Kids : kids[k].state # "completed"
    /\ Person
    /\ labels' = {"queue"}
    /\ kids' = [k \in Kids |-> [kids[k] EXCEPT !.state = "dropped", !.sub = FALSE]]
    /\ Overtakes
    /\ UNCHANGED <<open, umbrella, pc, mine, faults, kills, raced>>

\* Or finishes a split that failed: lets a child it left marked be built, and
\* takes the issue out of the queue.
FinishesByHand(k) ==
    /\ AtRest /\ open /\ kids[k].marked /\ kids[k].state = "open"
    /\ Person
    /\ kids' = [kids EXCEPT ![k].marked = FALSE, ![k].sub = TRUE,
                            ![k].after = IF k > 1 THEN k - 1 ELSE 0]
    /\ Labels(TRUE, labels \ {"queue"})
    /\ UNCHANGED <<pc, mine, faults, kills, history>>

\* A person closes a child as not planned.
Drops(k) ==
    /\ kids[k].state = "open"
    /\ Person
    /\ kids' = [kids EXCEPT ![k].state = "dropped"]
    /\ UNCHANGED <<issue, pc, mine, faults, kills, history>>

\* Or reopens one whose work turned out not to be done.
Reopens(k) ==
    /\ kids[k].state = "completed"
    /\ Person
    /\ kids' = [kids EXCEPT ![k].state = "open"]
    /\ Overtakes
    /\ UNCHANGED <<issue, pc, mine, faults, kills, raced>>

Killed(r) ==
    /\ pc[r] # "idle" /\ kills < MaxKills
    /\ kills' = kills + 1
    /\ Goes(r, "idle")
    /\ mine' = [mine EXCEPT ![r] = <<>>]
    /\ UNCHANGED <<issue, kids, faults, people, history>>

Splits(r) ==
    \/ Marks(r) \/ TakesMarkBack(r) \/ Creates(r) \/ AddsSubIssue(r) \/ Links(r)
    \/ Dequeues(r) \/ Comments(r) \/ ReleasesChild(r) \/ ReleasesIssue(r) \/ GivesUp(r)

Judges(r) == Verdict(r) \/ MarksReady(r) \/ Asks(r) \/ AsksLabel(r) \/ Splits(r)

Sweeps(r) == FindsUmbrella(r) \/ ReadsChildren(r) \/ ClosesUmbrella(r)

Next ==
    \/ \E r \in Runs : Lists(r) \/ Judges(r) \/ Sweeps(r) \/ Killed(r)
    \/ \E k \in Kids : Builds(k) \/ FinishesByHand(k) \/ Drops(k) \/ Reopens(k)
    \/ StartsOver

Spec == Init /\ [][Next]_vars

\* A run goes on with what it is doing and each round looks for umbrellas; the
\* children the gate lets through are built in the end.
LiveSpec ==
    /\ Spec
    /\ \A r \in Runs : WF_vars(Judges(r)) /\ WF_vars(Sweeps(r))
    /\ WF_vars(\E k \in Kids : Builds(k))

------------------------------------------------------------------------------
(* Properties.                                                                *)

Places ==
    {"idle", "sent", "ready", "asks", "needs-info", "marks", "unmark", "create", "sub", "link",
     "dequeue", "comment", "release", "failed", "children", "close"}

TypeOK ==
    /\ labels \subseteq {"queue"} \union Judged
    /\ open \in BOOLEAN /\ umbrella \in BOOLEAN
    /\ \A k \in Kids : kids[k] \in [draft : 1..Drafts, marked : BOOLEAN, sub : BOOLEAN,
                                    after : 0..(k - 1), state : {"open", "completed", "dropped"}]
    /\ pc \in [Runs -> Places]
    /\ \A r \in Runs : Len(mine[r]) <= Drafts /\ \A i \in DOMAIN mine[r] : mine[r][i] \in Kids
    /\ faults \in 0..MaxFaults /\ kills \in 0..MaxKills /\ people \in 0..MaxPeople

\* An open issue a split took out of the queue is found again: by the umbrella
\* check, or by the person its needs-human mark calls for.
NothingLost == open /\ "queue" \notin labels => umbrella \/ "needs-human" \in labels

\* No child is let through to the build before the umbrella lists it, unless a
\* person let one through.
NoChildBuiltEarly ==
    people = 0 => \A k \in Kids : ~kids[k].marked => umbrella /\ "queue" \notin labels

\* Children are built in the order they were drafted: no child is let through
\* unless it waits for the one before it.
BuildOrder ==
    \A k \in Kids : ~kids[k].marked /\ kids[k].draft > 1 /\ Live(k) => kids[k].after # 0

\* A part of the work is never given out twice: no two live children were made
\* from the same draft (markSplitting keeps the issue from a second split).
SplitOnce == \A j, k \in Kids : Live(j) /\ Live(k) /\ kids[j].draft = kids[k].draft => j = k

\* A split, however it breaks off, leaves the issue where somebody finds it, and
\* is not made again: not by a later run, nor by one that has the issue in its
\* list meanwhile, unless its look came too early or too late (Races).
SplitIsKept == TypeOK /\ (~raced => NothingLost /\ SplitOnce)

\* No child is built before its turn: not while the split is being made, and
\* not before the one it builds on.
ChildrenInTurn == NoChildBuiltEarly /\ BuildOrder

\* The umbrella is closed only over a whole split, every child of which is
\* completed, and not one reopened since, unless after the host's read of it.
ClosedMeansDone ==
    ~open /\ ~raced /\ ~overtaken => {kids[k].draft : k \in {c \in SubIssues : kids[c].state = "completed"}} = 1..Drafts

\* Once a split has begun, its issue ends closed, or somebody is told: a mark
\* is left on it or on a child, it is in the queue again, or a child was closed
\* as not planned. Two runs' verdicts that race (Races) are not covered.
EndsAccounted ==
    <>[](\/ kids = <<>> \/ ~open \/ raced
         \/ labels \cap {"queue", "needs-human"} # {}
         \/ \E k \in Kids : kids[k].marked \/ kids[k].state = "dropped")
=============================================================================
