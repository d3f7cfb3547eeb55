-------------------------------- MODULE Queue --------------------------------
(* Loading the queue (lib/queue.mts#loadQueue) for one issue, while its owner  *)
(* and a stranger label and edit it. What GitHub keeps of the issue is a log   *)
(* of changes, each with who made it and the second it was made in; the        *)
(* issue's labels and text follow from the log. A load reads the listing, then *)
(* the events, then the edits, so each may show more of the log than the last. *)
EXTENDS Integers, FiniteSets, Sequences, FiniteSetsExt

CONSTANTS
    MaxChanges,  \* bound: changes people make
    Touched,     \* bound: the labels they touch, "renamed" and "edited"
    MaxAdds,     \* bound: the host's adds, past which intake marks nothing
    MaxFaults    \* bound: reads, writes and permission look-ups that fail

ASSUME ConstantsAssumption == MaxChanges \in Nat /\ MaxAdds \in Nat /\ MaxFaults \in Nat

\* "queue" is the scope's queue label; "hold" stands for sandcastle:needs-info
\* and sandcastle:needs-human, which the rules treat alike.
LabelNames == {"queue", "ready", "hold"}

VARIABLES
    log,      \* every change to the issue, oldest first
    clock,    \* the second it is now
    changes, faults,
    cache,    \* the round's reads, by key
    pc, listed, read, toFix, labels,   \* the load under way
    kept      \* what the last load handed on

load == <<pc, listed, read, toFix, labels>>
github == <<log, clock, changes>>
vars == <<log, clock, changes, faults, cache, pc, listed, read, toFix, labels, kept>>

Change(what, label, by) == [what |-> what, label |-> label, by |-> by, at |-> clock]

\* How much of the log a load's two reads showed, and, as history, how much the
\* listing had that they were made for: a cached read may be for an earlier one.
NotRead == [events |-> 0, edits |-> 0, for |-> 0]
Nothing == [listed |-> 0, labels |-> {}, seen |-> 0, for |-> 0]

\* The owner's queueing comes first.
Init ==
    /\ clock = 0
    /\ log = <<Change("labeled", "queue", "owner")>>
    /\ changes = 0 /\ faults = 0
    /\ cache = {}
    /\ pc = "idle" /\ listed = 0 /\ read = NotRead
    /\ toFix = {} /\ labels = {}
    /\ kept = Nothing

------------------------------------------------------------------------------
(* The decision: approval and labelOriginFixes, on a read of the log.         *)

Events(n) == {i \in 1..n : log[i].what # "edited"}
Edits(n) == {i \in 1..n : log[i].what = "edited"}
OfLabel(n, label) == {i \in Events(n) : log[i].label = label}
Adds(n, label) == {i \in OfLabel(n, label) : log[i].what = "labeled"}

Latest(events) ==
    CHOOSE i \in events : \A j \in events : log[j].at < log[i].at \/ (log[j].at = log[i].at /\ j <= i)

LabelsAt(n) == {label \in LabelNames : OfLabel(n, label) # {} /\ log[Max(OfLabel(n, label))].what = "labeled"}
TextAt(n) == {i \in 1..n : log[i].what \in {"renamed", "edited"}}

\* ownerCheck: the host's own login counts as the owner, without a look-up.
IsOwner(by, failed) ==
    IF by = "host" THEN "yes"
    ELSE IF by \in failed THEN "unknown" ELSE IF by = "owner" THEN "yes" ELSE "no"

\* Mutation: a change in the second the label was added in counts as before it.
ApprovesSameSecond(seen, failed) ==
    LET queued == Adds(seen.events, "queue")
        texts == {i \in Events(seen.events) : log[i].what = "renamed"} \union Edits(seen.edits)
    IN /\ queued # {}
       /\ IsOwner(log[Latest(queued)].by, failed) = "yes"
       /\ \A i \in texts : log[i].at <= log[Latest(queued)].at \/ IsOwner(log[i].by, failed) = "yes"

\* approval: the last queueing is the owner's, and so is every change to the
\* text not provably before it.
Approved(seen, failed) ==
    LET queued == Adds(seen.events, "queue")
        texts == {i \in Events(seen.events) : log[i].what = "renamed"} \union Edits(seen.edits)
    IN /\ queued # {}
       /\ IsOwner(log[Latest(queued)].by, failed) = "yes"
       /\ \A i \in texts : log[i].at < log[Latest(queued)].at \/ IsOwner(log[i].by, failed) = "yes"

\* Who decided on a sensitive label: its last add if the issue carries it
\* (trustAdds), its last event, if that is a removal, if it does not
\* (trustRemovals). A label that shows no add is nobody's: "unknown".
Origin(carried, seen, label, failed) ==
    CASE label = "ready" /\ label \in carried ->
           IF Adds(seen.events, label) = {} THEN "unknown"
           ELSE IsOwner(log[Latest(Adds(seen.events, label))].by, failed)
      [] label = "hold" /\ label \notin carried /\ OfLabel(seen.events, label) # {}
           /\ log[Latest(OfLabel(seen.events, label))].what = "unlabeled" ->
           IsOwner(log[Latest(OfLabel(seen.events, label))].by, failed)
      [] OTHER -> "yes"

\* Mutation: needs-info and needs-human are taken as they are.
FixesReadyOnly(carried, seen, failed) ==
    {label \in {"ready"} : Origin(carried, seen, label, failed) = "no"}

LabelFixes(carried, seen, failed) ==
    {label \in LabelNames : Origin(carried, seen, label, failed) = "no"}

Unknown(carried, seen, failed) ==
    {label \in LabelNames : Origin(carried, seen, label, failed) = "unknown"}

------------------------------------------------------------------------------
(* People, and time.                                                          *)

Appends(change) == log' = Append(log, change)

PersonActs(by) ==
    /\ changes < MaxChanges /\ changes' = changes + 1
    /\ \/ \E label \in LabelNames \cap Touched :
            Appends(Change(IF label \in LabelsAt(Len(log)) THEN "unlabeled" ELSE "labeled", label, by))
       \/ \E what \in {"renamed", "edited"} \cap Touched : Appends(Change(what, "none", by))
    /\ UNCHANGED <<clock, faults, cache, load, kept>>

\* A second with no change in it is as good as many.
Tick ==
    /\ clock <= log[Len(log)].at
    /\ clock' = clock + 1
    /\ UNCHANGED <<log, changes, faults, cache, load, kept>>

------------------------------------------------------------------------------
(* A load.                                                                    *)

Fails == faults < MaxFaults /\ faults' = faults + 1

\* The load of this issue is over: it is skipped, until a later load, or used.
Ends == pc' = "idle" /\ listed' = 0 /\ read' = NotRead /\ toFix' = {} /\ labels' = {} /\ kept' = Nothing

\* main's round: startQueueRound.
StartsRound ==
    /\ pc = "idle" /\ cache # {}
    /\ cache' = {}
    /\ UNCHANGED <<github, faults, load, kept>>

\* Mutation: the key leaves out updatedAt.
KeyWithoutTime(n) == <<0, LabelsAt(n), TextAt(n)>>

\* cacheKey, of what the listing shows: updatedAt, labels, title and body.
Key(n) == <<log[n].at, LabelsAt(n), TextAt(n)>>

\* The entries a listing may yet find: none later has an earlier second's key.
Current(n) == {entry \in cache : entry.key[1] >= Key(n)[1]}

Hit(n) == {entry \in cache : entry.key = Key(n)}

Lists ==
    /\ pc = "idle"
    /\ IF "queue" \notin LabelsAt(Len(log)) THEN Ends
       ELSE /\ listed' = Len(log)
            /\ labels' = LabelsAt(Len(log))
            /\ \/ \E entry \in Hit(Len(log)) : read' = entry.read /\ pc' = "judge"
               \/ Hit(Len(log)) = {} /\ read' = [NotRead EXCEPT !.for = Len(log)] /\ pc' = "events"
            /\ kept' = Nothing
            /\ UNCHANGED toFix
    /\ UNCHANGED <<github, faults, cache>>

ReadsEvents ==
    /\ pc = "events"
    /\ \/ /\ read' = [read EXCEPT !.events = Len(log)]
          /\ pc' = "edits"
          /\ UNCHANGED <<faults, listed, toFix, labels, kept>>
       \/ Fails /\ Ends
    /\ UNCHANGED <<github, cache>>

ReadsEdits ==
    /\ pc = "edits"
    /\ \/ /\ read' = [read EXCEPT !.edits = Len(log)]
          /\ cache' = Current(listed) \union {[key |-> Key(listed), read |-> read']}
          /\ pc' = "judge"
          /\ UNCHANGED <<faults, listed, toFix, labels, kept>>
       \/ Fails /\ Ends /\ UNCHANGED cache
    /\ UNCHANGED github

\* The permission look-ups of `failed` fail; one set for the whole load.
Judges ==
    /\ pc = "judge"
    /\ \E failed \in SUBSET {"owner", "stranger"} :
        /\ IF failed = {} THEN UNCHANGED faults ELSE Fails
        /\ IF Approved(read, failed) /\ Unknown(labels, read, failed) = {}
           THEN /\ pc' = "fix"
                /\ toFix' = LabelFixes(labels, read, failed)
                /\ UNCHANGED <<listed, read, labels, kept>>
           ELSE Ends
    /\ UNCHANGED <<github, cache>>

Corrects(label) == Appends(Change(IF label = "ready" THEN "unlabeled" ELSE "labeled", label, "host"))

\* One label taken off or put back, as the host: a call that fails may have
\* landed, and ends the load of this issue.
Fixes(label) ==
    /\ pc = "fix" /\ label \in toFix
    /\ \/ /\ Corrects(label)
          /\ labels' = IF label = "ready" THEN labels \ {label} ELSE labels \union {label}
          /\ toFix' = toFix \ {label}
          /\ UNCHANGED <<pc, listed, read, kept, faults>>
       \/ Fails /\ Ends /\ (UNCHANGED log \/ Corrects(label))
    /\ UNCHANGED <<clock, changes, cache>>

HandsOn ==
    /\ pc = "fix" /\ toFix = {}
    /\ pc' = "handed"
    /\ kept' = [listed |-> listed, labels |-> labels, seen |-> Len(log), for |-> read.for]
    /\ UNCHANGED <<github, faults, cache, listed, read, toFix, labels>>

\* A phase uses the load: intake marks an issue nobody judged ready or hands
\* it back, having looked at its labels again; the others write no label here.
Uses ==
    /\ pc = "handed"
    /\ Ends
    /\ \/ UNCHANGED log
       \/ /\ kept.labels \cap {"ready", "hold"} = {}
          /\ LabelsAt(Len(log)) \cap {"ready", "hold"} = {}
          /\ Cardinality({i \in DOMAIN log : log[i].by = "host" /\ log[i].what = "labeled"}) < MaxAdds
          /\ \E label \in {"ready", "hold"} : Appends(Change("labeled", label, "host"))
    /\ UNCHANGED <<clock, changes, faults, cache>>

Loads ==
    \/ Lists \/ ReadsEvents \/ ReadsEdits \/ Judges \/ HandsOn \/ Uses
    \/ \E label \in LabelNames : Fixes(label)

Next == StartsRound \/ Loads \/ Tick \/ PersonActs("owner") \/ PersonActs("stranger")

Spec == Init /\ [][Next]_vars

\* Time passes; the host goes on loading the queue, a new round now and then.
LiveSpec == Spec /\ WF_vars(Tick) /\ WF_vars(Loads) /\ SF_vars(StartsRound)

------------------------------------------------------------------------------
(* Properties.                                                                *)

TypeOK ==
    /\ \A i \in DOMAIN log :
        log[i] \in [what : {"labeled", "unlabeled", "renamed", "edited"}, label : LabelNames \union {"none"},
                    by : {"owner", "stranger", "host"}, at : 0..clock]
    /\ changes \in 0..MaxChanges /\ faults \in 0..MaxFaults
    /\ pc \in {"idle", "events", "edits", "judge", "fix", "handed"}
    /\ listed <= Len(log) /\ read.events <= Len(log) /\ read.edits <= Len(log)
    /\ toFix \subseteq {"ready", "hold"} /\ (toFix # {} => pc = "fix") /\ labels \subseteq LabelNames
    /\ kept.listed <= kept.seen /\ kept.labels \subseteq LabelNames

Trusted(i) == log[i].by # "stranger"
Queueing(i) == log[i].what = "labeled" /\ log[i].label = "queue"

\* A queueing by the owner that no stranger's queueing or change to the text
\* followed, among the changes the listing showed.
ApprovesListing(q) ==
    /\ Queueing(q) /\ Trusted(q)
    /\ \A i \in (q + 1)..kept.listed :
        ~Trusted(i) => ~Queueing(i) /\ log[i].what \notin {"renamed", "edited"}

\* The cache gave the load what was read for an earlier listing of the same
\* second, with the same labels and text: cacheKey tells such two not apart.
Collided == kept.for # kept.listed /\ log[kept.for].at = log[kept.listed].at

\* An issue is handed on to the phases only if the owner queued it with, or
\* since, everything a stranger did to its text that the listing showed.
KeptWasQueued == kept # Nothing /\ ~Collided => \E q \in 1..kept.seen : ApprovesListing(q)

\* The labels handed on are the owner's or the host's doing: no stranger's add
\* of sandcastle:ready counts, and no stranger's removal of a hold label,
\* unless the label was undone, or decided on by the owner or the host, since.
KeptLabelsTrusted ==
    kept # Nothing /\ ~Collided =>
        \A i \in 1..kept.listed :
            /\ ~Trusted(i)
            /\ \/ log[i].what = "labeled" /\ log[i].label = "ready" /\ "ready" \in kept.labels
               \/ log[i].what = "unlabeled" /\ log[i].label = "hold" /\ "hold" \notin kept.labels
            => \E j \in (i + 1)..kept.seen :
                 log[j].label = log[i].label /\ (Trusted(j) \/ log[j].what # log[i].what)

\* The host takes off only what a stranger put on: never a sandcastle:ready
\* that only the owner or intake ever added.
NeverUndoesItself ==
    \A i \in DOMAIN log :
        log[i].by = "host" /\ log[i].what = "unlabeled" =>
            \E j \in 1..(i - 1) : ~Trusted(j) /\ log[j].what = "labeled" /\ log[j].label = "ready"

\* The labels the host hands on, and the ones it takes off itself, are decided
\* by whoever put them there, not by what is there.
LabelsAreSound == TypeOK /\ KeptLabelsTrusted /\ NeverUndoesItself

Now == [events |-> Len(log), edits |-> Len(log)]

\* Once people leave the issue alone, no sensitive label stays as a stranger
\* left it on an issue the owner approved.
StrangerUndone ==
    <>[]("queue" \in LabelsAt(Len(log)) /\ Approved(Now, {}) =>
            \A label \in {"ready", "hold"} :
                LET all == OfLabel(Len(log), label)
                IN all # {} /\ ~Trusted(Max(all)) =>
                     (label = "hold") = (log[Max(all)].what = "labeled"))
=============================================================================
