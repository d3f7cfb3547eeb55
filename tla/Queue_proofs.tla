----------------------------- MODULE Queue_proofs -----------------------------
(* That an issue handed on was queued by its owner, and its labels decided by  *)
(* the owner or the host (Queue), for any number of changes, loads, rounds and *)
(* faults, at any times: but for a load for which the cache takes an earlier   *)
(* listing of the same second (Collided).                                      *)
EXTENDS Queue, FiniteSetTheorems, WellFoundedInduction, TLAPS

USE ConstantsAssumption

------------------------------------------------------------------------------
(* Greatest elements.                                                         *)

LEMMA LeastNat ==
    ASSUME NEW T \in SUBSET Nat, T # {}
    PROVE  \E m \in T : \A k \in T : m <= k
<1>1. PICK m \in T : \A k \in T : <<k, m>> \notin OpToRel(<, Nat)
    BY ONLY WFMin, NatLessThanWellFounded, T \in SUBSET Nat, T # {}, Zenon
<1>2. OpToRel(<, Nat) = {ss \in Nat \X Nat : ss[1] < ss[2]}
    BY ONLY Zenon DEF OpToRel
<1>3. \A k \in T : ~(k < m)
    BY <1>1, <1>2
<1> QED
    BY <1>3

LEMMA GreatestIndex ==
    ASSUME NEW n \in Nat, NEW S \in SUBSET (1..n), S # {}
    PROVE  \E m \in S : \A k \in S : k <= m
<1> DEFINE T == {n - x : x \in S}
<1>1. T \in SUBSET Nat /\ T # {}
    <2>1. \A x \in S : n - x \in Nat
        OBVIOUS
    <2> QED
        BY <2>1
<1>2. PICK m \in T : \A k \in T : m <= k
    BY <1>1, LeastNat
<1>3. PICK y \in S : m = n - y
    BY <1>2
<1>4. \A x \in S : x <= y
    <2> SUFFICES ASSUME NEW x \in S PROVE x <= y
        OBVIOUS
    <2>1. x \in 1..n /\ y \in 1..n /\ n - x \in T
        OBVIOUS
    <2>2. m <= n - x
        BY <1>2, <2>1
    <2> QED
        BY <1>3, <2>1, <2>2
<1> QED
    BY <1>4

------------------------------------------------------------------------------
(* The inductive invariant.                                                   *)

Logged ==
    [what : {"labeled", "unlabeled", "renamed", "edited"}, label : LabelNames \union {"none"},
     by : {"owner", "stranger", "host"}, at : Nat]
ReadsOf(n) == [events : 0..n, edits : 0..n, for : 0..n]

Types ==
    /\ log \in Seq(Logged) /\ Len(log) \in Nat \ {0} /\ clock \in Nat
    /\ changes \in 0..MaxChanges /\ faults \in 0..MaxFaults
    /\ pc \in {"idle", "events", "edits", "judge", "fix", "handed"}
    /\ listed \in 0..Len(log) /\ read \in ReadsOf(Len(log))
    /\ \A entry \in cache : entry.read \in ReadsOf(Len(log))
    /\ toFix \subseteq {"ready", "hold"} /\ (toFix # {} => pc = "fix") /\ labels \subseteq LabelNames
    /\ kept \in [listed : Nat, labels : SUBSET LabelNames, seen : Nat, for : Nat]
    /\ kept.listed <= kept.seen /\ kept.seen <= Len(log)

\* Changes are logged in the order of their seconds.
InOrder ==
    \A i \in 1..Len(log) : log[i].at <= clock /\ \A j \in 1..i : log[j].at <= log[i].at

\* What the host is to take off, a stranger put on.
UndoInv ==
    /\ NeverUndoesItself
    /\ "ready" \in toFix =>
         \E j \in 1..Len(log) : ~Trusted(j) /\ log[j].what = "labeled" /\ log[j].label = "ready"

LogInv == Types /\ InOrder /\ UndoInv

Covers(seen, n) == n <= seen.events /\ seen.events <= seen.edits

\* The cache holds, under the key of a listing, reads of what it showed and more.
CacheInv ==
    \A entry \in cache :
        /\ entry.read.for \in 1..Len(log) /\ entry.key = Key(entry.read.for)
        /\ Covers(entry.read, entry.read.for)

Approves(q, n) ==
    /\ Queueing(q) /\ Trusted(q)
    /\ \A i \in (q + 1)..n : ~Trusted(i) => ~Queueing(i) /\ log[i].what \notin {"renamed", "edited"}

\* Each sensitive label but the ones to fix is decided on by the owner or the host.
DecidedBut(fixes) ==
    \A i \in 1..listed :
        /\ ~Trusted(i)
        /\ \/ log[i].what = "labeled" /\ log[i].label = "ready" /\ "ready" \in labels \ fixes
           \/ log[i].what = "unlabeled" /\ log[i].label = "hold" /\ "hold" \notin labels \union fixes
        => \E j \in (i + 1)..Len(log) :
             log[j].label = log[i].label /\ (Trusted(j) \/ log[j].what # log[i].what)

\* The load under way judges what was read for an earlier listing of the second.
Mistaken == read.for # listed /\ log[read.for].at = log[listed].at

LoadInv ==
    /\ pc \in {"events", "edits", "judge", "fix"} => listed \in 1..Len(log) /\ read.for \in 1..listed
    /\ pc \in {"events", "edits"} => read.for = listed
    /\ pc = "edits" => listed <= read.events
    /\ pc = "judge" /\ ~Mistaken => Covers(read, listed)
    /\ pc = "fix" /\ ~Mistaken => DecidedBut(toFix) /\ \E q \in 1..Len(log) : Approves(q, listed)

KeptInv ==
    /\ kept # Nothing => pc = "handed" /\ kept.for \in 1..kept.listed /\ kept.listed # 0
    /\ KeptWasQueued /\ KeptLabelsTrusted

DecidedInv == CacheInv /\ LoadInv /\ KeptInv

------------------------------------------------------------------------------
(* The log.                                                                   *)

\* What is latest by the seconds is latest in the log.
LEMMA LatestIsLast ==
    ASSUME Types, InOrder, NEW S \in SUBSET (1..Len(log)), S # {}
    PROVE  Latest(S) \in S /\ \A k \in S : k <= Latest(S)
<1> DEFINE Last(i) == \A j \in S : log[j].at < log[i].at \/ (log[j].at = log[i].at /\ j <= i)
<1>1. \A i \in 1..Len(log) : log[i].at \in Nat
    <2>1. \A i \in 1..Len(log) : log[i] \in Logged
        BY DEF Types
    <2> QED
        BY <2>1 DEF Logged
<1>2. PICK m \in S : \A k \in S : k <= m
    BY GreatestIndex DEF Types
<1>3. \A k \in S : log[k].at <= log[m].at
    BY <1>2 DEF InOrder
<1>4. Last(m)
    BY <1>1, <1>2, <1>3
<1>5. PICK latest \in S : latest = Latest(S) /\ Last(latest)
    BY <1>4 DEF Latest
<1>6. ASSUME NEW k \in S, k > latest PROVE FALSE
    <2>1. k \in 1..Len(log) /\ latest \in 1..k
        BY <1>5, <1>6 DEF Types
    <2>2. log[latest].at <= log[k].at
        BY <2>1 DEF InOrder
    <2>3. log[k].at \in Nat /\ log[latest].at \in Nat
        BY <1>1, <1>5
    <2> QED
        BY <1>5, <1>6, <2>1, <2>2, <2>3
<1>7. \A k \in S : k <= latest
    BY <1>6 DEF Types
<1> QED
    BY <1>5, <1>7

\* The log only grows, by changes of the second it is.
Grown ==
    /\ clock' \in Nat /\ clock <= clock'
    /\ log' = log \/ \E change \in Logged : change.at = clock /\ log' = Append(log, change)

LEMMA PersonLogs ==
    ASSUME Types, NEW by \in {"owner", "stranger"}, PersonActs(by)
    PROVE  \E change \in Logged : change.at = clock /\ change.by = by /\ log' = Append(log, change)
<1>1. \A what \in {"labeled", "unlabeled", "renamed", "edited"}, label \in LabelNames \union {"none"} :
        Change(what, label, by) \in Logged /\ Change(what, label, by).at = clock /\ Change(what, label, by).by = by
    BY DEF Types, Change, Logged
<1>2. CASE \E label \in LabelNames \cap Touched :
            Appends(Change(IF label \in LabelsAt(Len(log)) THEN "unlabeled" ELSE "labeled", label, by))
    BY <1>1, <1>2 DEF Appends
<1>3. CASE \E what \in {"renamed", "edited"} \cap Touched : Appends(Change(what, "none", by))
    BY <1>1, <1>3 DEF Appends
<1> QED
    BY <1>2, <1>3 DEF PersonActs

\* What the host writes: the fix of a label, intake's mark.
LEMMA HostLogs ==
    ASSUME Types, NEW what \in {"labeled", "unlabeled"}, NEW label \in LabelNames, Appends(Change(what, label, "host"))
    PROVE  \E change \in Logged : /\ change.at = clock /\ change.by = "host" /\ change.what = what
                                 /\ change.label = label /\ log' = Append(log, change)
<1>1. Change(what, label, "host") \in Logged
    BY DEF Types, Change, Logged
<1> QED
    BY <1>1 DEF Appends, Change

LEMMA StepGrows == Types /\ [Next]_vars => Grown
<1> SUFFICES ASSUME Types, [Next]_vars PROVE Grown
    OBVIOUS
<1> USE DEF Grown
<1>1. clock \in Nat
    BY DEF Types
<1>2. CASE UNCHANGED vars
    BY <1>1, <1>2 DEF vars, github
<1>3. CASE StartsRound \/ Lists \/ ReadsEvents \/ ReadsEdits \/ Judges \/ HandsOn
    BY <1>1, <1>3 DEF StartsRound, Lists, ReadsEvents, ReadsEdits, Judges, HandsOn, github
<1>4. CASE Uses
    BY <1>1, <1>4, HostLogs DEF Uses, LabelNames
<1>5. CASE \E label \in LabelNames : Fixes(label)
    BY <1>1, <1>5, HostLogs DEF Fixes, Corrects
<1>6. CASE Tick
    BY <1>1, <1>6 DEF Tick
<1>7. CASE PersonActs("owner") \/ PersonActs("stranger")
    <2>1. UNCHANGED clock
        BY <1>7 DEF PersonActs
    <2> QED
        BY <1>1, <1>7, <2>1, PersonLogs
<1> QED
    BY <1>2, <1>3, <1>4, <1>5, <1>6, <1>7 DEF Next, Loads

\* What was logged stays as it was, and in order.
LEMMA GrownLog ==
    ASSUME Types, Grown
    PROVE  /\ log' \in Seq(Logged) /\ Len(log') \in Nat /\ Len(log) <= Len(log')
           /\ \A i \in 1..Len(log) : log'[i] = log[i]
           /\ \A i \in (Len(log) + 1)..Len(log') : log'[i].at = clock /\ log' = Append(log, log'[i])
<1>1. CASE log' = log
    BY <1>1 DEF Types
<1>2. CASE \E change \in Logged : change.at = clock /\ log' = Append(log, change)
    BY <1>2 DEF Types
<1> QED
    BY <1>1, <1>2 DEF Grown

LEMMA OrderKept == Types /\ InOrder /\ Grown => InOrder'
<1> SUFFICES ASSUME Types, InOrder, Grown, NEW i \in 1..Len(log')
             PROVE  log'[i].at <= clock' /\ \A j \in 1..i : log'[j].at <= log'[i].at
    BY DEF InOrder
<1>1. \A k \in 1..Len(log) : log[k].at \in Nat /\ log[k].at <= clock /\ log'[k] = log[k]
    <2>1. \A k \in 1..Len(log) : log[k] \in Logged
        BY DEF Types
    <2> QED
        BY <2>1, GrownLog DEF Logged, InOrder
<1>2. clock \in Nat /\ clock' \in Nat /\ clock <= clock' /\ Len(log) \in Nat /\ Len(log') \in Nat
    BY GrownLog DEF Types, Grown
<1>3. CASE i \in 1..Len(log)
    <2>1. \A j \in 1..i : j \in 1..Len(log) /\ log[j].at <= log[i].at
        BY <1>2, <1>3 DEF InOrder
    <2> QED
        BY <1>1, <1>2, <1>3, <2>1
<1>4. CASE i \in (Len(log) + 1)..Len(log')
    <2>1. log'[i].at = clock /\ Len(log') = Len(log) + 1
        BY <1>4, GrownLog DEF Types
    <2>2. \A j \in 1..i : j \in 1..Len(log) \/ j = i
        BY <1>2, <1>4, <2>1
    <2> QED
        BY <1>1, <1>2, <2>1, <2>2
<1> QED
    BY <1>2, <1>3, <1>4

\* A label the host takes off was last put on by a stranger.
LEMMA ReadyToUndo ==
    ASSUME Types, InOrder, NEW failed \in SUBSET {"owner", "stranger"},
           "ready" \in LabelFixes(labels, read, failed)
    PROVE  \E j \in 1..Len(log) : ~Trusted(j) /\ log[j].what = "labeled" /\ log[j].label = "ready"
<1> DEFINE adds == Adds(read.events, "ready")
<1>1. read.events \in 0..Len(log) /\ Len(log) \in Nat
    BY DEF Types, ReadsOf
<1>2. adds \in SUBSET (1..Len(log)) /\ \A j \in adds : log[j].what = "labeled" /\ log[j].label = "ready"
    BY <1>1 DEF Adds, OfLabel, Events
<1>3. Origin(labels, read, "ready", failed) = "no"
    BY DEF LabelFixes
<1>4. adds # {} /\ IsOwner(log[Latest(adds)].by, failed) = "no"
    <2>1. CASE "ready" \in labels
        BY <1>3, <2>1 DEF Origin
    <2>2. CASE "ready" \notin labels
        BY <1>3, <2>2 DEF Origin
    <2> QED
        BY <2>1, <2>2
<1> HIDE DEF adds
<1>5. Latest(adds) \in adds
    BY <1>2, <1>4, LatestIsLast
<1>6. log[Latest(adds)].by = "stranger"
    <2>1. log[Latest(adds)] \in Logged
        <3>1. Latest(adds) \in 1..Len(log)
            BY <1>2, <1>5
        <3> QED
            BY <3>1 DEF Types
    <2>2. log[Latest(adds)].by \in {"owner", "stranger", "host"}
        BY <2>1 DEF Logged
    <2> QED
        BY <1>4, <2>2 DEF IsOwner
<1> QED
    BY <1>2, <1>5, <1>6 DEF Trusted

------------------------------------------------------------------------------
(* Types, and what the host takes off.                                        *)

LEMMA GrownTypes ==
    ASSUME Types, Grown
    PROVE  /\ log' \in Seq(Logged) /\ Len(log') \in Nat \ {0} /\ clock' \in Nat
           /\ 0..Len(log) \subseteq 0..Len(log') /\ ReadsOf(Len(log)) \subseteq ReadsOf(Len(log'))
           /\ \A n \in Nat : n <= Len(log) => n <= Len(log')
<1>1. /\ log' \in Seq(Logged) /\ Len(log') \in Nat \ {0} /\ clock' \in Nat
      /\ Len(log) \in Nat /\ Len(log) <= Len(log')
    BY GrownLog DEF Types, Grown
<1>2. 0..Len(log) \subseteq 0..Len(log')
    BY <1>1
<1> QED
    BY <1>1, <1>2 DEF ReadsOf

\* A step that leaves the load, or ends it.
LEMMA OtherTypes ==
    ASSUME Types, Grown, changes' \in 0..MaxChanges, faults' \in 0..MaxFaults, cache' \subseteq cache,
           UNCHANGED <<load, kept>> \/ Ends
    PROVE  Types'
<1>1. \A entry \in cache' : entry.read \in ReadsOf(Len(log'))
    BY GrownTypes DEF Types
<1>2. CASE UNCHANGED <<load, kept>>
    <2>1. kept'.seen <= Len(log') /\ listed' \in 0..Len(log') /\ read' \in ReadsOf(Len(log'))
        BY <1>2, GrownTypes DEF Types, load
    <2> QED
        BY <1>1, <1>2, <2>1, GrownTypes DEF Types, load
<1>3. CASE Ends
    <2>1. NotRead \in ReadsOf(Len(log')) /\ 0 \in 0..Len(log')
        BY GrownTypes DEF NotRead, ReadsOf
    <2>2. /\ Nothing \in [listed : Nat, labels : SUBSET LabelNames, seen : Nat, for : Nat]
          /\ Nothing.listed <= Nothing.seen /\ Nothing.seen <= Len(log')
        BY GrownTypes DEF Nothing
    <2> QED
        BY <1>1, <1>3, <2>1, <2>2, GrownTypes DEF Types, Ends
<1> QED
    BY <1>2, <1>3

LEMMA LabelsAreNames == \A n : LabelsAt(n) \subseteq LabelNames
BY DEF LabelsAt

LEMMA TypesKept == LogInv /\ [Next]_vars => Types'
<1> SUFFICES ASSUME LogInv, [Next]_vars PROVE Types'
    OBVIOUS
<1> USE DEF LogInv
<1>1. Types /\ Grown
    BY StepGrows
<1>2. /\ faults \in 0..MaxFaults /\ changes \in 0..MaxChanges /\ Len(log) \in 0..Len(log) /\ Len(log) \in Nat
      /\ (Fails => faults' \in 0..MaxFaults)
    BY <1>1 DEF Types, Fails
<1>3. CASE UNCHANGED vars
    BY <1>1, <1>2, <1>3, OtherTypes DEF vars, load, github
<1>4. CASE StartsRound
    BY <1>1, <1>2, <1>4, OtherTypes DEF StartsRound, github
<1>5. CASE Tick
    BY <1>1, <1>2, <1>5, OtherTypes DEF Tick
<1>6. CASE PersonActs("owner") \/ PersonActs("stranger")
    <2>1. changes' \in 0..MaxChanges /\ UNCHANGED <<clock, faults, cache, load, kept>>
        BY <1>2, <1>6 DEF PersonActs
    <2> QED
        BY <1>1, <1>2, <2>1, OtherTypes
<1>7. CASE Lists
    <2>1. CASE Ends
        BY <1>1, <1>2, <1>7, <2>1, OtherTypes DEF Lists, github
    <2>2. CASE /\ listed' = Len(log) /\ labels' = LabelsAt(Len(log)) /\ kept' = Nothing /\ UNCHANGED toFix
               /\ \/ \E entry \in Hit(Len(log)) : read' = entry.read /\ pc' = "judge"
                  \/ read' = [NotRead EXCEPT !.for = Len(log)] /\ pc' = "events"
        <3>0. [NotRead EXCEPT !.for = Len(log)] \in ReadsOf(Len(log))
            BY <1>2 DEF NotRead, ReadsOf
        <3>1. read' \in ReadsOf(Len(log)) /\ pc' \in {"judge", "events"} /\ toFix' = {}
            BY <1>1, <1>7, <2>2, <3>0 DEF Types, Hit, Lists
        <3>2. /\ Nothing \in [listed : Nat, labels : SUBSET LabelNames, seen : Nat, for : Nat]
              /\ Nothing.listed <= Nothing.seen /\ Nothing.seen <= Len(log)
            BY <1>2 DEF Nothing
        <3> QED
            BY <1>1, <1>2, <1>7, <2>2, <3>1, <3>2, LabelsAreNames DEF Types, Lists, github
    <2> QED
        BY <1>7, <2>1, <2>2 DEF Lists
<1>8. CASE ReadsEvents
    <2>1. CASE Fails /\ Ends
        BY <1>1, <1>2, <1>8, <2>1, OtherTypes DEF ReadsEvents, github
    <2>2. CASE /\ read' = [read EXCEPT !.events = Len(log)] /\ pc' = "edits"
               /\ UNCHANGED <<faults, listed, toFix, labels, kept>>
        <3>1. read' \in ReadsOf(Len(log))
            BY <1>1, <1>2, <2>2 DEF Types, ReadsOf
        <3> QED
            BY <1>1, <1>8, <2>2, <3>1 DEF Types, ReadsEvents, github
    <2> QED
        BY <1>8, <2>1, <2>2 DEF ReadsEvents
<1>9. CASE ReadsEdits
    <2>1. CASE Fails /\ Ends /\ UNCHANGED cache
        BY <1>1, <1>2, <1>9, <2>1, OtherTypes DEF ReadsEdits, github
    <2>2. CASE /\ read' = [read EXCEPT !.edits = Len(log)] /\ pc' = "judge"
               /\ cache' = Current(listed) \union {[key |-> Key(listed), read |-> read']}
               /\ UNCHANGED <<faults, listed, toFix, labels, kept>>
        <3>1. read' \in ReadsOf(Len(log))
            BY <1>1, <1>2, <2>2 DEF Types, ReadsOf
        <3>2. \A entry \in cache' : entry.read \in ReadsOf(Len(log))
            BY <1>1, <2>2, <3>1 DEF Types, Current
        <3> QED
            BY <1>1, <1>9, <2>2, <3>1, <3>2 DEF Types, ReadsEdits, github
    <2> QED
        BY <1>9, <2>1, <2>2 DEF ReadsEdits
<1>10. CASE Judges
    <2>1. PICK failed \in SUBSET {"owner", "stranger"} :
            /\ IF failed = {} THEN UNCHANGED faults ELSE Fails
            /\ \/ /\ pc' = "fix" /\ toFix' = LabelFixes(labels, read, failed)
                  /\ UNCHANGED <<listed, read, labels, kept>>
               \/ Ends
        BY <1>10 DEF Judges
    <2>2. faults' \in 0..MaxFaults /\ UNCHANGED <<github, cache>>
        BY <1>2, <1>10, <2>1 DEF Judges
    <2>3. CASE Ends
        BY <1>1, <1>2, <2>2, <2>3, OtherTypes DEF github
    <2>4. CASE /\ pc' = "fix" /\ toFix' = LabelFixes(labels, read, failed)
               /\ UNCHANGED <<listed, read, labels, kept>>
        <3>1. Origin(labels, read, "queue", failed) = "yes"
            BY DEF Origin
        <3>2. toFix' \subseteq {"ready", "hold"}
            BY <2>4, <3>1 DEF LabelFixes, LabelNames
        <3> QED
            BY <1>1, <2>2, <2>4, <3>2 DEF Types, github
    <2> QED
        BY <2>1, <2>3, <2>4
<1>11. CASE \E label \in LabelNames : Fixes(label)
    <2>1. PICK label \in LabelNames : Fixes(label)
        BY <1>11
    <2>2. CASE Fails /\ Ends
        BY <1>1, <1>2, <2>1, <2>2, OtherTypes DEF Fixes
    <2>3. CASE /\ labels' = (IF label = "ready" THEN labels \ {label} ELSE labels \union {label})
               /\ toFix' = toFix \ {label}
               /\ UNCHANGED <<pc, listed, read, kept, faults>>
        <3>1. /\ labels' \subseteq LabelNames /\ toFix' \subseteq {"ready", "hold"} /\ pc' = "fix"
              /\ UNCHANGED <<clock, changes, cache>>
            BY <1>1, <2>1, <2>3 DEF Types, Fixes
        <3>2. /\ kept'.seen <= Len(log') /\ listed' \in 0..Len(log') /\ read' \in ReadsOf(Len(log'))
              /\ \A entry \in cache' : entry.read \in ReadsOf(Len(log'))
            BY <1>1, <2>3, <3>1, GrownTypes DEF Types
        <3> QED
            BY <1>1, <2>3, <3>1, <3>2, GrownTypes DEF Types
    <2> QED
        BY <2>1, <2>2, <2>3 DEF Fixes
<1>12. CASE HandsOn
    <2>1. /\ kept' \in [listed : Nat, labels : SUBSET LabelNames, seen : Nat, for : Nat]
          /\ kept'.listed = listed /\ kept'.seen = Len(log) /\ listed <= Len(log)
        <3>1. read.for \in Nat
            BY <1>1, <1>2 DEF Types, ReadsOf
        <3> QED
            BY <1>1, <1>2, <1>12, <3>1 DEF Types, HandsOn
    <2> QED
        BY <1>1, <1>2, <1>12, <2>1 DEF Types, HandsOn, github
<1>13. CASE Uses
    BY <1>1, <1>2, <1>13, OtherTypes DEF Uses
<1> QED
    BY <1>3, <1>4, <1>5, <1>6, <1>7, <1>8, <1>9, <1>10, <1>11, <1>12, <1>13 DEF Next, Loads

LEMMA UndoGrown ==
    ASSUME Types, UndoInv, Grown, "ready" \in toFix' => "ready" \in toFix,
           \A i \in (Len(log) + 1)..Len(log') :
               log'[i].by = "host" /\ log'[i].what = "unlabeled" => "ready" \in toFix
    PROVE  UndoInv'
<1>1. /\ Len(log) \in Nat /\ Len(log') \in Nat /\ Len(log) <= Len(log')
      /\ \A i \in 1..Len(log) : log'[i] = log[i]
      /\ DOMAIN log = 1..Len(log) /\ DOMAIN log' = 1..Len(log')
    BY GrownLog DEF Types
<1>2. ASSUME NEW i \in 1..Len(log'), log'[i].by = "host", log'[i].what = "unlabeled"
      PROVE  \E j \in 1..(i - 1) : log'[j].by = "stranger" /\ log'[j].what = "labeled" /\ log'[j].label = "ready"
    <2>1. CASE i \in 1..Len(log)
        <3>1. \E j \in 1..(i - 1) : log[j].by = "stranger" /\ log[j].what = "labeled" /\ log[j].label = "ready"
            BY <1>1, <1>2, <2>1 DEF UndoInv, NeverUndoesItself, Trusted
        <3>2. \A j \in 1..(i - 1) : j \in 1..Len(log)
            BY <1>1, <2>1
        <3> QED
            BY <1>1, <3>1, <3>2
    <2>2. CASE i \in (Len(log) + 1)..Len(log')
        <3>1. \E j \in 1..Len(log) : log[j].by = "stranger" /\ log[j].what = "labeled" /\ log[j].label = "ready"
            BY <1>2, <2>2 DEF UndoInv, Trusted
        <3>2. \A j \in 1..Len(log) : j \in 1..(i - 1)
            BY <1>1, <2>2
        <3> QED
            BY <1>1, <3>1, <3>2
    <2> QED
        BY <1>1, <2>1, <2>2
<1>3. ASSUME "ready" \in toFix'
      PROVE  \E j \in 1..Len(log') : log'[j].by = "stranger" /\ log'[j].what = "labeled" /\ log'[j].label = "ready"
    <2>1. \E j \in 1..Len(log) : log[j].by = "stranger" /\ log[j].what = "labeled" /\ log[j].label = "ready"
        BY <1>3 DEF UndoInv, Trusted
    <2>2. \A j \in 1..Len(log) : j \in 1..Len(log')
        BY <1>1
    <2> QED
        BY <1>1, <2>1, <2>2
<1> QED
    BY <1>1, <1>2, <1>3 DEF UndoInv, NeverUndoesItself, Trusted

LEMMA UndoKept == LogInv /\ [Next]_vars => UndoInv'
<1> SUFFICES ASSUME LogInv, [Next]_vars PROVE UndoInv'
    OBVIOUS
<1>1. Types /\ InOrder /\ UndoInv /\ Grown
    BY StepGrows DEF LogInv
<1>2. Len(log) \in Nat /\ log \in Seq(Logged)
    BY <1>1 DEF Types
<1>3. CASE UNCHANGED vars \/ StartsRound \/ Tick \/ Lists \/ ReadsEvents \/ ReadsEdits \/ HandsOn
    <2>1. log' = log /\ ("ready" \in toFix' => "ready" \in toFix)
        BY <1>3 DEF vars, load, github, StartsRound, Tick, Lists, ReadsEvents, ReadsEdits, HandsOn, Ends
    <2> QED
        BY <1>1, <1>2, <2>1, UndoGrown
<1>4. CASE PersonActs("owner") \/ PersonActs("stranger")
    <2>1. UNCHANGED toFix
        BY <1>4 DEF PersonActs, load
    <2>2. PICK change : change.by # "host" /\ log' = Append(log, change)
        BY <1>1, <1>4, PersonLogs
    <2>3. \A i \in (Len(log) + 1)..Len(log') : log'[i].by # "host"
        BY <1>2, <2>2
    <2> QED
        BY <1>1, <2>1, <2>3, UndoGrown
<1>5. CASE Judges
    <2>1. PICK failed \in SUBSET {"owner", "stranger"} : toFix' = LabelFixes(labels, read, failed) \/ toFix' = {}
        BY <1>5 DEF Judges, Ends
    <2>2. log' = log
        BY <1>5 DEF Judges, github
    <2>3. "ready" \in toFix' =>
            \E j \in 1..Len(log) : ~Trusted(j) /\ log[j].what = "labeled" /\ log[j].label = "ready"
        BY <1>1, <2>1, ReadyToUndo
    <2> QED
        BY <1>1, <2>2, <2>3 DEF UndoInv, NeverUndoesItself, Trusted
<1>6. CASE \E label \in LabelNames : Fixes(label)
    <2>1. PICK label \in LabelNames : Fixes(label)
        BY <1>6
    <2>2. "ready" \in toFix' => "ready" \in toFix
        BY <2>1 DEF Fixes, Ends
    <2>3. CASE log' = log
        BY <1>1, <1>2, <2>2, <2>3, UndoGrown
    <2>4. CASE Corrects(label)
        <3>1. PICK change : /\ change.what = (IF label = "ready" THEN "unlabeled" ELSE "labeled")
                            /\ log' = Append(log, change)
            BY <1>1, <2>4, HostLogs DEF Corrects
        <3>2. \A i \in (Len(log) + 1)..Len(log') : log'[i] = change
            BY <1>2, <3>1
        <3>3. change.what = "unlabeled" => "ready" \in toFix
            BY <2>1, <3>1 DEF Fixes
        <3> QED
            BY <1>1, <2>2, <3>2, <3>3, UndoGrown
    <2> QED
        BY <2>1, <2>3, <2>4 DEF Fixes
<1>7. CASE Uses
    <2>1. toFix' = {}
        BY <1>7 DEF Uses, Ends
    <2>2. CASE log' = log
        BY <1>1, <1>2, <2>1, <2>2, UndoGrown
    <2>3. CASE \E label \in {"ready", "hold"} : Appends(Change("labeled", label, "host"))
        <3>1. PICK change : change.what = "labeled" /\ log' = Append(log, change)
            BY <1>1, <2>3, HostLogs DEF LabelNames
        <3>2. \A i \in (Len(log) + 1)..Len(log') : log'[i].what = "labeled"
            BY <1>2, <3>1
        <3> QED
            BY <1>1, <2>1, <3>2, UndoGrown
    <2> QED
        BY <1>7, <2>2, <2>3 DEF Uses
<1> QED
    BY <1>3, <1>4, <1>5, <1>6, <1>7 DEF Next, Loads

LEMMA LogStarts == Init => LogInv
<1> SUFFICES ASSUME Init PROVE LogInv
    OBVIOUS
<1> DEFINE first == Change("labeled", "queue", "owner")
<1>1. first \in Logged /\ first.at = 0 /\ first.by = "owner"
    BY DEF Init, Change, Logged, LabelNames
<1>2. log = <<first>> /\ Len(log) = 1 /\ log[1] = first
    BY DEF Init
<1> HIDE DEF first
<1>3. NotRead \in ReadsOf(1) /\ Nothing \in [listed : Nat, labels : SUBSET LabelNames, seen : Nat, for : Nat]
      /\ Nothing.listed = 0 /\ Nothing.seen = 0
    BY DEF NotRead, ReadsOf, Nothing
<1>4. Types
    BY <1>1, <1>2, <1>3 DEF Init, Types
<1>5. InOrder
    BY <1>1, <1>2 DEF Init, InOrder
<1>6. UndoInv
    BY <1>1, <1>2 DEF Init, UndoInv, NeverUndoesItself
<1> QED
    BY <1>4, <1>5, <1>6 DEF LogInv

LEMMA LogStep == LogInv /\ [Next]_vars => LogInv'
<1> SUFFICES ASSUME LogInv, [Next]_vars PROVE LogInv'
    OBVIOUS
<1>1. InOrder'
    BY StepGrows, OrderKept DEF LogInv
<1> QED
    BY <1>1, TypesKept, UndoKept DEF LogInv

\* The inductive invariant of the log and of what the host takes off.
THEOREM LogInvariant == Spec => []LogInv
BY LogStarts, LogStep, PTL DEF Spec

------------------------------------------------------------------------------
(* What a reader has seen stays so.                                           *)

LEMMA GreatestOf ==
    ASSUME NEW n \in Nat, NEW S \in SUBSET (1..n), S # {}
    PROVE  Max(S) \in S
<1>1. PICK m \in S : \A k \in S : k <= m
    BY GreatestIndex
<1>2. \A k \in S : m >= k
    BY <1>1
<1> QED
    BY <1>1, <1>2 DEF Max

\* The labels, the text and the key of a listing depend on what it showed.
LEMMA ListingStays ==
    ASSUME Types, Grown, NEW n \in 0..Len(log)
    PROVE  LabelsAt(n)' = LabelsAt(n) /\ (n # 0 => Key(n)' = Key(n))
<1>1. Len(log) \in Nat /\ n \in Nat /\ \A i \in 1..n : i \in 1..Len(log) /\ log'[i] = log[i]
    BY GrownLog DEF Types
<1>2. ASSUME NEW label \in LabelNames
      PROVE  /\ OfLabel(n, label)' = OfLabel(n, label)
             /\ OfLabel(n, label) # {} => log'[Max(OfLabel(n, label))] = log[Max(OfLabel(n, label))]
    <2>1. OfLabel(n, label)' = OfLabel(n, label) /\ OfLabel(n, label) \in SUBSET (1..n)
        BY <1>1 DEF OfLabel, Events
    <2>2. OfLabel(n, label) # {} => Max(OfLabel(n, label)) \in 1..n
        BY <1>1, <2>1, GreatestOf
    <2> QED
        BY <1>1, <2>1, <2>2
<1>3. LabelsAt(n)' = LabelsAt(n)
    BY <1>2 DEF LabelsAt
<1>4. TextAt(n)' = TextAt(n)
    BY <1>1 DEF TextAt
<1>5. ASSUME n # 0 PROVE log'[n].at = log[n].at
    BY <1>1, <1>5
<1> QED
    BY <1>3, <1>4, <1>5 DEF Key

\* A read the cache has under a listing's key covers the listing, unless it was
\* made for an earlier one of the same second.
LEMMA HitIsOwn ==
    ASSUME Types, CacheInv, NEW entry \in Hit(Len(log))
    PROVE  /\ entry.read.for \in 1..Len(log)
           /\ entry.read.for = Len(log) => Covers(entry.read, Len(log))
           /\ log[entry.read.for].at = log[Len(log)].at
<1>1. entry \in cache /\ entry.key = Key(Len(log))
    BY DEF Hit
<1>2. entry.read.for \in 1..Len(log) /\ Key(entry.read.for) = Key(Len(log)) /\ Covers(entry.read, entry.read.for)
    BY <1>1 DEF CacheInv
<1>3. log[entry.read.for].at = log[Len(log)].at
    BY <1>2 DEF Key
<1> QED
    BY <1>2, <1>3

\* A queueing that approves a listing does so as the log grows.
LEMMA ApprovalStays ==
    ASSUME Types, Grown, NEW n \in 0..Len(log), \E q \in 1..Len(log) : Approves(q, n)
    PROVE  \E q \in 1..Len(log) : Approves(q, n)'
<1>1. PICK q \in 1..Len(log) : Approves(q, n)
    OBVIOUS
<1>2. Len(log) \in Nat /\ \A i \in 1..Len(log) : log'[i] = log[i]
    BY GrownLog DEF Types
<1>3. \A i \in (q + 1)..n : i \in 1..Len(log)
    BY <1>2
<1>4. Approves(q, n)'
    BY <1>1, <1>2, <1>3 DEF Approves, Queueing, Trusted
<1> QED
    BY <1>4

\* So does a decision on a label, which a fix of another leaves as it is.
LEMMA DecisionsStay ==
    ASSUME Types, Grown, DecidedBut(toFix), listed' = listed,
           "ready" \in labels' \ toFix' => "ready" \in labels \ toFix,
           "hold" \notin labels' \union toFix' => "hold" \notin labels \union toFix
    PROVE  DecidedBut(toFix)'
<1>1. /\ Len(log) \in Nat /\ Len(log') \in Nat /\ Len(log) <= Len(log') /\ listed \in 0..Len(log)
      /\ \A i \in 1..Len(log) : log'[i] = log[i]
    BY GrownLog DEF Types
<1> SUFFICES ASSUME NEW i \in 1..listed, ~Trusted(i)',
                    \/ log'[i].what = "labeled" /\ log'[i].label = "ready" /\ "ready" \in labels' \ toFix'
                    \/ log'[i].what = "unlabeled" /\ log'[i].label = "hold"
                       /\ "hold" \notin labels' \union toFix'
             PROVE  \E j \in (i + 1)..Len(log') :
                       log'[j].label = log'[i].label /\ (Trusted(j)' \/ log'[j].what # log'[i].what)
    BY DEF DecidedBut
<1>2. i \in 1..Len(log) /\ log'[i] = log[i]
    BY <1>1
<1>3. PICK j \in (i + 1)..Len(log) :
        log[j].label = log[i].label /\ (Trusted(j) \/ log[j].what # log[i].what)
    BY <1>2 DEF DecidedBut, Trusted
<1>4. j \in 1..Len(log) /\ j \in (i + 1)..Len(log')
    BY <1>1, <1>2
<1> QED
    BY <1>1, <1>2, <1>3, <1>4 DEF Trusted

------------------------------------------------------------------------------
(* The verdict.                                                               *)

\* Approved on reads that cover the listing: no stranger queued the issue or
\* changed its text since, in what the listing showed.
LEMMA ApprovedApproves ==
    ASSUME Types, InOrder, Covers(read, listed), NEW failed \in SUBSET {"owner", "stranger"},
           Approved(read, failed)
    PROVE  \E q \in 1..Len(log) : Approves(q, listed)
<1> DEFINE queued == Adds(read.events, "queue")
           texts == {i \in Events(read.events) : log[i].what = "renamed"} \union Edits(read.edits)
<1>1. /\ Len(log) \in Nat /\ listed \in Nat /\ read.events \in 0..Len(log) /\ read.edits \in 0..Len(log)
      /\ listed <= read.events /\ listed <= read.edits /\ \A i \in 1..Len(log) : log[i] \in Logged
    BY DEF Types, ReadsOf, Covers
<1>2. /\ queued \in SUBSET (1..Len(log)) /\ queued # {}
      /\ \A i \in queued : log[i].what = "labeled" /\ log[i].label = "queue"
    BY <1>1 DEF Approved, Adds, OfLabel, Events
<1>3. /\ IsOwner(log[Latest(queued)].by, failed) = "yes"
      /\ \A i \in texts : log[i].at < log[Latest(queued)].at \/ IsOwner(log[i].by, failed) = "yes"
    BY DEF Approved
<1> HIDE DEF queued, texts
<1>4. PICK q \in queued : q = Latest(queued) /\ \A i \in queued : i <= q
    BY <1>2, LatestIsLast
<1>5. \A by : IsOwner(by, failed) = "yes" => by # "stranger"
    BY DEF IsOwner
<1>6. q \in 1..Len(log) /\ Queueing(q) /\ Trusted(q)
    BY <1>2, <1>3, <1>4, <1>5 DEF Queueing, Trusted
<1>7. ASSUME NEW i \in (q + 1)..listed, ~Trusted(i)
      PROVE  ~Queueing(i) /\ log[i].what \notin {"renamed", "edited"}
    <2>1. i \in 1..read.events /\ i \in 1..read.edits /\ i \in 1..Len(log) /\ i > q /\ q \in 1..i
        BY <1>1, <1>6
    <2>2. log[i].at \in Nat /\ log[q].at \in Nat /\ log[q].at <= log[i].at
        BY <1>1, <1>6, <2>1 DEF InOrder, Logged
    <2>3. ~Queueing(i)
        <3>1. i \notin queued
            BY <1>4, <1>6, <2>1
        <3> QED
            BY <2>1, <3>1 DEF Queueing, queued, Adds, OfLabel, Events
    <2>4. i \notin texts
        BY <1>3, <1>4, <1>5, <1>7, <2>2 DEF Trusted
    <2> QED
        BY <2>1, <2>3, <2>4 DEF texts, Events, Edits
<1> QED
    BY <1>6, <1>7 DEF Approves

\* Whose add of sandcastle:ready, and whose removal of a hold, counts.
LEMMA OriginOfReady ==
    ASSUME NEW carried, "ready" \in carried, NEW seen, NEW failed, Adds(seen.events, "ready") # {}
    PROVE  Origin(carried, seen, "ready", failed) = IsOwner(log[Latest(Adds(seen.events, "ready"))].by, failed)
BY DEF Origin

LEMMA OriginOfHold ==
    ASSUME NEW carried, "hold" \notin carried, NEW seen, NEW failed, OfLabel(seen.events, "hold") # {},
           log[Latest(OfLabel(seen.events, "hold"))].what = "unlabeled"
    PROVE  Origin(carried, seen, "hold", failed) = IsOwner(log[Latest(OfLabel(seen.events, "hold"))].by, failed)
BY DEF Origin

\* A label left as it is was decided on last by the owner or the host.
LEMMA JudgedDecides ==
    ASSUME Types, InOrder, Covers(read, listed), NEW failed \in SUBSET {"owner", "stranger"},
           Unknown(labels, read, failed) = {}
    PROVE  DecidedBut(LabelFixes(labels, read, failed))
<1> DEFINE fixes == LabelFixes(labels, read, failed)
<1>1. /\ Len(log) \in Nat /\ listed \in Nat /\ read.events \in 0..Len(log) /\ listed <= read.events
    BY DEF Types, ReadsOf, Covers
<1>2. \A by : IsOwner(by, failed) \in {"yes", "no", "unknown"} /\ (IsOwner(by, failed) = "yes" => by # "stranger")
    BY DEF IsOwner
<1> SUFFICES ASSUME NEW i \in 1..listed, ~Trusted(i),
                    \/ log[i].what = "labeled" /\ log[i].label = "ready" /\ "ready" \in labels \ fixes
                    \/ log[i].what = "unlabeled" /\ log[i].label = "hold" /\ "hold" \notin labels \union fixes
             PROVE  \E j \in (i + 1)..Len(log) :
                       log[j].label = log[i].label /\ (Trusted(j) \/ log[j].what # log[i].what)
    BY DEF DecidedBut
<1>3. i \in 1..read.events /\ i \in 1..Len(log)
    BY <1>1
<1>4. CASE log[i].what = "labeled" /\ log[i].label = "ready" /\ "ready" \in labels \ fixes
    <2> DEFINE adds == Adds(read.events, "ready")
    <2>1. /\ adds \in SUBSET (1..Len(log)) /\ i \in adds
          /\ \A j \in adds : log[j].label = "ready"
        BY <1>1, <1>3, <1>4 DEF Adds, OfLabel, Events
    <2>2. Origin(labels, read, "ready", failed) \notin {"no", "unknown"}
        BY <1>4 DEF LabelFixes, Unknown, LabelNames
    <2>3. Origin(labels, read, "ready", failed) = IsOwner(log[Latest(adds)].by, failed)
        BY <1>4, <2>1, OriginOfReady
    <2> HIDE DEF adds
    <2>4. Latest(adds) \in adds /\ i <= Latest(adds)
        BY <2>1, LatestIsLast
    <2>5. log[Latest(adds)].by # "stranger"
        BY <1>2, <2>2, <2>3
    <2>6. Latest(adds) # i
        BY <2>5 DEF Trusted
    <2>7. Latest(adds) \in (i + 1)..Len(log)
        <3>1. PICK j \in 1..Len(log) : j = Latest(adds)
            BY <2>1, <2>4
        <3>2. j \in (i + 1)..Len(log)
            BY <1>1, <1>3, <2>4, <2>6, <3>1
        <3> QED
            BY <3>1, <3>2
    <2> QED
        BY <1>4, <2>1, <2>4, <2>5, <2>7 DEF Trusted
<1>5. CASE log[i].what = "unlabeled" /\ log[i].label = "hold" /\ "hold" \notin labels \union fixes
    <2> DEFINE all == OfLabel(read.events, "hold")
    <2>1. /\ all \in SUBSET (1..Len(log)) /\ i \in all
          /\ \A j \in all : log[j].label = "hold"
        BY <1>1, <1>3, <1>5 DEF OfLabel, Events
    <2>2. Origin(labels, read, "hold", failed) \notin {"no", "unknown"}
        BY <1>5 DEF LabelFixes, Unknown, LabelNames
    <2>3. log[Latest(all)].what = "unlabeled" =>
            Origin(labels, read, "hold", failed) = IsOwner(log[Latest(all)].by, failed)
        BY <1>5, <2>1, OriginOfHold
    <2> HIDE DEF all
    <2>4. Latest(all) \in all /\ i <= Latest(all)
        BY <2>1, LatestIsLast
    <2>5. log[Latest(all)].by # "stranger" \/ log[Latest(all)].what # "unlabeled"
        BY <1>2, <2>2, <2>3
    <2>6. Latest(all) # i
        BY <1>5, <2>5 DEF Trusted
    <2>7. Latest(all) \in (i + 1)..Len(log)
        <3>1. PICK j \in 1..Len(log) : j = Latest(all)
            BY <2>1, <2>4
        <3>2. j \in (i + 1)..Len(log)
            BY <1>1, <1>3, <2>4, <2>6, <3>1
        <3> QED
            BY <3>1, <3>2
    <2> QED
        BY <1>5, <2>1, <2>4, <2>5, <2>7 DEF Trusted
<1> QED
    BY <1>4, <1>5

------------------------------------------------------------------------------
(* The steps.                                                                 *)

\* Reads the cache kept cover their listing, however the log grows.
LEMMA CacheStays ==
    ASSUME Types, Grown, CacheInv, cache' \subseteq cache
    PROVE  CacheInv'
<1> SUFFICES ASSUME NEW entry \in cache'
             PROVE  /\ entry.read.for \in 1..Len(log') /\ entry.key = Key(entry.read.for)'
                    /\ Covers(entry.read, entry.read.for)
    BY DEF CacheInv, Covers
<1>1. /\ entry.read.for \in 1..Len(log) /\ entry.key = Key(entry.read.for)
      /\ Covers(entry.read, entry.read.for)
    BY DEF CacheInv
<1>2. PICK n \in 1..Len(log) : n = entry.read.for
    BY <1>1
<1>3. n \in 0..Len(log) /\ n # 0 /\ n \in 1..Len(log')
    BY GrownLog DEF Types
<1> QED
    BY <1>1, <1>2, <1>3, ListingStays

\* Whether a read is another listing's of the same second stays so.
LEMMA MistakenStays ==
    ASSUME Types, Grown, listed \in 1..Len(log), read.for \in 1..listed, UNCHANGED <<listed, read>>
    PROVE  Mistaken' = Mistaken
<1>1. /\ Len(log) \in Nat /\ read.for \in 1..Len(log) /\ log'[read.for] = log[read.for]
      /\ log'[listed] = log[listed]
    <2>1. Len(log) \in Nat /\ \A i \in 1..Len(log) : log'[i] = log[i]
        BY GrownLog DEF Types
    <2>2. read.for \in 1..Len(log)
        BY <2>1
    <2> QED
        BY <2>1, <2>2
<1> QED
    BY <1>1 DEF Mistaken

\* A load under way keeps what it found, whatever others do meanwhile.
LEMMA LoadStays ==
    ASSUME Types, Grown, LoadInv, UNCHANGED load
    PROVE  LoadInv'
<1>1. /\ pc' = pc /\ listed' = listed /\ read' = read /\ toFix' = toFix /\ labels' = labels
      /\ Len(log) \in Nat /\ Len(log') \in Nat /\ Len(log) <= Len(log') /\ listed \in 0..Len(log)
    BY GrownLog DEF load, Types
<1>2. CASE pc \in {"events", "edits", "judge"}
    <2>1. listed' \in 1..Len(log') /\ Mistaken' = Mistaken
        BY <1>1, <1>2, MistakenStays DEF LoadInv
    <2> QED
        BY <1>1, <1>2, <2>1 DEF LoadInv, Covers
<1>3. CASE pc = "fix"
    <2>1. listed' \in 1..Len(log') /\ Mistaken' = Mistaken
        BY <1>1, <1>3, MistakenStays DEF LoadInv
    <2>2. ASSUME ~Mistaken PROVE DecidedBut(toFix)'
        BY <1>1, <1>3, <2>2, DecisionsStay DEF LoadInv
    <2>3. ASSUME ~Mistaken PROVE \E q \in 1..Len(log') : Approves(q, listed)'
        <3>1. \E q \in 1..Len(log) : Approves(q, listed)'
            BY <1>1, <1>3, <2>3, ApprovalStays DEF LoadInv, Approves
        <3>2. \A q \in 1..Len(log) : q \in 1..Len(log')
            BY <1>1
        <3> QED
            BY <3>1, <3>2
    <2> QED
        BY <1>1, <1>3, <2>1, <2>2, <2>3 DEF LoadInv
<1>4. CASE pc \notin {"events", "edits", "judge", "fix"}
    BY <1>1, <1>4 DEF LoadInv
<1> QED
    BY <1>2, <1>3, <1>4

\* What was handed on was decided by what was logged then.
LEMMA KeptStays ==
    ASSUME Types, Grown, KeptInv, UNCHANGED <<load, kept>>
    PROVE  KeptInv'
<1>1. /\ pc' = pc /\ kept' = kept /\ Len(log) \in Nat /\ \A i \in 1..Len(log) : log'[i] = log[i]
      /\ kept.listed \in Nat /\ kept.seen \in Nat /\ kept.listed <= kept.seen /\ kept.seen <= Len(log)
    BY GrownLog DEF load, Types
<1>2. \A i \in 1..kept.seen : i \in 1..Len(log) /\ log'[i] = log[i]
    BY <1>1
<1>3. ASSUME kept # Nothing PROVE Collided' = Collided
    <2>1. kept.for \in 1..kept.seen /\ kept.listed \in 1..kept.seen
        BY <1>1, <1>3 DEF KeptInv
    <2> QED
        BY <1>1, <1>2, <2>1 DEF Collided
<1>4. ASSUME kept # Nothing, ~Collided PROVE \E q \in 1..kept.seen : ApprovesListing(q)'
    <2>1. PICK q \in 1..kept.seen : ApprovesListing(q)
        BY <1>4 DEF KeptInv, KeptWasQueued
    <2>2. \A i \in (q + 1)..kept.listed : i \in 1..kept.seen
        BY <1>1
    <2>3. ApprovesListing(q)'
        BY <1>1, <1>2, <2>1, <2>2 DEF ApprovesListing, Queueing, Trusted
    <2> QED
        BY <2>3
<1>5. ASSUME kept # Nothing, ~Collided, NEW i \in 1..kept.listed, log'[i].by = "stranger",
             \/ log'[i].what = "labeled" /\ log'[i].label = "ready" /\ "ready" \in kept.labels
             \/ log'[i].what = "unlabeled" /\ log'[i].label = "hold" /\ "hold" \notin kept.labels
      PROVE  \E j \in (i + 1)..kept.seen :
                log'[j].label = log'[i].label /\ (log'[j].by # "stranger" \/ log'[j].what # log'[i].what)
    <2>1. log'[i] = log[i]
        BY <1>1, <1>2
    <2>2. PICK j \in (i + 1)..kept.seen :
            log[j].label = log[i].label /\ (log[j].by # "stranger" \/ log[j].what # log[i].what)
        BY <1>5, <2>1 DEF KeptInv, KeptLabelsTrusted, Trusted
    <2>3. j \in 1..kept.seen
        BY <1>1
    <2> QED
        BY <1>2, <2>1, <2>2, <2>3
<1> QED
    BY <1>1, <1>3, <1>4, <1>5 DEF KeptInv, KeptWasQueued, KeptLabelsTrusted, Trusted

LEMMA KeptNothing ==
    ASSUME kept' = Nothing
    PROVE  KeptInv'
BY DEF KeptInv, KeptWasQueued, KeptLabelsTrusted

LEMMA EndsDecided ==
    ASSUME Types, Grown, DecidedInv, Ends, cache' \subseteq cache
    PROVE  DecidedInv'
<1>1. LoadInv'
    BY DEF Ends, LoadInv
<1> QED
    BY <1>1, CacheStays, KeptNothing DEF DecidedInv, Ends

LEMMA ListsDecided ==
    ASSUME LogInv, Grown, DecidedInv, Lists
    PROVE  DecidedInv'
<1>1. Types /\ UNCHANGED <<github, cache>> /\ log' = log /\ CacheInv
    BY DEF LogInv, Lists, DecidedInv, github
<1>2. CASE Ends
    BY <1>1, <1>2, EndsDecided
<1>3. CASE /\ listed' = Len(log) /\ labels' = LabelsAt(Len(log)) /\ kept' = Nothing
           /\ \/ \E entry \in Hit(Len(log)) : read' = entry.read /\ pc' = "judge"
              \/ read' = [NotRead EXCEPT !.for = Len(log)] /\ pc' = "events"
    <2>1. listed' \in 1..Len(log') /\ Len(log) \in Nat
        BY <1>1, <1>3 DEF Types
    <2>2. CASE \E entry \in Hit(Len(log)) : read' = entry.read /\ pc' = "judge"
        <3>1. PICK entry \in Hit(Len(log)) : read' = entry.read /\ pc' = "judge"
            BY <2>2
        <3>2. /\ read'.for \in 1..Len(log) /\ (read'.for = Len(log) => Covers(read', Len(log)))
              /\ log[read'.for].at = log[Len(log)].at
            BY <1>1, <3>1, HitIsOwn
        <3>3. ~Mistaken' => Covers(read, listed)'
            BY <1>1, <1>3, <3>2 DEF Mistaken, Covers
        <3> QED
            BY <1>1, <1>3, <2>1, <3>1, <3>2, <3>3, CacheStays, KeptNothing DEF DecidedInv, LoadInv
    <2>3. CASE read' = [NotRead EXCEPT !.for = Len(log)] /\ pc' = "events"
        <3>1. read'.for = Len(log)
            BY <2>3 DEF NotRead
        <3>2. LoadInv'
            BY <1>3, <2>1, <2>3, <3>1 DEF LoadInv
        <3> QED
            BY <1>1, <1>3, <3>2, CacheStays, KeptNothing DEF DecidedInv
    <2> QED
        BY <1>3, <2>2, <2>3
<1> QED
    BY <1>2, <1>3 DEF Lists

LEMMA ReadsDecided ==
    ASSUME LogInv, Grown, DecidedInv, ReadsEvents \/ ReadsEdits
    PROVE  DecidedInv'
<1>1. /\ Types /\ UNCHANGED github /\ log' = log /\ Len(log) \in Nat /\ read \in ReadsOf(Len(log))
      /\ kept = Nothing /\ listed \in 1..Len(log) /\ read.for = listed
    BY DEF LogInv, Types, ReadsEvents, ReadsEdits, DecidedInv, KeptInv, LoadInv, github
<1>2. CASE ReadsEvents
    <2>1. CASE Ends
        BY <1>1, <1>2, <2>1, EndsDecided DEF ReadsEvents
    <2>2. CASE /\ read' = [read EXCEPT !.events = Len(log)] /\ pc' = "edits"
               /\ UNCHANGED <<faults, listed, toFix, labels, kept>>
        <3>1. listed' <= read'.events /\ read'.for = listed
            BY <1>1, <2>2 DEF ReadsOf
        <3>2. LoadInv'
            BY <1>1, <2>2, <3>1 DEF LoadInv
        <3>3. cache' = cache
            BY <1>2 DEF ReadsEvents
        <3> QED
            BY <1>1, <2>2, <3>2, <3>3, CacheStays, KeptNothing DEF DecidedInv
    <2> QED
        BY <1>2, <2>1, <2>2 DEF ReadsEvents
<1>3. CASE ReadsEdits
    <2>1. CASE Ends /\ UNCHANGED cache
        BY <1>1, <1>3, <2>1, EndsDecided DEF ReadsEdits
    <2>2. CASE /\ read' = [read EXCEPT !.edits = Len(log)] /\ pc' = "judge"
               /\ cache' = Current(listed) \union {[key |-> Key(listed), read |-> read']}
               /\ UNCHANGED <<faults, listed, toFix, labels, kept>>
        <3>1. listed <= read.events
            BY <1>3 DEF ReadsEdits, DecidedInv, LoadInv
        <3>2. /\ read'.events = read.events /\ read'.edits = Len(log) /\ read.events <= Len(log)
              /\ read'.for = listed
            BY <1>1, <2>2 DEF ReadsOf
        <3>3. Covers(read', listed)
            BY <3>1, <3>2 DEF Covers
        <3>4. LoadInv'
            BY <1>1, <2>2, <3>2, <3>3 DEF LoadInv, Covers
        <3>5. ASSUME NEW n \in 1..Len(log) PROVE Key(n)' = Key(n)
            BY <1>1, ListingStays
        <3>6. ASSUME NEW entry \in cache'
              PROVE  /\ entry.read.for \in 1..Len(log) /\ entry.key = Key(entry.read.for)
                     /\ Covers(entry.read, entry.read.for)
            <4>1. CASE entry \in cache
                BY <4>1 DEF DecidedInv, CacheInv
            <4>2. CASE entry = [key |-> Key(listed), read |-> read']
                <5>1. entry.key = Key(listed) /\ entry.read = read' /\ entry.read.for = listed
                    BY <3>2, <4>2
                <5> QED
                    BY <1>1, <3>3, <5>1
            <4> QED
                BY <2>2, <4>1, <4>2 DEF Current
        <3>7. CacheInv'
            <4> SUFFICES ASSUME NEW entry \in cache'
                         PROVE  /\ entry.read.for \in 1..Len(log') /\ entry.key = Key(entry.read.for)'
                                /\ Covers(entry.read, entry.read.for)
                BY DEF CacheInv, Covers
            <4>1. PICK n \in 1..Len(log) : n = entry.read.for
                BY <3>6
            <4> QED
                BY <1>1, <3>5, <3>6, <4>1
        <3> QED
            BY <1>1, <2>2, <3>4, <3>7, KeptNothing DEF DecidedInv
    <2> QED
        BY <1>3, <2>1, <2>2 DEF ReadsEdits
<1> QED
    BY <1>2, <1>3

LEMMA JudgesDecided ==
    ASSUME LogInv, Grown, DecidedInv, Judges
    PROVE  DecidedInv'
<1>1. /\ Types /\ InOrder /\ UNCHANGED <<github, cache>> /\ log' = log /\ kept = Nothing
      /\ listed \in 1..Len(log) /\ read.for \in 1..listed /\ (~Mistaken => Covers(read, listed))
    BY DEF LogInv, Judges, DecidedInv, KeptInv, LoadInv, github
<1>2. PICK failed \in SUBSET {"owner", "stranger"} :
        \/ /\ Approved(read, failed) /\ Unknown(labels, read, failed) = {}
           /\ pc' = "fix" /\ toFix' = LabelFixes(labels, read, failed)
           /\ UNCHANGED <<listed, read, labels, kept>>
        \/ Ends
    BY DEF Judges
<1>3. CASE Ends
    BY <1>1, <1>3, EndsDecided
<1>4. CASE /\ Approved(read, failed) /\ Unknown(labels, read, failed) = {}
           /\ pc' = "fix" /\ toFix' = LabelFixes(labels, read, failed)
           /\ UNCHANGED <<listed, read, labels, kept>>
    <2>1. ASSUME ~Mistaken PROVE \E q \in 1..Len(log') : Approves(q, listed)'
        <3>1. \E q \in 1..Len(log) : Approves(q, listed)
            BY <1>1, <1>4, <2>1, ApprovedApproves
        <3> QED
            BY <1>1, <1>4, <3>1 DEF Approves, Queueing, Trusted
    <2>2. ASSUME ~Mistaken PROVE DecidedBut(toFix)'
        <3>1. PICK fixes : fixes = LabelFixes(labels, read, failed) /\ toFix' = fixes
            BY <1>4
        <3>2. DecidedBut(fixes)
            <4>1. DecidedBut(LabelFixes(labels, read, failed))
                BY <1>1, <1>4, <2>2, JudgedDecides
            <4> QED
                BY <3>1, <4>1
        <3> QED
            BY <1>1, <1>4, <3>1, <3>2 DEF DecidedBut, Trusted
    <2>3. Mistaken' = Mistaken
        BY <1>1, <1>4 DEF Mistaken
    <2>4. LoadInv'
        BY <1>1, <1>4, <2>1, <2>2, <2>3 DEF LoadInv
    <2> QED
        BY <1>1, <1>4, <2>4, CacheStays, KeptNothing DEF DecidedInv
<1> QED
    BY <1>2, <1>3, <1>4

LEMMA FixesDecided ==
    ASSUME LogInv, Grown, DecidedInv, NEW label \in LabelNames, Fixes(label)
    PROVE  DecidedInv'
<1>1. /\ Types /\ UNCHANGED cache /\ pc = "fix" /\ kept = Nothing /\ label \in {"ready", "hold"}
      /\ listed \in 1..Len(log) /\ read.for \in 1..listed
    BY DEF LogInv, Types, Fixes, DecidedInv, KeptInv, LoadInv
<1>2. CASE Ends
    BY <1>1, <1>2, EndsDecided
<1>3. CASE /\ labels' = (IF label = "ready" THEN labels \ {label} ELSE labels \union {label})
           /\ toFix' = toFix \ {label}
           /\ UNCHANGED <<pc, listed, read, kept, faults>>
    <2>1. /\ "ready" \in labels' \ toFix' => "ready" \in labels \ toFix
          /\ "hold" \notin labels' \union toFix' => "hold" \notin labels \union toFix
        BY <1>1, <1>3
    <2>2. \A q \in 1..Len(log) : q \in 1..Len(log')
        BY <1>1, GrownLog DEF Types
    <2>3. ASSUME ~Mistaken PROVE DecidedBut(toFix)'
        BY <1>1, <1>3, <2>1, <2>3, DecisionsStay DEF DecidedInv, LoadInv
    <2>4. ASSUME ~Mistaken PROVE \E q \in 1..Len(log') : Approves(q, listed)'
        <3>1. listed \in 0..Len(log) /\ \E q \in 1..Len(log) : Approves(q, listed)
            BY <1>1, <2>4 DEF DecidedInv, LoadInv, Types
        <3>2. \E q \in 1..Len(log) : Approves(q, listed)'
            BY <1>1, <1>3, <3>1, ApprovalStays DEF Approves
        <3> QED
            BY <2>2, <3>2
    <2>5. Mistaken' = Mistaken
        BY <1>1, <1>3, MistakenStays
    <2>6. LoadInv'
        BY <1>1, <1>3, <2>2, <2>3, <2>4, <2>5 DEF LoadInv
    <2> QED
        BY <1>1, <1>3, <2>6, CacheStays, KeptNothing DEF DecidedInv
<1> QED
    BY <1>2, <1>3 DEF Fixes

LEMMA HandsOnDecided ==
    ASSUME LogInv, Grown, DecidedInv, HandsOn
    PROVE  DecidedInv'
<1>1. /\ Types /\ log' = log /\ UNCHANGED cache /\ pc = "fix" /\ toFix = {} /\ pc' = "handed"
      /\ kept' = [listed |-> listed, labels |-> labels, seen |-> Len(log), for |-> read.for]
      /\ listed \in 1..Len(log) /\ read.for \in 1..listed
    BY DEF LogInv, HandsOn, github, DecidedInv, LoadInv
<1>2. kept'.listed = listed /\ kept'.labels = labels /\ kept'.seen = Len(log) /\ kept'.for = read.for
    BY <1>1
<1>3. Collided' = Mistaken
    BY <1>1, <1>2 DEF Collided, Mistaken
<1>4. ASSUME ~Mistaken PROVE \E q \in 1..Len(log) : ApprovesListing(q)'
    <2>1. PICK q \in 1..Len(log) : Approves(q, listed)
        BY <1>1, <1>4 DEF DecidedInv, LoadInv
    <2> QED
        BY <1>1, <1>2, <2>1 DEF Approves, ApprovesListing, Queueing, Trusted
<1>5. KeptWasQueued'
    BY <1>2, <1>3, <1>4 DEF KeptWasQueued
<1>6. ~Mistaken => DecidedBut({})
    BY <1>1 DEF DecidedInv, LoadInv
<1>7. KeptLabelsTrusted'
    BY <1>1, <1>2, <1>3, <1>6 DEF KeptLabelsTrusted, DecidedBut, Trusted
<1>8. LoadInv'
    BY <1>1 DEF LoadInv
<1> QED
    BY <1>1, <1>2, <1>5, <1>7, <1>8, CacheStays DEF DecidedInv, KeptInv

LEMMA DecidedStep == LogInv /\ DecidedInv /\ [Next]_vars => DecidedInv'
<1> SUFFICES ASSUME LogInv, DecidedInv, [Next]_vars PROVE DecidedInv'
    OBVIOUS
<1>1. Types /\ Grown
    BY StepGrows DEF LogInv
<1>2. ASSUME UNCHANGED <<load, kept>>, cache' \subseteq cache
      PROVE  DecidedInv'
    BY <1>1, <1>2, CacheStays, LoadStays, KeptStays DEF DecidedInv
<1>3. CASE UNCHANGED vars \/ StartsRound \/ Tick
    BY <1>2, <1>3 DEF vars, StartsRound, Tick, load
<1>4. CASE PersonActs("owner") \/ PersonActs("stranger")
    BY <1>2, <1>4 DEF PersonActs
<1>5. CASE Lists
    BY <1>1, <1>5, ListsDecided
<1>6. CASE ReadsEvents \/ ReadsEdits
    BY <1>1, <1>6, ReadsDecided
<1>7. CASE Judges
    BY <1>1, <1>7, JudgesDecided
<1>8. CASE \E label \in LabelNames : Fixes(label)
    BY <1>1, <1>8, FixesDecided
<1>9. CASE HandsOn
    BY <1>1, <1>9, HandsOnDecided
<1>10. CASE Uses
    BY <1>1, <1>10, EndsDecided DEF Uses
<1> QED
    BY <1>3, <1>4, <1>5, <1>6, <1>7, <1>8, <1>9, <1>10 DEF Next, Loads

LEMMA DecidedStarts == Init => DecidedInv
BY DEF Init, DecidedInv, CacheInv, LoadInv, KeptInv, KeptWasQueued, KeptLabelsTrusted

------------------------------------------------------------------------------
(* The theorems.                                                              *)

\* The inductive invariant: the cache's reads cover their listings, and what a
\* load has decided holds of what is logged.
THEOREM DecidedInvariant == Spec => []DecidedInv
<1>1. LogInv /\ DecidedInv /\ [Next]_vars => DecidedInv'
    BY DecidedStep
<1> QED
    BY <1>1, DecidedStarts, LogStarts, LogStep, PTL DEF Spec

\* An issue is handed on only if its owner queued it with, or since, whatever a
\* stranger did to its text: with the cache, the reads that fail and the changes
\* made between the reads, at any times. Only a load that found an earlier
\* listing of the same second in the cache is not covered (Collided).
THEOREM KeptAlwaysQueued == Spec => []KeptWasQueued
<1>1. DecidedInv => KeptWasQueued
    BY DEF DecidedInv, KeptInv
<1> QED
    BY <1>1, DecidedInvariant, PTL

\* The host takes sandcastle:ready off only where a stranger put it on, however
\* stale the read it decided on.
THEOREM NeverUndoesOwn == Spec => []NeverUndoesItself
<1>1. LogInv => NeverUndoesItself
    BY DEF LogInv, UndoInv
<1> QED
    BY <1>1, LogInvariant, PTL

\* The labels handed on, and the one the host takes off, were decided by who
\* put them there, not by what is there.
THEOREM LabelsAlwaysSound == Spec => []LabelsAreSound
<1>1. LogInv => TypeOK
    <2> SUFFICES ASSUME LogInv PROVE TypeOK
        OBVIOUS
    <2>1. Types /\ InOrder
        BY DEF LogInv
    <2>2. ASSUME NEW i \in DOMAIN log
          PROVE  log[i] \in [what : {"labeled", "unlabeled", "renamed", "edited"},
                             label : LabelNames \union {"none"},
                             by : {"owner", "stranger", "host"}, at : 0..clock]
        <3>1. i \in 1..Len(log) /\ log[i] \in Logged /\ log[i].at <= clock /\ clock \in Nat
            BY <2>1 DEF Types, InOrder
        <3>2. log[i].at \in 0..clock
            BY <3>1 DEF Logged
        <3> QED
            BY <3>1, <3>2 DEF Logged
    <2>3. listed <= Len(log) /\ read.events <= Len(log) /\ read.edits <= Len(log)
        BY <2>1 DEF Types, ReadsOf
    <2>4. kept.labels \subseteq LabelNames
        BY <2>1 DEF Types
    <2> QED
        BY <2>1, <2>2, <2>3, <2>4 DEF TypeOK, Types
<1>2. DecidedInv => KeptLabelsTrusted
    BY DEF DecidedInv, KeptInv
<1> QED
    BY <1>1, <1>2, LogInvariant, DecidedInvariant, NeverUndoesOwn, PTL DEF LabelsAreSound
=============================================================================
