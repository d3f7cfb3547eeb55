---------------------------- MODULE HandBack_proofs ----------------------------
(* That the count of failed attempts is right (HandBack), for any cap, any    *)
(* number of builds, failed calls and kills, and whatever people do.          *)
EXTENDS HandBack, FiniteSetTheorems, TLAPS

\* Steps from the failure of a build to the last word about it.
Recording ==
    \/ pc \in {"reading", "counting"}
    \/ pc \in {"commenting", "labelling"} /\ reason \in {"failed", "gaveUp"}

\* Comments and failures are of builds up to the last one, which has no comment
\* until the host has posted one and no failure while it is building.
RecordsInOrder ==
    /\ \A c \in comments : c.build <= build /\ c.at <= clock
    /\ \A f \in failed : f.build <= build /\ f.at <= clock
    /\ pc \in {"building", "reading", "counting", "commenting"} =>
           \A c \in comments : c.build # build
    /\ pc = "building" => \A f \in failed : f.build # build
    /\ removedAt <= clock

\* A build fails once, before anything is said of it.
OneFailureEach ==
    /\ \A f, g \in failed : f.build = g.build => f = g
    /\ \A c \in comments, f \in failed : c.build = f.build => f.at <= c.at

\* What is being recorded happened.
RecordingIsOfFailure == Recording => \E f \in failed : f.build = build

SeenIsWritten == pc = "counting" => seen = {c \in comments : c.kind = "failed"}

\* The edit of the labels follows the comment that explains it.
EditIsExplained ==
    pc = "labelling" => \E c \in comments : c.build = build /\ c.kind = reason

\* An issue that is ready was judged since the host last handed it back.
ReadyWasJudged == ready => judged

\* The records themselves.
Records ==
    /\ MarkersAreFailures
    /\ RecordsInOrder
    /\ OneFailureEach
    /\ RecordingIsOfFailure
    /\ SeenIsWritten
    /\ EditIsExplained

Finite == IsFiniteSet(comments) /\ IsFiniteSet(failed)

LEMMA RecordsStart == Init => TypeOK /\ Finite /\ Records /\ ReadyWasJudged
<1> SUFFICES ASSUME Init PROVE TypeOK /\ Finite /\ Records /\ ReadyWasJudged
    OBVIOUS
<1>1. TypeOK
    <2>1. /\ clock = 1 /\ queue = "Sandcastle" /\ removedAt = 0 /\ comments = {}
          /\ pc = "between" /\ build = 0 /\ reason = "failed" /\ seen = {}
          /\ faults = 0 /\ failed = {}
        BY DEF Init
    <2>2. ready \in BOOLEAN /\ needsHuman \in BOOLEAN /\ report \in BOOLEAN /\ judged \in BOOLEAN
        BY ZenonT(30) DEF Init
    <2> QED
        BY ONLY <2>1, <2>2, ConstantsAssumption DEF TypeOK, Kinds, ConstantsAssumption
<1>2. IsFiniteSet(comments) /\ IsFiniteSet(failed)
    BY FS_EmptySet DEF Init
<1> QED
    BY <1>1, <1>2 DEF Init, Finite, Records, MarkersAreFailures, RecordsInOrder, OneFailureEach,
        Recording, RecordingIsOfFailure, SeenIsWritten, EditIsExplained, ReadyWasJudged

\* The new comment, of the kind and build the host is at.
NewComment == [kind |-> reason, build |-> build, at |-> clock]
NewFailure == [build |-> build, at |-> clock]

\* Types and finiteness.
LEMMA TypesStep ==
    ASSUME TypeOK, IsFiniteSet(comments), IsFiniteSet(failed), [Next]_vars
    PROVE  TypeOK' /\ IsFiniteSet(comments)' /\ IsFiniteSet(failed)'
<1> USE ConstantsAssumption
<1>1. /\ NewComment \in Comments
      /\ NewFailure \in [build : 0 .. MaxBuilds, at : 1 .. MaxClock]
      /\ IsFiniteSet(comments \union {NewComment})
      /\ IsFiniteSet(failed \union {NewFailure})
    BY FS_AddElement DEF NewComment, NewFailure, Comments, TypeOK
<1>2. {c \in comments : c.kind = "failed"} \in SUBSET Comments
    BY DEF TypeOK
<1>3. /\ Posted => comments' = comments \union {NewComment}
      /\ BuildFails => failed' = failed \union {NewFailure}
    BY DEF Posted, NewComment, BuildFails, NewFailure
<1>4. CASE Tick
    BY <1>4 DEF Tick, TypeOK, issue, host, history
<1>13. CASE IntakeMarksReady
    BY <1>13 DEF IntakeMarksReady, TypeOK, issue, host, history
<1>14. CASE PersonRequeues
    <2>1. ready' \in BOOLEAN /\ needsHuman' \in BOOLEAN /\ report' \in BOOLEAN /\ judged' \in BOOLEAN
        BY Zenon, <1>14 DEF PersonRequeues, TypeOK, host, history
    <2>2. /\ removedAt' = clock
          /\ UNCHANGED <<clock, queue, comments, pc, build, reason, seen, faults, failed>>
        BY <1>14 DEF PersonRequeues, host, history
    <2> QED
        BY <2>1, <2>2 DEF TypeOK
<1>15. CASE PersonHandsBack
    BY <1>15 DEF PersonHandsBack, TypeOK, issue, host, history
<1>5. CASE Builds \/ BuildRecordsNothing \/ PushRefused
    BY <1>5 DEF Builds, BuildRecordsNothing, PushRefused, Goto, TypeOK, issue, history, Kinds
<1>6. CASE BuildFails
    BY <1>1, <1>3, <1>6 DEF BuildFails, Goto, TypeOK, issue
<1>7. CASE ReadsComments
    BY <1>2, <1>7 DEF ReadsComments, Goto, TypeOK, issue, history
<1>8. CASE CountsAttempts \/ ReadFails
    BY <1>8 DEF CountsAttempts, ReadFails, Fault, Goto, TypeOK, issue, history, Kinds
<1>9. CASE PostsComment \/ PostFails
    BY <1>1, <1>3, <1>9 DEF PostsComment, PostFails, Fault, Goto, TypeOK, history
<1>10. CASE EditsLabels
    <2>1. ready' \in BOOLEAN /\ needsHuman' \in BOOLEAN /\ report' \in BOOLEAN /\ judged' \in BOOLEAN
        BY Zenon, <1>10 DEF EditsLabels, Labelled, TypeOK
    <2>2. /\ queue' \in {queue, "local"} /\ pc' = "between"
          /\ UNCHANGED <<clock, removedAt, comments, build, reason, seen, faults, failed>>
        BY Zenon, <1>10 DEF EditsLabels, Labelled, Goto
    <2> QED
        BY <2>1, <2>2 DEF TypeOK
<1>16. CASE EditFails
    <2>1. ready' \in BOOLEAN /\ needsHuman' \in BOOLEAN /\ report' \in BOOLEAN /\ judged' \in BOOLEAN
        BY Zenon, <1>16 DEF EditFails, Labelled, TypeOK, issue
    <2>2. /\ queue' \in {queue, "local"} /\ pc' = "between" /\ faults < MaxFaults /\ faults' = faults + 1
          /\ UNCHANGED <<clock, removedAt, comments, build, reason, seen, failed>>
        BY Zenon, <1>16 DEF EditFails, Labelled, Fault, Goto, issue
    <2> QED
        BY <2>1, <2>2 DEF TypeOK
<1>11. CASE RunEnds
    BY <1>11 DEF RunEnds, TypeOK, issue
<1>17. CASE Killed
    <2>1. ready' \in BOOLEAN /\ needsHuman' \in BOOLEAN /\ report' \in BOOLEAN /\ judged' \in BOOLEAN
        BY Zenon, <1>17 DEF Killed, TypeOK, issue
    <2>2. /\ pc' = "between" /\ seen' = {} /\ faults < MaxFaults /\ faults' = faults + 1
          /\ UNCHANGED <<clock, queue, removedAt, comments, build, reason, failed>>
        BY <1>17 DEF Killed, Goto, Fault, issue
    <2> QED
        BY <2>1, <2>2 DEF TypeOK
<1>12. CASE UNCHANGED vars
    BY <1>12 DEF vars, TypeOK, issue, host, history
<1> QED
    BY <1>4, <1>5, <1>6, <1>7, <1>8, <1>9, <1>10, <1>11, <1>12, <1>13, <1>14, <1>15, <1>16, <1>17 DEF Next


\* Only two steps bring the ready label, or end the judgement behind it.
LEMMA ReadyStep ==
    ASSUME ReadyWasJudged, [Next]_vars
    PROVE  ReadyWasJudged'
<1>1. CASE IntakeMarksReady
    BY Zenon, <1>1 DEF IntakeMarksReady, ReadyWasJudged
<1>2. CASE EditsLabels \/ EditFails
    BY Zenon, <1>2 DEF EditsLabels, EditFails, Labelled, ReadyWasJudged, issue
<1>3. CASE UNCHANGED <<ready, judged>>
    BY Zenon, <1>3 DEF ReadyWasJudged
<1>4. ~(IntakeMarksReady \/ EditsLabels \/ EditFails) => UNCHANGED <<ready, judged>>
    BY DEF Next, vars, Tick, PersonRequeues, PersonHandsBack, Builds, BuildRecordsNothing,
        BuildFails, PushRefused, ReadsComments, CountsAttempts, ReadFails, PostsComment,
        PostFails, RunEnds, Killed, issue, host, history
<1> QED
    BY Zenon, <1>1, <1>2, <1>3, <1>4

\* A step that writes no record and starts none.
Quiet ==
    /\ UNCHANGED <<comments, failed, build, reason>>
    /\ (pc' = pc /\ seen' = seen) \/ pc' = "between"
    /\ clock' \in {clock, clock + 1}
    /\ removedAt' \in {removedAt, clock}

LEMMA QuietSteps ==
    ASSUME [Next]_vars,
           ~(Builds \/ BuildFails \/ PushRefused \/ ReadsComments \/ CountsAttempts),
           ~(PostsComment \/ PostFails)
    PROVE  Quiet
<1>1. CASE Tick \/ IntakeMarksReady \/ PersonRequeues \/ PersonHandsBack
    BY <1>1 DEF Tick, IntakeMarksReady, PersonRequeues, PersonHandsBack, Quiet, issue, host, history
<1>2. CASE BuildRecordsNothing \/ ReadFails \/ RunEnds \/ Killed
    BY <1>2 DEF BuildRecordsNothing, ReadFails, RunEnds, Killed, Goto, Quiet, issue, history
<1>3. CASE EditsLabels \/ EditFails
    BY <1>3 DEF EditsLabels, EditFails, Labelled, Goto, Quiet, issue
<1>4. CASE UNCHANGED vars
    BY <1>4 DEF vars, Quiet, issue, host, history
<1> QED
    BY <1>1, <1>2, <1>3, <1>4 DEF Next

LEMMA QuietKeepsRecords ==
    ASSUME TypeOK, Records, Quiet
    PROVE  Records'
<1> USE DEF Quiet
<1>1. clock \in Int /\ removedAt <= clock /\ removedAt \in Int
    BY ConstantsAssumption DEF TypeOK, Records, RecordsInOrder
<1>2. MarkersAreFailures'
    BY DEF Records, MarkersAreFailures
<1>3. RecordsInOrder'
    <2>1. \A c \in comments : c.at \in Int
        BY ConstantsAssumption DEF TypeOK, Comments
    <2>2. \A f \in failed : f.at \in Int
        BY ConstantsAssumption DEF TypeOK
    <2> QED
        BY <1>1, <2>1, <2>2 DEF Records, RecordsInOrder
<1>4. OneFailureEach'
    BY DEF Records, OneFailureEach
<1>5. RecordingIsOfFailure'
    BY DEF Records, RecordingIsOfFailure, Recording
<1>6. SeenIsWritten' /\ EditIsExplained'
    BY DEF Records, SeenIsWritten, EditIsExplained
<1> QED
    BY <1>2, <1>3, <1>4, <1>5, <1>6 DEF Records

LEMMA RecordsStep ==
    ASSUME TypeOK, Records, [Next]_vars
    PROVE  Records'
<1>0. /\ clock \in Int /\ build \in Int /\ removedAt \in Int
      /\ \A c \in comments : c.at \in Int /\ c.build \in Int
      /\ \A f \in failed : f.at \in Int /\ f.build \in Int
    BY ConstantsAssumption DEF TypeOK, Comments
<1>1. CASE Builds
    <2>1. /\ pc = "between" /\ pc' = "building" /\ build' = build + 1
          /\ UNCHANGED <<clock, removedAt, comments, failed, reason, seen>>
        BY <1>1 DEF Builds, Goto, issue, history
    <2> QED
        BY <1>0, <2>1 DEF Records, MarkersAreFailures, RecordsInOrder, OneFailureEach,
            RecordingIsOfFailure, Recording, SeenIsWritten, EditIsExplained
<1>2. CASE BuildFails
    <2>1. /\ pc = "building" /\ pc' = "reading" /\ failed' = failed \union {NewFailure}
          /\ UNCHANGED <<clock, removedAt, comments, build, reason, seen>>
          /\ NewFailure.build = build /\ NewFailure.at = clock
        BY <1>2 DEF BuildFails, Goto, issue, NewFailure
    <2> QED
        BY <1>0, <2>1 DEF Records, MarkersAreFailures, RecordsInOrder, OneFailureEach,
            RecordingIsOfFailure, Recording, SeenIsWritten, EditIsExplained
<1>3. CASE PushRefused
    <2>1. /\ pc = "building" /\ pc' = "commenting" /\ reason' \in {"workflow", "toLocal"}
          /\ UNCHANGED <<clock, removedAt, comments, failed, build, seen>>
        BY <1>3 DEF PushRefused, Goto, issue, history
    <2> QED
        BY <1>0, <2>1 DEF Records, MarkersAreFailures, RecordsInOrder, OneFailureEach,
            RecordingIsOfFailure, Recording, SeenIsWritten, EditIsExplained
<1>4. CASE ReadsComments
    <2>1. /\ pc = "reading" /\ pc' = "counting" /\ seen' = {c \in comments : c.kind = "failed"}
          /\ UNCHANGED <<clock, removedAt, comments, failed, build, reason>>
        BY <1>4 DEF ReadsComments, Goto, issue, history
    <2> QED
        BY <1>0, <2>1 DEF Records, MarkersAreFailures, RecordsInOrder, OneFailureEach,
            RecordingIsOfFailure, Recording, SeenIsWritten, EditIsExplained
<1>5. CASE CountsAttempts
    <2>1. /\ pc = "counting" /\ pc' = "commenting"
          /\ UNCHANGED <<clock, removedAt, comments, failed, build>>
        BY <1>5 DEF CountsAttempts, Goto, issue, history
    <2> QED
        BY <1>0, <2>1 DEF Records, MarkersAreFailures, RecordsInOrder, OneFailureEach,
            RecordingIsOfFailure, Recording, SeenIsWritten, EditIsExplained
<1>6. CASE PostsComment \/ PostFails
    <2>1. /\ pc = "commenting" /\ pc' \in {"between", "labelling"}
          /\ comments' \in {comments, comments \union {NewComment}}
          /\ pc' = "labelling" => reason # "failed" /\ comments' = comments \union {NewComment}
          /\ UNCHANGED <<clock, removedAt, failed, build, reason, seen>>
          /\ NewComment.build = build /\ NewComment.at = clock /\ NewComment.kind = reason
        BY <1>6 DEF PostsComment, PostFails, Posted, NewComment, Goto, history
    <2>2. CASE comments' = comments
        BY <1>0, <2>1, <2>2 DEF Records, MarkersAreFailures, RecordsInOrder, OneFailureEach,
            RecordingIsOfFailure, Recording, SeenIsWritten, EditIsExplained
    <2>3. CASE comments' = comments \union {NewComment}
        <3>1. MarkersAreFailures'
            BY <2>1, <2>3 DEF Records, MarkersAreFailures, RecordsInOrder, RecordingIsOfFailure, Recording
        <3>2. RecordsInOrder' /\ OneFailureEach'
            BY <1>0, <2>1, <2>3 DEF Records, RecordsInOrder, OneFailureEach
        <3>3. RecordingIsOfFailure' /\ SeenIsWritten' /\ EditIsExplained'
            BY <2>1, <2>3 DEF Records, RecordingIsOfFailure, Recording, SeenIsWritten, EditIsExplained
        <3> QED
            BY <3>1, <3>2, <3>3 DEF Records
    <2> QED
        BY <2>1, <2>2, <2>3
<1> QED
    BY <1>1, <1>2, <1>3, <1>4, <1>5, <1>6, QuietSteps, QuietKeepsRecords

------------------------------------------------------------------------------
(* The numbers.                                                               *)

\* A one-to-one function into a finite set comes from one no larger.
LEMMA NoMoreThan ==
    ASSUME NEW S, NEW T, IsFiniteSet(S), IsFiniteSet(T), NEW f \in [S -> T],
           \A x, y \in S : f[x] = f[y] => x = y
    PROVE  Cardinality(S) <= Cardinality(T)
<1>1. Cardinality(S) \in Nat /\ Cardinality(T) \in Nat
    BY FS_CardinalityType
<1>2. ~(Cardinality(T) < Cardinality(S))
    BY FS_PigeonHole
<1> QED
    BY <1>1, <1>2

\* A set with at most one element more.
LEMMA OneMore ==
    ASSUME NEW S, NEW x, IsFiniteSet(S), NEW T \in SUBSET (S \union {x})
    PROVE  Cardinality(T) <= Cardinality(S) + 1
<1>1. /\ IsFiniteSet(S \union {x})
      /\ Cardinality(S \union {x}) = IF x \in S THEN Cardinality(S) ELSE Cardinality(S) + 1
    BY FS_AddElement
<1>2. Cardinality(T) <= Cardinality(S \union {x}) /\ IsFiniteSet(T)
    BY <1>1, FS_Subset
<1>3. Cardinality(S) \in Nat /\ Cardinality(T) \in Nat
    BY <1>2, FS_CardinalityType
<1> QED
    BY <1>1, <1>2, <1>3

\* The markers that count now.
Counted == {c \in comments : c.kind = "failed" /\ c.at >= removedAt}

\* Failures since the issue was queued again.
Fresh == {f \in failed : f.at > removedAt}
HasMarker(f) == \E c \in comments : c.kind = "failed" /\ c.build = f.build

\* The last build may be without its marker while its record is written, and
\* once the issue is with a person.
Excused == Recording \/ (needsHuman /\ pc = "between")

Unpaid == {f \in Fresh : ~HasMarker(f) /\ ~(Excused /\ f.build = build)}

\* There is room below the cap, and for the marker about to be posted.
RoomLeft ==
    /\ Cardinality(Counted) < Cap
    /\ pc = "commenting" /\ reason = "failed" => Cardinality(Counted) + 1 < Cap

\* A failure without its marker cost a failed call or a kill.
FaultsPay == Cardinality(Unpaid) <= faults

GaveUpRightly ==
    pc \in {"commenting", "labelling"} /\ reason = "gaveUp" =>
        \/ Cardinality(Against) >= Cap
        \/ \E f \in failed : f.build = build /\ f.at <= removedAt

LEMMA Sizes ==
    ASSUME IsFiniteSet(comments), IsFiniteSet(failed)
    PROVE  /\ IsFiniteSet(Counted) /\ Cardinality(Counted) \in Nat
           /\ IsFiniteSet(Fresh) /\ Cardinality(Fresh) \in Nat
           /\ IsFiniteSet(Unpaid) /\ Cardinality(Unpaid) \in Nat
           /\ IsFiniteSet(Against) /\ Cardinality(Against) \in Nat
<1>1. Counted \in SUBSET comments /\ Fresh \in SUBSET failed /\ Unpaid \in SUBSET failed
      /\ Against \in SUBSET failed
    BY DEF Counted, Fresh, Unpaid, Against
<1>2. IsFiniteSet(Counted) /\ IsFiniteSet(Fresh) /\ IsFiniteSet(Unpaid) /\ IsFiniteSet(Against)
    BY <1>1, FS_Subset
<1> QED
    BY <1>2, FS_CardinalityType

\* The failure a marker is for.
FailureOf(c) == CHOOSE f \in failed : f.build = c.build

\* Every counted marker is for a failure of its own, which is held against the
\* issue; with the one now being recorded there is one more.
LEMMA CountedAreAgainst ==
    ASSUME TypeOK, IsFiniteSet(comments), IsFiniteSet(failed), Records, pc = "counting"
    PROVE  \/ Cardinality(Against) >= Cardinality(Counted) + 1
           \/ \E f \in failed : f.build = build /\ f.at <= removedAt
<1>1. PICK now \in failed : now.build = build
    BY DEF Records, RecordingIsOfFailure, Recording
<1>2. CASE now.at <= removedAt
    BY <1>1, <1>2
<1>3. CASE ~(now.at <= removedAt)
    <2>1. now \in Against
        <3>1. now.at \in Int /\ removedAt \in Int
            BY ConstantsAssumption DEF TypeOK
        <3> QED
            BY <1>3, <3>1 DEF Against
    <2>2. \A c \in Counted : FailureOf(c) \in failed /\ FailureOf(c).build = c.build
        BY DEF Counted, FailureOf, Records, MarkersAreFailures
    <2>3. \A c \in Counted : FailureOf(c) \in Against \ {now}
        <3>1. \A c \in Counted : c \in comments /\ c.at >= removedAt /\ c.build # build
            BY DEF Counted, Records, RecordsInOrder
        <3> QED
            BY <1>1, <2>2, <3>1 DEF Against
    <2>4. \A c, d \in Counted : FailureOf(c) = FailureOf(d) => c = d
        <3>1. \A c, d \in Counted : c.build = d.build => c = d
            BY DEF Counted, Records, MarkersAreFailures
        <3> QED
            BY <2>2, <3>1
    <2> DEFINE of == [c \in Counted |-> FailureOf(c)]
    <2>5. of \in [Counted -> Against \ {now}] /\ \A c, d \in Counted : of[c] = of[d] => c = d
        BY <2>3, <2>4
    <2>6. IsFiniteSet(Against \ {now}) /\ Cardinality(Against \ {now}) = Cardinality(Against) - 1
        BY <2>1, Sizes, FS_RemoveElement
    <2> HIDE DEF of
    <2>7. Cardinality(Counted) <= Cardinality(Against \ {now})
        BY <2>5, <2>6, Sizes, NoMoreThan
    <2> QED
        BY <2>6, <2>7, Sizes
<1> QED
    BY <1>2, <1>3

\* What is fresh and has its marker is no more than what is counted.
LEMMA FreshAreCounted ==
    ASSUME TypeOK, IsFiniteSet(comments), IsFiniteSet(failed), Records, ~Excused
    PROVE  Cardinality(Fresh) <= Cardinality(Counted) + Cardinality(Unpaid)
<1> DEFINE Paid == {f \in Fresh : HasMarker(f)}
           marker(f) == CHOOSE c \in comments : c.kind = "failed" /\ c.build = f.build
           by == [f \in Paid |-> marker(f)]
<1>1. \A f \in Paid : marker(f) \in comments /\ marker(f).kind = "failed" /\ marker(f).build = f.build
    BY DEF HasMarker
<1>2. \A f \in Paid : marker(f) \in Counted
    <2>1. \A f \in Paid : f \in failed /\ f.at > removedAt
        BY DEF Fresh
    <2>2. \A f \in Paid : f.at <= marker(f).at
        BY <1>1, <2>1 DEF Records, OneFailureEach
    <2>3. /\ removedAt \in Int /\ \A f \in failed : f.at \in Int
          /\ \A c \in comments : c.at \in Int
        BY ConstantsAssumption DEF TypeOK, Comments
    <2> HIDE DEF Paid, marker
    <2>4. \A f \in Paid : marker(f).at >= removedAt
        BY <1>1, <2>1, <2>2, <2>3
    <2> QED
        BY <1>1, <2>4 DEF Counted
<1>3. \A f, g \in Paid : marker(f) = marker(g) => f = g
    <2>1. \A f, g \in Paid : f.build = g.build => f = g
        BY DEF Fresh, Records, OneFailureEach
    <2> HIDE DEF Paid, marker
    <2> QED
        BY <1>1, <2>1
<1>4. by \in [Paid -> Counted] /\ \A f, g \in Paid : by[f] = by[g] => f = g
    <2> HIDE DEF Paid, marker
    <2> QED
        BY <1>2, <1>3
<1>5. Fresh = Paid \union Unpaid /\ Paid \in SUBSET failed
    BY DEF Unpaid, Fresh
<1> HIDE DEF Paid, marker, by
<1>6. IsFiniteSet(Paid) /\ Cardinality(Paid) \in Nat
    BY <1>5, FS_Subset, FS_CardinalityType
<1>7. Cardinality(Paid) <= Cardinality(Counted)
    BY <1>4, <1>6, Sizes, NoMoreThan
<1>8. Cardinality(Paid \union Unpaid) = Cardinality(Paid) + Cardinality(Unpaid) - Cardinality(Paid \cap Unpaid)
    BY <1>6, Sizes, FS_Union
<1>9. Cardinality(Paid \cap Unpaid) \in Nat
    BY <1>6, FS_Intersection, FS_CardinalityType, Sizes
<1> QED
    BY <1>5, <1>6, <1>7, <1>8, <1>9, Sizes

Numbers == RoomLeft /\ FaultsPay /\ GaveUpRightly

LEMMA RoomStep ==
    ASSUME TypeOK, Finite, Finite', Records, RoomLeft, [Next]_vars
    PROVE  RoomLeft'
<1>0. /\ clock \in Int /\ removedAt \in Int /\ Cap \in Int /\ removedAt <= clock
      /\ \A c \in comments : c.at \in Int
    BY ConstantsAssumption DEF TypeOK, Comments, Records, RecordsInOrder
<1>1. /\ IsFiniteSet(Counted) /\ Cardinality(Counted) \in Nat
      /\ Cardinality(Counted') \in Nat
    <2>1. IsFiniteSet(comments') /\ Counted' \in SUBSET comments'
        BY DEF Finite, Counted
    <2>2. IsFiniteSet(Counted')
        BY <2>1, FS_Subset
    <2> QED
        BY <2>2, Sizes, FS_CardinalityType DEF Finite
<1>2. ASSUME Counted' \subseteq Counted
      PROVE  Cardinality(Counted') < Cap
    <2>1. Cardinality(Counted') <= Cardinality(Counted)
        BY <1>1, <1>2, FS_Subset
    <2> QED
        BY <1>0, <1>1, <2>1 DEF RoomLeft
<1>3. CASE CountsAttempts
    <2>1. /\ pc = "counting" /\ UNCHANGED <<comments, removedAt>>
          /\ reason' = IF Cardinality({c \in seen : c.at >= removedAt}) + 1 < Cap THEN "failed" ELSE "gaveUp"
        BY <1>3 DEF CountsAttempts, issue
    <2>2. {c \in seen : c.at >= removedAt} = Counted
        BY <2>1 DEF Records, SeenIsWritten, Counted
    <2>3. Counted' = Counted
        BY <2>1 DEF Counted
    <2> QED
        BY <1>1, <1>2, <2>1, <2>2, <2>3 DEF RoomLeft
<1>4. CASE PostsComment \/ PostFails
    <2>1. /\ pc = "commenting" /\ pc' # "commenting" /\ removedAt' = removedAt
          /\ comments' = comments \/ comments' = comments \union {NewComment}
          /\ NewComment.kind = reason
        BY <1>4 DEF PostsComment, PostFails, Posted, NewComment, Goto
    <2>2. CASE reason = "failed"
        <3>1. Counted' \subseteq Counted \union {NewComment}
            BY <2>1 DEF Counted
        <3>2. Cardinality(Counted') <= Cardinality(Counted) + 1
            BY <1>1, <3>1, OneMore
        <3> QED
            BY <1>0, <1>1, <2>1, <2>2, <3>2 DEF RoomLeft
    <2>3. CASE reason # "failed"
        <3>1. Counted' \subseteq Counted
            BY <2>1, <2>3 DEF Counted
        <3> QED
            BY <1>2, <2>1, <3>1 DEF RoomLeft
    <2> QED
        BY <2>2, <2>3
<1>5. CASE Builds \/ BuildFails \/ PushRefused \/ ReadsComments
    <2>1. /\ UNCHANGED <<comments, removedAt>>
          /\ pc' # "commenting" \/ reason' # "failed"
        BY <1>5 DEF Builds, BuildFails, PushRefused, ReadsComments, Goto, issue
    <2>2. Counted' \subseteq Counted
        BY <2>1 DEF Counted
    <2> QED
        BY <1>2, <2>1, <2>2 DEF RoomLeft
<1>6. CASE Quiet
    <2>1. Counted' \subseteq Counted
        BY <1>0, <1>6 DEF Quiet, Counted
    <2>2. Cardinality(Counted') <= Cardinality(Counted)
        BY <1>1, <2>1, FS_Subset
    <2>3. pc' = "commenting" /\ reason' = "failed" => pc = "commenting" /\ reason = "failed"
        BY <1>6 DEF Quiet
    <2> QED
        BY <1>0, <1>1, <2>2, <2>3 DEF RoomLeft
<1> QED
    BY <1>3, <1>4, <1>5, <1>6, QuietSteps

LEMMA FaultsStep ==
    ASSUME TypeOK, Finite, Finite', Records, FaultsPay, [Next]_vars
    PROVE  FaultsPay'
<1>0. /\ clock \in Int /\ removedAt \in Int /\ faults \in Int /\ removedAt <= clock
      /\ \A f \in failed : f.at \in Int /\ f.at <= clock
    BY ConstantsAssumption DEF TypeOK, Records, RecordsInOrder
<1>1. /\ IsFiniteSet(Unpaid) /\ Cardinality(Unpaid) \in Nat
      /\ Cardinality(Unpaid') \in Nat
    <2>1. IsFiniteSet(failed') /\ Unpaid' \in SUBSET failed'
        BY DEF Finite, Unpaid, Fresh
    <2>2. IsFiniteSet(Unpaid')
        BY <2>1, FS_Subset
    <2> QED
        BY <2>2, Sizes, FS_CardinalityType DEF Finite
<1>2. ASSUME Unpaid' \subseteq Unpaid, faults' = faults
      PROVE  FaultsPay'
    <2>1. Cardinality(Unpaid') <= Cardinality(Unpaid)
        BY <1>1, <1>2, FS_Subset
    <2> QED
        BY <1>0, <1>1, <1>2, <2>1 DEF FaultsPay
<1>3. CASE PersonRequeues
    <2>1. removedAt' = clock /\ failed' = failed /\ faults' = faults
        BY <1>3 DEF PersonRequeues, history
    <2>2. Unpaid' \subseteq Unpaid
        BY <1>0, <2>1 DEF Unpaid, Fresh
    <2> QED
        BY <1>2, <2>1, <2>2
<1>4. CASE ReadFails \/ PostFails \/ EditFails \/ Killed
    <2>1. /\ faults' = faults + 1 /\ UNCHANGED <<build, failed, removedAt>>
          /\ comments \subseteq comments'
        BY <1>4 DEF ReadFails, PostFails, Posted, EditFails, Labelled, Killed, Fault, issue, history
    <2>2. PICK g : \A f \in failed : f.build = build => f = g
        BY DEF Records, OneFailureEach
    <2>3. Unpaid' \subseteq Unpaid \union {g}
        BY <2>1, <2>2 DEF Unpaid, Fresh, HasMarker
    <2>4. Cardinality(Unpaid') <= Cardinality(Unpaid) + 1
        BY <1>1, <2>3, OneMore
    <2> QED
        BY <1>0, <1>1, <2>1, <2>4 DEF FaultsPay
<1>5. CASE Builds
    <2>1. /\ pc = "between" /\ pc' = "building" /\ ~needsHuman
          /\ UNCHANGED <<removedAt, comments, failed, faults>>
        BY <1>5 DEF Builds, Goto, issue, history
    <2>2. Unpaid' \subseteq Unpaid
        BY <2>1 DEF Unpaid, Fresh, HasMarker, Excused, Recording
    <2> QED
        BY <1>2, <2>1, <2>2
<1>6. CASE BuildFails
    <2>1. /\ pc = "building" /\ pc' = "reading" /\ failed' = failed \union {NewFailure}
          /\ UNCHANGED <<removedAt, comments, build, faults>> /\ NewFailure.build = build
        BY <1>6 DEF BuildFails, Goto, issue, NewFailure
    <2>2. Unpaid' \subseteq Unpaid
        BY <2>1 DEF Unpaid, Fresh, HasMarker, Excused, Recording
    <2> QED
        BY <1>2, <2>1, <2>2
<1>7. CASE BuildRecordsNothing \/ PushRefused
    <2>1. /\ pc = "building" /\ UNCHANGED <<removedAt, comments, build, failed, faults>>
          /\ \A f \in failed : f.build # build
        BY <1>7 DEF BuildRecordsNothing, PushRefused, issue, history, Records, RecordsInOrder
    <2>2. Unpaid' \subseteq Unpaid
        BY <2>1 DEF Unpaid, Fresh, HasMarker
    <2> QED
        BY <1>2, <2>1, <2>2
<1>8. CASE ReadsComments \/ CountsAttempts
    <2>1. /\ pc \in {"reading", "counting"}
          /\ UNCHANGED <<removedAt, comments, build, failed, faults>>
          /\ pc' = "counting" \/ (pc' = "commenting" /\ reason' \in {"failed", "gaveUp"})
        BY <1>8 DEF ReadsComments, CountsAttempts, Goto, issue, history
    <2>2. Unpaid' \subseteq Unpaid
        BY <2>1 DEF Unpaid, Fresh, HasMarker, Excused, Recording
    <2> QED
        BY <1>2, <2>1, <2>2
<1>9. CASE PostsComment
    <2>1. /\ pc = "commenting" /\ comments' = comments \union {NewComment}
          /\ UNCHANGED <<removedAt, build, failed, faults, reason>>
          /\ NewComment.build = build /\ NewComment.kind = reason
          /\ reason # "failed" => pc' = "labelling"
        BY <1>9 DEF PostsComment, Posted, NewComment, Goto, history
    <2>2. Unpaid' \subseteq Unpaid
        <3>1. CASE reason = "failed"
            BY <2>1, <3>1 DEF Unpaid, Fresh, HasMarker
        <3>2. CASE reason # "failed"
            BY <2>1, <3>2 DEF Unpaid, Fresh, HasMarker, Excused, Recording
        <3> QED
            BY <3>1, <3>2
    <2> QED
        BY <1>2, <2>1, <2>2
<1>10. CASE EditsLabels
    <2>1. /\ pc = "labelling" /\ pc' = "between"
          /\ UNCHANGED <<removedAt, comments, build, failed, faults, reason>>
        BY <1>10 DEF EditsLabels, Labelled, Goto
    <2>2. reason # "toLocal" => needsHuman'
        BY <1>10 DEF EditsLabels, Labelled
    <2>3. PICK c \in comments : c.build = build /\ c.kind = reason
        BY <2>1 DEF Records, EditIsExplained
    <2>4. Unpaid' \subseteq Unpaid
        <3>1. CASE reason = "toLocal"
            BY <2>1, <3>1 DEF Unpaid, Fresh, HasMarker, Excused, Recording
        <3>2. CASE reason # "toLocal"
            BY <2>1, <2>2, <3>2 DEF Unpaid, Fresh, HasMarker, Excused
        <3> QED
            BY <3>1, <3>2
    <2> QED
        BY <1>2, <2>1, <2>4
<1>11. CASE PersonHandsBack
    <2>1. /\ UNCHANGED <<removedAt, comments, build, failed, faults, reason, pc>>
          /\ ~needsHuman
        BY <1>11 DEF PersonHandsBack, host, history
    <2>2. needsHuman'
        BY <1>11 DEF PersonHandsBack
    <2>3. Unpaid' \subseteq Unpaid
        BY <2>1, <2>2 DEF Unpaid, Fresh, HasMarker, Excused, Recording
    <2> QED
        BY <1>2, <2>1, <2>3
<1>12. CASE Tick \/ IntakeMarksReady \/ RunEnds \/ UNCHANGED vars
    <2>1. UNCHANGED <<removedAt, comments, build, failed, faults, reason, pc, needsHuman>>
        BY <1>12 DEF Tick, IntakeMarksReady, RunEnds, vars, issue, host, history
    <2>2. Unpaid' \subseteq Unpaid
        BY <2>1 DEF Unpaid, Fresh, HasMarker, Excused, Recording
    <2> QED
        BY <1>2, <2>1, <2>2
<1> QED
    BY <1>3, <1>4, <1>5, <1>6, <1>7, <1>8, <1>9, <1>10, <1>11, <1>12 DEF Next

LEMMA GaveUpStep ==
    ASSUME TypeOK, Finite, Finite', Records, GaveUpRightly, [Next]_vars
    PROVE  GaveUpRightly'
<1>1. /\ IsFiniteSet(Against) /\ Cardinality(Against) \in Nat
      /\ IsFiniteSet(Against') /\ Cardinality(Against') \in Nat
    <2>1. IsFiniteSet(failed') /\ Against' \in SUBSET failed'
        BY DEF Finite, Against
    <2>2. IsFiniteSet(Against')
        BY <2>1, FS_Subset
    <2> QED
        BY <2>2, Sizes, FS_CardinalityType DEF Finite
<1>2. CASE CountsAttempts
    <2>1. /\ pc = "counting" /\ UNCHANGED <<comments, removedAt, failed, build>>
          /\ reason' = IF Cardinality({c \in seen : c.at >= removedAt}) + 1 < Cap THEN "failed" ELSE "gaveUp"
        BY <1>2 DEF CountsAttempts, issue, history
    <2>2. {c \in seen : c.at >= removedAt} = Counted
        BY <2>1 DEF Records, SeenIsWritten, Counted
    <2>3. Against' = Against
        BY <2>1 DEF Against
    <2>4. Cardinality(Counted) \in Nat
        BY Sizes DEF Finite
    <2>5. \/ Cardinality(Against) >= Cardinality(Counted) + 1
          \/ \E f \in failed : f.build = build /\ f.at <= removedAt
        BY <2>1, CountedAreAgainst DEF Finite
    <2>6. reason' = "gaveUp" => Cardinality(Counted) + 1 >= Cap
        BY ONLY <2>1, <2>2, <2>4, ConstantsAssumption DEF ConstantsAssumption
    <2>7. reason' = "gaveUp" => \/ Cardinality(Against) >= Cap
                               \/ \E f \in failed : f.build = build /\ f.at <= removedAt
        BY <1>1, <2>4, <2>5, <2>6, ConstantsAssumption
    <2> QED
        BY <2>1, <2>3, <2>7 DEF GaveUpRightly
<1>3. CASE PersonRequeues
    <2>1. removedAt' = clock /\ UNCHANGED <<pc, reason, build, failed>>
        BY <1>3 DEF PersonRequeues, host, history
    <2>2. \A f \in failed : f.at <= clock
        BY DEF Records, RecordsInOrder
    <2> QED
        BY <2>1, <2>2 DEF GaveUpRightly, Records, RecordingIsOfFailure, Recording
<1>4. CASE Builds \/ BuildFails \/ PushRefused \/ ReadsComments
    BY <1>4 DEF Builds, BuildFails, PushRefused, ReadsComments, Goto, GaveUpRightly
<1>5. ASSUME comments \subseteq comments', UNCHANGED <<removedAt, failed, build>>,
             pc' \in {"commenting", "labelling"} /\ reason' = "gaveUp" =>
                 pc \in {"commenting", "labelling"} /\ reason = "gaveUp"
      PROVE  GaveUpRightly'
    <2>1. Against \subseteq Against'
        BY <1>5 DEF Against
    <2>2. Cardinality(Against) <= Cardinality(Against')
        BY <1>1, <2>1, FS_Subset
    <2> QED
        BY <1>1, <1>5, <2>2, ConstantsAssumption DEF GaveUpRightly
<1>6. CASE PostsComment \/ PostFails
    BY <1>5, <1>6 DEF PostsComment, PostFails, Posted, history
<1>7. CASE Quiet /\ ~PersonRequeues
    <2>1. removedAt' = removedAt
        BY <1>7 DEF Next, vars, Tick, IntakeMarksReady, PersonHandsBack, Builds, BuildRecordsNothing,
            BuildFails, PushRefused, ReadsComments, CountsAttempts, ReadFails, PostsComment,
            PostFails, EditsLabels, EditFails, Labelled, RunEnds, Killed, issue
    <2> QED
        BY <1>5, <1>7, <2>1 DEF Quiet
<1> QED
    BY <1>2, <1>3, <1>4, <1>6, <1>7, QuietSteps

------------------------------------------------------------------------------
(* The invariant.                                                             *)

HandBackInv ==
    /\ TypeOK
    /\ Finite
    /\ Records
    /\ ReadyWasJudged
    /\ Numbers

LEMMA Starts == Init => HandBackInv
<1> SUFFICES ASSUME Init PROVE HandBackInv
    OBVIOUS
<1>1. TypeOK /\ Finite /\ Records /\ ReadyWasJudged
    BY RecordsStart
<1>2. comments = {} /\ failed = {} /\ faults = 0 /\ pc = "between"
    BY DEF Init
<1>3. Cardinality(Counted) = 0 /\ Cardinality(Unpaid) = 0
    <2>1. Counted = {} /\ Unpaid = {}
        BY <1>2 DEF Counted, Unpaid, Fresh
    <2> QED
        BY <2>1, FS_EmptySet
<1>4. Numbers
    BY <1>2, <1>3, ConstantsAssumption DEF Numbers, RoomLeft, FaultsPay, GaveUpRightly
<1> QED
    BY <1>1, <1>4 DEF HandBackInv

LEMMA Steps == HandBackInv /\ [Next]_vars => HandBackInv'
<1> SUFFICES ASSUME HandBackInv, [Next]_vars PROVE HandBackInv'
    OBVIOUS
<1>1. TypeOK' /\ Finite'
    BY TypesStep DEF HandBackInv, Finite
<1>2. Records' /\ ReadyWasJudged'
    BY RecordsStep, ReadyStep DEF HandBackInv
<1>3. RoomLeft' /\ FaultsPay' /\ GaveUpRightly'
    BY <1>1, RoomStep, FaultsStep, GaveUpStep DEF HandBackInv, Numbers
<1> QED
    BY <1>1, <1>2, <1>3 DEF HandBackInv, Numbers

\* The state is well formed, its records agree with what happened, and the
\* numbers they add up to leave room: the inductive invariant.
THEOREM Invariant == Spec => []HandBackInv
<1> QED
    BY Starts, Steps, PTL DEF Spec

\* For any cap, any number of builds, failed calls and kills: only failed
\* builds count, each once, and none goes uncounted but at the price of a
\* failed call or a kill, so that an issue that keeps failing leaves the queue.
THEOREM CountIsRight == Spec => []CountInv
<1>1. HandBackInv => CountInv
    <2> SUFFICES ASSUME HandBackInv PROVE CountInv
        OBVIOUS
    <2>1. CapHonoured
        <3> SUFFICES ASSUME pc = "between", ready, ~needsHuman
                     PROVE  Cardinality(Fresh) < Cap + faults
            BY DEF CapHonoured, Fresh
        <3>1. ~Excused
            BY DEF Excused, Recording
        <3>2. Cardinality(Fresh) <= Cardinality(Counted) + Cardinality(Unpaid)
            BY <3>1, FreshAreCounted DEF HandBackInv, Finite
        <3>3. /\ Cardinality(Fresh) \in Nat /\ Cardinality(Counted) \in Nat
              /\ Cardinality(Unpaid) \in Nat /\ faults \in Nat /\ Cap \in Nat
            BY Sizes, ConstantsAssumption DEF HandBackInv, Finite, TypeOK
        <3>4. Cardinality(Counted) < Cap /\ Cardinality(Unpaid) <= faults
            BY DEF HandBackInv, Numbers, RoomLeft, FaultsPay
        <3> QED
            BY ONLY <3>2, <3>3, <3>4
    <2> QED
        BY <2>1 DEF CountInv, HandBackInv, Records
<1> QED
    BY <1>1, Invariant, PTL

\* An issue is given up on for Cap failed builds since it was last queued
\* again, and not before.
THEOREM CapIsReached == Spec => GivesUpAtCap
<1> DEFINE Allowed == EditsLabels /\ reason = "gaveUp" =>
                          \/ Cardinality(Against) >= Cap
                          \/ \E f \in failed : f.build = build /\ f.at <= removedAt
<1>1. HandBackInv /\ [Next]_vars => [Allowed]_vars
    BY DEF HandBackInv, Numbers, GaveUpRightly, EditsLabels
<1> QED
    BY <1>1, Invariant, PTL DEF Spec, GivesUpAtCap

\* What the host does to the labels is explained by a comment posted before.
THEOREM HandBacksAreExplained == Spec => NeverSilent
<1> DEFINE Explained ==
        (needsHuman' # needsHuman \/ queue' # queue) /\ ~PersonHandsBack /\ ~PersonRequeues =>
            \E c \in comments : c.build = build /\ c.kind = reason
<1>1. HandBackInv /\ [Next]_vars => [Explained]_vars
    <2> SUFFICES ASSUME HandBackInv, [Next]_vars, needsHuman' # needsHuman \/ queue' # queue,
                        ~PersonHandsBack, ~PersonRequeues
                 PROVE  \E c \in comments : c.build = build /\ c.kind = reason
        OBVIOUS
    <2>1. EditsLabels \/ EditFails
        BY DEF Next, vars, Tick, IntakeMarksReady, Builds, BuildRecordsNothing, BuildFails,
            PushRefused, ReadsComments, CountsAttempts, ReadFails, PostsComment, PostFails,
            RunEnds, Killed, issue
    <2>2. pc = "labelling"
        BY <2>1 DEF EditsLabels, EditFails
    <2> QED
        BY <2>2 DEF HandBackInv, Records, EditIsExplained
<1> QED
    BY <1>1, Invariant, PTL DEF Spec, NeverSilent

\* Nothing is built on a judgement from before the host last handed it back.
THEOREM BuildsAreJudged == Spec => RequeueRunsIntake
<1> DEFINE JudgedFirst == Builds => judged
<1>1. HandBackInv /\ [Next]_vars => [JudgedFirst]_vars
    BY DEF HandBackInv, ReadyWasJudged, Builds
<1> QED
    BY <1>1, Invariant, PTL DEF Spec, RequeueRunsIntake
=============================================================================
