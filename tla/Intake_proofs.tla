---------------------------- MODULE Intake_proofs ----------------------------
(* That a split is whole before anybody builds on it (Intake): the children   *)
(* come one after the other, for any number of runs and drafts and whatever   *)
(* fails; no split is lost, or made twice unless two runs read the issue      *)
(* before either marked it; and no umbrella is closed over a child that is    *)
(* not done unless a person reopened one meanwhile. Then that a round judges  *)
(* every issue once, and ends early for cause only (IntakeRound).             *)
EXTENDS Intake, IntakeRound, FiniteSetTheorems, SequenceTheorems, TLAPS

USE ConstantsAssumption

\* The kids a split may have created, whatever became of them.
KidRecords ==
    [draft : 1..Drafts, marked : BOOLEAN, sub : BOOLEAN, after : Nat,
     state : {"open", "completed", "dropped"}]

Types ==
    /\ labels \subseteq {"queue"} \union Judged /\ open \in BOOLEAN /\ umbrella \in BOOLEAN
    /\ kids \in Seq(KidRecords) /\ \A k \in Kids : kids[k].after < k
    /\ pc \in [Runs -> Places] /\ mine \in [Runs -> Seq(Nat)]
    /\ faults \in 0..MaxFaults /\ kills \in 0..MaxKills /\ people \in 0..MaxPeople

\* A child that has one before it waits for one.
Linked(k) == kids[k].draft > 1 => kids[k].after # 0

FirstDraft == 1 \in Kids => kids[1].draft = 1

Splitting == {"create", "sub", "link", "dequeue", "comment", "release", "failed"}

\* What the children a run has created are like where the run is.
Fits(seq, place) ==
    /\ Len(seq) <= Drafts
    /\ \A i \in 1..Len(seq) : seq[i] \in Kids
    /\ \A i, j \in 1..Len(seq) : i < j => seq[i] < seq[j]
    /\ place \notin Splitting => seq = <<>>
    /\ place = "create" => Len(seq) < Drafts
    /\ place = "sub" => Len(seq) > 0
    /\ place = "link" => Len(seq) > 1
    /\ place = "dequeue" => Len(seq) = Drafts
    /\ place \in {"create", "sub", "link", "dequeue"} => \A i \in 1..Len(seq) : kids[seq[i]].draft = i
    /\ place \in {"create", "dequeue", "comment", "release"} => \A i \in 1..Len(seq) : Linked(seq[i])
    /\ place \in {"sub", "link"} => \A i \in 1..(Len(seq) - 1) : Linked(seq[i])

\* What the issue says once a run's split is whole.
Told(place) ==
    /\ place = "release" => umbrella
    /\ place \in {"comment", "release"} /\ people = 0 => "queue" \notin labels

\* The inductive invariant, for any number of runs.
TurnInv ==
    /\ Types /\ ChildrenInTurn /\ FirstDraft
    /\ \A r \in Runs : Fits(mine[r], pc[r]) /\ Told(pc[r])

------------------------------------------------------------------------------
(* What every step keeps.                                                     *)

KidsKept ==
    \A k \in Kids : k \in Kids' /\ kids'[k].draft = kids[k].draft /\ (Linked(k) => Linked(k)')

RestKept ==
    /\ umbrella => umbrella'
    /\ people' = 0 => people = 0 /\ ("queue" \in labels' => "queue" \in labels)

\* A child is let through by what let it through before, or in its turn.
InTurnKept ==
    \A k \in Kids' : ~kids'[k].marked =>
        \/ k \in Kids /\ ~kids[k].marked /\ (Live(k)' => Live(k))
        \/ Linked(k)' /\ (people' = 0 => umbrella /\ "queue" \notin labels)

\* What an edit of a child leaves alone.
LEMMA SubEdited ==
    ASSUME NEW kid \in KidRecords
    PROVE  \E edit \in KidRecords :
                /\ edit = [kid EXCEPT !.sub = TRUE] /\ edit.draft = kid.draft /\ edit.after = kid.after
                /\ edit.marked = kid.marked /\ edit.state = kid.state
<1>1. [kid EXCEPT !.sub = TRUE] \in KidRecords
    BY DEF KidRecords
<1>2. kid = [draft |-> kid.draft, marked |-> kid.marked, sub |-> kid.sub, after |-> kid.after, state |-> kid.state]
    BY DEF KidRecords
<1> QED
    BY <1>1, <1>2, Zenon

LEMMA MarkEdited ==
    ASSUME NEW kid \in KidRecords
    PROVE  \E edit \in KidRecords :
                /\ edit = [kid EXCEPT !.marked = FALSE] /\ edit.draft = kid.draft /\ edit.after = kid.after
                /\ edit.sub = kid.sub /\ edit.state = kid.state
<1>1. [kid EXCEPT !.marked = FALSE] \in KidRecords
    BY DEF KidRecords
<1>2. kid = [draft |-> kid.draft, marked |-> kid.marked, sub |-> kid.sub, after |-> kid.after, state |-> kid.state]
    BY DEF KidRecords
<1> QED
    BY <1>1, <1>2, Zenon

LEMMA AfterEdited ==
    ASSUME NEW kid \in KidRecords, NEW n \in Nat
    PROVE  \E edit \in KidRecords :
                /\ edit = [kid EXCEPT !.after = n] /\ edit.draft = kid.draft /\ edit.after = n
                /\ edit.marked = kid.marked /\ edit.sub = kid.sub /\ edit.state = kid.state
<1>1. [kid EXCEPT !.after = n] \in KidRecords
    BY DEF KidRecords
<1>2. kid = [draft |-> kid.draft, marked |-> kid.marked, sub |-> kid.sub, after |-> kid.after, state |-> kid.state]
    BY DEF KidRecords
<1> QED
    BY <1>1, <1>2, Zenon

LEMMA StateEdited ==
    ASSUME NEW kid \in KidRecords, NEW state \in {"open", "completed", "dropped"}
    PROVE  \E edit \in KidRecords :
                /\ edit = [kid EXCEPT !.state = state] /\ edit.draft = kid.draft /\ edit.after = kid.after
                /\ edit.marked = kid.marked /\ edit.sub = kid.sub /\ edit.state = state
<1>1. [kid EXCEPT !.state = state] \in KidRecords
    BY DEF KidRecords
<1>2. kid = [draft |-> kid.draft, marked |-> kid.marked, sub |-> kid.sub, after |-> kid.after, state |-> kid.state]
    BY DEF KidRecords
<1> QED
    BY <1>1, <1>2, Zenon

LEMMA KidsAre ==
    ASSUME Types
    PROVE  /\ Len(kids) \in Nat /\ Kids = 1..Len(kids)
           /\ \A k \in Kids : kids[k] \in KidRecords
BY LenProperties, ElementOfSeq DEF Types, Kids

LEMMA MineIs ==
    ASSUME Types, NEW r \in Runs
    PROVE  /\ mine[r] \in Seq(Nat) /\ Len(mine[r]) \in Nat /\ DOMAIN mine[r] = 1..Len(mine[r])
           /\ \A i \in 1..Len(mine[r]) : mine[r][i] \in Nat
<1>1. mine[r] \in Seq(Nat)
    BY DEF Types
<1> QED
    BY <1>1, LenProperties, ElementOfSeq

LEMMA StillFits ==
    ASSUME KidsKept, NEW seq \in Seq(Nat), NEW place, Fits(seq, place)
    PROVE  Fits(seq, place)'
<1>1. Len(seq) \in Nat
    BY LenProperties
<1>2. \A i \in 1..Len(seq) : /\ seq[i] \in Kids' /\ kids'[seq[i]].draft = kids[seq[i]].draft
                             /\ Linked(seq[i]) => Linked(seq[i])'
    BY DEF Fits, KidsKept
<1>3. \A i \in 1..(Len(seq) - 1) : i \in 1..Len(seq)
    BY <1>1
<1> QED
    BY <1>1, <1>2, <1>3 DEF Fits

LEMMA FitsThere ==
    ASSUME NEW r \in Runs, NEW seq, NEW place, mine'[r] = seq, pc'[r] = place, Fits(seq, place)'
    PROVE  Fits(mine[r], pc[r])'
BY DEF Fits, Linked, Kids

LEMMA StillTold ==
    ASSUME RestKept, NEW q \in Runs, Told(pc[q]), pc'[q] = pc[q]
    PROVE  Told(pc[q])'
BY DEF Told, RestKept

LEMMA TurnKept ==
    ASSUME TurnInv, KidsKept, RestKept, InTurnKept, Types', FirstDraft',
           \A q \in Runs : \/ mine'[q] = mine[q] /\ pc'[q] = pc[q]
                           \/ (Fits(mine[q], pc[q]) /\ Told(pc[q]))'
    PROVE  TurnInv'
<1>1. \A q \in Runs : (Fits(mine[q], pc[q]) /\ Told(pc[q]))'
    <2> SUFFICES ASSUME NEW q \in Runs, mine'[q] = mine[q], pc'[q] = pc[q]
                 PROVE  (Fits(mine[q], pc[q]) /\ Told(pc[q]))'
        OBVIOUS
    <2>1. PICK seq, place : seq = mine[q] /\ place = pc[q]
        OBVIOUS
    <2>2. seq \in Seq(Nat) /\ Fits(seq, place)
        BY <2>1, MineIs DEF TurnInv
    <2>3. Fits(seq, place)'
        BY <2>2, StillFits
    <2>4. Fits(mine[q], pc[q])'
        BY <2>1, <2>3, FitsThere
    <2> QED
        BY <2>4, StillTold DEF TurnInv
<1>2. NoChildBuiltEarly'
    <2> SUFFICES ASSUME people' = 0, NEW k \in Kids', ~kids'[k].marked
                 PROVE  umbrella' /\ "queue" \notin labels'
        BY DEF NoChildBuiltEarly
    <2>1. umbrella /\ "queue" \notin labels
        BY DEF InTurnKept, RestKept, TurnInv, ChildrenInTurn, NoChildBuiltEarly
    <2> QED
        BY <2>1 DEF RestKept
<1>3. BuildOrder'
    <2> SUFFICES ASSUME NEW k \in Kids', ~kids'[k].marked, Live(k)' PROVE Linked(k)'
        BY DEF BuildOrder, Linked
    <2>1. CASE k \in Kids /\ ~kids[k].marked /\ Live(k)
        <3>1. Linked(k)
            BY <2>1 DEF TurnInv, ChildrenInTurn, BuildOrder, Linked
        <3> QED
            BY <2>1, <3>1 DEF KidsKept
    <2> QED
        BY <2>1 DEF InTurnKept
<1> QED
    BY <1>1, <1>2, <1>3 DEF TurnInv, ChildrenInTurn

\* A step that leaves the children alone.
LEMMA QuietKeeps ==
    ASSUME TurnInv, NEW r \in Runs, NEW place \in Places, Goes(r, place), RestKept, Types',
           kids' = kids, mine' = mine,
           Fits(mine[r], place), Told(place)'
    PROVE  TurnInv'
<1>1. KidsKept /\ InTurnKept /\ FirstDraft'
    BY DEF KidsKept, InTurnKept, Kids, Linked, Live, TurnInv, FirstDraft
<1>2. pc' = [pc EXCEPT ![r] = place] /\ pc \in [Runs -> Places]
    BY DEF Goes, TurnInv, Types
<1>3. \A q \in Runs : pc'[q] = IF q = r THEN place ELSE pc[q]
    BY <1>2
<1>4. (Fits(mine[r], pc[r]) /\ Told(pc[r]))'
    <2>1. Fits(mine[r], pc[r])'
        BY <1>3 DEF Fits, Kids, Linked
    <2> QED
        BY <2>1, <1>3 DEF Told
<1> QED
    BY <1>1, <1>3, <1>4, TurnKept

LEMMA GoesTyped ==
    ASSUME Types, NEW r \in Runs, NEW place \in Places, Goes(r, place)
    PROVE  /\ pc' \in [Runs -> Places] /\ pc'[r] = place
           /\ \A q \in Runs : q # r => pc'[q] = pc[q]
BY DEF Types, Goes

\* A call that answers has worked; one that fails may have.
LEMMA CallsTyped ==
    ASSUME Types, NEW r \in Runs, NEW worked \in BOOLEAN,
           NEW onAnswer \in Places, NEW failed \in Places, Calls(r, worked, onAnswer, failed)
    PROVE  /\ faults' \in 0..MaxFaults
           /\ (worked /\ Goes(r, onAnswer)) \/ Goes(r, failed)
BY DEF Calls, Types

LEMMA LabelsTyped ==
    ASSUME Types, NEW worked \in BOOLEAN, NEW changed, changed \subseteq {"queue"} \union Judged,
           Labels(worked, changed)
    PROVE  /\ labels' \subseteq {"queue"} \union Judged /\ open' \in BOOLEAN /\ umbrella' \in BOOLEAN
           /\ umbrella' = umbrella
           /\ "queue" \notin labels /\ "queue" \notin changed => "queue" \notin labels'
BY DEF Labels, Types

\* Steps that read, and calls that change only labels, the umbrella comment or
\* whether the issue is open.
Reads(r) == Lists(r) \/ Verdict(r) \/ FindsUmbrella(r) \/ ReadsChildren(r)
Writes(r) ==
    \/ MarksReady(r) \/ Asks(r) \/ AsksLabel(r) \/ Marks(r) \/ TakesMarkBack(r)
    \/ Dequeues(r) \/ Comments(r) \/ ReleasesIssue(r) \/ ClosesUmbrella(r)

LEMMA ReadsKeep == ASSUME TurnInv, NEW r \in Runs, Reads(r) PROVE TurnInv'
<1>1. /\ UNCHANGED <<issue, kids, mine, faults, kills, people>>
      /\ pc[r] \notin Splitting
      /\ \E place \in {"sent", "idle", "ready", "asks", "marks", "children", "close"} : Goes(r, place)
    BY DEF Reads, Lists, Verdict, FindsUmbrella, ReadsChildren, Splitting
<1>2. PICK place \in {"sent", "idle", "ready", "asks", "marks", "children", "close"} : Goes(r, place)
    BY <1>1
<1>3. place \in Places /\ place \notin Splitting /\ place # "release"
    BY <1>2 DEF Places, Splitting
<1>4. Types'
    BY <1>1, <1>2, <1>3, GoesTyped DEF issue, Types, TurnInv, Kids
<1>5. RestKept
    BY <1>1 DEF RestKept, issue
<1>6. Fits(mine[r], place)
    BY <1>1, <1>3 DEF TurnInv, Fits, Splitting
<1>7. Told(place)'
    BY <1>3 DEF Told, Splitting
<1> QED
    BY <1>1, <1>2, <1>3, <1>4, <1>5, <1>6, <1>7, QuietKeeps

\* An empty list fits before and after a split, and where one begins.
LEMMA NothingFits ==
    ASSUME NEW place \in Places \ {"sub", "link", "dequeue"}
    PROVE  Fits(<<>>, place)
<1>1. Len(<<>>) = 0 /\ 1..0 = {}
    OBVIOUS
<1> QED
    BY <1>1 DEF Fits

\* A step of a run that is making no split.
LEMMA EmptyHandedKeeps ==
    ASSUME TurnInv, NEW r \in Runs, mine[r] = <<>>,
           NEW place \in Places \ {"sub", "link", "dequeue", "comment", "release"}, Goes(r, place),
           UNCHANGED <<kids, mine, kills, people>>,
           labels' \subseteq {"queue"} \union Judged, open' \in BOOLEAN, umbrella' \in BOOLEAN,
           faults' \in 0..MaxFaults, umbrella => umbrella', "queue" \notin labels => "queue" \notin labels'
    PROVE  TurnInv'
<1>1. Types'
    BY GoesTyped DEF TurnInv, Types, Kids
<1>2. Fits(mine[r], place) /\ Told(place)'
    BY NothingFits DEF Told
<1>3. RestKept
    BY DEF RestKept
<1> QED
    BY <1>1, <1>2, <1>3, QuietKeeps

LEMMA LabelCallKeeps ==
    ASSUME TurnInv, NEW r \in Runs, mine[r] = <<>>, NEW worked \in BOOLEAN,
           NEW onAnswer \in {"idle", "create"}, NEW failed \in {"idle", "unmark"},
           NEW change \in {labels \union {"ready"}, labels \union {"needs-info"},
                           labels \union {"needs-human"}, labels \ {"needs-human"}},
           Calls(r, worked, onAnswer, failed), Labels(worked, change),
           UNCHANGED <<kids, mine, kills, people>>
    PROVE  TurnInv'
<1>1. change \subseteq {"queue"} \union Judged /\ ("queue" \notin labels => "queue" \notin change)
    BY DEF TurnInv, Types, Judged
<1>2. /\ labels' \subseteq {"queue"} \union Judged /\ open' \in BOOLEAN /\ umbrella' \in BOOLEAN
      /\ umbrella' = umbrella /\ ("queue" \notin labels => "queue" \notin labels')
    BY <1>1, LabelsTyped DEF TurnInv
<1>3. onAnswer \in Places /\ failed \in Places
    BY DEF Places
<1>4. faults' \in 0..MaxFaults /\ (Goes(r, onAnswer) \/ Goes(r, failed))
    BY <1>3, CallsTyped DEF TurnInv
<1> QED
    BY <1>2, <1>3, <1>4, EmptyHandedKeeps

LEMMA WritesKeep == ASSUME TurnInv, NEW r \in Runs, Writes(r) PROVE TurnInv'
<1>1. Types /\ Fits(mine[r], pc[r]) /\ Told(pc[r])
    BY DEF TurnInv
<1>2. pc[r] \notin Splitting => mine[r] = <<>>
    BY <1>1 DEF Fits
<1>3. CASE MarksReady(r) \/ AsksLabel(r) \/ Marks(r) \/ TakesMarkBack(r) \/ ReleasesIssue(r)
    <2>1. mine[r] = <<>> /\ UNCHANGED <<kids, mine, kills, people>>
        BY <1>2, <1>3 DEF MarksReady, AsksLabel, Marks, TakesMarkBack, ReleasesIssue, Splitting
    <2>2. \E worked \in BOOLEAN, onAnswer \in {"idle", "create"}, failed \in {"idle", "unmark"},
             change \in {labels \union {"ready"}, labels \union {"needs-info"},
                         labels \union {"needs-human"}, labels \ {"needs-human"}} :
                Calls(r, worked, onAnswer, failed) /\ Labels(worked, change)
        BY <1>3, Zenon DEF MarksReady, AsksLabel, Marks, TakesMarkBack, ReleasesIssue
    <2> QED
        BY <2>1, <2>2, LabelCallKeeps
<1>4. CASE Asks(r)
    <2>1. faults' \in 0..MaxFaults /\ (Goes(r, "needs-info") \/ Goes(r, "idle"))
        BY <1>1, <1>4, CallsTyped DEF Asks, Places
    <2> QED
        BY <1>1, <1>2, <1>4, <2>1, EmptyHandedKeeps DEF Asks, issue, Splitting, Places, Types
<1>5. CASE ClosesUmbrella(r)
    <2>1. PICK worked \in BOOLEAN : Calls(r, worked, "idle", "idle") /\ open' = (open /\ ~worked)
        BY <1>5 DEF ClosesUmbrella
    <2>2. faults' \in 0..MaxFaults /\ Goes(r, "idle") /\ "idle" \in Places
        BY <1>1, <2>1, CallsTyped DEF Places
    <2>3. open \in BOOLEAN
        BY <1>1 DEF Types
    <2>4. open' \in BOOLEAN
        BY <2>1, <2>3, Zenon
    <2>5. mine[r] = <<>> /\ UNCHANGED <<labels, umbrella, kids, mine, kills, people>>
        BY <1>2, <1>5 DEF ClosesUmbrella, Splitting
    <2> QED
        BY <1>1, <2>2, <2>4, <2>5, EmptyHandedKeeps DEF Types
<1>6. ASSUME NEW place \in {"comment", "release", "failed"}, Goes(r, place),
             UNCHANGED <<kids, mine, kills, people>>,
             labels' \subseteq {"queue"} \union Judged, open' \in BOOLEAN, umbrella' \in BOOLEAN,
             faults' \in 0..MaxFaults, umbrella => umbrella', "queue" \notin labels => "queue" \notin labels',
             Fits(mine[r], place), Told(place)'
      PROVE  TurnInv'
    <2>1. place \in Places
        BY DEF Places
    <2>2. Types'
        BY <1>1, <1>6, <2>1, GoesTyped DEF Types, Kids
    <2>3. RestKept
        BY <1>6 DEF RestKept
    <2> QED
        BY <1>6, <2>1, <2>2, <2>3, QuietKeeps
<1>7. CASE Dequeues(r)
    <2>1. PICK worked \in BOOLEAN : Calls(r, worked, "comment", "failed") /\ Labels(worked, labels \ {"queue"})
        BY <1>7 DEF Dequeues
    <2>2. labels \ {"queue"} \subseteq {"queue"} \union Judged
        BY <1>1 DEF Types
    <2>3. /\ labels' \subseteq {"queue"} \union Judged /\ open' \in BOOLEAN /\ umbrella' \in BOOLEAN
          /\ umbrella' = umbrella /\ ("queue" \notin labels => "queue" \notin labels')
          /\ worked => "queue" \notin labels'
        BY <1>1, <2>1, <2>2, LabelsTyped DEF Labels
    <2>4. faults' \in 0..MaxFaults /\ ((worked /\ Goes(r, "comment")) \/ Goes(r, "failed"))
        BY <1>1, <2>1, CallsTyped DEF Places
    <2>5. Fits(mine[r], "comment") /\ Fits(mine[r], "failed")
        BY <1>1, <1>7 DEF Dequeues, Fits, Splitting
    <2>6. Told("failed")' /\ (worked => Told("comment")')
        BY <2>3 DEF Told
    <2> QED
        BY <1>6, <1>7, <2>3, <2>4, <2>5, <2>6 DEF Dequeues
<1>8. CASE Comments(r)
    <2>1. PICK worked \in BOOLEAN : Calls(r, worked, "release", "failed") /\ umbrella' = (umbrella \/ worked)
        BY <1>8 DEF Comments
    <2>2. faults' \in 0..MaxFaults /\ ((worked /\ Goes(r, "release")) \/ Goes(r, "failed"))
        BY <1>1, <2>1, CallsTyped DEF Places
    <2>3. Fits(mine[r], "release") /\ Fits(mine[r], "failed")
        BY <1>1, <1>8 DEF Comments, Fits, Splitting
    <2>4. UNCHANGED <<labels, open, kids, mine, kills, people>>
        BY <1>8 DEF Comments
    <2>5. Told("failed")' /\ (worked => Told("release")')
        BY <1>1, <1>8, <2>1, <2>4 DEF Told, Comments
    <2>6. umbrella \in BOOLEAN /\ labels' \subseteq {"queue"} \union Judged /\ open' \in BOOLEAN
        BY <1>1, <2>4 DEF Types
    <2>7. umbrella' \in BOOLEAN /\ (umbrella => umbrella')
        BY <2>1, <2>6, Zenon
    <2> QED
        BY <1>6, <2>2, <2>3, <2>4, <2>5, <2>6, <2>7
<1> QED
    BY <1>3, <1>4, <1>5, <1>7, <1>8 DEF Writes

------------------------------------------------------------------------------
(* Steps that change the children.                                            *)

LEMMA FunctionIsSeq ==
    ASSUME NEW S, NEW n \in Nat, NEW f \in [1..n -> S]
    PROVE  f \in Seq(S) /\ Len(f) = n /\ DOMAIN f = 1..n
<1>1. f \in Seq(S)
    BY SeqDef
<1>2. Len(f) \in Nat /\ DOMAIN f = 1..Len(f) /\ DOMAIN f = 1..n
    BY <1>1, LenProperties
<1>3. Len(f) = n
    BY <1>2
<1> QED
    BY <1>1, <1>2, <1>3

\* One child is changed, in one field of its record.
LEMMA ChangesOne ==
    ASSUME Types, NEW k \in Kids, NEW kid \in KidRecords, kid.after < k,
           kids' = [kids EXCEPT ![k] = kid]
    PROVE  /\ kids' \in Seq(KidRecords) /\ Kids' = Kids /\ Len(kids') = Len(kids)
           /\ \A j \in Kids : kids'[j] = IF j = k THEN kid ELSE kids[j]
           /\ \A j \in Kids' : kids'[j].after < j
<1>1. kids \in Seq(KidRecords) /\ k \in 1..Len(kids) /\ Kids = 1..Len(kids)
    BY KidsAre DEF Types
<1>2. /\ kids' \in Seq(KidRecords) /\ Len(kids') = Len(kids)
      /\ \A j \in 1..Len(kids) : kids'[j] = IF j = k THEN kid ELSE kids[j]
    BY <1>1, ExceptSeq
<1>3. Kids' = 1..Len(kids')
    BY <1>2, LenProperties DEF Kids
<1> QED
    BY <1>1, <1>2, <1>3 DEF Types

LEMMA ChangesNone ==
    ASSUME Types, kids' = kids
    PROVE  /\ kids' \in Seq(KidRecords) /\ Kids' = Kids /\ Len(kids') = Len(kids)
           /\ \A j \in Kids' : kids'[j].after < j
BY DEF Types, Kids

LEMMA CreatesOne ==
    ASSUME Types, NEW draft \in 1..Drafts, kids' = Append(kids, Kid(draft))
    PROVE  /\ kids' \in Seq(KidRecords) /\ Len(kids') = Len(kids) + 1 /\ Kids' = 1..(Len(kids) + 1)
           /\ Kids \subseteq Kids' /\ \A j \in Kids : kids'[j] = kids[j]
           /\ kids'[Len(kids) + 1] = Kid(draft)
           /\ \A j \in Kids' : kids'[j].after < j
<1>1. Kid(draft) \in KidRecords
    BY DEF Kid, KidRecords
<1>2. kids \in Seq(KidRecords) /\ Kids = 1..Len(kids) /\ Len(kids) \in Nat
    BY KidsAre DEF Types
<1>3. /\ kids' \in Seq(KidRecords) /\ Len(kids') = Len(kids) + 1
      /\ \A j \in 1..Len(kids) : kids'[j] = kids[j]
      /\ kids'[Len(kids) + 1] = Kid(draft)
    BY <1>1, <1>2, AppendProperties
<1>4. Kids' = 1..Len(kids')
    BY <1>3, LenProperties DEF Kids
<1>5. Kid(draft).after = 0
    BY DEF Kid
<1>6. \A j \in Kids : kids[j].after < j
    BY DEF Types
<1> QED
    BY <1>2, <1>3, <1>4, <1>5, <1>6

LEMMA TypesKept ==
    ASSUME Types, NEW r \in Runs, NEW place \in Places, NEW seq \in Seq(Nat),
           Goes(r, place), mine' = [mine EXCEPT ![r] = seq],
           kids' \in Seq(KidRecords), \A j \in Kids' : kids'[j].after < j,
           faults' \in 0..MaxFaults, UNCHANGED <<issue, kills, people>>
    PROVE  Types'
<1>1. pc' \in [Runs -> Places]
    BY GoesTyped
<1> QED
    BY <1>1 DEF Types, issue

LEMMA MineThere ==
    ASSUME Types, NEW r \in Runs, NEW seq, mine' = [mine EXCEPT ![r] = seq]
    PROVE  mine'[r] = seq /\ \A q \in Runs : q # r => mine'[q] = mine[q]
BY DEF Types

\* A step of a split that leaves the issue alone.
LEMMA SplitKeeps ==
    ASSUME TurnInv, NEW r \in Runs, NEW place \in Places, NEW seq \in Seq(Nat),
           Goes(r, place), mine' = [mine EXCEPT ![r] = seq],
           kids' \in Seq(KidRecords), \A j \in Kids' : kids'[j].after < j,
           faults' \in 0..MaxFaults, UNCHANGED <<issue, kills, people>>,
           KidsKept, InTurnKept, FirstDraft',
           Fits(seq, place)', Told(place)
    PROVE  TurnInv'
<1>1. Types'
    BY TypesKept DEF TurnInv
<1>2. pc'[r] = place /\ (\A q \in Runs : q # r => pc'[q] = pc[q] /\ mine'[q] = mine[q]) /\ mine'[r] = seq
    BY GoesTyped, MineThere DEF TurnInv
<1>3. RestKept
    BY DEF RestKept, issue
<1>4. Fits(mine[r], pc[r])'
    BY <1>2, FitsThere
<1>5. Told(pc[r])'
    BY <1>2 DEF Told, issue
<1> QED
    BY <1>1, <1>2, <1>3, <1>4, <1>5, TurnKept

LEMMA NextDraftIs ==
    ASSUME Types, NEW r \in Runs, Len(mine[r]) <= Drafts
    PROVE  /\ NextDraft(r) \in {"create", "dequeue"}
           /\ NextDraft(r) = "create" => Len(mine[r]) < Drafts
           /\ NextDraft(r) = "dequeue" => Len(mine[r]) = Drafts
BY MineIs DEF NextDraft

\* The child that is not left behind by the others: the last one.
LEMMA LastIs ==
    ASSUME TurnInv, NEW r \in Runs, Len(mine[r]) > 0
    PROVE  /\ Last(mine[r]) = mine[r][Len(mine[r])] /\ Len(mine[r]) \in 1..Len(mine[r])
           /\ Last(mine[r]) \in Kids /\ kids[Last(mine[r])] \in KidRecords
BY MineIs, KidsAre DEF Last, TurnInv, Fits

LEMMA CreatesKeep == ASSUME TurnInv, NEW r \in Runs, Creates(r) PROVE TurnInv'
<1>1. Types /\ FirstDraft /\ Fits(mine[r], "create") /\ pc[r] = "create"
    BY DEF TurnInv, Creates
<1>2. PICK seq : seq = mine[r]
    OBVIOUS
<1>3. seq \in Seq(Nat) /\ Len(seq) \in Nat /\ \A i \in 1..Len(seq) : seq[i] \in Nat
    BY <1>1, <1>2, MineIs
<1>4. PICK worked \in BOOLEAN :
        /\ Calls(r, worked, "sub", "failed")
        /\ Unless(worked, Append(kids, Kid(Len(seq) + 1)))
    BY <1>2 DEF Creates
<1>5. faults' \in 0..MaxFaults /\ ((worked /\ Goes(r, "sub")) \/ Goes(r, "failed"))
    BY <1>1, <1>4, CallsTyped DEF Places
<1>6. PICK draft \in 1..Drafts : draft = Len(seq) + 1
    BY <1>1, <1>2, <1>3 DEF Fits
<1>7. kids' = kids \/ kids' = Append(kids, Kid(draft))
    BY <1>4, <1>6 DEF Unless
<1>8. /\ kids' \in Seq(KidRecords) /\ \A j \in Kids' : kids'[j].after < j
      /\ KidsKept /\ InTurnKept /\ FirstDraft'
    <2>1. CASE kids' = kids
        BY <1>1, <2>1, ChangesNone DEF KidsKept, InTurnKept, Linked, Live, FirstDraft
    <2>2. CASE kids' = Append(kids, Kid(draft))
        <3>1. /\ kids' \in Seq(KidRecords) /\ Kids' = 1..(Len(kids) + 1)
              /\ Kids \subseteq Kids' /\ \A j \in Kids : kids'[j] = kids[j]
              /\ kids'[Len(kids) + 1] = Kid(draft) /\ \A j \in Kids' : kids'[j].after < j
            BY <1>1, <2>2, CreatesOne
        <3>2. Kids = 1..Len(kids) /\ Len(kids) \in Nat
            BY <1>1, KidsAre
        <3>3. \A j \in Kids' : j \in Kids \/ j = Len(kids) + 1
            BY <3>1, <3>2
        <3>4. KidsKept
            BY <3>1 DEF KidsKept, Linked
        <3>5. InTurnKept
            BY <3>1, <3>3 DEF InTurnKept, Live, Kid
        <3>6. FirstDraft'
            <4>1. CASE 1 \in Kids
                BY <1>1, <3>1, <4>1 DEF FirstDraft
            <4>2. CASE 1 \notin Kids
                <5>1. Len(kids) = 0 /\ Kids = {}
                    BY <3>2, <4>2
                <5>2. Len(seq) = 0
                    BY <1>1, <1>2, <1>3, <5>1 DEF Fits
                <5> QED
                    BY <1>6, <3>1, <5>1, <5>2 DEF FirstDraft, Kid
            <4> QED
                BY <4>1, <4>2
        <3> QED
            BY <3>1, <3>4, <3>5, <3>6
    <2> QED
        BY <1>7, <2>1, <2>2
<1>9. /\ UNCHANGED <<issue, kills, people>>
      /\ mine' = [mine EXCEPT ![r] = IF pc'[r] = "sub" THEN Append(@, Len(kids')) ELSE @]
    BY DEF Creates
<1>10. CASE worked /\ Goes(r, "sub")
    <2>0. PICK more : more = Append(seq, Len(kids'))
        OBVIOUS
    <2>1. pc'[r] = "sub" /\ "sub" \in Places
        BY <1>1, <1>10, GoesTyped DEF Places
    <2>2. kids' = Append(kids, Kid(draft))
        BY <1>4, <1>6, <1>10 DEF Unless
    <2>3. /\ Len(kids') = Len(kids) + 1 /\ Kids' = 1..(Len(kids) + 1) /\ Len(kids) \in Nat
          /\ Kids = 1..Len(kids) /\ kids'[Len(kids')] = Kid(draft)
        BY <1>1, <2>2, CreatesOne, KidsAre
    <2>4. Len(kids') \in Nat
        BY <2>3
    <2>5. /\ more \in Seq(Nat) /\ Len(more) = Len(seq) + 1
          /\ \A i \in 1..Len(seq) : more[i] = seq[i]
          /\ more[Len(seq) + 1] = Len(kids')
        BY <1>3, <2>0, <2>4, AppendProperties
    <2>6. mine' = [mine EXCEPT ![r] = more]
        BY <1>2, <1>9, <2>0, <2>1
    <2>7. /\ Len(seq) < Drafts
          /\ \A i \in 1..Len(seq) : seq[i] \in Kids /\ kids[seq[i]].draft = i /\ Linked(seq[i])
          /\ \A i, j \in 1..Len(seq) : i < j => seq[i] < seq[j]
        BY <1>1, <1>2 DEF Fits
    <2>8. \A i \in 1..Len(more) : i \in 1..Len(seq) \/ i = Len(seq) + 1
        BY <1>3, <2>5
    <2>9. \A i \in 1..Len(more) : more[i] \in Kids' /\ kids'[more[i]].draft = i
        <3> SUFFICES ASSUME NEW i \in 1..Len(more) PROVE more[i] \in Kids' /\ kids'[more[i]].draft = i
            OBVIOUS
        <3>1. CASE i \in 1..Len(seq)
            BY <1>8, <2>5, <2>7, <3>1 DEF KidsKept
        <3>2. CASE i = Len(seq) + 1
            BY <1>6, <2>3, <2>5, <3>2 DEF Kid
        <3> QED
            BY <2>8, <3>1, <3>2
    <2>10. \A i, j \in 1..Len(more) : i < j => more[i] < more[j]
        <3> SUFFICES ASSUME NEW i \in 1..Len(more), NEW j \in 1..Len(more), i < j PROVE more[i] < more[j]
            OBVIOUS
        <3>1. i \in 1..Len(seq) /\ more[i] = seq[i] /\ seq[i] \in Kids
            BY <1>3, <2>5, <2>7
        <3>2. CASE j \in 1..Len(seq)
            BY <2>5, <2>7, <3>1, <3>2
        <3>3. CASE j = Len(seq) + 1
            BY <2>3, <2>5, <3>1, <3>3
        <3> QED
            BY <2>8, <3>2, <3>3
    <2>11. \A i \in 1..(Len(more) - 1) : Linked(more[i])'
        <3> SUFFICES ASSUME NEW i \in 1..(Len(more) - 1) PROVE Linked(more[i])'
            OBVIOUS
        <3>1. i \in 1..Len(seq)
            BY <1>3, <2>5
        <3>2. PICK k \in Kids : k = seq[i] /\ k = more[i]
            BY <2>5, <2>7, <3>1
        <3>3. Linked(k)
            BY <2>7, <3>1, <3>2
        <3>4. Linked(k)'
            BY <1>8, <3>3 DEF KidsKept
        <3> QED
            BY <3>2, <3>4
    <2>12. Fits(more, "sub")'
        BY <1>3, <2>5, <2>7, <2>9, <2>10, <2>11 DEF Fits, Splitting
    <2>13. Told("sub")
        BY DEF Told
    <2> QED
        BY <1>5, <1>8, <1>9, <1>10, <2>1, <2>5, <2>6, <2>12, <2>13, SplitKeeps
<1>11. CASE Goes(r, "failed")
    <2>1. pc'[r] = "failed" /\ "failed" \in Places
        BY <1>1, <1>11, GoesTyped DEF Places
    <2>2. mine' = [mine EXCEPT ![r] = seq]
        BY <1>2, <1>9, <2>1
    <2>3. Fits(seq, "failed")
        BY <1>1, <1>2 DEF Fits, Splitting
    <2>4. Fits(seq, "failed")'
        BY <1>3, <1>8, <2>3, StillFits
    <2>5. Told("failed")
        BY DEF Told
    <2> QED
        BY <1>3, <1>5, <1>8, <1>9, <1>11, <2>1, <2>2, <2>4, <2>5, SplitKeeps
<1> QED
    BY <1>5, <1>10, <1>11

LEMMA AddsSubIssueKeeps == ASSUME TurnInv, NEW r \in Runs, AddsSubIssue(r) PROVE TurnInv'
<1>1. Types /\ FirstDraft /\ Fits(mine[r], "sub") /\ pc[r] = "sub"
    BY DEF TurnInv, AddsSubIssue
<1>2. PICK seq : seq = mine[r]
    OBVIOUS
<1>3. seq \in Seq(Nat) /\ Len(seq) \in Nat /\ Len(seq) > 0
    BY <1>1, <1>2, MineIs DEF Fits
<1>3a. mine' = [mine EXCEPT ![r] = seq] /\ UNCHANGED <<issue, kills, people>>
    BY <1>1, <1>2 DEF AddsSubIssue, Types
<1>4. PICK k \in Kids : k = Last(mine[r]) /\ kids[k] \in KidRecords /\ k = seq[Len(seq)]
    BY <1>2, <1>3, LastIs
<1>5. PICK worked \in BOOLEAN :
        /\ Calls(r, worked, IF Len(seq) > 1 THEN "link" ELSE NextDraft(r), "failed")
        /\ Unless(worked, [kids EXCEPT ![k].sub = TRUE])
    BY <1>2, <1>4 DEF AddsSubIssue
<1>6. /\ NextDraft(r) \in {"create", "dequeue"}
      /\ NextDraft(r) = "create" => Len(seq) < Drafts
      /\ NextDraft(r) = "dequeue" => Len(seq) = Drafts
    BY <1>1, <1>2, NextDraftIs DEF Fits
<1>7. PICK onAnswer \in Places \ {"failed"} : onAnswer = IF Len(seq) > 1 THEN "link" ELSE NextDraft(r)
    BY <1>6 DEF Places
<1>8. faults' \in 0..MaxFaults /\ (Goes(r, onAnswer) \/ Goes(r, "failed"))
    BY <1>1, <1>5, <1>7, CallsTyped DEF Places
<1>8a. PICK place \in {onAnswer, "failed"} : Goes(r, place)
    BY <1>8
<1>9. kids' = kids \/ kids' = [kids EXCEPT ![k] = [kids[k] EXCEPT !.sub = TRUE]]
    BY <1>5 DEF Unless
<1>10. /\ kids' \in Seq(KidRecords) /\ \A j \in Kids' : kids'[j].after < j
       /\ KidsKept /\ InTurnKept /\ FirstDraft'
    <2>1. CASE kids' = kids
        BY <1>1, <2>1, ChangesNone DEF KidsKept, InTurnKept, Linked, Live, FirstDraft
    <2>2. CASE kids' = [kids EXCEPT ![k] = [kids[k] EXCEPT !.sub = TRUE]]
        <3>1. PICK kid \in KidRecords : /\ kid = [kids[k] EXCEPT !.sub = TRUE] /\ kid.draft = kids[k].draft
                                        /\ kid.after = kids[k].after /\ kid.marked = kids[k].marked
                                        /\ kid.state = kids[k].state
            BY <1>4, SubEdited, Zenon
        <3>2. kid.after < k
            BY <1>1, <3>1 DEF Types
        <3>3. /\ kids' \in Seq(KidRecords) /\ Kids' = Kids
              /\ \A j \in Kids : kids'[j] = IF j = k THEN kid ELSE kids[j]
              /\ \A j \in Kids' : kids'[j].after < j
            BY <1>1, <2>2, <3>1, <3>2, ChangesOne
        <3>4. \A j \in Kids : /\ kids'[j].draft = kids[j].draft /\ kids'[j].after = kids[j].after
                             /\ kids'[j].marked = kids[j].marked /\ kids'[j].state = kids[j].state
            BY <3>1, <3>3
        <3>5. KidsKept /\ InTurnKept
            BY <3>3, <3>4 DEF KidsKept, InTurnKept, Linked, Live
        <3>6. FirstDraft'
            BY <1>1, <3>3, <3>4 DEF FirstDraft
        <3> QED
            BY <3>3, <3>5, <3>6
    <2> QED
        BY <1>9, <2>1, <2>2
<1>11. Fits(seq, place)
    <2>0. Fits(seq, "sub")
        BY <1>1, <1>2
    <2>1. Len(seq) = 1 => Linked(seq[1])
        BY <1>1, <1>2 DEF Fits, Linked
    <2>2. Len(seq) = 1 => \A i \in 1..Len(seq) : i = 1
        OBVIOUS
    <2>3. CASE place = onAnswer /\ Len(seq) > 1
        BY <1>2, <1>3, <2>0, <1>7, <2>3 DEF Fits, Splitting
    <2>4. CASE place = "failed"
        BY <1>2, <1>3, <2>0, <2>4 DEF Fits, Splitting
    <2>5. CASE place = onAnswer /\ Len(seq) = 1
        BY <1>2, <1>3, <1>6, <1>7, <2>0, <2>1, <2>2, <2>5 DEF Fits, Splitting
    <2>6. PICK n \in Nat : n = Len(seq) /\ n > 0
        BY <1>3
    <2>7. n > 1 \/ n = 1
        BY <2>6
    <2> QED
        BY <1>8a, <2>3, <2>4, <2>5, <2>6, <2>7
<1>12. Fits(seq, place)'
    BY <1>3, <1>10, <1>11, StillFits
<1>13. Told(place) /\ place \in Places
    BY <1>6, <1>7, <1>8a DEF Told, Places
<1> QED
    BY <1>3, <1>3a, <1>8, <1>8a, <1>10, <1>12, <1>13, SplitKeeps

LEMMA LinksKeep == ASSUME TurnInv, NEW r \in Runs, Links(r) PROVE TurnInv'
<1>1. Types /\ FirstDraft /\ Fits(mine[r], "link") /\ pc[r] = "link"
    BY DEF TurnInv, Links
<1>2. PICK seq : seq = mine[r]
    OBVIOUS
<1>3. seq \in Seq(Nat) /\ Len(seq) \in Nat /\ Len(seq) > 1 /\ Fits(seq, "link")
    BY <1>1, <1>2, MineIs DEF Fits
<1>4. mine' = [mine EXCEPT ![r] = seq] /\ UNCHANGED <<issue, kills, people>>
    BY <1>1, <1>2 DEF Links, Types
<1>5. Len(seq) - 1 \in 1..Len(seq) /\ Len(seq) \in 1..Len(seq) /\ Len(seq) - 1 < Len(seq)
    BY <1>3
<1>6. PICK k \in Kids : k = Last(mine[r]) /\ kids[k] \in KidRecords /\ k = seq[Len(seq)]
    BY <1>2, <1>3, LastIs
<1>7. PICK before \in Kids : before = seq[Len(seq) - 1] /\ before < k
    BY <1>3, <1>5, <1>6 DEF Fits
<1>8. before \in Nat /\ before # 0
    BY <1>1, <1>7, KidsAre
<1>9. PICK worked \in BOOLEAN :
        /\ Calls(r, worked, NextDraft(r), "failed")
        /\ Unless(worked, [kids EXCEPT ![k].after = before])
    BY <1>2, <1>6, <1>7 DEF Links
<1>10. /\ NextDraft(r) \in {"create", "dequeue"}
       /\ NextDraft(r) = "create" => Len(seq) < Drafts
       /\ NextDraft(r) = "dequeue" => Len(seq) = Drafts
    BY <1>1, <1>2, NextDraftIs DEF Fits
<1>11. PICK onAnswer \in {"create", "dequeue"} : onAnswer = NextDraft(r)
    BY <1>10
<1>12. faults' \in 0..MaxFaults /\ ((worked /\ Goes(r, onAnswer)) \/ Goes(r, "failed"))
    BY <1>1, <1>9, <1>11, CallsTyped DEF Places
<1>13. CASE kids' = kids /\ Goes(r, "failed")
    <2>1. /\ kids' \in Seq(KidRecords) /\ \A j \in Kids' : kids'[j].after < j
          /\ KidsKept /\ InTurnKept /\ FirstDraft'
        BY <1>1, <1>13, ChangesNone DEF KidsKept, InTurnKept, Linked, Live, FirstDraft
    <2>2. Fits(seq, "failed")
        BY <1>3 DEF Fits, Splitting
    <2>3. Fits(seq, "failed")'
        BY <1>3, <2>1, <2>2, StillFits
    <2>4. Told("failed") /\ "failed" \in Places
        BY DEF Told, Places
    <2> QED
        BY <1>3, <1>4, <1>12, <1>13, <2>1, <2>3, <2>4, SplitKeeps
<1>14. CASE kids' = [kids EXCEPT ![k] = [kids[k] EXCEPT !.after = before]]
    <2>1. PICK kid \in KidRecords :
            /\ kid = [kids[k] EXCEPT !.after = before] /\ kid.draft = kids[k].draft /\ kid.after = before
            /\ kid.marked = kids[k].marked /\ kid.sub = kids[k].sub /\ kid.state = kids[k].state
        BY <1>6, <1>8, AfterEdited
    <2>2. /\ kids' \in Seq(KidRecords) /\ Kids' = Kids
          /\ \A j \in Kids : kids'[j] = IF j = k THEN kid ELSE kids[j]
          /\ \A j \in Kids' : kids'[j].after < j
        BY <1>1, <1>7, <1>14, <2>1, ChangesOne
    <2>3. \A j \in Kids : /\ kids'[j].draft = kids[j].draft /\ kids'[j].marked = kids[j].marked
                         /\ kids'[j].state = kids[j].state
        BY <2>1, <2>2
    <2>4. \A j \in Kids : kids'[j].after = IF j = k THEN before ELSE kids[j].after
        BY <2>1, <2>2
    <2>5. Linked(k)'
        BY <1>8, <2>4 DEF Linked
    <2>6. KidsKept
        BY <1>8, <2>2, <2>3, <2>4 DEF KidsKept, Linked
    <2>7. InTurnKept
        BY <2>2, <2>3 DEF InTurnKept, Live
    <2>8. FirstDraft'
        BY <1>1, <2>2, <2>3 DEF FirstDraft
    <2>9. \A place : place \in {onAnswer, "failed"} => Fits(seq, place)'
        <3>1. Fits(seq, "link")'
            BY <1>3, <2>6, StillFits
        <3>2. \A i \in 1..Len(seq) : Linked(seq[i])'
            <4> SUFFICES ASSUME NEW i \in 1..Len(seq) PROVE Linked(seq[i])'
                OBVIOUS
            <4>1. CASE i \in 1..(Len(seq) - 1)
                BY <3>1, <4>1 DEF Fits
            <4>2. CASE i = Len(seq)
                BY <1>6, <2>5, <4>2
            <4>3. PICK n \in Nat : n = Len(seq)
                BY <1>3
            <4>4. i \in 1..(n - 1) \/ i = n
                BY <4>3
            <4> QED
                BY <4>1, <4>2, <4>3, <4>4
        <3>3. \A i \in 1..(Len(seq) - 1) : i \in 1..Len(seq)
            BY <1>3
        <3> QED
            BY <1>3, <1>10, <1>11, <3>1, <3>2, <3>3 DEF Fits, Splitting
    <2>10. PICK place \in {onAnswer, "failed"} : Goes(r, place)
        BY <1>12
    <2>11. Told(place) /\ place \in Places
        BY DEF Told, Places
    <2>12. Fits(seq, place)'
        BY <2>9
    <2> QED
        BY <1>3, <1>4, <1>12, <2>2, <2>6, <2>7, <2>8, <2>10, <2>11, <2>12, SplitKeeps
<1> QED
    BY <1>9, <1>12, <1>13, <1>14 DEF Unless

LEMMA ReleasesChildKeeps == ASSUME TurnInv, NEW r \in Runs, ReleasesChild(r) PROVE TurnInv'
<1>1. Types /\ FirstDraft /\ Fits(mine[r], "release") /\ pc[r] = "release" /\ Told("release")
    BY DEF TurnInv, ReleasesChild
<1>2. PICK seq : seq = mine[r]
    OBVIOUS
<1>3. seq \in Seq(Nat) /\ Len(seq) \in Nat /\ seq # <<>> /\ Fits(seq, "release")
    BY <1>1, <1>2, MineIs DEF ReleasesChild
<1>4. PICK rest : rest = Tail(seq)
    OBVIOUS
<1>5. rest \in Seq(Nat) /\ Len(rest) = Len(seq) - 1 /\ \A i \in 1..Len(rest) : rest[i] = seq[i + 1]
    BY <1>3, <1>4, HeadTailProperties
<1>6. Len(seq) > 0
    BY <1>3, EmptySeq
<1>7. Head(seq) = seq[1]
    BY <1>3
<1>8. PICK k \in Kids : k = Head(seq) /\ Linked(k)
    BY <1>3, <1>6, <1>7 DEF Fits
<1>9. mine' = [mine EXCEPT ![r] = rest] /\ UNCHANGED <<issue, kills, people>>
    BY <1>1, <1>2, <1>4 DEF ReleasesChild, Types
<1>10. PICK worked \in BOOLEAN :
        Calls(r, worked, "release", "release") /\ Unless(worked, [kids EXCEPT ![k].marked = FALSE])
    BY <1>2, <1>8 DEF ReleasesChild
<1>11. faults' \in 0..MaxFaults /\ Goes(r, "release") /\ "release" \in Places
    BY <1>1, <1>10, CallsTyped DEF Places
<1>12. /\ kids' \in Seq(KidRecords) /\ \A j \in Kids' : kids'[j].after < j
       /\ KidsKept /\ InTurnKept /\ FirstDraft'
    <2>1. CASE kids' = kids
        BY <1>1, <2>1, ChangesNone DEF KidsKept, InTurnKept, Linked, Live, FirstDraft
    <2>2. CASE kids' = [kids EXCEPT ![k] = [kids[k] EXCEPT !.marked = FALSE]]
        <3>1. PICK kid \in KidRecords :
                /\ kid = [kids[k] EXCEPT !.marked = FALSE] /\ kid.draft = kids[k].draft
                /\ kid.after = kids[k].after /\ kid.sub = kids[k].sub /\ kid.state = kids[k].state
            BY <1>1, KidsAre, MarkEdited, Zenon
        <3>2. kid.after < k
            BY <1>1, <3>1 DEF Types
        <3>3. /\ kids' \in Seq(KidRecords) /\ Kids' = Kids
              /\ \A j \in Kids : kids'[j] = IF j = k THEN kid ELSE kids[j]
              /\ \A j \in Kids' : kids'[j].after < j
            BY <1>1, <2>2, <3>1, <3>2, ChangesOne
        <3>4. \A j \in Kids : kids'[j].draft = kids[j].draft /\ kids'[j].after = kids[j].after
                              /\ kids'[j].state = kids[j].state
            BY <3>1, <3>3
        <3>5. KidsKept
            BY <3>3, <3>4 DEF KidsKept, Linked
        <3>6. Linked(k)'
            BY <1>8, <3>5 DEF KidsKept
        <3>7. people' = 0 => umbrella /\ "queue" \notin labels
            BY <1>1, <1>9 DEF Told
        <3>8. \A j \in Kids : j # k => kids'[j] = kids[j]
            BY <3>3
        <3>9. InTurnKept
            BY <3>3, <3>6, <3>7, <3>8 DEF InTurnKept, Live
        <3>10. FirstDraft'
            BY <1>1, <3>3, <3>4 DEF FirstDraft
        <3> QED
            BY <3>3, <3>5, <3>9, <3>10
    <2> QED
        BY <1>10, <2>1, <2>2 DEF Unless
<1>13. Fits(rest, "release")
    <2>1. \A i \in 1..Len(rest) : i + 1 \in 1..Len(seq)
        BY <1>3, <1>5
    <2>2. Len(rest) <= Drafts
        BY <1>3, <1>5 DEF Fits
    <2>3. \A i \in 1..Len(rest) : rest[i] \in Kids
        BY <1>3, <1>5, <2>1 DEF Fits
    <2>4. \A i \in 1..Len(rest) : Linked(rest[i])
        BY <1>3, <1>5, <2>1 DEF Fits, Linked
    <2>5. \A i, j \in 1..Len(rest) : i < j => rest[i] < rest[j]
        <3> SUFFICES ASSUME NEW i \in 1..Len(rest), NEW j \in 1..Len(rest), i < j PROVE rest[i] < rest[j]
            OBVIOUS
        <3>1. i + 1 < j + 1 /\ i + 1 \in 1..Len(seq) /\ j + 1 \in 1..Len(seq)
            BY <1>5, <2>1
        <3>2. \A m, n \in 1..Len(seq) : m < n => seq[m] < seq[n]
            BY <1>3 DEF Fits
        <3>3. seq[i + 1] < seq[j + 1]
            BY <3>1, <3>2
        <3> QED
            BY <1>5, <3>3
    <2> QED
        BY <2>2, <2>3, <2>4, <2>5 DEF Fits, Splitting
<1>14. Fits(rest, "release")'
    BY <1>5, <1>12, <1>13, StillFits
<1> QED
    BY <1>1, <1>5, <1>9, <1>11, <1>12, <1>14, SplitKeeps

\* A run that ends its split, whichever way, forgets the children.
LEMMA ForgetsKeep == ASSUME TurnInv, NEW r \in Runs, GivesUp(r) \/ Killed(r) PROVE TurnInv'
<1>1. Types /\ kids' = kids /\ mine' = [mine EXCEPT ![r] = <<>>] /\ people' = people
    BY DEF TurnInv, GivesUp, Killed
<1>2. /\ Goes(r, "idle") /\ faults' \in 0..MaxFaults /\ kills' \in 0..MaxKills
      /\ labels' \subseteq {"queue"} \union Judged /\ open' \in BOOLEAN /\ umbrella' = umbrella
      /\ "queue" \notin labels => "queue" \notin labels'
    <2>1. CASE Killed(r)
        <3>1. kills' \in 0..MaxKills
            BY <1>1, <2>1 DEF Killed, Types
        <3> QED
            BY <1>1, <2>1, <3>1 DEF Killed, Types, issue
    <2>2. CASE GivesUp(r)
        <3>1. PICK worked \in BOOLEAN : Calls(r, worked, "idle", "idle") /\ Labels(worked, labels \union {"needs-human"})
            BY <2>2 DEF GivesUp
        <3>2. labels \union {"needs-human"} \subseteq {"queue"} \union Judged
            BY <1>1 DEF Types, Judged
        <3>3. /\ labels' \subseteq {"queue"} \union Judged /\ open' \in BOOLEAN /\ umbrella' = umbrella
              /\ "queue" \notin labels => "queue" \notin labels'
            BY <1>1, <3>1, <3>2, LabelsTyped
        <3>4. faults' \in 0..MaxFaults /\ Goes(r, "idle")
            BY <1>1, <3>1, CallsTyped DEF Places
        <3>5. kills' \in 0..MaxKills
            BY <1>1, <2>2 DEF GivesUp, Types
        <3> QED
            BY <3>3, <3>4, <3>5
    <2> QED
        BY <2>1, <2>2
<1>3. <<>> \in Seq(Nat) /\ "idle" \in Places
    BY EmptySeq DEF Places
<1>4. mine' \in [Runs -> Seq(Nat)]
    BY <1>1, <1>3 DEF Types
<1>5. pc' \in [Runs -> Places] /\ pc'[r] = "idle" /\ \A q \in Runs : q # r => pc'[q] = pc[q]
    BY <1>1, <1>2, <1>3, GoesTyped
<1>6. Types'
    BY <1>1, <1>2, <1>4, <1>5, ChangesNone DEF Types
<1>7. mine'[r] = <<>> /\ \A q \in Runs : q # r => mine'[q] = mine[q]
    BY <1>1, <1>3, MineThere
<1>8. KidsKept /\ InTurnKept /\ RestKept /\ FirstDraft'
    BY <1>1, <1>2 DEF TurnInv, KidsKept, InTurnKept, RestKept, FirstDraft, Kids, Linked, Live
<1>9. Fits(<<>>, "idle") /\ Told("idle")'
    BY <1>3, NothingFits DEF Told
<1>10. Fits(<<>>, "idle")'
    BY <1>3, <1>8, <1>9, StillFits
<1>11. Fits(mine[r], pc[r])'
    BY <1>5, <1>7, <1>10, FitsThere
<1>12. Told(pc[r])'
    BY <1>5, <1>9 DEF Told
<1> QED
    BY <1>5, <1>6, <1>7, <1>8, <1>11, <1>12, TurnKept

\* What a step of nobody's split leaves of it.
LEMMA NobodysStepKeeps ==
    ASSUME TurnInv, pc' = pc, mine' = mine, faults' = faults, kills' = kills, people' \in 0..MaxPeople,
           labels' \subseteq {"queue"} \union Judged, open' = open, umbrella' = umbrella,
           kids' \in Seq(KidRecords), Kids' = Kids, \A j \in Kids' : kids'[j].after < j,
           \A j \in Kids : kids'[j].draft = kids[j].draft,
           KidsKept, RestKept, InTurnKept
    PROVE  TurnInv'
<1>1. Types'
    BY DEF TurnInv, Types
<1>2. FirstDraft'
    BY DEF TurnInv, FirstDraft
<1> QED
    BY <1>1, <1>2, TurnKept

LEMMA PeopleCounted == ASSUME Types, Person PROVE people' \in 0..MaxPeople /\ people' # 0
BY DEF Types, Person

\* A child's end, of either kind, or its reopening.
LEMMA EndsKeep == ASSUME TurnInv, NEW k \in Kids, Builds(k) \/ Drops(k) \/ Reopens(k) PROVE TurnInv'
<1>1. Types /\ UNCHANGED <<issue, pc, mine, faults, kills>> /\ kids[k].state \in {"open", "completed"}
    BY DEF TurnInv, Builds, Drops, Reopens
<1>2. people' \in 0..MaxPeople /\ (people' = 0 => people = 0)
    <2>1. CASE Builds(k)
        BY <1>1, <2>1 DEF Builds, Types
    <2>2. CASE Drops(k) \/ Reopens(k)
        BY <1>1, <2>2, PeopleCounted DEF Drops, Reopens
    <2> QED
        BY <2>1, <2>2
<1>3. PICK state \in {"open", "completed", "dropped"} : kids' = [kids EXCEPT ![k] = [kids[k] EXCEPT !.state = state]]
    BY DEF Builds, Drops, Reopens
<1>4. PICK kid \in KidRecords :
        /\ kid = [kids[k] EXCEPT !.state = state] /\ kid.draft = kids[k].draft /\ kid.after = kids[k].after
        /\ kid.marked = kids[k].marked /\ kid.sub = kids[k].sub /\ kid.state = state
    <2>1. kids[k] \in KidRecords
        BY <1>1, KidsAre
    <2> QED
        BY <2>1, StateEdited, Zenon
<1>5. kid.after < k
    BY <1>1, <1>4 DEF Types
<1>6. /\ kids' \in Seq(KidRecords) /\ Kids' = Kids
      /\ \A j \in Kids : kids'[j] = IF j = k THEN kid ELSE kids[j]
      /\ \A j \in Kids' : kids'[j].after < j
    BY <1>1, <1>3, <1>4, <1>5, ChangesOne
<1>7. \A j \in Kids : /\ kids'[j].draft = kids[j].draft /\ kids'[j].after = kids[j].after
                      /\ kids'[j].marked = kids[j].marked
    BY <1>4, <1>6
<1>8. \A j \in Kids : Live(j)' => Live(j)
    BY <1>1, <1>6 DEF Live
<1>9. KidsKept /\ InTurnKept
    BY <1>6, <1>7, <1>8 DEF KidsKept, InTurnKept, Linked
<1>10. RestKept /\ labels' \subseteq {"queue"} \union Judged /\ open' = open /\ umbrella' = umbrella
    BY <1>1, <1>2 DEF RestKept, issue, Types
<1> QED
    BY <1>1, <1>2, <1>6, <1>7, <1>9, <1>10, NobodysStepKeeps

LEMMA FinishesByHandKeeps == ASSUME TurnInv, NEW k \in Kids, FinishesByHand(k) PROVE TurnInv'
<1>1. /\ Types /\ FirstDraft /\ UNCHANGED <<pc, mine, faults, kills>> /\ people' \in 0..MaxPeople
      /\ people' # 0
    BY PeopleCounted DEF TurnInv, FinishesByHand
<1>2. kids[k] \in KidRecords /\ k \in Nat \ {0}
    BY <1>1, KidsAre
<1>3. PICK after \in Nat : after = IF k > 1 THEN k - 1 ELSE 0
    BY <1>2
<1>4. after < k /\ (after = 0 => k = 1)
    BY <1>2, <1>3
<1> DEFINE kid == [kids[k] EXCEPT !.marked = FALSE, !.sub = TRUE, !.after = after]
<1>5. kid \in KidRecords /\ kid.after = after /\ kid.draft = kids[k].draft
    BY <1>2 DEF KidRecords
<1>6. kid.state = kids[k].state
    BY <1>2 DEF KidRecords
<1>7. kids' = [kids EXCEPT ![k] = kid]
    <2>1. kids' = [kids EXCEPT ![k].marked = FALSE, ![k].sub = TRUE, ![k].after = after]
        BY <1>3 DEF FinishesByHand
    <2>2. kids = [j \in Kids |-> kids[j]]
        BY <1>1, LenProperties DEF Types, Kids
    <2> QED
        BY <1>2, <2>1, <2>2 DEF KidRecords
<1> HIDE DEF kid
<1>8. /\ kids' \in Seq(KidRecords) /\ Kids' = Kids
      /\ \A j \in Kids : kids'[j] = IF j = k THEN kid ELSE kids[j]
      /\ \A j \in Kids' : kids'[j].after < j
    BY <1>1, <1>4, <1>5, <1>7, ChangesOne
<1>9. \A j \in Kids : kids'[j].draft = kids[j].draft /\ (j # k => kids'[j] = kids[j])
    BY <1>5, <1>8
<1>10. Linked(k)'
    <2>1. CASE k = 1
        BY <1>1, <1>9, <2>1 DEF Linked, FirstDraft
    <2>2. CASE k # 1
        BY <1>4, <1>5, <1>8, <2>2 DEF Linked
    <2> QED
        BY <2>1, <2>2
<1>11. KidsKept
    BY <1>8, <1>9, <1>10 DEF KidsKept, Linked
<1>12. InTurnKept
    BY <1>1, <1>8, <1>9, <1>10 DEF InTurnKept, Live
<1>13. /\ RestKept /\ labels' \subseteq {"queue"} \union Judged /\ open' = open /\ umbrella' = umbrella
    BY <1>1 DEF RestKept, FinishesByHand, Labels, Types
<1> QED
    BY <1>1, <1>8, <1>9, <1>11, <1>12, <1>13, NobodysStepKeeps

LEMMA StartsOverKeeps == ASSUME TurnInv, StartsOver PROVE TurnInv'
<1>1. /\ Types /\ UNCHANGED <<pc, mine, faults, kills, open, umbrella>> /\ people' \in 0..MaxPeople
      /\ people' # 0 /\ labels' = {"queue"}
      /\ kids' = [k \in Kids |-> [kids[k] EXCEPT !.state = "dropped", !.sub = FALSE]]
    BY PeopleCounted DEF TurnInv, StartsOver
<1>2. Kids = 1..Len(kids) /\ Len(kids) \in Nat /\ \A k \in Kids : kids[k] \in KidRecords
    BY <1>1, KidsAre
<1>3. \A k \in Kids : [kids[k] EXCEPT !.state = "dropped", !.sub = FALSE] \in KidRecords
    BY <1>2 DEF KidRecords
<1>4. kids' \in [1..Len(kids) -> KidRecords]
    BY <1>1, <1>2, <1>3
<1>5. kids' \in Seq(KidRecords) /\ Kids' = Kids
    BY <1>2, <1>4, FunctionIsSeq DEF Kids
<1>6. \A k \in Kids : kids'[k].draft = kids[k].draft /\ kids'[k].after = kids[k].after
    BY <1>1, <1>2 DEF KidRecords
<1>7. \A k \in Kids : ~Live(k)'
    BY <1>1, <1>2 DEF KidRecords, Live
<1>8. \A k \in Kids : kids'[k].marked = kids[k].marked
    BY <1>1, <1>2 DEF KidRecords
<1>9. KidsKept /\ RestKept
    BY <1>1, <1>5, <1>6 DEF KidsKept, RestKept, Linked
<1>10. InTurnKept
    BY <1>5, <1>7, <1>8 DEF InTurnKept
<1>11. \A k \in Kids' : kids'[k].after < k
    BY <1>1, <1>5, <1>6 DEF Types
<1> QED
    BY <1>1, <1>5, <1>6, <1>9, <1>10, <1>11, NobodysStepKeeps

LEMMA StartsInTurn == Init => TurnInv
<1> SUFFICES ASSUME Init PROVE TurnInv
    OBVIOUS
<1>1. <<>> \in Seq(Nat) /\ <<>> \in Seq(KidRecords) /\ "idle" \in Places /\ Kids = {}
    BY EmptySeq DEF Places, Init, Kids
<1>2. Types
    <2>1. labels \subseteq {"queue"} \union Judged /\ open \in BOOLEAN /\ umbrella \in BOOLEAN
        BY DEF Init
    <2>2. kids \in Seq(KidRecords) /\ \A k \in Kids : kids[k].after < k
        BY <1>1 DEF Init
    <2>3. pc \in [Runs -> Places] /\ mine \in [Runs -> Seq(Nat)]
        BY <1>1 DEF Init
    <2>4. faults \in 0..MaxFaults /\ kills \in 0..MaxKills /\ people \in 0..MaxPeople
        BY DEF Init
    <2> QED
        BY <2>1, <2>2, <2>3, <2>4 DEF Types
<1>3. ChildrenInTurn /\ FirstDraft
    BY <1>1 DEF ChildrenInTurn, NoChildBuiltEarly, BuildOrder, FirstDraft
<1>4. \A r \in Runs : Fits(mine[r], pc[r]) /\ Told(pc[r])
    BY <1>1, NothingFits DEF Init, Told
<1> QED
    BY <1>2, <1>3, <1>4 DEF TurnInv

LEMMA StepsKeepTurn == TurnInv /\ [Next]_vars => TurnInv'
<1> SUFFICES ASSUME TurnInv, [Next]_vars PROVE TurnInv'
    OBVIOUS
<1>1. CASE \E r \in Runs : Lists(r) \/ Judges(r) \/ Sweeps(r) \/ Killed(r)
    <2>1. PICK r \in Runs : Lists(r) \/ Judges(r) \/ Sweeps(r) \/ Killed(r)
        BY <1>1
    <2>2. \/ Reads(r) \/ Writes(r) \/ Creates(r) \/ AddsSubIssue(r) \/ Links(r)
          \/ ReleasesChild(r) \/ GivesUp(r) \/ Killed(r)
        BY <2>1, Zenon DEF Judges, Sweeps, Splits, Reads, Writes
    <2> QED
        BY <2>2, ReadsKeep, WritesKeep, CreatesKeep, AddsSubIssueKeeps, LinksKeep, ReleasesChildKeeps, ForgetsKeep, Zenon
<1>2. CASE \E k \in Kids : Builds(k) \/ FinishesByHand(k) \/ Drops(k) \/ Reopens(k)
    BY <1>2, EndsKeep, FinishesByHandKeeps
<1>3. CASE StartsOver
    BY <1>3, StartsOverKeeps
<1>4. CASE UNCHANGED vars
    BY <1>4 DEF vars, TurnInv, Types, ChildrenInTurn, NoChildBuiltEarly, BuildOrder, FirstDraft, Fits, Told,
                Kids, Live, Linked
<1> QED
    BY <1>1, <1>2, <1>3, <1>4 DEF Next

\* A split's children, wherever each run that makes one has got to, stay in the
\* order of their drafts, each linked to the one before (applySplit).
THEOREM TurnInvariant == Spec => []TurnInv
BY StartsInTurn, StepsKeepTurn, PTL DEF Spec

\* A child loses its needs-human mark only once it waits for the one before it
\* and, unless a person took the mark off, the umbrella lists it: runs that
\* split the issue at the same time do not change that (applySplit).
THEOREM AlwaysInTurn == Spec => []ChildrenInTurn
<1>1. TurnInv => ChildrenInTurn
    BY DEF TurnInv
<1> QED
    BY <1>1, TurnInvariant, PTL

------------------------------------------------------------------------------
(* That a split is kept: runs whose looks do not race.                        *)

SubDrafts == {kids[k].draft : k \in SubIssues}
DoneDrafts == {kids[k].draft : k \in {c \in SubIssues : kids[c].state = "completed"}}
NoneLive == \A k \in Kids : ~Live(k)

\* Where the mark is on the issue.
During == {"create", "sub", "link", "dequeue", "comment", "failed"}

\* What is so of the issue and its children where the run is, with n of them made.
Stage(place, n) ==
    /\ place \in PastLook => NoneLive /\ "queue" \in labels
    /\ place \in During => "needs-human" \in labels
    /\ place \in {"comment", "release"} => "queue" \notin labels
    /\ place \in {"create", "sub", "link"} => \A k \in Kids : Live(k) => kids[k].draft <= n
    /\ place \in {"create", "link"} => 1..n \subseteq SubDrafts
    /\ place = "sub" => 1..(n - 1) \subseteq SubDrafts
    /\ place \in {"dequeue", "comment", "release"} => 1..Drafts \subseteq SubDrafts
    /\ place = "children" /\ ~overtaken => 1..Drafts \subseteq SubDrafts
    /\ place = "close" /\ ~overtaken => 1..Drafts \subseteq DoneDrafts

\* A child nobody gave up keeps its issue from being judged again.
Held == NoneLive \/ "needs-human" \in labels \/ "queue" \notin labels

\* An umbrella nobody is told about is over a whole split.
Whole == umbrella /\ labels \cap {"queue", "needs-human"} = {} => 1..Drafts \subseteq SubDrafts

ClosedDone == ~open /\ ~overtaken => 1..Drafts \subseteq DoneDrafts

SplitInv == SplitOnce /\ NothingLost /\ Held /\ Whole /\ ClosedDone

\* No two runs have got past their looks.
Active == PastLook \union Splitting
Alone == \A q, r \in Runs : pc[q] \in Active /\ pc[r] \in Active => q = r

\* What is so while no two runs have raced, and the inductive invariant.
OneInv == TurnInv /\ SplitInv /\ Alone /\ \A r \in Runs : Stage(pc[r], Len(mine[r]))
KeptInv == TurnInv /\ (~raced => OneInv)

\* The children a step leaves as they were, but for marks, links, and ends.
NoNewLive == \A k \in Kids' : Live(k)' => k \in Kids /\ Live(k) /\ kids'[k].draft = kids[k].draft
DraftsGrow == SubDrafts \subseteq SubDrafts' /\ DoneDrafts \subseteq DoneDrafts'
LabelsKept ==
    /\ overtaken' = overtaken
    /\ "queue" \in labels' <=> "queue" \in labels
    /\ "needs-human" \in labels => "needs-human" \in labels'
    /\ umbrella' = umbrella

LEMMA SplitKept ==
    ASSUME SplitInv, NoNewLive, DraftsGrow, LabelsKept, open' = open
    PROVE  SplitInv'
<1>1. SplitOnce'
    BY DEF SplitInv, SplitOnce, NoNewLive
<1>2. NothingLost'
    BY DEF SplitInv, NothingLost, LabelsKept
<1>3. Held'
    BY DEF SplitInv, Held, NoneLive, NoNewLive, LabelsKept
<1>4. Whole'
    BY DEF SplitInv, Whole, DraftsGrow, LabelsKept
<1>5. ClosedDone'
    BY DEF SplitInv, ClosedDone, DraftsGrow, LabelsKept
<1> QED
    BY <1>1, <1>2, <1>3, <1>4, <1>5 DEF SplitInv

LEMMA StageKept ==
    ASSUME NEW place, NEW n, Stage(place, n), NoNewLive, DraftsGrow, LabelsKept
    PROVE  Stage(place, n)'
<1>1. NoneLive => NoneLive'
    BY DEF NoNewLive, NoneLive
<1>2. \A k \in Kids' : Live(k)' => k \in Kids /\ Live(k) /\ kids'[k].draft = kids[k].draft
    BY DEF NoNewLive
<1> QED
    BY <1>1, <1>2 DEF Stage, DraftsGrow, LabelsKept, PastLook, During

LEMMA StageThere ==
    ASSUME NEW r \in Runs, NEW place, NEW n, pc'[r] = place, Len(mine'[r]) = n, Stage(place, n)'
    PROVE  Stage(pc[r], Len(mine[r]))'
BY DEF Stage, NoneLive, SubDrafts, DoneDrafts, SubIssues, Kids, Live

LEMMA SameKids ==
    ASSUME kids' = kids
    PROVE  NoNewLive /\ DraftsGrow /\ (NoneLive => NoneLive')
BY DEF NoNewLive, DraftsGrow, SubDrafts, DoneDrafts, SubIssues, Kids, Live, NoneLive

LEMMA StageAhead ==
    ASSUME Types, NEW r \in Runs, NEW place \in Places, NEW n, Goes(r, place), Len(mine'[r]) = n, Stage(place, n)'
    PROVE  Stage(pc[r], Len(mine[r]))'
<1>1. pc'[r] = place
    BY GoesTyped
<1> QED
    BY <1>1, StageThere

\* What a run's step has to show of its own: where it leaves that run, and that
\* it takes no child away.
StageNext(r) == SplitInv' /\ Stage(pc[r], Len(mine[r]))' /\ DraftsGrow

\* A look that lets a run go on saw the issue unjudged, and does not race.
LEMMA VerdictLooked ==
    ASSUME NEW r \in Runs, Verdict(r), ~raced', ~Goes(r, "idle")
    PROVE  /\ labels \cap Judged = {} /\ "queue" \in labels
           /\ \A q \in Runs : q # r => pc[q] \notin PastLook
           /\ \E next \in {"ready", "asks", "marks"} : Goes(r, next)
<1>1. /\ labels \cap Judged = {}
      /\ \E next \in {"idle", "ready", "asks", "marks"} :
            Goes(r, next) /\ raced' = (raced \/ (next # "idle" /\ Races(r)))
    BY DEF Verdict
<1>2. PICK next \in {"ready", "asks", "marks"} :
        Goes(r, next) /\ raced' = (raced \/ (next # "idle" /\ Races(r)))
    BY <1>1
<1>3. next # "idle"
    BY <1>2
<1>4. ~Races(r)
    BY <1>2, <1>3, Zenon
<1> QED
    BY <1>1, <1>2, <1>4 DEF Races

LEMMA ReadsStage == ASSUME OneInv, ~raced', NEW r \in Runs, Reads(r) PROVE StageNext(r)
<1>1. /\ Types /\ SplitInv /\ kids' = kids /\ mine' = mine /\ labels' = labels /\ umbrella' = umbrella /\ open' = open
      /\ overtaken' = overtaken
    BY DEF OneInv, TurnInv, Reads, Lists, Verdict, FindsUmbrella, ReadsChildren, issue, history
<1>2. PICK n : n = Len(mine[r]) /\ n = Len(mine'[r]) /\ Stage(pc[r], n)
    BY <1>1 DEF OneInv
<1>3. NoNewLive /\ DraftsGrow /\ LabelsKept
    BY <1>1, SameKids DEF LabelsKept
<1>4. \E place \in {"sent", "idle", "ready", "asks", "marks", "children", "close"} : Goes(r, place) /\ Stage(place, n)
    <2>1. Stage("idle", n)
        BY DEF Stage, PastLook, During
    <2>2. CASE Lists(r)
        <3>1. Stage("sent", n)
            BY DEF Stage, PastLook, During
        <3> QED
            BY <2>2, <3>1 DEF Lists
    <2>3. CASE Verdict(r)
        <3>1. CASE Goes(r, "idle")
            BY <2>1, <3>1
        <3>2. CASE ~Goes(r, "idle")
            <4>1. /\ labels \cap Judged = {} /\ "queue" \in labels
                  /\ \E next \in {"ready", "asks", "marks"} : Goes(r, next)
                BY <2>3, <3>2, VerdictLooked
            <4>2. NoneLive
                BY <1>1, <4>1 DEF SplitInv, Held, Judged
            <4>3. Stage("ready", n) /\ Stage("asks", n) /\ Stage("marks", n)
                BY <4>1, <4>2 DEF Stage, PastLook, During
            <4> QED
                BY <4>1, <4>3
        <3> QED
            BY <3>1, <3>2
    <2>4. CASE FindsUmbrella(r)
        <3>1. 1..Drafts \subseteq SubDrafts
            BY <1>1, <2>4 DEF FindsUmbrella, SplitInv, Whole
        <3>2. Stage("children", n)
            BY <3>1 DEF Stage, PastLook, During
        <3> QED
            BY <2>4, <3>2 DEF FindsUmbrella
    <2>5. CASE ReadsChildren(r)
        <3>1. ~overtaken => 1..Drafts \subseteq SubDrafts
            BY <1>2, <2>5 DEF ReadsChildren, Stage
        <3>2. (\A k \in SubIssues : kids[k].state = "completed") /\ ~overtaken => 1..Drafts \subseteq DoneDrafts
            BY <3>1 DEF SubDrafts, DoneDrafts
        <3>3. SubIssues # {} /\ (\A k \in SubIssues : kids[k].state = "completed") => Stage("close", n)
            BY <3>2 DEF Stage, PastLook, During
        <3> QED
            BY <2>1, <2>5, <3>3 DEF ReadsChildren
    <2> QED
        BY <2>2, <2>3, <2>4, <2>5 DEF Reads
<1>5. PICK place \in Places : Goes(r, place) /\ Stage(place, n)
    BY <1>4 DEF Places
<1>6. Stage(place, n)'
    BY <1>3, <1>5, StageKept
<1> QED
    BY <1>1, <1>2, <1>3, <1>5, <1>6, SplitKept, StageAhead DEF StageNext

LEMMA MarksReadyStage ==
    ASSUME OneInv, NEW r \in Runs, MarksReady(r) \/ Asks(r) \/ AsksLabel(r) \/ Marks(r)
    PROVE  StageNext(r)
<1>1. Types /\ SplitInv /\ kids' = kids /\ mine' = mine
    BY DEF OneInv, TurnInv, MarksReady, Asks, AsksLabel, Marks
<1>2. PICK n : n = Len(mine[r]) /\ n = Len(mine'[r]) /\ Stage(pc[r], n)
    BY <1>1 DEF OneInv
<1>3. NoneLive /\ "queue" \in labels /\ pc[r] \notin Splitting
    BY <1>2 DEF Stage, PastLook, MarksReady, Asks, AsksLabel, Marks, Splitting
<1>4. n = 0
    <2>1. mine[r] = <<>>
        BY <1>3 DEF OneInv, TurnInv, Fits
    <2> QED
        BY <1>2, <2>1
<1>5. LabelsKept /\ open' = open
    BY DEF MarksReady, Asks, AsksLabel, Marks, Labels, LabelsKept, issue, history
<1>6. NoNewLive /\ DraftsGrow /\ NoneLive' /\ "queue" \in labels'
    BY <1>1, <1>3, <1>5, SameKids DEF LabelsKept
<1>7. \/ Goes(r, "idle") \/ Goes(r, "needs-info") \/ Goes(r, "unmark")
      \/ Goes(r, "create") /\ "needs-human" \in labels'
    BY DEF MarksReady, Asks, AsksLabel, Marks, Calls, Labels
<1>8. Stage("idle", n)' /\ Stage("needs-info", n)' /\ Stage("unmark", n)'
    BY <1>6 DEF Stage, PastLook, During
<1>9. "needs-human" \in labels' => Stage("create", n)'
    <2>1. 1..n = {}
        BY <1>4
    <2> QED
        BY <1>6, <2>1 DEF Stage, PastLook, During, NoneLive
<1>10. PICK place \in Places : Goes(r, place) /\ Stage(place, n)'
    BY <1>7, <1>8, <1>9 DEF Places
<1> QED
    BY <1>1, <1>2, <1>5, <1>6, <1>10, SplitKept, StageAhead DEF StageNext

LEMMA TakesMarkBackStage == ASSUME OneInv, NEW r \in Runs, TakesMarkBack(r) PROVE StageNext(r)
<1>1. /\ Types /\ SplitInv /\ kids' = kids /\ mine' = mine /\ open' = open /\ umbrella' = umbrella
      /\ overtaken' = overtaken
    BY DEF OneInv, TurnInv, TakesMarkBack, Labels, history
<1>2. PICK n : n = Len(mine[r]) /\ n = Len(mine'[r]) /\ Stage(pc[r], n)
    BY <1>1 DEF OneInv
<1>3. NoneLive /\ "queue" \in labels'
    BY <1>2 DEF Stage, PastLook, TakesMarkBack, Labels
<1>4. NoNewLive /\ DraftsGrow /\ NoneLive'
    BY <1>1, <1>3, SameKids
<1>5. SplitOnce' /\ NothingLost' /\ Held' /\ Whole'
    BY <1>1, <1>3, <1>4 DEF SplitInv, SplitOnce, NothingLost, Held, Whole, NoNewLive
<1>6. ClosedDone'
    BY <1>1, <1>4 DEF SplitInv, ClosedDone, DraftsGrow
<1>7. Goes(r, "idle") /\ "idle" \in Places /\ Stage("idle", n)'
    BY DEF TakesMarkBack, Calls, Places, Stage, PastLook, During
<1> QED
    BY <1>1, <1>2, <1>4, <1>5, <1>6, <1>7, StageAhead DEF StageNext, SplitInv

LEMMA DequeuesStage == ASSUME OneInv, NEW r \in Runs, Dequeues(r) PROVE StageNext(r)
<1>1. /\ Types /\ SplitInv /\ kids' = kids /\ mine' = mine /\ open' = open /\ umbrella' = umbrella
      /\ overtaken' = overtaken
    BY DEF OneInv, TurnInv, Dequeues, Labels, history
<1>2. PICK n : n = Len(mine[r]) /\ n = Len(mine'[r]) /\ Stage(pc[r], n)
    BY <1>1 DEF OneInv
<1>3. "needs-human" \in labels' /\ 1..Drafts \subseteq SubDrafts
    BY <1>2 DEF Stage, During, Dequeues, Labels
<1>4. NoNewLive /\ DraftsGrow
    BY <1>1, SameKids
<1>5. SplitOnce' /\ NothingLost' /\ Held' /\ Whole' /\ ClosedDone'
    BY <1>1, <1>3, <1>4 DEF SplitInv, SplitOnce, NothingLost, Held, Whole, ClosedDone, NoNewLive, DraftsGrow
<1>6. (Goes(r, "comment") /\ "queue" \notin labels') \/ Goes(r, "failed")
    BY DEF Dequeues, Calls, Labels
<1>7. Stage("failed", n)' /\ ("queue" \notin labels' => Stage("comment", n)')
    BY <1>3, <1>4 DEF Stage, PastLook, During, DraftsGrow
<1>8. PICK place \in Places : Goes(r, place) /\ Stage(place, n)'
    BY <1>6, <1>7 DEF Places
<1> QED
    BY <1>1, <1>2, <1>4, <1>5, <1>8, StageAhead DEF StageNext, SplitInv

LEMMA CommentsStage == ASSUME OneInv, NEW r \in Runs, Comments(r) PROVE StageNext(r)
<1>1. /\ Types /\ SplitInv /\ kids' = kids /\ mine' = mine /\ open' = open /\ labels' = labels
      /\ overtaken' = overtaken
    BY DEF OneInv, TurnInv, Comments, history
<1>2. PICK n : n = Len(mine[r]) /\ n = Len(mine'[r]) /\ Stage(pc[r], n)
    BY <1>1 DEF OneInv
<1>3. "needs-human" \in labels' /\ "queue" \notin labels' /\ 1..Drafts \subseteq SubDrafts
    BY <1>1, <1>2 DEF Stage, During, Comments
<1>4. NoNewLive /\ DraftsGrow
    BY <1>1, SameKids
<1>5. SplitOnce' /\ NothingLost' /\ Held' /\ Whole' /\ ClosedDone'
    BY <1>1, <1>3, <1>4 DEF SplitInv, SplitOnce, NothingLost, Held, Whole, ClosedDone, NoNewLive, DraftsGrow
<1>6. Stage("failed", n)' /\ Stage("release", n)'
    BY <1>3, <1>4 DEF Stage, PastLook, During, DraftsGrow
<1>7. PICK place \in Places : Goes(r, place) /\ Stage(place, n)'
    BY <1>6 DEF Comments, Calls, Places
<1> QED
    BY <1>1, <1>2, <1>4, <1>5, <1>7, StageAhead DEF StageNext, SplitInv

LEMMA ReleasesIssueStage == ASSUME OneInv, NEW r \in Runs, ReleasesIssue(r) PROVE StageNext(r)
<1>1. /\ Types /\ SplitInv /\ kids' = kids /\ mine' = mine /\ open' = open /\ umbrella' = umbrella
      /\ overtaken' = overtaken
    BY DEF OneInv, TurnInv, ReleasesIssue, Labels, history
<1>2. PICK n : n = Len(mine[r]) /\ n = Len(mine'[r]) /\ Stage(pc[r], n)
    BY <1>1 DEF OneInv
<1>3. "queue" \notin labels' /\ 1..Drafts \subseteq SubDrafts
    BY <1>2 DEF Stage, ReleasesIssue, Labels
<1>4. umbrella
    BY DEF ReleasesIssue, OneInv, TurnInv, Told
<1>5. NoNewLive /\ DraftsGrow
    BY <1>1, SameKids
<1>6. SplitOnce' /\ NothingLost' /\ Held' /\ Whole' /\ ClosedDone'
    BY <1>1, <1>3, <1>4, <1>5 DEF SplitInv, SplitOnce, NothingLost, Held, Whole, ClosedDone, NoNewLive, DraftsGrow
<1>7. Goes(r, "idle") /\ "idle" \in Places /\ Stage("idle", n)'
    BY DEF ReleasesIssue, Calls, Places, Stage, PastLook, During
<1> QED
    BY <1>1, <1>2, <1>5, <1>6, <1>7, StageAhead DEF StageNext, SplitInv

LEMMA ClosesUmbrellaStage == ASSUME OneInv, NEW r \in Runs, ClosesUmbrella(r) PROVE StageNext(r)
<1>1. /\ Types /\ SplitInv /\ kids' = kids /\ mine' = mine /\ labels' = labels /\ umbrella' = umbrella
      /\ overtaken' = overtaken
    BY DEF OneInv, TurnInv, ClosesUmbrella, history
<1>2. PICK n : n = Len(mine[r]) /\ n = Len(mine'[r]) /\ Stage(pc[r], n)
    BY <1>1 DEF OneInv
<1>3. ~overtaken => 1..Drafts \subseteq DoneDrafts
    BY <1>2 DEF ClosesUmbrella, Stage
<1>4. NoNewLive /\ DraftsGrow
    BY <1>1, SameKids
<1>5. open' => open
    BY Zenon DEF ClosesUmbrella
<1>6. SplitOnce' /\ Held' /\ Whole' /\ ClosedDone'
    BY <1>1, <1>3, <1>4 DEF SplitInv, SplitOnce, Held, NoneLive, Whole, ClosedDone, NoNewLive, DraftsGrow
<1>7. NothingLost'
    BY <1>1, <1>5 DEF SplitInv, NothingLost
<1>8. Goes(r, "idle") /\ "idle" \in Places /\ Stage("idle", n)'
    BY DEF ClosesUmbrella, Calls, Places, Stage, PastLook, During
<1> QED
    BY <1>1, <1>2, <1>4, <1>6, <1>7, <1>8, StageAhead DEF StageNext, SplitInv

\* A split that ends leaves the issue as its labels say.
LEMMA ForgetsStage == ASSUME OneInv, NEW r \in Runs, GivesUp(r) \/ Killed(r) PROVE StageNext(r)
<1>1. Types /\ SplitInv /\ kids' = kids /\ Goes(r, "idle") /\ "idle" \in Places
    BY DEF OneInv, TurnInv, GivesUp, Killed, Calls, Places
<1>2. LabelsKept /\ open' = open
    BY DEF GivesUp, Killed, Labels, LabelsKept, issue, history
<1>3. NoNewLive /\ DraftsGrow
    BY <1>1, SameKids
<1>4. PICK n : n = Len(mine'[r])
    OBVIOUS
<1>5. Stage("idle", n)'
    BY DEF Stage, PastLook, During
<1> QED
    BY <1>1, <1>2, <1>3, <1>4, <1>5, SplitKept, StageAhead DEF StageNext

LEMMA CreatesStage == ASSUME OneInv, NEW r \in Runs, Creates(r) PROVE StageNext(r)
<1>1. /\ Types /\ SplitInv /\ pc[r] = "create" /\ Fits(mine[r], "create")
      /\ UNCHANGED <<issue, kills, people>> /\ overtaken' = overtaken
      /\ mine' = [mine EXCEPT ![r] = IF pc'[r] = "sub" THEN Append(@, Len(kids')) ELSE @]
    BY DEF OneInv, TurnInv, Creates, history
<1>2. PICK n \in Nat : n = Len(mine[r]) /\ Stage("create", n) /\ n < Drafts
    BY <1>1, MineIs DEF OneInv, Fits
<1>3. "needs-human" \in labels /\ (\A k \in Kids : Live(k) => kids[k].draft <= n) /\ 1..n \subseteq SubDrafts
    BY <1>2 DEF Stage, During
<1>4. PICK worked \in BOOLEAN : Calls(r, worked, "sub", "failed") /\ Unless(worked, Append(kids, Kid(n + 1)))
    BY <1>2 DEF Creates
<1>5. PICK draft \in 1..Drafts : draft = n + 1
    BY <1>2
<1>6. Kids = 1..Len(kids) /\ Len(kids) \in Nat /\ \A k \in Kids : kids[k] \in KidRecords
    BY <1>1, KidsAre
<1>7. \A k \in Kids : kids[k].draft \in Nat
    BY <1>6 DEF KidRecords
<1>8. DraftsGrow /\ SplitOnce' /\ \A k \in Kids' : Live(k)' => kids'[k].draft <= n + 1
    <2>1. CASE kids' = kids
        BY <1>1, <1>2, <1>3, <1>7, <2>1, SameKids DEF NoNewLive, SplitInv, SplitOnce
    <2>2. CASE kids' = Append(kids, Kid(draft))
        <3>1. /\ Kids' = 1..(Len(kids) + 1) /\ \A j \in Kids : j \in Kids' /\ kids'[j] = kids[j]
              /\ kids'[Len(kids) + 1] = Kid(draft)
            BY <1>1, <2>2, CreatesOne
        <3>2. \A j \in Kids' : j \in Kids \/ j = Len(kids) + 1
            BY <1>6, <3>1
        <3>3. kids'[Len(kids) + 1].draft = n + 1 /\ ~kids'[Len(kids) + 1].sub
            BY <1>5, <3>1 DEF Kid
        <3>4. SubIssues' = SubIssues
            BY <3>1, <3>2, <3>3 DEF SubIssues
        <3>5. \A k \in SubIssues : k \in Kids /\ kids'[k] = kids[k]
            BY <3>1 DEF SubIssues
        <3>6. DraftsGrow
            BY <3>4, <3>5 DEF DraftsGrow, SubDrafts, DoneDrafts
        <3>7. \A k \in Kids : (Live(k)' <=> Live(k)) /\ kids'[k].draft = kids[k].draft
            BY <3>1 DEF Live
        <3>8. \A k \in Kids' : Live(k)' => kids'[k].draft <= n + 1
            BY <1>2, <1>3, <1>7, <3>2, <3>3, <3>7
        <3>9. SplitOnce'
            <4> SUFFICES ASSUME NEW j \in Kids', NEW k \in Kids', Live(j)', Live(k)', kids'[j].draft = kids'[k].draft
                         PROVE  j = k
                BY DEF SplitOnce
            <4>1. CASE j \in Kids /\ k \in Kids
                BY <1>1, <3>7, <4>1 DEF SplitInv, SplitOnce
            <4>2. \A i \in Kids : Live(i)' => kids'[i].draft # n + 1
                BY <1>2, <1>3, <1>7, <3>7
            <4>3. CASE j = Len(kids) + 1 \/ k = Len(kids) + 1
                BY <3>2, <3>3, <4>2, <4>3
            <4> QED
                BY <3>2, <4>1, <4>3
        <3> QED
            BY <3>6, <3>8, <3>9
    <2> QED
        BY <1>4, <1>5, <2>1, <2>2 DEF Unless
<1>9. SplitInv'
    <2>1. labels' = labels /\ open' = open /\ umbrella' = umbrella
        BY <1>1 DEF issue
    <2>2. NothingLost' /\ Held' /\ Whole' /\ ClosedDone'
        BY <1>1, <1>3, <1>8, <2>1 DEF SplitInv, NothingLost, Held, Whole, ClosedDone, DraftsGrow
    <2> QED
        BY <1>8, <2>2 DEF SplitInv
<1>10. CASE Goes(r, "sub")
    <2>1. pc'[r] = "sub" /\ "sub" \in Places
        BY <1>1, <1>10, GoesTyped DEF Places
    <2>2. Len(kids') \in Nat
        <3>1. kids' = kids \/ kids' = Append(kids, Kid(draft))
            BY <1>4, <1>5 DEF Unless
        <3> QED
            BY <1>1, <1>6, <3>1, CreatesOne
    <2>3. mine'[r] = Append(mine[r], Len(kids')) /\ mine[r] \in Seq(Nat)
        BY <1>1, <2>1, MineIs DEF Types
    <2>4. Len(mine'[r]) = n + 1
        BY <1>2, <2>2, <2>3, AppendProperties
    <2>5. n + 1 - 1 = n
        BY <1>2
    <2>6. Stage("sub", n + 1)'
        BY <1>1, <1>3, <1>8, <2>5 DEF Stage, PastLook, During, DraftsGrow, issue
    <2> QED
        BY <1>1, <1>8, <1>9, <1>10, <2>1, <2>4, <2>6, StageAhead DEF StageNext
<1>11. CASE Goes(r, "failed")
    <2>1. "failed" \in Places
        BY DEF Places
    <2>2. PICK m : m = Len(mine'[r])
        OBVIOUS
    <2>3. Stage("failed", m)'
        BY <1>1, <1>3 DEF Stage, PastLook, During, issue
    <2> QED
        BY <1>1, <1>8, <1>9, <1>11, <2>1, <2>2, <2>3, StageAhead DEF StageNext
<1> QED
    BY <1>4, <1>10, <1>11 DEF Calls

\* An edit of one child that neither ends it nor revives it.
LEMMA EditKeeps ==
    ASSUME Types, NEW k \in Kids, NEW kid \in KidRecords, kid.after < k, kids' = [kids EXCEPT ![k] = kid],
           kid.draft = kids[k].draft, kid.state = kids[k].state, kids[k].sub => kid.sub
    PROVE  /\ NoNewLive /\ DraftsGrow
           /\ kid.sub => kid.draft \in SubDrafts'
<1>1. Kids' = Kids /\ \A j \in Kids : kids'[j] = IF j = k THEN kid ELSE kids[j]
    BY ChangesOne
<1>2. \A j \in Kids : kids'[j].draft = kids[j].draft /\ kids'[j].state = kids[j].state
    BY <1>1
<1>3. \A j \in Kids : kids[j].sub => kids'[j].sub
    BY <1>1
<1>4. NoNewLive
    BY <1>1, <1>2 DEF NoNewLive, Live
<1>5. SubIssues \subseteq SubIssues' /\ SubIssues \subseteq Kids
    BY <1>1, <1>3 DEF SubIssues
<1>6. SubDrafts \subseteq SubDrafts'
    BY <1>2, <1>5 DEF SubDrafts
<1>7. DoneDrafts \subseteq DoneDrafts'
    BY <1>2, <1>5 DEF DoneDrafts
<1>9. kid.sub => kid.draft \in SubDrafts'
    BY <1>1 DEF SubDrafts, SubIssues
<1> QED
    BY <1>4, <1>6, <1>7, <1>9 DEF DraftsGrow

LEMMA AddsSubIssueStage == ASSUME OneInv, NEW r \in Runs, AddsSubIssue(r) PROVE StageNext(r)
<1>1. /\ TurnInv /\ Types /\ SplitInv /\ pc[r] = "sub" /\ Fits(mine[r], "sub")
      /\ mine' = mine /\ LabelsKept /\ open' = open /\ labels' = labels
    BY DEF OneInv, TurnInv, AddsSubIssue, LabelsKept, issue, history
<1>2. PICK n \in Nat : n = Len(mine[r]) /\ n = Len(mine'[r]) /\ n > 0 /\ Stage("sub", n)
    BY <1>1, MineIs DEF OneInv, Fits
<1>3. /\ "needs-human" \in labels /\ \A k \in Kids : Live(k) => kids[k].draft <= n
      /\ 1..(n - 1) \subseteq SubDrafts
    BY <1>2 DEF Stage, During
<1>4. PICK k \in Kids : k = Last(mine[r]) /\ kids[k] \in KidRecords /\ k = mine[r][n]
    BY <1>1, <1>2, LastIs
<1>5. kids[k].draft = n /\ kids[k].after < k /\ n <= Drafts
    BY <1>1, <1>2, <1>4 DEF Fits, Types
<1>6. NextDraft(r) \in {"create", "dequeue"} /\ (NextDraft(r) = "dequeue" => n = Drafts)
    BY <1>1, <1>2, NextDraftIs DEF Fits
<1>7. PICK worked \in BOOLEAN :
        /\ Calls(r, worked, IF n > 1 THEN "link" ELSE NextDraft(r), "failed")
        /\ Unless(worked, [kids EXCEPT ![k].sub = TRUE])
    BY <1>2, <1>4 DEF AddsSubIssue
<1>8. CASE kids' = kids /\ Goes(r, "failed")
    <2>1. NoNewLive /\ DraftsGrow
        BY <1>8, SameKids
    <2>2. Stage("failed", n)' /\ "failed" \in Places
        BY <1>1, <1>3 DEF Stage, PastLook, During, Places
    <2> QED
        BY <1>1, <1>2, <1>8, <2>1, <2>2, SplitKept, StageAhead DEF StageNext
<1>9. CASE kids' = [kids EXCEPT ![k] = [kids[k] EXCEPT !.sub = TRUE]]
    <2>1. PICK kid \in KidRecords :
            /\ kid = [kids[k] EXCEPT !.sub = TRUE] /\ kid.draft = kids[k].draft /\ kid.after = kids[k].after
            /\ kid.marked = kids[k].marked /\ kid.state = kids[k].state
        BY <1>4, SubEdited, Zenon
    <2>2. kid.sub
        BY <1>4, <2>1 DEF KidRecords
    <2>3. NoNewLive /\ DraftsGrow /\ n \in SubDrafts'
        BY <1>1, <1>5, <1>9, <2>1, <2>2, EditKeeps
    <2>4. 1..n \subseteq SubDrafts'
        <3>1. \A i \in 1..n : i \in 1..(n - 1) \/ i = n
            BY <1>2
        <3> QED
            BY <1>3, <2>3, <3>1 DEF DraftsGrow
    <2>5. \A i \in Kids' : Live(i)' => kids'[i].draft <= n
        BY <1>3, <2>3 DEF NoNewLive
    <2>6. Stage("link", n)' /\ Stage("create", n)' /\ Stage("failed", n)' /\ (n = Drafts => Stage("dequeue", n)')
        BY <1>1, <1>3, <2>4, <2>5 DEF Stage, PastLook, During
    <2>7. PICK place \in Places : Goes(r, place) /\ Stage(place, n)'
        BY <1>6, <1>7, <2>6 DEF Calls, Places
    <2> QED
        BY <1>1, <1>2, <2>3, <2>7, SplitKept, StageAhead DEF StageNext
<1> QED
    BY <1>7, <1>8, <1>9 DEF Unless, Calls

LEMMA LinksStage == ASSUME OneInv, NEW r \in Runs, Links(r) PROVE StageNext(r)
<1>1. /\ TurnInv /\ Types /\ SplitInv /\ pc[r] = "link" /\ Fits(mine[r], "link")
      /\ mine' = mine /\ LabelsKept /\ open' = open /\ labels' = labels
    BY DEF OneInv, TurnInv, Links, LabelsKept, issue, history
<1>2. PICK n \in Nat : n = Len(mine[r]) /\ n = Len(mine'[r]) /\ n > 1 /\ Stage("link", n)
    BY <1>1, MineIs DEF OneInv, Fits
<1>3. PICK k \in Kids : k = Last(mine[r]) /\ kids[k] \in KidRecords /\ k = mine[r][n]
    BY <1>1, <1>2, LastIs
<1>4. n - 1 \in 1..n /\ n \in 1..n /\ n - 1 < n
    BY <1>2
<1>5. PICK before \in Nat : before = mine[r][n - 1] /\ before < k
    <2>1. mine[r][n - 1] \in Nat
        BY <1>1, <1>2, <1>4, MineIs
    <2>2. \A i, j \in 1..n : i < j => mine[r][i] < mine[r][j]
        BY <1>1, <1>2 DEF Fits
    <2>3. mine[r][n - 1] < mine[r][n]
        BY <1>4, <2>2
    <2> QED
        BY <1>3, <2>1, <2>3
<1>6. NextDraft(r) \in {"create", "dequeue"} /\ (NextDraft(r) = "dequeue" => n = Drafts)
    BY <1>1, <1>2, NextDraftIs DEF Fits
<1>7. PICK worked \in BOOLEAN :
        /\ Calls(r, worked, NextDraft(r), "failed") /\ Unless(worked, [kids EXCEPT ![k].after = before])
    BY <1>2, <1>3, <1>5 DEF Links
<1>8. NoNewLive /\ DraftsGrow
    <2>1. CASE kids' = kids
        BY <2>1, SameKids
    <2>2. CASE kids' = [kids EXCEPT ![k] = [kids[k] EXCEPT !.after = before]]
        <3>1. PICK kid \in KidRecords :
                /\ kid = [kids[k] EXCEPT !.after = before] /\ kid.draft = kids[k].draft /\ kid.after = before
                /\ kid.marked = kids[k].marked /\ kid.sub = kids[k].sub /\ kid.state = kids[k].state
            BY <1>3, AfterEdited
        <3> QED
            BY <1>1, <1>5, <2>2, <3>1, EditKeeps
    <2> QED
        BY <1>7, <2>1, <2>2 DEF Unless
<1>9. Stage("link", n)'
    BY <1>1, <1>2, <1>8, StageKept
<1>10. Stage("create", n)' /\ Stage("failed", n)' /\ (n = Drafts => Stage("dequeue", n)')
    BY <1>9 DEF Stage, PastLook, During
<1>11. PICK place \in Places : Goes(r, place) /\ Stage(place, n)'
    BY <1>6, <1>7, <1>10 DEF Calls, Places
<1> QED
    BY <1>1, <1>2, <1>8, <1>11, SplitKept, StageAhead DEF StageNext

LEMMA ReleasesChildStage == ASSUME OneInv, NEW r \in Runs, ReleasesChild(r) PROVE StageNext(r)
<1>1. /\ Types /\ SplitInv /\ pc[r] = "release" /\ Fits(mine[r], "release")
      /\ LabelsKept /\ open' = open
    BY DEF OneInv, TurnInv, ReleasesChild, LabelsKept, issue, history
<1>2. mine[r] \in Seq(Nat) /\ mine[r] # <<>> /\ Len(mine[r]) \in Nat /\ Len(mine[r]) > 0
    BY <1>1, MineIs, EmptySeq DEF ReleasesChild
<1>3. PICK k \in Kids : k = Head(mine[r]) /\ kids[k] \in KidRecords
    BY <1>1, <1>2, KidsAre DEF Fits
<1>4. PICK worked \in BOOLEAN :
        Calls(r, worked, "release", "release") /\ Unless(worked, [kids EXCEPT ![k].marked = FALSE])
    BY <1>3 DEF ReleasesChild
<1>5. NoNewLive /\ DraftsGrow
    <2>1. CASE kids' = kids
        BY <2>1, SameKids
    <2>2. CASE kids' = [kids EXCEPT ![k] = [kids[k] EXCEPT !.marked = FALSE]]
        <3>1. PICK kid \in KidRecords :
                /\ kid = [kids[k] EXCEPT !.marked = FALSE] /\ kid.draft = kids[k].draft
                /\ kid.after = kids[k].after /\ kid.sub = kids[k].sub /\ kid.state = kids[k].state
            BY <1>3, MarkEdited, Zenon
        <3>2. kid.after < k
            BY <1>1, <3>1 DEF Types
        <3> QED
            BY <1>1, <2>2, <3>1, <3>2, EditKeeps
    <2> QED
        BY <1>4, <2>1, <2>2 DEF Unless
<1>6. PICK n : n = Len(mine'[r])
    OBVIOUS
<1>7. Stage("release", n)
    <2>1. Stage("release", Len(mine[r]))
        BY <1>1 DEF OneInv
    <2> QED
        BY <2>1 DEF Stage, PastLook, During
<1>8. Stage("release", n)' /\ Goes(r, "release") /\ "release" \in Places
    BY <1>1, <1>4, <1>5, <1>7, StageKept DEF Calls, Places
<1> QED
    BY <1>1, <1>5, <1>6, <1>8, SplitKept, StageAhead DEF StageNext

\* Steps of nobody's split.
OthersStay == SplitInv' /\ \A q \in Runs : Stage(pc[q], Len(mine[q]))'

LEMMA EndsStage == ASSUME OneInv, NEW k \in Kids, Builds(k) \/ Drops(k) PROVE OthersStay
<1>1. /\ Types /\ SplitInv /\ LabelsKept /\ open' = open /\ pc' = pc /\ mine' = mine
      /\ kids[k].state = "open" /\ kids[k] \in KidRecords
    BY KidsAre DEF OneInv, TurnInv, Builds, Drops, LabelsKept, issue, history
<1>2. PICK state \in {"completed", "dropped"} : kids' = [kids EXCEPT ![k] = [kids[k] EXCEPT !.state = state]]
    BY DEF Builds, Drops
<1>3. PICK kid \in KidRecords :
        /\ kid = [kids[k] EXCEPT !.state = state] /\ kid.draft = kids[k].draft /\ kid.after = kids[k].after
        /\ kid.marked = kids[k].marked /\ kid.sub = kids[k].sub /\ kid.state = state
    <2>1. state \in {"open", "completed", "dropped"}
        OBVIOUS
    <2> QED
        BY <1>1, <2>1, StateEdited, Zenon
<1>4. kid.after < k
    BY <1>1, <1>3 DEF Types
<1>5. Kids' = Kids /\ \A j \in Kids : kids'[j] = IF j = k THEN kid ELSE kids[j]
    BY <1>1, <1>2, <1>3, <1>4, ChangesOne
<1>6. \A j \in Kids : kids'[j].draft = kids[j].draft /\ kids'[j].sub = kids[j].sub
    BY <1>3, <1>5
<1>7. NoNewLive
    BY <1>1, <1>5, <1>6 DEF NoNewLive, Live
<1>8. SubIssues' = SubIssues /\ SubIssues \subseteq Kids
    BY <1>5, <1>6 DEF SubIssues
<1>9. \A j \in Kids : kids[j].state = "completed" => kids'[j].state = "completed"
    BY <1>1, <1>5
<1>10. DraftsGrow
    BY <1>6, <1>8, <1>9 DEF DraftsGrow, SubDrafts, DoneDrafts
<1>11. ASSUME NEW q \in Runs PROVE Stage(pc[q], Len(mine[q]))'
    <2>1. PICK place, n : place = pc[q] /\ n = Len(mine[q]) /\ Stage(place, n)
        BY DEF OneInv
    <2>2. Stage(place, n)'
        BY <1>1, <1>7, <1>10, <2>1, StageKept
    <2> QED
        BY <1>1, <2>1, <2>2, StageThere
<1> QED
    BY <1>1, <1>7, <1>10, <1>11, SplitKept DEF OthersStay

LEMMA AtRestStage ==
    ASSUME AtRest, NEW q \in Runs, pc' = pc, mine' = mine,
           pc[q] = "children" /\ ~overtaken' => 1..Drafts \subseteq SubDrafts',
           pc[q] = "close" /\ ~overtaken' => 1..Drafts \subseteq DoneDrafts'
    PROVE  Stage(pc[q], Len(mine[q]))'
<1>1. PICK place, n : place = pc[q] /\ place = pc'[q] /\ n = Len(mine'[q])
    OBVIOUS
<1>2. place \in {"idle", "sent", "children", "close"}
    BY <1>1 DEF AtRest
<1>3. Stage(place, n)'
    BY <1>1, <1>2 DEF Stage, PastLook, During
<1> QED
    BY <1>1, <1>3, StageThere

LEMMA FinishesByHandStage == ASSUME OneInv, NEW k \in Kids, FinishesByHand(k) PROVE OthersStay
<1>1. /\ TurnInv /\ Types /\ SplitInv /\ pc' = pc /\ mine' = mine /\ AtRest
      /\ open' = open /\ umbrella' = umbrella /\ labels' = labels \ {"queue"} /\ overtaken' = overtaken
      /\ kids[k].state = "open" /\ kids[k] \in KidRecords /\ k \in Nat \ {0}
    BY KidsAre DEF OneInv, TurnInv, FinishesByHand, Labels, history
<1>2. PICK after \in Nat : after = IF k > 1 THEN k - 1 ELSE 0
    BY <1>1
<1> DEFINE kid == [kids[k] EXCEPT !.marked = FALSE, !.sub = TRUE, !.after = after]
<1>3. kid \in KidRecords /\ kid.after = after /\ kid.draft = kids[k].draft /\ kid.sub
    BY <1>1 DEF KidRecords
<1>4. kid.state = kids[k].state
    BY <1>1 DEF KidRecords
<1>5. kids' = [kids EXCEPT ![k] = kid]
    <2>1. kids' = [kids EXCEPT ![k].marked = FALSE, ![k].sub = TRUE, ![k].after = after]
        BY <1>2 DEF FinishesByHand
    <2>2. kids = [j \in Kids |-> kids[j]]
        BY <1>1, LenProperties DEF Types, Kids
    <2> QED
        BY <1>1, <2>1, <2>2 DEF KidRecords
<1> HIDE DEF kid
<1>6. kid.after < k
    BY <1>1, <1>2, <1>3
<1>7. NoNewLive /\ DraftsGrow
    BY <1>1, <1>3, <1>4, <1>5, <1>6, EditKeeps
<1>8. ~NoneLive
    BY <1>1 DEF NoneLive, Live
<1>9. "needs-human" \in labels \/ "queue" \notin labels
    BY <1>1, <1>8 DEF SplitInv, Held
<1>10. SplitOnce' /\ NothingLost' /\ Held' /\ Whole' /\ ClosedDone'
    BY <1>1, <1>7, <1>9 DEF SplitInv, SplitOnce, NothingLost, Held, Whole, ClosedDone, NoNewLive, DraftsGrow
<1>11. ASSUME NEW q \in Runs PROVE Stage(pc[q], Len(mine[q]))'
    <2>1. Stage(pc[q], Len(mine[q]))
        BY DEF OneInv
    <2>2. pc[q] = "children" /\ ~overtaken' => 1..Drafts \subseteq SubDrafts'
        BY <1>1, <1>7, <2>1 DEF Stage, DraftsGrow
    <2>3. pc[q] = "close" /\ ~overtaken' => 1..Drafts \subseteq DoneDrafts'
        BY <1>1, <1>7, <2>1 DEF Stage, DraftsGrow
    <2> QED
        BY <1>1, <2>2, <2>3, AtRestStage
<1> QED
    BY <1>10, <1>11 DEF OthersStay, SplitInv

\* A person who changes an umbrella's children overtakes a run that has read it.
LEMMA OvertakesRead ==
    ASSUME Overtakes, ~overtaken'
    PROVE  open /\ ~overtaken /\ \A q \in Runs : pc[q] \notin {"children", "close"}
<1>1. ~(overtaken \/ ~open \/ \E r \in Runs : pc[r] \in {"children", "close"})
    BY Zenon DEF Overtakes
<1> QED
    BY <1>1

LEMMA StartsOverStage == ASSUME OneInv, StartsOver PROVE OthersStay
<1>1. /\ Types /\ pc' = pc /\ mine' = mine /\ AtRest /\ open /\ open' = open /\ labels' = {"queue"}
      /\ kids' = [k \in Kids |-> [kids[k] EXCEPT !.state = "dropped", !.sub = FALSE]]
      /\ Overtakes /\ \A k \in Kids : kids[k] \in KidRecords
    BY KidsAre DEF OneInv, TurnInv, StartsOver
<1>2. Kids' = Kids
    BY <1>1 DEF Kids
<1>3. \A k \in Kids' : ~Live(k)'
    BY <1>1, <1>2 DEF Live, KidRecords
<1>4. SplitOnce' /\ NothingLost' /\ Held' /\ Whole' /\ ClosedDone'
    BY <1>1, <1>3 DEF SplitOnce, NothingLost, Held, NoneLive, Whole, ClosedDone
<1>5. ASSUME NEW q \in Runs PROVE Stage(pc[q], Len(mine[q]))'
    BY <1>1, OvertakesRead, AtRestStage
<1> QED
    BY <1>4, <1>5 DEF OthersStay, SplitInv

\* A child reopened is live as before; what was done is not.
LEMMA ReopensStage == ASSUME OneInv, NEW k \in Kids, Reopens(k) PROVE OthersStay
<1>1. /\ Types /\ SplitInv /\ labels' = labels /\ umbrella' = umbrella /\ open' = open
      /\ pc' = pc /\ mine' = mine /\ Overtakes
      /\ kids[k].state = "completed" /\ kids[k] \in KidRecords
    BY KidsAre DEF OneInv, TurnInv, Reopens, issue
<1>2. kids' = [kids EXCEPT ![k] = [kids[k] EXCEPT !.state = "open"]]
    BY DEF Reopens
<1>3. PICK kid \in KidRecords :
        /\ kid = [kids[k] EXCEPT !.state = "open"] /\ kid.draft = kids[k].draft /\ kid.after = kids[k].after
        /\ kid.marked = kids[k].marked /\ kid.sub = kids[k].sub /\ kid.state = "open"
    BY <1>1, StateEdited, Zenon
<1>4. kid.after < k
    BY <1>1, <1>3 DEF Types
<1>5. Kids' = Kids /\ \A j \in Kids : kids'[j] = IF j = k THEN kid ELSE kids[j]
    BY <1>1, <1>2, <1>3, <1>4, ChangesOne
<1>6. \A j \in Kids : kids'[j].draft = kids[j].draft /\ kids'[j].sub = kids[j].sub
    BY <1>3, <1>5
<1>7. NoNewLive
    BY <1>1, <1>5, <1>6 DEF NoNewLive, Live
<1>8. SubDrafts' = SubDrafts
    BY <1>5, <1>6 DEF SubDrafts, SubIssues
<1>9. SplitOnce' /\ NothingLost' /\ Held' /\ Whole'
    BY <1>1, <1>7, <1>8 DEF SplitInv, SplitOnce, NothingLost, Held, NoneLive, Whole, NoNewLive
<1>10. ClosedDone'
    BY <1>1, OvertakesRead DEF ClosedDone
<1>11. ASSUME NEW q \in Runs PROVE Stage(pc[q], Len(mine[q]))'
    <2>1. PICK place, n : place = pc[q] /\ n = Len(mine[q]) /\ Stage(place, n)
        BY DEF OneInv
    <2>2. ~overtaken' => place \notin {"children", "close"}
        BY <1>1, <2>1, OvertakesRead
    <2>3. NoneLive => NoneLive'
        BY <1>7 DEF NoNewLive, NoneLive
    <2>4. \A j \in Kids' : Live(j)' => j \in Kids /\ Live(j) /\ kids'[j].draft = kids[j].draft
        BY <1>7 DEF NoNewLive
    <2>5. Stage(place, n)'
        BY <1>1, <1>8, <2>1, <2>2, <2>3, <2>4 DEF Stage, PastLook, During
    <2> QED
        BY <1>1, <2>1, <2>5, StageThere
<1> QED
    BY <1>9, <1>10, <1>11 DEF OthersStay, SplitInv

\* A run that has got past its look and goes on does so alone.
LEMMA OthersWait ==
    ASSUME OneInv, NEW r \in Runs, pc[r] \in Active, NEW q \in Runs, q # r
    PROVE  pc[q] \in {"idle", "sent", "children", "close"}
<1>1. pc[q] \in Places /\ pc[q] \notin Active
    BY DEF OneInv, TurnInv, Types, Alone
<1> QED
    BY <1>1 DEF Active, PastLook, Splitting, Places

\* A run's step leaves the others where they were.
RunSteps(r) ==
    \/ Reads(r) \/ MarksReady(r) \/ Asks(r) \/ AsksLabel(r) \/ Marks(r) \/ TakesMarkBack(r)
    \/ Dequeues(r) \/ Comments(r) \/ ReleasesIssue(r) \/ ClosesUmbrella(r)
    \/ Creates(r) \/ AddsSubIssue(r) \/ Links(r) \/ ReleasesChild(r) \/ GivesUp(r) \/ Killed(r)

Advances(r) ==
    \/ MarksReady(r) \/ Asks(r) \/ AsksLabel(r) \/ Marks(r) \/ TakesMarkBack(r)
    \/ Dequeues(r) \/ Comments(r) \/ ReleasesIssue(r)
    \/ Creates(r) \/ AddsSubIssue(r) \/ Links(r) \/ ReleasesChild(r) \/ GivesUp(r)

LEMMA OneMoves ==
    ASSUME TurnInv, NEW r \in Runs, RunSteps(r)
    PROVE  /\ \A q \in Runs : q # r => pc'[q] = pc[q] /\ mine'[q] = mine[q]
           /\ overtaken' = overtaken
           /\ \/ pc[r] \in Active
              \/ /\ kids' = kids /\ labels' = labels /\ umbrella' = umbrella
                 /\ Verdict(r) \/ pc'[r] \notin Active
<1>1. Types
    BY DEF TurnInv
<1>2. CASE Advances(r)
    <2>1. pc[r] \in Active
        BY <1>2 DEF Advances, MarksReady, Asks, AsksLabel, Marks, TakesMarkBack, Dequeues, Comments, ReleasesIssue,
                    Creates, AddsSubIssue, Links, ReleasesChild, GivesUp, Active, PastLook, Splitting
    <2>2. \E place : Goes(r, place)
        BY <1>2 DEF Advances, MarksReady, Asks, AsksLabel, Marks, TakesMarkBack, Dequeues, Comments, ReleasesIssue,
                    Creates, AddsSubIssue, Links, ReleasesChild, GivesUp, Calls
    <2>3. mine' = mine \/ \E seq : mine' = [mine EXCEPT ![r] = seq]
        BY <1>2 DEF Advances, MarksReady, Asks, AsksLabel, Marks, TakesMarkBack, Dequeues, Comments, ReleasesIssue,
                    Creates, AddsSubIssue, Links, ReleasesChild, GivesUp
    <2>4. overtaken' = overtaken
        BY <1>2 DEF Advances, MarksReady, Asks, AsksLabel, Marks, TakesMarkBack, Dequeues, Comments, ReleasesIssue,
                    Creates, AddsSubIssue, Links, ReleasesChild, GivesUp, Labels, history
    <2> QED
        BY <1>1, <2>1, <2>2, <2>3, <2>4 DEF Types, Goes
<1>3. CASE Reads(r) \/ ClosesUmbrella(r) \/ Killed(r)
    <2>1. /\ kids' = kids /\ labels' = labels /\ umbrella' = umbrella /\ overtaken' = overtaken
          /\ mine' = mine \/ \E seq : mine' = [mine EXCEPT ![r] = seq]
        BY <1>3 DEF Reads, Lists, Verdict, FindsUmbrella, ReadsChildren, ClosesUmbrella, Killed, issue, history
    <2>2. \E place \in {"sent", "idle", "ready", "asks", "marks", "children", "close"} :
             Goes(r, place) /\ (Verdict(r) \/ place \notin Active)
        BY <1>3 DEF Reads, Lists, Verdict, FindsUmbrella, ReadsChildren, ClosesUmbrella, Killed, Calls,
                    Active, PastLook, Splitting
    <2> QED
        BY <1>1, <2>1, <2>2 DEF Types, Goes
<1> QED
    BY <1>2, <1>3 DEF RunSteps, Advances

LEMMA OthersStage ==
    ASSUME OneInv, NEW r \in Runs, RunSteps(r), DraftsGrow, NEW q \in Runs, q # r
    PROVE  Stage(pc[q], Len(mine[q]))'
<1>1. PICK place, n : place = pc[q] /\ n = Len(mine[q]) /\ Stage(place, n)
    BY DEF OneInv
<1>2. pc'[q] = place /\ Len(mine'[q]) = n /\ overtaken' = overtaken
    BY <1>1, OneMoves DEF OneInv
<1>3. CASE pc[r] \in Active
    <2>1. place \in {"idle", "sent", "children", "close"}
        BY <1>1, <1>3, OthersWait
    <2>2. Stage(place, n)'
        BY <1>1, <1>2, <2>1 DEF Stage, PastLook, During, DraftsGrow
    <2> QED
        BY <1>2, <2>2, StageThere
<1>4. CASE pc[r] \notin Active
    <2>1. kids' = kids /\ LabelsKept
        BY <1>4, OneMoves DEF OneInv, LabelsKept
    <2>2. Stage(place, n)'
        BY <1>1, <2>1, SameKids, StageKept
    <2> QED
        BY <1>2, <2>2, StageThere
<1> QED
    BY <1>3, <1>4

LEMMA AloneKept ==
    ASSUME OneInv, ~raced', NEW r \in Runs, RunSteps(r)
    PROVE  Alone'
<1>1. \A q \in Runs : q # r => pc'[q] = pc[q]
    BY OneMoves DEF OneInv
<1>2. CASE pc[r] \in Active \/ pc'[r] \notin Active
    BY <1>1, <1>2 DEF OneInv, Alone, Active, PastLook, Splitting
<1>3. CASE pc[r] \notin Active /\ pc'[r] \in Active
    <2>1. Verdict(r)
        BY <1>3, OneMoves DEF OneInv
    <2>2. ~Goes(r, "idle")
        BY <1>3, GoesTyped DEF OneInv, TurnInv, Active, PastLook, Splitting, Places
    <2>3. /\ labels \cap Judged = {} /\ "queue" \in labels
          /\ \A q \in Runs : q # r => pc[q] \notin PastLook
        BY <2>1, <2>2, VerdictLooked
    <2>4. ASSUME NEW q \in Runs, q # r PROVE pc[q] \notin Active
        <3>1. Stage(pc[q], Len(mine[q]))
            BY DEF OneInv
        <3>2. pc[q] \notin Splitting
            BY <2>3, <3>1 DEF Stage, During, Splitting, Judged
        <3> QED
            BY <2>3, <2>4, <3>2 DEF Active
    <2>5. \A q \in Runs : pc'[q] \in Active => q = r
        BY <1>1, <2>4
    <2> QED
        BY <2>5 DEF Alone, Active, PastLook, Splitting
<1> QED
    BY <1>2, <1>3

LEMMA StartsWhole == Init => KeptInv
<1> SUFFICES ASSUME Init PROVE KeptInv
    OBVIOUS
<1>1. Kids = {}
    BY DEF Init, Kids
<1>2. SplitInv
    BY <1>1 DEF Init, SplitInv, SplitOnce, NothingLost, Held, NoneLive, Whole, ClosedDone
<1>3. Alone /\ \A r \in Runs : Stage(pc[r], Len(mine[r]))
    BY DEF Init, Stage, PastLook, During, Alone, Active, Splitting
<1> QED
    BY <1>2, <1>3, StartsInTurn DEF OneInv, KeptInv

LEMMA RunKeepsWhole ==
    ASSUME OneInv, ~raced', NEW r \in Runs, RunSteps(r)
    PROVE  SplitInv' /\ Alone' /\ \A q \in Runs : Stage(pc[q], Len(mine[q]))'
<1>1. StageNext(r)
    BY ReadsStage, MarksReadyStage, TakesMarkBackStage, DequeuesStage, CommentsStage, ReleasesIssueStage,
       ClosesUmbrellaStage, CreatesStage, AddsSubIssueStage, LinksStage, ReleasesChildStage, ForgetsStage, Zenon
       DEF RunSteps
<1>2. \A q \in Runs : Stage(pc[q], Len(mine[q]))'
    BY <1>1, OthersStage DEF StageNext
<1> QED
    BY <1>1, <1>2, AloneKept DEF StageNext

LEMMA RacedStays ==
    ASSUME NEW r \in Runs, Lists(r) \/ Judges(r) \/ Sweeps(r) \/ Killed(r), raced
    PROVE  raced'
<1>1. CASE Verdict(r)
    <2>1. raced' = raced \/ \E next : raced' = (raced \/ (next # "idle" /\ Races(r)))
        BY <1>1, Zenon DEF Verdict
    <2> QED
        BY <2>1, Zenon
<1>2. CASE ~Verdict(r)
    <2>1. raced' = raced
        BY <1>2 DEF Lists, Judges, Splits, Sweeps, Killed, MarksReady, Asks, AsksLabel, Marks, TakesMarkBack, Creates,
                    AddsSubIssue, Links, Dequeues, Comments, ReleasesChild, ReleasesIssue, GivesUp, FindsUmbrella,
                    ReadsChildren, ClosesUmbrella, Labels, history
    <2> QED
        BY <2>1
<1> QED
    BY <1>1, <1>2

LEMMA StepsKeepWhole == KeptInv /\ [Next]_vars => KeptInv'
<1> SUFFICES ASSUME KeptInv, [Next]_vars PROVE KeptInv'
    OBVIOUS
<1>1. TurnInv'
    BY StepsKeepTurn DEF KeptInv
<1> SUFFICES ASSUME ~raced' PROVE SplitInv' /\ Alone' /\ \A q \in Runs : Stage(pc[q], Len(mine[q]))'
    BY <1>1 DEF KeptInv, OneInv
<1>2. CASE \E r \in Runs : Lists(r) \/ Judges(r) \/ Sweeps(r) \/ Killed(r)
    <2>1. PICK r \in Runs : Lists(r) \/ Judges(r) \/ Sweeps(r) \/ Killed(r)
        BY <1>2
    <2>2. RunSteps(r)
        BY <2>1, Zenon DEF Judges, Sweeps, Splits, Reads, RunSteps
    <2>3. OneInv
        <3>1. raced => raced'
            BY <2>1, RacedStays
        <3> QED
            BY <3>1 DEF KeptInv
    <2> QED
        BY <2>2, <2>3, RunKeepsWhole
<1>3. CASE \E k \in Kids : Builds(k) \/ FinishesByHand(k) \/ Drops(k) \/ Reopens(k)
    <2>1. raced' = raced /\ pc' = pc
        BY <1>3 DEF Builds, FinishesByHand, Drops, Reopens, Labels, history
    <2>2. OneInv /\ Alone'
        BY <2>1 DEF KeptInv, OneInv, Alone, Active, PastLook, Splitting
    <2> QED
        BY <1>3, <2>2, EndsStage, FinishesByHandStage, ReopensStage DEF OthersStay
<1>4. CASE StartsOver
    <2>1. raced' = raced /\ pc' = pc
        BY <1>4 DEF StartsOver
    <2>2. OneInv /\ Alone'
        BY <2>1 DEF KeptInv, OneInv, Alone, Active, PastLook, Splitting
    <2> QED
        BY <1>4, <2>2, StartsOverStage DEF OthersStay
<1>5. CASE UNCHANGED vars
    <2>1. kids' = kids /\ pc' = pc /\ mine' = mine /\ LabelsKept /\ open' = open /\ raced' = raced
        BY <1>5 DEF vars, history, LabelsKept
    <2>2. NoNewLive /\ DraftsGrow
        BY <2>1, SameKids
    <2>3. OneInv /\ Alone'
        BY <2>1 DEF KeptInv, OneInv, Alone, Active, PastLook, Splitting
    <2>4. ASSUME NEW q \in Runs PROVE Stage(pc[q], Len(mine[q]))'
        <3>1. PICK place, n : place = pc[q] /\ n = Len(mine[q]) /\ Stage(place, n)
            BY <2>3 DEF OneInv
        <3>2. Stage(place, n)'
            BY <2>1, <2>2, <3>1, StageKept
        <3> QED
            BY <2>1, <3>1, <3>2, StageThere
    <2> QED
        BY <2>1, <2>2, <2>3, <2>4, SplitKept DEF OneInv
<1> QED
    BY <1>2, <1>3, <1>4, <1>5 DEF Next

\* Until two looks race (Races), any number of runs: only one has got past its
\* look, where it is in a split says how much of it GitHub has, and a split cut
\* short keeps the issue from being judged again (applySplit, markSplitting).
THEOREM SplitInvariant == Spec => []KeptInv
<1>1. Init => KeptInv
    BY StartsWhole
<1>2. KeptInv /\ [Next]_vars => KeptInv'
    BY StepsKeepWhole
<1> QED
    BY <1>1, <1>2, PTL DEF Spec

LEMMA KeptInvImplies == KeptInv => SplitIsKept /\ ClosedMeansDone
<1> SUFFICES ASSUME KeptInv PROVE SplitIsKept /\ ClosedMeansDone
    OBVIOUS
<1>1. Types /\ TurnInv
    BY DEF KeptInv, TurnInv
<1>2. \A k \in Kids : kids[k] \in KidRecords /\ kids[k].after < k /\ k \in Nat
    BY <1>1, KidsAre DEF Types
<1>3. \A k \in Kids : kids[k] \in [draft : 1..Drafts, marked : BOOLEAN, sub : BOOLEAN,
                                    after : 0..(k - 1), state : {"open", "completed", "dropped"}]
    BY <1>2 DEF KidRecords
<1>4. \A r \in Runs : Len(mine[r]) <= Drafts /\ \A i \in DOMAIN mine[r] : mine[r][i] \in Kids
    BY <1>1, MineIs DEF TurnInv, Fits
<1>5. TypeOK
    BY <1>1, <1>3, <1>4 DEF Types, TypeOK
<1>6. DoneDrafts \subseteq 1..Drafts
    BY <1>2 DEF DoneDrafts, SubIssues, KidRecords
<1>7. ClosedMeansDone
    BY <1>6 DEF KeptInv, OneInv, SplitInv, ClosedDone, ClosedMeansDone, DoneDrafts
<1> QED
    BY <1>5, <1>7 DEF KeptInv, OneInv, SplitInv, SplitIsKept

\* A run that fails or is killed at any call neither makes a draft's child
\* twice nor leaves the issue out of the queue with nobody told, however many
\* runs judge the issue, until two looks race (applySplit, intakeIssue).
THEOREM SplitAlwaysKept == Spec => []SplitIsKept
BY SplitInvariant, KeptInvImplies, PTL

\* The host closes an umbrella over a whole split that is done, never over
\* children that were given up or not made yet, unless a person reopened one
\* after the host's read (closeFinishedUmbrellas).
THEOREM ClosedAlwaysDone == Spec => []ClosedMeansDone
BY SplitInvariant, KeptInvImplies, PTL

------------------------------------------------------------------------------
(* That intake judges every issue once (IntakeRound), for any number of       *)
(* issues, any sizes and limits and any issues that break its answer.         *)

\* Batches share no issue.
Apart == \A b, c \in todo : b # c => Members(b) \cap Members(c) = {}

\* What waits has not been answered on.
Waiting == \A b \in todo : Members(b) \cap answered = {}

\* A round that goes on is below both limits.
BelowLimits ==
    stopped = "no" => failedInARow < FailedLimit /\ refusedInARow < RefusedLimit

\* The inductive invariant.
IntakeInv == JudgedOnce /\ Apart /\ Waiting /\ BelowLimits

LEMMA MembersAreIssues ==
    ASSUME NEW b \in Batches
    PROVE  /\ b.first \in Nat \ {0} /\ b.last \in Nat \ {0} /\ b.first <= b.last
           /\ b.last <= Unjudged
           /\ Members(b) \subseteq Issues
           /\ b = [first |-> b.first, last |-> b.last]
BY SizesAssumption DEF Batches, Members, Issues

\* The batches an unbroken list is cut into: equal in length, all but the last.
LEMMA CutsApart ==
    ASSUME NEW i \in Nat \ {0}, NEW j \in Nat \ {0}, i < j,
           (i - 1) % BatchSize = 0, (j - 1) % BatchSize = 0
    PROVE  i + BatchSize <= j
<1>1. BatchSize \in Nat \ {0}
    BY SizesAssumption
<1> DEFINE p == (i - 1) \div BatchSize
           q == (j - 1) \div BatchSize
<1>2. /\ p \in Int /\ q \in Int
      /\ i - 1 = (BatchSize * p) + ((i - 1) % BatchSize)
      /\ j - 1 = (BatchSize * q) + ((j - 1) % BatchSize)
    BY <1>1
<1>3. i - 1 = BatchSize * p /\ j - 1 = BatchSize * q
    BY <1>2, <1>1
<1> HIDE DEF p, q
<1>4. q >= p + 1
    BY <1>1, <1>2, <1>3
<1>5. BatchSize * q >= BatchSize * (p + 1)
    BY <1>1, <1>2, <1>4
<1>6. BatchSize * (p + 1) = BatchSize * p + BatchSize
    BY <1>1, <1>2
<1> QED
    BY <1>1, <1>2, <1>3, <1>5, <1>6

LEMMA CutHolds ==
    ASSUME NEW i \in Issues
    PROVE  \E f \in Issues : (f - 1) % BatchSize = 0 /\ f <= i /\ i <= f + BatchSize - 1
<1>1. BatchSize \in Nat \ {0} /\ i \in Nat \ {0} /\ i <= Unjudged /\ Unjudged \in Nat
    BY SizesAssumption DEF Issues
<1> DEFINE p == (i - 1) \div BatchSize
           r == (i - 1) % BatchSize
           f == i - r
<1>2. p \in Int /\ i - 1 = BatchSize * p + r /\ r \in 0..(BatchSize - 1)
    BY <1>1
<1>2a. p >= 0
    BY <1>1
<1> HIDE DEF p, r
<1>3. f - 1 = BatchSize * p
    BY <1>1, <1>2
<1>4. BatchSize * p >= 0
    BY <1>1, <1>2, <1>2a
<1>5. f \in Issues /\ f <= i /\ i <= f + BatchSize - 1
    BY <1>1, <1>2, <1>3, <1>4 DEF Issues
<1>6. (BatchSize * p) % BatchSize = 0
    BY <1>1, <1>2, <1>2a
<1> QED
    BY <1>3, <1>5, <1>6

\* No batch is waiting that was not cut from the list, and every issue waits.
LEMMA StartsApart == RoundInit => IntakeInv
<1> SUFFICES ASSUME RoundInit PROVE IntakeInv
    OBVIOUS
<1> USE SizesAssumption
<1>1. RoundTypeOK
    <2>1. breaking \in SUBSET Issues
        BY BreakingAssumption DEF RoundInit
    <2>2. todo \subseteq Batches
        BY DEF RoundInit
    <2>3. /\ failedInARow = 0 /\ refusedInARow = 0 /\ stopped = "no" /\ badRuns = 0
          /\ answered = {} /\ again = FALSE /\ refused = {}
        BY DEF RoundInit
    <2>4. failedInARow \in 0..FailedLimit /\ refusedInARow \in 0..RefusedLimit /\ badRuns \in 0..MaxBadRuns
        BY ONLY <2>3, SizesAssumption
    <2>5. /\ stopped \in {"no", "failed", "refused"} /\ again \in BOOLEAN
          /\ answered \subseteq Issues /\ refused \subseteq Issues
        BY ONLY <2>3
    <2> QED
        BY ONLY <2>1, <2>2, <2>4, <2>5 DEF RoundTypeOK
<1>2. AnsweredOnce /\ Waiting /\ BelowLimits
    BY DEF RoundInit, AnsweredOnce, Waiting, BelowLimits
<1>3. NobodyLeftOut
    <2> SUFFICES ASSUME NEW i \in Issues PROVE \E batch \in todo : i \in Members(batch)
        BY DEF NobodyLeftOut
    <2>1. PICK f \in Issues : (f - 1) % BatchSize = 0 /\ f <= i /\ i <= f + BatchSize - 1
        BY CutHolds
    <2> DEFINE batch == [first |-> f, last |-> Least(f + BatchSize - 1, Unjudged)]
    <2>2. batch.last \in Issues /\ i <= batch.last
        BY <2>1 DEF Issues, Least
    <2>3. batch \in Batches
        BY <2>1, <2>2 DEF Batches, Issues, Least
    <2>4. batch \in todo
        BY <2>1, <2>3 DEF RoundInit
    <2>5. i \in Members(batch)
        BY <2>1, <2>2 DEF Members, Issues
    <2> QED
        BY <2>4, <2>5
<1>4. Apart
    <2> SUFFICES ASSUME NEW b \in todo, NEW c \in todo, b # c
                 PROVE  Members(b) \cap Members(c) = {}
        BY DEF Apart
    <2>1. b \in Batches /\ c \in Batches
        BY DEF RoundInit
    <2>2. /\ (b.first - 1) % BatchSize = 0 /\ b.last = Least(b.first + BatchSize - 1, Unjudged)
          /\ (c.first - 1) % BatchSize = 0 /\ c.last = Least(c.first + BatchSize - 1, Unjudged)
        BY DEF RoundInit
    <2>3. b.first # c.first
        BY <2>1, <2>2, MembersAreIssues
    <2>4. b.first \in Nat \ {0} /\ c.first \in Nat \ {0}
        BY <2>1, MembersAreIssues
    <2>5. CASE b.first < c.first
        <3>1. b.first + BatchSize <= c.first
            BY <2>2, <2>4, <2>5, CutsApart
        <3> QED
            BY <3>1, <2>1, <2>2, <2>4, MembersAreIssues DEF Members, Least
    <2>6. CASE c.first < b.first
        <3>1. c.first + BatchSize <= b.first
            BY <2>2, <2>4, <2>6, CutsApart
        <3> QED
            BY <3>1, <2>1, <2>2, <2>4, MembersAreIssues DEF Members, Least
    <2> QED
        BY <2>3, <2>4, <2>5, <2>6
<1> QED
    BY <1>1, <1>2, <1>3, <1>4 DEF IntakeInv, JudgedOnce

\* A batch of more than one issue is cut into two that share nothing and lose
\* nothing; one issue alone is left.
LEMMA HalvesCover ==
    ASSUME NEW b \in Batches
    PROVE  /\ Halves(b) \subseteq Batches
           /\ \A h \in Halves(b) : Members(h) \subseteq Members(b)
           /\ \A g, h \in Halves(b) : g # h => Members(g) \cap Members(h) = {}
           /\ \A i \in Members(b) :
                  \/ \E h \in Halves(b) : i \in Members(h)
                  \/ Members(b) = {i}
<1>1. /\ b.first \in Nat \ {0} /\ b.last \in Nat \ {0} /\ b.first <= b.last
      /\ b.last <= Unjudged /\ Unjudged \in Nat
    BY MembersAreIssues, SizesAssumption
<1>2. CASE Size(b) = 1
    <2>1. Halves(b) = {}
        BY <1>2 DEF Halves
    <2>2. \A i \in Members(b) : Members(b) = {i}
        BY <1>1, <1>2 DEF Size, Members
    <2> QED
        BY <2>1, <2>2
<1>3. CASE Size(b) # 1
    <2> DEFINE middle == b.first + ((Size(b) + 1) \div 2)
               one == [first |-> b.first, last |-> middle - 1]
               two == [first |-> middle, last |-> b.last]
    <2>1. middle \in Nat /\ b.first < middle /\ middle <= b.last
        BY <1>1, <1>3 DEF Size
    <2>2. Halves(b) = {one, two}
        BY <1>3 DEF Halves
    <2> HIDE DEF middle
    <2>3. one \in Batches /\ two \in Batches
        BY <1>1, <2>1 DEF Batches, Issues
    <2>4. Members(one) = b.first..(middle - 1) /\ Members(two) = middle..b.last
        BY DEF Members
    <2>5. /\ Members(one) \subseteq Members(b) /\ Members(two) \subseteq Members(b)
          /\ Members(one) \cap Members(two) = {}
          /\ \A i \in Members(b) : i \in Members(one) \/ i \in Members(two)
        BY <1>1, <2>1, <2>4 DEF Members
    <2> HIDE DEF one, two
    <2> QED
        BY <2>2, <2>3, <2>5
<1> QED
    BY <1>2, <1>3

LEMMA AnswersKeep ==
    ASSUME IntakeInv, NEW b \in todo, stopped = "no",
           NEW took \in SUBSET Members(b), NEW turnedDown \in SUBSET Members(b),
           Answers(b, took, turnedDown), badRuns' \in 0..MaxBadRuns, badRuns' >= badRuns
    PROVE  IntakeInv'
<1> USE SizesAssumption
<1>1. /\ RoundTypeOK /\ AnsweredOnce /\ NobodyLeftOut /\ Apart /\ Waiting /\ BelowLimits
      /\ b \in Batches /\ Members(b) \subseteq Issues
    BY MembersAreIssues DEF IntakeInv, JudgedOnce, RoundTypeOK
<1>2. RoundTypeOK'
    <2>1. breaking' \in SUBSET Issues /\ todo' \subseteq Batches /\ failedInARow' \in 0..FailedLimit
        BY <1>1 DEF RoundTypeOK, Answers
    <2>2. refusedInARow' \in 0..RefusedLimit
        BY <1>1 DEF RoundTypeOK, BelowLimits, Answers
    <2>3. stopped' \in {"no", "failed", "refused"} /\ again' \in BOOLEAN
        BY <1>1 DEF RoundTypeOK, Answers
    <2>4. answered' \subseteq Issues /\ refused' \subseteq Issues
        BY <1>1 DEF RoundTypeOK, Answers
    <2> QED
        BY <2>1, <2>2, <2>3, <2>4 DEF RoundTypeOK
<1>3. AnsweredOnce'
    BY <1>1 DEF AnsweredOnce, Waiting, Answers
<1>4. NobodyLeftOut'
    <2> SUFFICES ASSUME NEW i \in Issues
                 PROVE  \/ i \in answered'
                        \/ \E batch \in todo' : i \in Members(batch)
                        \/ i \in breaking' \/ badRuns' > 0
        BY DEF NobodyLeftOut
    <2>1. CASE i \in Members(b)
        BY <2>1 DEF Answers
    <2>2. CASE badRuns > 0
        BY <2>2, <1>1 DEF RoundTypeOK
    <2>3. CASE i \notin Members(b) /\ ~(badRuns > 0)
        BY <1>1, <2>3 DEF NobodyLeftOut, Answers
    <2> QED
        BY <2>1, <2>2, <2>3
<1>5. Apart' /\ Waiting'
    BY <1>1 DEF Apart, Waiting, Answers
<1>6. BelowLimits'
    BY <1>1 DEF RoundTypeOK, BelowLimits, Answers
<1> QED
    BY <1>2, <1>3, <1>4, <1>5, <1>6 DEF IntakeInv, JudgedOnce

LEMMA FailsKeep ==
    ASSUME IntakeInv, NEW b \in todo, stopped = "no", Fails(b),
           badRuns' \in 0..MaxBadRuns, badRuns' >= badRuns,
           Members(b) \cap breaking # {} \/ badRuns' > 0
    PROVE  IntakeInv'
<1> USE SizesAssumption
<1>1. /\ RoundTypeOK /\ AnsweredOnce /\ NobodyLeftOut /\ Apart /\ Waiting /\ BelowLimits
      /\ b \in Batches
    BY DEF IntakeInv, JudgedOnce, RoundTypeOK
<1>2. /\ Halves(b) \subseteq Batches
      /\ \A h \in Halves(b) : Members(h) \subseteq Members(b)
      /\ \A g, h \in Halves(b) : g # h => Members(g) \cap Members(h) = {}
      /\ \A i \in Members(b) : (\E h \in Halves(b) : i \in Members(h)) \/ Members(b) = {i}
    BY <1>1, HalvesCover
<1>3. todo' = (todo \ {b}) \union Halves(b)
    BY DEF Fails
<1>4. RoundTypeOK'
    <2>1. failedInARow' \in 0..FailedLimit
        BY <1>1 DEF RoundTypeOK, BelowLimits, Fails
    <2> QED
        BY <1>1, <1>2, <1>3, <2>1 DEF RoundTypeOK, Fails
<1>5. AnsweredOnce'
    BY <1>1 DEF AnsweredOnce, Fails
<1>6. NobodyLeftOut'
    <2> SUFFICES ASSUME NEW i \in Issues, i \notin answered', i \notin breaking', ~(badRuns' > 0)
                 PROVE  \E batch \in todo' : i \in Members(batch)
        BY DEF NobodyLeftOut
    <2>1. i \notin answered /\ i \notin breaking /\ ~(badRuns > 0)
        BY <1>1 DEF Fails, RoundTypeOK
    <2>2. PICK batch \in todo : i \in Members(batch)
        BY <1>1, <2>1 DEF NobodyLeftOut
    <2>3. CASE batch # b
        BY <1>3, <2>2, <2>3
    <2>4. CASE batch = b
        <3>1. Members(b) # {i}
            BY <2>1
        <3> QED
            BY <1>2, <1>3, <2>2, <2>4, <3>1
    <2> QED
        BY <2>3, <2>4
<1>7. Apart'
    <2> SUFFICES ASSUME NEW c \in todo', NEW d \in todo', c # d
                 PROVE  Members(c) \cap Members(d) = {}
        BY DEF Apart
    <2>1. CASE c \in Halves(b) /\ d \in Halves(b)
        BY <1>2, <2>1
    <2>2. CASE c \in Halves(b) /\ d \in todo \ {b}
        BY <1>1, <1>2, <2>2 DEF Apart
    <2>3. CASE c \in todo \ {b} /\ d \in Halves(b)
        BY <1>1, <1>2, <2>3 DEF Apart
    <2>4. CASE c \in todo /\ d \in todo
        BY <1>1, <2>4 DEF Apart
    <2> QED
        BY <1>3, <2>1, <2>2, <2>3, <2>4
<1>8. Waiting'
    BY <1>1, <1>2, <1>3 DEF Waiting, Fails
<1>9. BelowLimits'
    BY <1>1 DEF RoundTypeOK, BelowLimits, Fails
<1> QED
    BY <1>4, <1>5, <1>6, <1>7, <1>8, <1>9 DEF IntakeInv, JudgedOnce

LEMMA StepKeeps == IntakeInv /\ [RoundNext]_roundVars => IntakeInv'
<1> SUFFICES ASSUME IntakeInv, [RoundNext]_roundVars PROVE IntakeInv'
    OBVIOUS
<1>1. badRuns \in 0..MaxBadRuns /\ MaxBadRuns \in Nat
    BY SizesAssumption DEF IntakeInv, JudgedOnce, RoundTypeOK
<1>2. CASE RoundNext
    <2>1. PICK b \in Batches : RunsOn(b)
        BY <1>2 DEF RoundNext
    <2>2. b \in todo /\ stopped = "no"
        BY <2>1 DEF RunsOn, IsNext
    <2>3. b.first \in Members(b)
        BY MembersAreIssues DEF Members
    <2>4. CASE Members(b) \cap breaking # {}
        <3>1. Fails(b) /\ UNCHANGED badRuns
            BY <2>1, <2>4 DEF RunsOn
        <3> QED
            BY <1>1, <2>2, <2>4, <3>1, FailsKeep
    <2>5. CASE Members(b) \cap breaking = {}
        <3>1. \/ Answers(b, Members(b), {}) /\ UNCHANGED badRuns
              \/ Fault /\ Fails(b)
              \/ Fault /\ \E turnedDown \in SUBSET Members(b) : Answers(b, {}, turnedDown)
            BY <2>1, <2>3, <2>5 DEF RunsOn
        <3>2. Fault => badRuns' \in 0..MaxBadRuns /\ badRuns' >= badRuns /\ badRuns' > 0
            BY <1>1 DEF Fault
        <3>3. CASE Answers(b, Members(b), {}) /\ UNCHANGED badRuns
            BY <1>1, <2>2, <3>3, AnswersKeep
        <3>4. CASE Fault /\ Fails(b)
            BY <1>1, <2>2, <3>2, <3>4, FailsKeep
        <3>5. CASE Fault /\ \E turnedDown \in SUBSET Members(b) : Answers(b, {}, turnedDown)
            BY <1>1, <2>2, <3>2, <3>5, AnswersKeep
        <3> QED
            BY <3>1, <3>3, <3>4, <3>5
    <2> QED
        BY <2>4, <2>5
<1>3. CASE UNCHANGED roundVars
    BY <1>3 DEF roundVars, IntakeInv, JudgedOnce, RoundTypeOK, AnsweredOnce, NobodyLeftOut, Apart, Waiting,
        BelowLimits
<1> QED
    BY <1>2, <1>3

\* The batches, however a failing one is halved, always hold what is left to
\* judge, once (intakeRound, narrow).
THEOREM IntakeInvariant == RoundSpec => []IntakeInv
<1>1. RoundInit => IntakeInv
    BY StartsApart
<1>2. IntakeInv /\ [RoundNext]_roundVars => IntakeInv'
    BY StepKeeps
<1> QED
    BY <1>1, <1>2, PTL DEF RoundSpec

\* Every issue is judged by one answer, waits in a batch, broke a run alone, or
\* met a run that failed by chance.
THEOREM EveryIssueJudgedOnce == RoundSpec => []JudgedOnce
<1>1. IntakeInv => JudgedOnce
    BY DEF IntakeInv
<1> QED
    BY <1>1, IntakeInvariant, PTL

------------------------------------------------------------------------------
(* What GitHub's refusals add up to when they end the round.                  *)

\* Refusals were of issues answered on, two or more for each batch that counts.
RefusalsCounted ==
    /\ refused \subseteq answered
    /\ Cardinality(refused) >= 2 * refusedInARow
    /\ stopped = "refused" => refusedInARow >= RefusedLimit

LEMMA IssuesAreFinite ==
    ASSUME NEW S \in SUBSET Issues
    PROVE  IsFiniteSet(S) /\ Cardinality(S) \in Nat
<1>1. IsFiniteSet(Issues)
    BY SizesAssumption, FS_Interval DEF Issues
<1> QED
    BY <1>1, FS_Subset, FS_CardinalityType

LEMMA AnswersCount ==
    ASSUME IntakeInv, RefusalsCounted, NEW b \in todo, stopped = "no",
           NEW took \in SUBSET Members(b), NEW turnedDown \in SUBSET Members(b),
           Answers(b, took, turnedDown)
    PROVE  RefusalsCounted'
<1> USE SizesAssumption
<1>1. /\ b \in Batches /\ Members(b) \subseteq Issues /\ refused \subseteq Issues
      /\ Members(b) \cap answered = {} /\ refusedInARow \in Nat
    BY MembersAreIssues DEF IntakeInv, JudgedOnce, RoundTypeOK, Waiting
<1>2. refused' = refused \union turnedDown /\ answered' = answered \union Members(b)
    BY DEF Answers
<1>3. refused' \subseteq answered'
    BY <1>2 DEF RefusalsCounted
<1>4. /\ IsFiniteSet(refused) /\ Cardinality(refused) \in Nat
      /\ IsFiniteSet(turnedDown) /\ Cardinality(turnedDown) \in Nat
    BY <1>1, IssuesAreFinite
<1>5. refused \cap turnedDown = {}
    BY <1>1 DEF RefusalsCounted
<1>6. Cardinality(refused') = Cardinality(refused) + Cardinality(turnedDown)
    <2>1. Cardinality({}) = 0
        BY FS_EmptySet
    <2>2. Cardinality(refused \union turnedDown) =
              Cardinality(refused) + Cardinality(turnedDown) - Cardinality(refused \cap turnedDown)
        BY <1>4, FS_Union
    <2>3. Cardinality(refused \cap turnedDown) = 0
        BY ONLY <1>5, <2>1
    <2> QED
        BY ONLY <1>2, <1>4, <2>2, <2>3
<1>7. Cardinality(refused') >= 2 * refusedInARow'
    <2>1. \/ refusedInARow' = 0
          \/ refusedInARow' = refusedInARow + 1 /\ Cardinality(turnedDown) > 1
        BY DEF Answers
    <2> QED
        BY <1>1, <1>4, <1>6, <2>1 DEF RefusalsCounted
<1>8. stopped' = "refused" => refusedInARow' >= RefusedLimit
    BY DEF Answers
<1> QED
    BY <1>3, <1>7, <1>8 DEF RefusalsCounted

LEMMA RefusalStep == IntakeInv /\ RefusalsCounted /\ [RoundNext]_roundVars => RefusalsCounted'
<1> SUFFICES ASSUME IntakeInv, RefusalsCounted, [RoundNext]_roundVars PROVE RefusalsCounted'
    OBVIOUS
<1>1. CASE RoundNext
    <2>1. PICK b \in Batches : RunsOn(b)
        BY <1>1 DEF RoundNext
    <2>2. b \in todo /\ stopped = "no" /\ b.first \in Members(b)
        BY <2>1, MembersAreIssues DEF RunsOn, IsNext, Members
    <2>3. CASE Fails(b)
        BY <2>2, <2>3 DEF Fails, RefusalsCounted
    <2>4. CASE \E took, turnedDown \in SUBSET Members(b) : Answers(b, took, turnedDown)
        BY <2>2, <2>4, AnswersCount
    <2> QED
        BY <2>1, <2>2, <2>3, <2>4 DEF RunsOn
<1>2. CASE UNCHANGED roundVars
    BY <1>2 DEF roundVars, RefusalsCounted
<1> QED
    BY <1>1, <1>2

\* GitHub's refusals never end the round before two issues in each of
\* INTAKE_REFUSED_BATCHES_LIMIT batches, none counted twice, were refused.
THEOREM RefusalsDoAddUp == RoundSpec => []RefusalsAddUp
<1>1. RoundInit => RefusalsCounted
    <2>1. RoundInit => refused = {} /\ answered = {} /\ refusedInARow = 0 /\ stopped = "no"
        BY DEF RoundInit
    <2> QED
        BY ONLY <2>1, FS_EmptySet DEF RefusalsCounted
<1>2. IntakeInv /\ RefusalsCounted /\ [RoundNext]_roundVars => RefusalsCounted'
    BY RefusalStep
<1>3. IntakeInv /\ RefusalsCounted => RefusalsAddUp
    <2> SUFFICES ASSUME IntakeInv, RefusalsCounted, stopped = "refused"
                 PROVE  Cardinality(refused) >= 2 * RefusedLimit
        BY DEF RefusalsAddUp
    <2>1. refusedInARow \in Nat /\ Cardinality(refused) \in Nat
        BY IssuesAreFinite, SizesAssumption DEF IntakeInv, JudgedOnce, RoundTypeOK
    <2> QED
        BY <2>1, SizesAssumption DEF RefusalsCounted
<1> QED
    BY <1>1, <1>2, <1>3, IntakeInvariant, PTL DEF RoundSpec

------------------------------------------------------------------------------
(* How many runs in a row fail over three issues that stand together in a     *)
(* batch of at most ten.                                                      *)

Half(n) == (n + 1) \div 2

\* How often a batch of n halves down to its first issue, that run included.
Depth(n) == IF n = 1 THEN 1 ELSE IF n = 2 THEN 2 ELSE IF n <= 4 THEN 3 ELSE IF n <= 8 THEN 4 ELSE 5

\* How many of the batches that a cut of n comes apart into begin `o` places
\* from its start, at most.
Chain(n, o) ==
    IF o = 0 THEN Depth(n)
    ELSE IF o = Half(n) THEN Depth(n - Half(n))
    ELSE IF o = Half(Half(n)) THEN Depth(Half(n) - Half(Half(n)))
    ELSE IF o = Half(n) + Half(n - Half(n)) THEN Depth(n - Half(n) - Half(n - Half(n)))
    ELSE 1

\* The batches a cut of n comes apart into: where each begins, its size, and
\* how many of those it is a part of begin there too.
IsTree(tree, n) ==
    /\ <<0, n, 0>> \in tree
    /\ \A t \in tree :
        /\ t \in Nat \X (Nat \ {0}) \X Nat
        /\ t[1] + t[2] <= n /\ t[3] < Chain(n, t[1])
        /\ t[2] > 1 => /\ <<t[1], Half(t[2]), t[3] + 1>> \in tree
                       /\ <<t[1] + Half(t[2]), t[2] - Half(t[2]), 0>> \in tree

Tree(n) == CHOOSE tree : IsTree(tree, n)

\* A cut of n is halved at h, and its halves at q and r: Chain by linear steps.
Cut(n, h, q, r) ==
    /\ h = Half(n) /\ q = Half(h) /\ r = Half(n - h)
    /\ n <= 2 * h /\ 2 * h <= n + 1
    /\ h <= 2 * q /\ 2 * q <= h + 1
    /\ n - h <= 2 * r /\ 2 * r <= n - h + 1

ChainOf(n, o, h, q, r) ==
    IF o = 0 THEN Depth(n) ELSE IF o = h THEN Depth(n - h)
    ELSE IF o = q THEN Depth(h - q) ELSE IF o = h + r THEN Depth(n - h - r) ELSE 1

LEMMA CutIs == ASSUME NEW n \in 1..10 PROVE \E h, q, r \in 0..5 : Cut(n, h, q, r)
<1>1. PICK h : h = Half(n)
    OBVIOUS
<1>2. h \in 0..5 /\ n - h \in 0..5 /\ n <= 2 * h /\ 2 * h <= n + 1
    BY <1>1 DEF Half
<1>3. PICK q : q = Half(h)
    OBVIOUS
<1>4. q \in 0..5 /\ h <= 2 * q /\ 2 * q <= h + 1
    BY <1>2, <1>3 DEF Half
<1>5. PICK r : r = Half(n - h)
    OBVIOUS
<1>6. r \in 0..5 /\ n - h <= 2 * r /\ 2 * r <= n - h + 1
    BY <1>2, <1>5 DEF Half
<1> QED
    BY <1>1, <1>2, <1>3, <1>4, <1>5, <1>6 DEF Cut

LEMMA ChainIs ==
    ASSUME NEW n, NEW o, NEW h, NEW q, NEW r, Cut(n, h, q, r)
    PROVE  Chain(n, o) = ChainOf(n, o, h, q, r)
BY DEF Chain, ChainOf, Cut

LEMMA ChainsCount == ASSUME NEW n \in 1..10, NEW o \in 0..(n - 1) PROVE Chain(n, o) \in 1..5
BY DEF Chain, Depth

\* Three places next to each other begin no more than seven.
LEMMA SevenAtMost ==
    ASSUME NEW n \in 1..10, NEW o \in 0..(n - 1)
    PROVE  /\ Chain(n, o) <= 7
           /\ o + 1 < n => Chain(n, o) + Chain(n, o + 1) <= 7
           /\ o + 2 < n => Chain(n, o) + Chain(n, o + 1) + Chain(n, o + 2) <= 7
<1>1. PICK h, q, r \in 0..5 : Cut(n, h, q, r)
    BY CutIs
<1>2. /\ Chain(n, o) = ChainOf(n, o, h, q, r)
      /\ Chain(n, o + 1) = ChainOf(n, o + 1, h, q, r)
      /\ Chain(n, o + 2) = ChainOf(n, o + 2, h, q, r)
    BY <1>1, ChainIs
<1>3. /\ n <= 2 * h /\ 2 * h <= n + 1
      /\ h <= 2 * q /\ 2 * q <= h + 1
      /\ n - h <= 2 * r /\ 2 * r <= n - h + 1
    BY <1>1 DEF Cut
<1>4. ChainOf(n, o, h, q, r) <= 7
    BY <1>3 DEF ChainOf, Depth
<1>5. ASSUME o + 1 < n PROVE ChainOf(n, o, h, q, r) + ChainOf(n, o + 1, h, q, r) <= 7
    BY <1>3, <1>5 DEF ChainOf, Depth
<1>6. ASSUME o + 2 < n
      PROVE ChainOf(n, o, h, q, r) + ChainOf(n, o + 1, h, q, r) + ChainOf(n, o + 2, h, q, r) <= 7
    BY <1>3, <1>6 DEF ChainOf, Depth
<1> QED
    BY <1>2, <1>4, <1>5, <1>6

LEMMA DepthJoins == ASSUME NEW n \in 2..10, NEW h \in 1..5, n <= 2 * h, 2 * h <= n + 1
                    PROVE Depth(h) + 1 <= Depth(n)
BY DEF Depth

\* The two halves of a cut keep their counts, but for the first place's.
LEMMA LeftJoins ==
    ASSUME NEW n \in 2..10, NEW h \in 1..5, h = Half(n), NEW o \in 0..(h - 1)
    PROVE  Chain(h, o) + (IF o = 0 THEN 1 ELSE 0) <= Chain(n, o)
<1>1. h \in 1..5 /\ h < n
    BY DEF Half
<1>2. PICK q, r \in 0..5 : Cut(n, h, q, r)
    <2>1. \E g, q, r \in 0..5 : Cut(n, g, q, r)
        BY CutIs
    <2> QED
        BY <2>1 DEF Cut
<1>3. PICK s, t \in 0..5 : Cut(h, q, s, t)
    <2>1. \E g, s, t \in 0..5 : Cut(h, g, s, t)
        BY <1>1, CutIs
    <2> QED
        BY <1>2, <2>1 DEF Cut
<1>4. Chain(n, o) = ChainOf(n, o, h, q, r) /\ Chain(h, o) = ChainOf(h, o, q, s, t)
    BY <1>2, <1>3, ChainIs
<1>5. /\ n <= 2 * h /\ 2 * h <= n + 1
      /\ h <= 2 * q /\ 2 * q <= h + 1
      /\ n - h <= 2 * r /\ 2 * r <= n - h + 1
      /\ q <= 2 * s /\ 2 * s <= q + 1
      /\ h - q <= 2 * t /\ 2 * t <= h - q + 1
    BY <1>2, <1>3 DEF Cut
<1>6. CASE o = 0
    <2>1. Depth(h) + 1 <= Depth(n)
        BY <1>5, DepthJoins
    <2> QED
        BY <1>4, <1>6, <2>1 DEF ChainOf
<1>7. CASE o # 0
    <2>1. ChainOf(h, o, q, s, t) <= ChainOf(n, o, h, q, r)
        BY <1>1, <1>5, <1>7 DEF ChainOf, Depth
    <2>2. ChainOf(h, o, q, s, t) + 0 = ChainOf(h, o, q, s, t)
        BY <1>1, <1>5, <1>7 DEF ChainOf, Depth
    <2> QED
        BY <1>4, <1>7, <2>1, <2>2
<1> QED
    BY <1>6, <1>7

LEMMA RightJoins ==
    ASSUME NEW n \in 2..10, NEW h \in 1..5, h = Half(n), NEW o \in 0..(n - h - 1)
    PROVE  Chain(n - h, o) <= Chain(n, o + h)
<1>1. h \in 1..5 /\ h < n /\ n - h \in 1..5
    BY DEF Half
<1>2. PICK q, r \in 0..5 : Cut(n, h, q, r)
    <2>1. \E g, q, r \in 0..5 : Cut(n, g, q, r)
        BY CutIs
    <2> QED
        BY <2>1 DEF Cut
<1>3. PICK s, t \in 0..5 : Cut(n - h, r, s, t)
    <2>1. \E g, s, t \in 0..5 : Cut(n - h, g, s, t)
        BY <1>1, CutIs
    <2> QED
        BY <1>2, <2>1 DEF Cut
<1>4. Chain(n, o + h) = ChainOf(n, o + h, h, q, r) /\ Chain(n - h, o) = ChainOf(n - h, o, r, s, t)
    BY <1>2, <1>3, ChainIs
<1>5. /\ n <= 2 * h /\ 2 * h <= n + 1
      /\ h <= 2 * q /\ 2 * q <= h + 1
      /\ n - h <= 2 * r /\ 2 * r <= n - h + 1
      /\ r <= 2 * s /\ 2 * s <= r + 1
      /\ n - h - r <= 2 * t /\ 2 * t <= n - h - r + 1
    BY <1>2, <1>3 DEF Cut
<1>6. o \in Nat /\ (o # 0 => o + h # h) /\ (o # r => o + h # h + r) /\ o + h # 0
    <2>1. o \in Nat
        BY <1>1
    <2> QED
        BY <2>1
<1>7. CASE o = 0
    BY <1>4, <1>6, <1>7 DEF ChainOf, Depth
<1>8. CASE o # 0
    <2>1. o + h # q
        BY <1>1, <1>5, <1>6, <1>8
    <2>2. ChainOf(n, o + h, h, q, r) = IF o = r THEN Depth(n - h - r) ELSE 1
        BY <1>6, <1>8, <2>1 DEF ChainOf
    <2>3. ChainOf(n - h, o, r, s, t) <= IF o = r THEN Depth(n - h - r) ELSE 1
        BY <1>1, <1>5, <1>6, <1>8 DEF ChainOf, Depth
    <2> QED
        BY <1>4, <2>2, <2>3
<1> QED
    BY <1>7, <1>8

LEMMA ChainsJoin ==
    ASSUME NEW n \in 2..10
    PROVE  /\ Half(n) \in 1..5 /\ Half(n) < n /\ n - Half(n) \in 1..5
           /\ Chain(Half(n), 0) + 1 <= Chain(n, 0)
           /\ \A o \in 1..(Half(n) - 1) : Chain(Half(n), o) <= Chain(n, o)
           /\ \A o \in 0..(n - Half(n) - 1) : Chain(n - Half(n), o) <= Chain(n, o + Half(n))
<1>1. Half(n) \in 1..5 /\ Half(n) < n /\ n - Half(n) \in 1..5
    BY DEF Half
<1>2. Chain(Half(n), 0) + 1 <= Chain(n, 0)
    BY <1>1, LeftJoins
<1>3. ASSUME NEW o \in 1..(Half(n) - 1) PROVE Chain(Half(n), o) <= Chain(n, o)
    <2>1. Chain(Half(n), o) + 0 <= Chain(n, o) /\ Half(n) \in 1..10
        BY <1>1, LeftJoins
    <2>2. Chain(Half(n), o) \in 1..5
        BY <1>1, <2>1, ChainsCount
    <2> QED
        BY <2>1, <2>2
<1> QED
    BY <1>1, <1>2, <1>3, RightJoins

LEMMA TreesJoin ==
    ASSUME NEW n \in 2..10, NEW left, IsTree(left, Half(n)), NEW right, IsTree(right, n - Half(n))
    PROVE  \E tree : IsTree(tree, n)
<1> DEFINE h == Half(n)
           begins(t) == <<t[1], t[2], IF t[1] = 0 THEN t[3] + 1 ELSE t[3]>>
           moved(t) == <<t[1] + h, t[2], t[3]>>
           tree == {<<0, n, 0>>} \union {begins(t) : t \in left} \union {moved(t) : t \in right}
<1>1. /\ h \in 1..9 /\ h < n /\ n - h \in 1..9 /\ h = Half(n)
      /\ Chain(h, 0) + 1 <= Chain(n, 0)
      /\ \A o \in 1..(h - 1) : Chain(h, o) <= Chain(n, o)
      /\ \A o \in 0..(n - h - 1) : Chain(n - h, o) <= Chain(n, o + h)
    BY ChainsJoin
<1>2. \A o \in 0..(n - 1) : Chain(n, o) \in Nat
    BY ChainsCount
<1>2a. /\ \A o \in 0..(h - 1) : Chain(h, o) \in Nat
       /\ \A o \in 0..(n - h - 1) : Chain(n - h, o) \in Nat
    BY <1>1, ChainsCount
<1> HIDE DEF h
<1>3. /\ <<0, n, 0>> \in tree
      /\ \A t \in left : begins(t) \in tree
      /\ \A t \in right : moved(t) \in tree
    OBVIOUS
<1>4. ASSUME NEW t \in left
      PROVE  /\ begins(t) \in Nat \X (Nat \ {0}) \X Nat
             /\ t[1] + t[2] <= n /\ begins(t)[3] < Chain(n, t[1])
             /\ t[2] > 1 => /\ <<t[1], Half(t[2]), begins(t)[3] + 1>> \in tree
                            /\ <<t[1] + Half(t[2]), t[2] - Half(t[2]), 0>> \in tree
    <2>1. /\ t[1] \in Nat /\ t[2] \in Nat \ {0} /\ t[3] \in Nat
          /\ t[1] + t[2] <= h /\ t[3] < Chain(h, t[1])
        BY <1>1 DEF IsTree
    <2>2. begins(t)[3] < Chain(n, t[1])
        BY <1>1, <1>2, <1>2a, <2>1
    <2>3. ASSUME t[2] > 1
          PROVE  /\ <<t[1], Half(t[2]), begins(t)[3] + 1>> \in tree
                 /\ <<t[1] + Half(t[2]), t[2] - Half(t[2]), 0>> \in tree
        <3> DEFINE one == <<t[1], Half(t[2]), t[3] + 1>>
                   two == <<t[1] + Half(t[2]), t[2] - Half(t[2]), 0>>
        <3>1. one \in left /\ two \in left
            BY <1>1, <2>3 DEF IsTree
        <3>2. begins(one) = <<t[1], Half(t[2]), begins(t)[3] + 1>>
            BY <2>1
        <3>3. Half(t[2]) \in Nat \ {0}
            BY <2>1 DEF Half
        <3>4. begins(two) = two
            BY <2>1, <3>3
        <3> QED
            BY <1>3, <3>1, <3>2, <3>4
    <2> QED
        BY <1>1, <2>1, <2>2, <2>3
<1>5. ASSUME NEW t \in right
      PROVE  /\ moved(t) \in Nat \X (Nat \ {0}) \X Nat
             /\ t[1] + h + t[2] <= n /\ t[3] < Chain(n, t[1] + h)
             /\ t[2] > 1 => /\ <<t[1] + h, Half(t[2]), t[3] + 1>> \in tree
                            /\ <<t[1] + h + Half(t[2]), t[2] - Half(t[2]), 0>> \in tree
    <2>1. /\ t[1] \in Nat /\ t[2] \in Nat \ {0} /\ t[3] \in Nat
          /\ t[1] + t[2] <= n - h /\ t[3] < Chain(n - h, t[1])
        BY <1>1 DEF IsTree
    <2>2. t[3] < Chain(n, t[1] + h)
        BY <1>1, <1>2, <1>2a, <2>1
    <2>3. ASSUME t[2] > 1
          PROVE  /\ <<t[1] + h, Half(t[2]), t[3] + 1>> \in tree
                 /\ <<t[1] + h + Half(t[2]), t[2] - Half(t[2]), 0>> \in tree
        <3> DEFINE one == <<t[1], Half(t[2]), t[3] + 1>>
                   two == <<t[1] + Half(t[2]), t[2] - Half(t[2]), 0>>
        <3>1. one \in right /\ two \in right
            BY <1>1, <2>3 DEF IsTree
        <3>2. Half(t[2]) \in Nat
            BY <2>1 DEF Half
        <3>3. moved(two) = <<t[1] + h + Half(t[2]), t[2] - Half(t[2]), 0>>
            BY <1>1, <2>1, <3>2
        <3> QED
            BY <1>3, <3>1, <3>3
    <2> QED
        BY <1>1, <2>1, <2>2, <2>3
<1>6. /\ 0 + n <= n /\ 0 < Chain(n, 0) /\ <<0, n, 0>> \in Nat \X (Nat \ {0}) \X Nat
      /\ <<0, Half(n), 0 + 1>> \in tree /\ <<0 + Half(n), n - Half(n), 0>> \in tree
    <2>1. begins(<<0, Half(n), 0>>) = <<0, Half(n), 1>> /\ <<0, Half(n), 0>> \in left
        BY DEF IsTree
    <2>2. moved(<<0, n - Half(n), 0>>) = <<Half(n), n - Half(n), 0>> /\ <<0, n - Half(n), 0>> \in right
        BY <1>1 DEF IsTree
    <2>3. 0 < Chain(n, 0)
        BY DEF Chain, Depth
    <2> QED
        BY <1>1, <1>3, <2>1, <2>2, <2>3
<1>7. IsTree(tree, n)
    <2> SUFFICES ASSUME NEW t \in tree
                 PROVE  /\ t \in Nat \X (Nat \ {0}) \X Nat
                        /\ t[1] + t[2] <= n /\ t[3] < Chain(n, t[1])
                        /\ t[2] > 1 => /\ <<t[1], Half(t[2]), t[3] + 1>> \in tree
                                       /\ <<t[1] + Half(t[2]), t[2] - Half(t[2]), 0>> \in tree
        BY <1>3 DEF IsTree
    <2>1. CASE t = <<0, n, 0>>
        BY <1>6, <2>1
    <2>2. ASSUME NEW u \in left, t = begins(u)
          PROVE  /\ t \in Nat \X (Nat \ {0}) \X Nat
                 /\ t[1] + t[2] <= n /\ t[3] < Chain(n, t[1])
                 /\ t[2] > 1 => /\ <<t[1], Half(t[2]), t[3] + 1>> \in tree
                                /\ <<t[1] + Half(t[2]), t[2] - Half(t[2]), 0>> \in tree
        <3>1. t[1] = u[1] /\ t[2] = u[2] /\ t[3] = begins(u)[3]
            BY <2>2
        <3> HIDE DEF begins, moved, tree
        <3> QED
            BY <1>4, <2>2, <3>1
    <2>3. ASSUME NEW u \in right, t = moved(u)
          PROVE  /\ t \in Nat \X (Nat \ {0}) \X Nat
                 /\ t[1] + t[2] <= n /\ t[3] < Chain(n, t[1])
                 /\ t[2] > 1 => /\ <<t[1], Half(t[2]), t[3] + 1>> \in tree
                                /\ <<t[1] + Half(t[2]), t[2] - Half(t[2]), 0>> \in tree
        <3>1. t[1] = u[1] + h /\ t[2] = u[2] /\ t[3] = u[3]
            BY <2>3
        <3> HIDE DEF begins, moved, tree
        <3> QED
            BY <1>5, <2>3, <3>1
    <2> QED
        BY <2>1, <2>2, <2>3
<1> QED
    BY <1>7

LEMMA TreesAre == ASSUME NEW n \in 1..10 PROVE IsTree(Tree(n), n)
<1> DEFINE Has(k) == \E tree : IsTree(tree, k)
<1>1. Has(1)
    <2>1. IsTree({<<0, 1, 0>>}, 1)
        BY DEF IsTree, Chain, Depth
    <2> QED
        BY <2>1
<1>a. ASSUME NEW k \in 2..10, Has(Half(k)), Has(k - Half(k)) PROVE Has(k)
    BY <1>a, TreesJoin
<1> HIDE DEF Has
<1>2. Has(2)
    BY <1>1, <1>a DEF Half
<1>3. Has(3)
    BY <1>1, <1>2, <1>a DEF Half
<1>4. Has(4)
    BY <1>2, <1>a DEF Half
<1>5. Has(5)
    BY <1>2, <1>3, <1>a DEF Half
<1>6. Has(6)
    BY <1>3, <1>a DEF Half
<1>7. Has(7)
    BY <1>3, <1>4, <1>a DEF Half
<1>8. Has(8)
    BY <1>4, <1>a DEF Half
<1>9. Has(9)
    BY <1>4, <1>5, <1>a DEF Half
<1>10. Has(10)
    BY <1>5, <1>a DEF Half
<1>11. Has(n)
    BY <1>1, <1>2, <1>3, <1>4, <1>5, <1>6, <1>7, <1>8, <1>9, <1>10
<1> QED
    BY <1>11 DEF Has, Tree

------------------------------------------------------------------------------
(* That three issues next to each other do not end the round.                 *)

CutOf(base) == Least(BatchSize, Unjudged - base)

InCut(base, m) == base < m /\ m <= base + BatchSize

\* The batch came from the cut after `base`, and k larger ones that began where
\* it does have failed.
Node(b, base, k) ==
    /\ base \in Nat /\ base % BatchSize = 0 /\ base < Unjudged
    /\ <<b.first - 1 - base, Size(b), k>> \in Tree(CutOf(base))

Shaped == \A b \in todo : \E base, k \in Nat : Node(b, base, k)

\* What waits has no gap, up to the last issue.
NoGap == \A b \in todo : b.last < Unjudged => \E c \in todo : c.first = b.last + 1

Broken(set, base, o) == o >= 0 /\ base + 1 + o \in set

\* The failed runs that breaking issues right before a place have left behind.
Carry(set, base, o) ==
    IF ~Broken(set, base, o - 1) THEN 0
    ELSE Chain(CutOf(base), o - 1) +
         (IF ~Broken(set, base, o - 2) THEN 0
          ELSE Chain(CutOf(base), o - 2) +
               (IF ~Broken(set, base, o - 3) THEN 0 ELSE Chain(CutOf(base), o - 3)))

\* The count of failed runs, at the next batch.
Accounted(b, base, k) ==
    (\E m \in breaking : InCut(base, m)) => failedInARow <= k + Carry(breaking, base, b.first - 1 - base)

RowInv ==
    badRuns = 0 /\ Together(breaking) =>
        /\ stopped # "failed"
        /\ \A b \in todo : IsNext(b) =>
              /\ failedInARow <= 7
              /\ \E base, k \in Nat : Node(b, base, k) /\ Accounted(b, base, k)

RunsInv == Shaped /\ NoGap /\ RowInv

LEMMA CutIsSmall ==
    ASSUME BatchSize <= 10, NEW base \in Nat, base < Unjudged
    PROVE  CutOf(base) \in 1..10 /\ CutOf(base) <= BatchSize /\ base + CutOf(base) <= Unjudged
BY SizesAssumption DEF CutOf, Least

LEMMA NodeIs ==
    ASSUME BatchSize <= 10, NEW b \in Batches, NEW base, NEW k, Node(b, base, k)
    PROVE  /\ base \in Nat /\ base < Unjudged /\ base % BatchSize = 0 /\ k \in Nat
           /\ CutOf(base) \in 1..10 /\ CutOf(base) <= BatchSize
           /\ b.first - 1 - base \in 0..(CutOf(base) - 1)
           /\ k < Chain(CutOf(base), b.first - 1 - base)
           /\ b.last <= base + CutOf(base)
           /\ \A m \in Members(b) : InCut(base, m)
<1>1. /\ base \in Nat /\ base < Unjudged /\ base % BatchSize = 0
      /\ <<b.first - 1 - base, Size(b), k>> \in Tree(CutOf(base))
    BY DEF Node
<1>2. CutOf(base) \in 1..10 /\ CutOf(base) <= BatchSize /\ base + CutOf(base) <= Unjudged
    BY <1>1, CutIsSmall
<1>3. PICK t : t = <<b.first - 1 - base, Size(b), k>>
    OBVIOUS
<1>4. /\ t \in Nat \X (Nat \ {0}) \X Nat
      /\ t[1] + t[2] <= CutOf(base) /\ t[3] < Chain(CutOf(base), t[1])
    BY <1>1, <1>2, <1>3, TreesAre DEF IsTree
<1>5. t[1] = b.first - 1 - base /\ t[2] = Size(b) /\ t[3] = k
    BY <1>3
<1>6. /\ b.first - 1 - base \in Nat /\ Size(b) \in Nat \ {0} /\ k \in Nat
      /\ b.first - 1 - base + Size(b) <= CutOf(base)
      /\ k < Chain(CutOf(base), b.first - 1 - base)
    BY <1>4, <1>5
<1>7. b.first \in Nat /\ b.last \in Nat
    BY MembersAreIssues
<1>8. b.first - 1 - base \in 0..(CutOf(base) - 1) /\ b.last <= base + CutOf(base)
    BY <1>1, <1>2, <1>6, <1>7 DEF Size
<1>9. \A m \in Members(b) : InCut(base, m)
    BY <1>1, <1>2, <1>6, <1>7, <1>8, SizesAssumption DEF Members, InCut
<1> QED
    BY <1>1, <1>2, <1>6, <1>8, <1>9

\* A batch that fails is halved into nodes of its cut.
LEMMA NodeHalves ==
    ASSUME BatchSize <= 10, NEW b \in Batches, NEW base, NEW k, Node(b, base, k), Size(b) # 1
    PROVE  \E left, right \in Batches :
             /\ Halves(b) = {left, right}
             /\ left.first = b.first /\ right.last = b.last
             /\ right.first = left.last + 1 /\ b.first < right.first
             /\ Node(left, base, k + 1) /\ Node(right, base, 0)
<1>1. /\ b.first \in Nat \ {0} /\ b.last \in Nat \ {0} /\ b.first <= b.last
      /\ b.last <= Unjudged /\ Unjudged \in Nat
    BY MembersAreIssues, SizesAssumption
<1>2. PICK size : size = Size(b)
    OBVIOUS
<1>3. size = b.last - b.first + 1 /\ size \in Nat /\ size > 1
    BY <1>1, <1>2 DEF Size
<1>4. PICK h : h = Half(size)
    OBVIOUS
<1>5. h \in Nat /\ 0 < h /\ h < size
    BY <1>3, <1>4 DEF Half
<1>6. PICK left, right : /\ left = [first |-> b.first, last |-> b.first + h - 1]
                         /\ right = [first |-> b.first + h, last |-> b.last]
    OBVIOUS
<1>7. Halves(b) = {left, right}
    <2>1. PICK middle : middle = b.first + ((Size(b) + 1) \div 2)
        OBVIOUS
    <2>2. middle = b.first + h
        BY <1>2, <1>4, <2>1 DEF Half
    <2>3. Halves(b) = {[first |-> b.first, last |-> middle - 1], [first |-> middle, last |-> b.last]}
        BY <2>1 DEF Halves
    <2>4. /\ left = [first |-> b.first, last |-> middle - 1]
          /\ right = [first |-> middle, last |-> b.last]
        <3>1. middle - 1 = b.first + h - 1
            BY <1>1, <1>5, <2>2
        <3> QED
            BY <1>6, <2>2, <3>1
    <2> QED
        BY ONLY <2>3, <2>4
<1>8. /\ left.first = b.first /\ left.last = b.first + h - 1
      /\ right.first = b.first + h /\ right.last = b.last
    BY <1>6
<1>9. left \in Batches /\ right \in Batches
    BY <1>1, <1>3, <1>5, <1>6 DEF Batches, Issues
<1>10. Size(left) = h /\ Size(right) = size - h
    BY <1>1, <1>3, <1>5, <1>8 DEF Size
<1>11. /\ base \in Nat /\ base < Unjudged /\ base % BatchSize = 0
       /\ <<b.first - 1 - base, size, k>> \in Tree(CutOf(base))
    BY <1>2 DEF Node
<1>12. CutOf(base) \in 1..10
    BY <1>11, CutIsSmall
<1>13. /\ <<b.first - 1 - base, h, k + 1>> \in Tree(CutOf(base))
       /\ <<b.first - 1 - base + h, size - h, 0>> \in Tree(CutOf(base))
    <2>1. PICK t : t = <<b.first - 1 - base, size, k>>
        OBVIOUS
    <2>2. t[2] > 1 => /\ <<t[1], Half(t[2]), t[3] + 1>> \in Tree(CutOf(base))
                      /\ <<t[1] + Half(t[2]), t[2] - Half(t[2]), 0>> \in Tree(CutOf(base))
        BY <1>11, <1>12, <2>1, TreesAre DEF IsTree
    <2>3. t[1] = b.first - 1 - base /\ t[2] = size /\ t[3] = k
        BY <2>1
    <2> QED
        BY <1>3, <1>4, <2>2, <2>3
<1>14. right.first - 1 - base = b.first - 1 - base + h
    BY <1>1, <1>5, <1>8, <1>11
<1>15. Node(left, base, k + 1) /\ Node(right, base, 0)
    BY <1>8, <1>10, <1>11, <1>13, <1>14 DEF Node
<1>16. right.first = left.last + 1 /\ b.first < right.first
    BY <1>1, <1>5, <1>8
<1> QED
    BY <1>7, <1>8, <1>9, <1>15, <1>16

\* A place is in one cut.
LEMMA OneCut ==
    ASSUME NEW base \in Nat, NEW other \in Nat, base % BatchSize = 0, other % BatchSize = 0,
           NEW m \in Nat, InCut(base, m), InCut(other, m)
    PROVE  base = other
<1>1. BatchSize \in Nat \ {0}
    BY SizesAssumption
<1>2. ASSUME NEW a \in Nat, NEW c \in Nat, a % BatchSize = 0, c % BatchSize = 0, a < c
      PROVE  a + BatchSize <= c
    <2>1. /\ a + 1 \in Nat \ {0} /\ c + 1 \in Nat \ {0} /\ a + 1 < c + 1
          /\ (a + 1) - 1 = a /\ (c + 1) - 1 = c
        BY <1>2
    <2>2. ((a + 1) - 1) % BatchSize = 0 /\ ((c + 1) - 1) % BatchSize = 0
        BY <1>2, <2>1
    <2>3. a + 1 + BatchSize <= c + 1
        BY <2>1, <2>2, CutsApart
    <2> QED
        BY <1>1, <2>3
<1>3. CASE base < other
    <2>1. base + BatchSize <= other
        BY <1>2, <1>3
    <2> QED
        BY <1>1, <2>1 DEF InCut
<1>4. CASE other < base
    <2>1. other + BatchSize <= base
        BY <1>2, <1>4
    <2> QED
        BY <1>1, <2>1 DEF InCut
<1> QED
    BY <1>3, <1>4

\* Places with the same quotient are in the same cut.
LEMMA SameCut ==
    ASSUME NEW base \in Nat, base % BatchSize = 0, NEW m \in Issues, NEW l \in Issues,
           InCut(base, m), (m - 1) \div BatchSize = (l - 1) \div BatchSize
    PROVE  InCut(base, l)
<1>1. BatchSize \in Nat \ {0} /\ m \in Nat \ {0} /\ l \in Nat \ {0}
    BY SizesAssumption DEF Issues
<1> DEFINE p == (m - 1) \div BatchSize
           r == (m - 1) % BatchSize
           s == (l - 1) % BatchSize
<1>2. /\ p \in Int /\ m - 1 = BatchSize * p + r /\ r \in 0..(BatchSize - 1)
      /\ l - 1 = BatchSize * p + s /\ s \in 0..(BatchSize - 1)
    <2>1. /\ p \in Int /\ m - 1 = BatchSize * p + r /\ r \in 0..(BatchSize - 1)
        BY <1>1
    <2>2. /\ l - 1 = BatchSize * ((l - 1) \div BatchSize) + s /\ s \in 0..(BatchSize - 1)
        BY <1>1
    <2> QED
        BY <2>1, <2>2
<1>3. p >= 0
    BY <1>1
<1> HIDE DEF p, r, s
<1>4. PICK other : other = BatchSize * p
    OBVIOUS
<1>5. other \in Nat
    BY <1>1, <1>2, <1>3, <1>4
<1>6. other % BatchSize = 0
    BY <1>1, <1>2, <1>3, <1>4
<1>7. InCut(other, m) /\ InCut(other, l)
    BY <1>1, <1>2, <1>4, <1>5 DEF InCut
<1>8. other = base
    BY <1>1, <1>5, <1>6, <1>7, OneCut
<1> QED
    BY <1>7, <1>8

LEMMA CarryCounts ==
    ASSUME NEW set \in SUBSET Issues, NEW base \in Nat, CutOf(base) \in 1..10, NEW o \in 0..CutOf(base)
    PROVE  Carry(set, base, o) \in Nat
<1>1. \A x \in Int : Broken(set, base, x) => x \in Nat
    BY DEF Broken
<1>2. \A x \in 0..(CutOf(base) - 1) : Chain(CutOf(base), x) \in Nat
    BY ChainsCount
<1>3. /\ Broken(set, base, o - 1) => Chain(CutOf(base), o - 1) \in Nat
      /\ Broken(set, base, o - 2) => Chain(CutOf(base), o - 2) \in Nat
      /\ Broken(set, base, o - 3) => Chain(CutOf(base), o - 3) \in Nat
    BY <1>1, <1>2
<1> QED
    BY <1>3 DEF Carry

\* A breaking issue carries what it and those before it have failed to the next.
LEMMA CarryMoves ==
    ASSUME NEW set \in SUBSET Issues, NEW i \in Issues, set \subseteq i..(i + 2),
           NEW base \in Nat, CutOf(base) \in 1..10, NEW o \in 0..(CutOf(base) - 1),
           Broken(set, base, o)
    PROVE  Carry(set, base, o + 1) = Chain(CutOf(base), o) + Carry(set, base, o)
<1>1. i \in Nat
    BY DEF Issues
<1>2. o + 1 - 1 = o /\ o + 1 - 2 = o - 1 /\ o + 1 - 3 = o - 2
    OBVIOUS
<1>3. base + 1 + o \in i..(i + 2)
    BY DEF Broken
<1>4. ~Broken(set, base, o - 3)
    BY <1>1, <1>3 DEF Broken
<1>5. \A x \in 0..(CutOf(base) - 1) : Chain(CutOf(base), x) \in Nat
    BY ChainsCount
<1>6. /\ Broken(set, base, o - 1) => Chain(CutOf(base), o - 1) \in Nat
      /\ Broken(set, base, o - 2) => Chain(CutOf(base), o - 2) \in Nat
      /\ Chain(CutOf(base), o) \in Nat
    BY <1>5 DEF Broken
<1>7. Carry(set, base, o + 1) =
        Chain(CutOf(base), o) +
          (IF ~Broken(set, base, o - 1) THEN 0
           ELSE Chain(CutOf(base), o - 1) +
                (IF ~Broken(set, base, o - 2) THEN 0 ELSE Chain(CutOf(base), o - 2)))
    BY <1>2 DEF Carry
<1>8. Carry(set, base, o) =
        IF ~Broken(set, base, o - 1) THEN 0
        ELSE Chain(CutOf(base), o - 1) +
             (IF ~Broken(set, base, o - 2) THEN 0 ELSE Chain(CutOf(base), o - 2))
    BY <1>4, <1>6 DEF Carry
<1> QED
    BY <1>7, <1>8

\* With what they carry, no more than seven batches in a row fail.
LEMMA CarryIsShort ==
    ASSUME NEW set \in SUBSET Issues, NEW i \in Issues, set \subseteq i..(i + 2),
           NEW base \in Nat, CutOf(base) \in 1..10, NEW o \in 0..(CutOf(base) - 1),
           NEW m \in set, base + 1 + o <= m
    PROVE  Chain(CutOf(base), o) + Carry(set, base, o) <= 7
<1>1. i \in Nat /\ m \in i..(i + 2)
    BY DEF Issues
<1>2. ~Broken(set, base, o - 3)
    BY <1>1 DEF Broken
<1>3. PICK n : n = CutOf(base)
    OBVIOUS
<1>4. n \in 1..10 /\ o \in 0..(n - 1)
    BY <1>3
<1>5. Chain(n, o) \in Nat /\ Chain(n, o) <= 7
    BY <1>4, SevenAtMost, ChainsCount
<1>6. CASE ~Broken(set, base, o - 1)
    BY <1>3, <1>5, <1>6 DEF Carry
<1>7. CASE Broken(set, base, o - 1) /\ ~Broken(set, base, o - 2)
    <2>1. o - 1 \in 0..(n - 1) /\ (o - 1) + 1 < n /\ (o - 1) + 1 = o
        BY <1>4, <1>7 DEF Broken
    <2>2. Chain(n, o - 1) + Chain(n, o) <= 7 /\ Chain(n, o - 1) \in Nat
        <3>1. Chain(n, o - 1) + Chain(n, (o - 1) + 1) <= 7
            BY <1>4, <2>1, SevenAtMost
        <3> QED
            BY <1>4, <2>1, <3>1, ChainsCount
    <2>3. Carry(set, base, o) = Chain(n, o - 1) + 0
        BY <1>3, <1>7 DEF Carry
    <2> QED
        BY <1>3, <1>5, <2>2, <2>3
<1>8. CASE Broken(set, base, o - 1) /\ Broken(set, base, o - 2)
    <2>1. o - 2 \in 0..(n - 1) /\ (o - 2) + 2 < n /\ (o - 2) + 2 = o /\ (o - 2) + 1 = o - 1
        BY <1>4, <1>8 DEF Broken
    <2>2. /\ Chain(n, o - 2) + Chain(n, o - 1) + Chain(n, o) <= 7
          /\ Chain(n, o - 2) \in Nat /\ Chain(n, o - 1) \in Nat
        <3>1. Chain(n, o - 2) + Chain(n, (o - 2) + 1) + Chain(n, (o - 2) + 2) <= 7
            BY <1>4, <2>1, SevenAtMost
        <3>2. Chain(n, o - 2) \in Nat /\ Chain(n, o - 1) \in Nat
            BY <1>4, <2>1, ChainsCount
        <3> QED
            BY <2>1, <3>1, <3>2
    <2>3. Carry(set, base, o) = Chain(n, o - 1) + (Chain(n, o - 2) + 0)
        BY <1>2, <1>3, <1>8 DEF Carry
    <2> QED
        BY <1>3, <1>5, <2>2, <2>3
<1> QED
    BY <1>6, <1>7, <1>8

LEMMA RunsStart == ASSUME BatchSize <= 10, FailedLimit >= 8, RoundInit PROVE RunsInv
<1> USE SizesAssumption
<1>1. /\ todo \subseteq Batches /\ failedInARow = 0 /\ stopped = "no"
      /\ breaking \in SUBSET Issues
    BY BreakingAssumption DEF RoundInit
<1>2. ASSUME NEW b \in todo
      PROVE  Node(b, b.first - 1, 0)
    <2>1. /\ b.first \in Nat \ {0} /\ b.last \in Nat \ {0} /\ b.first <= b.last /\ b.last <= Unjudged
        BY <1>1, MembersAreIssues
    <2>2. (b.first - 1) % BatchSize = 0 /\ b.last = Least(b.first + BatchSize - 1, Unjudged)
        BY <1>2 DEF RoundInit
    <2>3. PICK base : base = b.first - 1
        OBVIOUS
    <2>4. base \in Nat /\ base < Unjudged /\ b.first - 1 - base = 0
        BY <2>1, <2>3
    <2>5. Size(b) = CutOf(base)
        BY <2>1, <2>2, <2>3 DEF Size, CutOf, Least
    <2>6. <<0, CutOf(base), 0>> \in Tree(CutOf(base))
        BY <2>4, CutIsSmall, TreesAre DEF IsTree
    <2> QED
        BY <2>2, <2>3, <2>4, <2>5, <2>6 DEF Node
<1>3. ASSUME NEW b \in todo PROVE b.first - 1 \in Nat
    BY <1>1, MembersAreIssues
<1>4. Shaped
    BY <1>2, <1>3 DEF Shaped
<1>5. NoGap
    <2> SUFFICES ASSUME NEW b \in todo, b.last < Unjudged PROVE \E c \in todo : c.first = b.last + 1
        BY DEF NoGap
    <2>1. /\ b.first \in Nat \ {0} /\ b.last \in Nat \ {0} /\ b.first <= b.last /\ b.last <= Unjudged
        BY <1>1, MembersAreIssues
    <2>2. (b.first - 1) % BatchSize = 0 /\ b.last = Least(b.first + BatchSize - 1, Unjudged)
        BY DEF RoundInit
    <2>3. b.last = b.first + BatchSize - 1
        BY <2>1, <2>2 DEF Least
    <2>4. PICK f : f = b.last + 1
        OBVIOUS
    <2>5. f \in Issues /\ f - 1 = (b.first - 1) + BatchSize
        BY <2>1, <2>3, <2>4 DEF Issues
    <2>6. (f - 1) % BatchSize = 0
        <3>1. PICK g \in Issues : (g - 1) % BatchSize = 0 /\ g <= f /\ f <= g + BatchSize - 1
            BY <2>5, CutHolds
        <3>2. g \in Nat \ {0} /\ b.first < g
            BY <2>1, <2>3, <2>4, <3>1 DEF Issues
        <3>3. b.first + BatchSize <= g
            BY <2>1, <2>2, <3>1, <3>2, CutsApart
        <3>4. g = f
            BY <2>1, <2>3, <2>4, <3>1, <3>2, <3>3
        <3> QED
            BY <3>1, <3>4
    <2>7. PICK c : c = [first |-> f, last |-> Least(f + BatchSize - 1, Unjudged)]
        OBVIOUS
    <2>8. c.first = f /\ c.last = Least(f + BatchSize - 1, Unjudged)
        BY <2>7
    <2>9. c \in Batches
        BY <2>5, <2>7 DEF Batches, Issues, Least
    <2>10. c \in todo
        BY <2>6, <2>8, <2>9 DEF RoundInit
    <2> QED
        BY <2>4, <2>8, <2>10
<1>6. RowInv
    <2>1. ASSUME NEW b \in todo PROVE \E base, k \in Nat : Node(b, base, k) /\ Accounted(b, base, k)
        <3>1. PICK base : base = b.first - 1
            OBVIOUS
        <3>2. Node(b, base, 0) /\ base \in Nat
            BY <1>2, <1>3, <3>1
        <3>3. b.first - 1 - base \in 0..CutOf(base) /\ CutOf(base) \in 1..10
            BY <1>1, <3>2, NodeIs
        <3>4. Accounted(b, base, 0)
            BY <1>1, <3>2, <3>3, CarryCounts DEF Accounted
        <3> QED
            BY <3>2, <3>4
    <2> QED
        BY <1>1, <2>1 DEF RowInv
<1> QED
    BY <1>4, <1>5, <1>6 DEF RunsInv

\* The batch the round is on comes first, and is followed by what waits.
LEMMA NextIsFirst ==
    ASSUME IntakeInv, NEW b \in todo, IsNext(b), NEW c \in todo, c # b
    PROVE  b.last < c.first
<1>1. b \in Batches /\ c \in Batches /\ b.first <= c.first /\ Members(b) \cap Members(c) = {}
    BY DEF IntakeInv, JudgedOnce, RoundTypeOK, Apart, IsNext
<1>2. /\ b.first \in Nat /\ b.last \in Nat /\ b.first <= b.last
      /\ c.first \in Nat /\ c.last \in Nat /\ c.first <= c.last
    BY <1>1, MembersAreIssues
<1>3. c.first \notin b.first..b.last
    BY <1>1, <1>2 DEF Members
<1> QED
    BY <1>1, <1>2, <1>3

LEMMA RemovalKeeps ==
    ASSUME IntakeInv, Shaped, NoGap, NEW b \in todo, IsNext(b), todo' = todo \ {b}
    PROVE  Shaped' /\ NoGap'
<1>1. todo \subseteq Batches
    BY DEF IntakeInv, JudgedOnce, RoundTypeOK
<1>2. Shaped'
    BY DEF Shaped, Node
<1>3. NoGap'
    <2> SUFFICES ASSUME NEW c \in todo, c # b, c.last < Unjudged
                 PROVE  \E d \in todo : d # b /\ d.first = c.last + 1
        BY DEF NoGap
    <2>1. PICK d \in todo : d.first = c.last + 1
        BY DEF NoGap
    <2>2. b.last < c.first
        BY NextIsFirst
    <2>3. /\ b.first <= b.last /\ c.first <= c.last
          /\ b.first \in Nat /\ b.last \in Nat /\ c.first \in Nat /\ c.last \in Nat
        BY <1>1, MembersAreIssues
    <2>4. d # b
        BY <2>1, <2>2, <2>3
    <2> QED
        BY <2>1, <2>4
<1> QED
    BY <1>2, <1>3

\* A run that answers starts the count again.
LEMMA AnswersKeepRuns ==
    ASSUME BatchSize <= 10, IntakeInv, RunsInv, NEW b \in todo, IsNext(b), todo' = todo \ {b},
           breaking' = breaking, badRuns' = 0 => failedInARow' = 0 /\ stopped' # "failed"
    PROVE  RunsInv'
<1>1. todo \subseteq Batches /\ breaking \in SUBSET Issues
    BY DEF IntakeInv, JudgedOnce, RoundTypeOK
<1>2. Shaped' /\ NoGap'
    BY RemovalKeeps DEF RunsInv
<1>3. RowInv'
    <2> SUFFICES ASSUME badRuns' = 0, Together(breaking), NEW c \in todo'
                 PROVE  \E base, k \in Nat : Node(c, base, k) /\ Accounted(c, base, k)'
        <3>1. badRuns' = 0 => failedInARow' <= 7 /\ stopped' # "failed"
            OBVIOUS
        <3> QED
            BY <3>1 DEF RowInv, Together, Node
    <2>1. c \in todo /\ c \in Batches
        BY <1>1
    <2>2. PICK base, k \in Nat : Node(c, base, k)
        BY <2>1 DEF RunsInv, Shaped
    <2>3. c.first - 1 - base \in 0..CutOf(base) /\ CutOf(base) \in 1..10
        BY <2>1, <2>2, NodeIs
    <2>4. Accounted(c, base, k)'
        BY <1>1, <2>2, <2>3, CarryCounts DEF Accounted
    <2> QED
        BY <2>2, <2>4
<1> QED
    BY <1>2, <1>3 DEF RunsInv

\* A batch that fails was accounted for, and is not the eighth.
LEMMA FailureIsAccounted ==
    ASSUME BatchSize <= 10, IntakeInv, NEW b \in todo, NEW i \in Issues, breaking \subseteq i..(i + 2),
           NEW base \in Nat, NEW k \in Nat, Node(b, base, k), Accounted(b, base, k),
           NEW m \in breaking, m \in Members(b)
    PROVE  /\ failedInARow + 1 <= k + 1 + Carry(breaking, base, b.first - 1 - base)
           /\ failedInARow + 1 <= 7
           /\ failedInARow + 1 <= Chain(CutOf(base), b.first - 1 - base)
                                    + Carry(breaking, base, b.first - 1 - base)
<1>1. b \in Batches /\ breaking \in SUBSET Issues /\ failedInARow \in Nat
    BY SizesAssumption DEF IntakeInv, JudgedOnce, RoundTypeOK
<1>2. PICK n, o : n = CutOf(base) /\ o = b.first - 1 - base
    OBVIOUS
<1>3. n \in 1..10 /\ o \in 0..(n - 1) /\ k < Chain(n, o) /\ InCut(base, m)
    BY <1>1, <1>2, NodeIs
<1>4. Chain(n, o) \in Nat /\ Carry(breaking, base, o) \in Nat
    BY <1>1, <1>2, <1>3, ChainsCount, CarryCounts
<1>5. failedInARow <= k + Carry(breaking, base, o)
    BY <1>2, <1>3 DEF Accounted
<1>6. b.first \in Nat /\ b.first <= m /\ m \in Nat
    BY <1>1, MembersAreIssues DEF Members
<1>7. base + 1 + o <= m
    BY <1>2, <1>6
<1>8. Chain(n, o) + Carry(breaking, base, o) <= 7
    BY <1>1, <1>2, <1>3, <1>7, CarryIsShort
<1>9. /\ failedInARow + 1 <= k + 1 + Carry(breaking, base, o)
      /\ failedInARow + 1 <= 7
      /\ failedInARow + 1 <= Chain(n, o) + Carry(breaking, base, o)
    BY <1>1, <1>3, <1>4, <1>5, <1>8
<1> QED
    BY <1>2, <1>9

\* A batch that failed is next in its first half, which began where it did.
LEMMA HalvingKeepsRuns ==
    ASSUME BatchSize <= 10, FailedLimit >= 8, IntakeInv, RunsInv, NEW b \in todo, IsNext(b),
           Size(b) # 1, Fails(b), badRuns' = 0 => badRuns = 0 /\ Members(b) \cap breaking # {}
    PROVE  RunsInv'
<1>1. /\ todo \subseteq Batches /\ breaking \in SUBSET Issues /\ failedInARow \in Nat
      /\ b \in Batches
    BY SizesAssumption DEF IntakeInv, JudgedOnce, RoundTypeOK
<1>2. PICK base, k \in Nat :
        /\ Node(b, base, k)
        /\ badRuns = 0 /\ Together(breaking) => Accounted(b, base, k) /\ failedInARow <= 7
    BY DEF RunsInv, Shaped, RowInv
<1>3. PICK left, right \in Batches :
        /\ Halves(b) = {left, right}
        /\ left.first = b.first /\ right.last = b.last
        /\ right.first = left.last + 1 /\ b.first < right.first
        /\ Node(left, base, k + 1) /\ Node(right, base, 0)
    BY <1>1, <1>2, NodeHalves
<1>4. /\ todo' = (todo \ {b}) \union {left, right} /\ breaking' = breaking
      /\ failedInARow' = failedInARow + 1
      /\ stopped' = IF failedInARow' >= FailedLimit THEN "failed" ELSE stopped
      /\ stopped = "no"
    BY <1>3 DEF Fails, IsNext
<1>5. Shaped'
    <2> SUFFICES ASSUME NEW c \in todo' PROVE \E x, y \in Nat : Node(c, x, y)
        BY DEF Shaped, Node
    <2>1. CASE c = left
        BY <1>2, <1>3, <2>1
    <2>2. CASE c = right
        BY <1>2, <1>3, <2>2
    <2>3. CASE c \in todo
        BY <2>3 DEF RunsInv, Shaped
    <2> QED
        BY <1>4, <2>1, <2>2, <2>3
<1>6. NoGap'
    <2> SUFFICES ASSUME NEW c \in todo', c.last < Unjudged PROVE \E d \in todo' : d.first = c.last + 1
        BY DEF NoGap
    <2>1. CASE c = left
        BY <1>3, <1>4, <2>1
    <2>2. CASE c = right
        <3>1. PICK d \in todo : d.first = b.last + 1
            BY <1>3, <2>2 DEF RunsInv, NoGap
        <3>2. d # b
            BY <1>1, <3>1, MembersAreIssues
        <3> QED
            BY <1>3, <1>4, <2>2, <3>1, <3>2
    <2>3. CASE c \in todo /\ c # b
        <3>1. PICK d \in todo : d.first = c.last + 1
            BY <2>3 DEF RunsInv, NoGap
        <3>2. b.last < c.first
            BY <2>3, NextIsFirst
        <3>3. d # b
            BY <1>1, <2>3, <3>1, <3>2, MembersAreIssues
        <3> QED
            BY <1>4, <3>1, <3>3
    <2> QED
        BY <1>4, <2>1, <2>2, <2>3
<1>7. RowInv'
    <2> SUFFICES ASSUME badRuns' = 0, Together(breaking)
                 PROVE  /\ stopped' # "failed"
                        /\ \A c \in todo' : IsNext(c)' =>
                              /\ failedInARow' <= 7
                              /\ \E x, y \in Nat : Node(c, x, y) /\ Accounted(c, x, y)'
        BY <1>4 DEF RowInv, Together, Node
    <2>1. PICK m \in breaking : m \in Members(b)
        OBVIOUS
    <2>2. PICK i \in Issues : breaking \subseteq i..(i + 2)
        BY DEF Together
    <2>3. /\ failedInARow + 1 <= k + 1 + Carry(breaking, base, b.first - 1 - base)
          /\ failedInARow + 1 <= 7
        BY <1>2, <2>1, <2>2, FailureIsAccounted
    <2>4. stopped' = "no"
        BY <1>1, <1>4, <2>3, SizesAssumption
    <2>5. ASSUME NEW c \in todo', IsNext(c)' PROVE c = left
        <3>1. c.first <= left.first
            BY <1>4, <2>5 DEF IsNext
        <3>2. CASE c = right
            BY <1>1, <1>3, <3>1, <3>2, MembersAreIssues
        <3>3. CASE c \in todo /\ c # b
            <4>1. b.last < c.first
                BY <3>3, NextIsFirst
            <4> QED
                BY <1>1, <1>3, <3>1, <3>3, <4>1, MembersAreIssues
        <3> QED
            BY <1>4, <3>2, <3>3
    <2>6. Accounted(left, base, k + 1)'
        BY <1>3, <1>4, <2>3 DEF Accounted
    <2> QED
        BY <1>2, <1>3, <1>4, <2>3, <2>4, <2>5, <2>6
<1> QED
    BY <1>5, <1>6, <1>7 DEF RunsInv

\* An issue that failed alone is followed by the next of its cut, which it
\* carries over to, or by a cut that no issue breaks.
LEMMA AloneKeepsRuns ==
    ASSUME BatchSize <= 10, FailedLimit >= 8, IntakeInv, RunsInv, NEW b \in todo, IsNext(b),
           Size(b) = 1, Fails(b), badRuns' = 0 => badRuns = 0 /\ Members(b) \cap breaking # {}
    PROVE  RunsInv'
<1>1. /\ todo \subseteq Batches /\ breaking \in SUBSET Issues /\ failedInARow \in Nat
      /\ b \in Batches
    BY SizesAssumption DEF IntakeInv, JudgedOnce, RoundTypeOK
<1>2. /\ todo' = todo \ {b} /\ breaking' = breaking
      /\ failedInARow' = failedInARow + 1
      /\ stopped' = IF failedInARow' >= FailedLimit THEN "failed" ELSE stopped
      /\ stopped = "no"
    BY DEF Fails, IsNext, Halves
<1>3. Shaped' /\ NoGap'
    BY <1>2, RemovalKeeps DEF RunsInv
<1>4. /\ b.first \in Nat \ {0} /\ b.last = b.first /\ b.last <= Unjudged
      /\ \A m \in Members(b) : m = b.first
    BY <1>1, MembersAreIssues DEF Size, Members
<1>5. RowInv'
    <2> SUFFICES ASSUME badRuns' = 0, Together(breaking)
                 PROVE  /\ stopped' # "failed"
                        /\ \A c \in todo' : IsNext(c)' =>
                              /\ failedInARow' <= 7
                              /\ \E x, y \in Nat : Node(c, x, y) /\ Accounted(c, x, y)'
        BY <1>2 DEF RowInv, Together, Node
    <2>1. b.first \in breaking /\ b.first \in Members(b)
        BY <1>4
    <2>2. PICK i \in Issues : /\ breaking \subseteq i..(i + 2)
                              /\ \A j, l \in breaking : (j - 1) \div BatchSize = (l - 1) \div BatchSize
        BY DEF Together
    <2>3. PICK base, k \in Nat : Node(b, base, k) /\ Accounted(b, base, k)
        BY DEF RunsInv, RowInv
    <2>4. /\ failedInARow + 1 <= 7
          /\ failedInARow + 1 <= Chain(CutOf(base), b.first - 1 - base)
                                   + Carry(breaking, base, b.first - 1 - base)
        BY <2>1, <2>2, <2>3, FailureIsAccounted
    <2>5. stopped' = "no"
        BY <1>1, <1>2, <2>4, SizesAssumption
    <2>6. ASSUME NEW c \in todo', IsNext(c)'
          PROVE  \E x, y \in Nat : Node(c, x, y) /\ Accounted(c, x, y)'
        <3>1. c \in todo /\ c # b /\ c \in Batches
            BY <1>1, <1>2
        <3>2. c.first \in Nat /\ b.last < c.first /\ c.first <= Unjudged
            <4>1. b.last < c.first
                BY <3>1, NextIsFirst
            <4>2. c.first \in Nat /\ c.first <= c.last /\ c.last \in Nat /\ c.last <= Unjudged
                BY <3>1, MembersAreIssues
            <4> QED
                BY <4>1, <4>2, SizesAssumption
        <3>3. PICK d \in todo : d.first = b.last + 1
            BY <1>4, <3>2, SizesAssumption DEF RunsInv, NoGap
        <3>4. d # b
            BY <1>4, <3>3
        <3>5. c.first <= d.first
            BY <1>2, <2>6, <3>4 DEF IsNext
        <3>6. c.first = b.first + 1
            BY <1>4, <3>2, <3>3, <3>5
        <3>7. PICK other, j \in Nat : Node(c, other, j)
            BY <3>1 DEF RunsInv, Shaped
        <3>8. ASSUME NEW m \in breaking, InCut(other, m)
              PROVE  failedInARow + 1 <= j + Carry(breaking, other, c.first - 1 - other)
            <4>1. /\ other % BatchSize = 0 /\ base % BatchSize = 0 /\ InCut(base, b.first)
                  /\ CutOf(base) \in 1..10 /\ b.first - 1 - base \in 0..(CutOf(base) - 1)
                BY <1>1, <2>1, <2>3, <3>1, <3>7, NodeIs
            <4>2. InCut(other, b.first)
                BY <1>1, <2>1, <2>2, <3>8, <4>1, SameCut
            <4>3. other = base
                BY <1>4, <4>1, <4>2, OneCut
            <4>4. PICK o : o = b.first - 1 - base
                OBVIOUS
            <4>5. Broken(breaking, base, o) /\ c.first - 1 - other = o + 1
                BY <1>4, <2>1, <3>6, <4>1, <4>3, <4>4 DEF Broken
            <4>6. Carry(breaking, base, o + 1) = Chain(CutOf(base), o) + Carry(breaking, base, o)
                BY <1>1, <2>2, <4>1, <4>4, <4>5, CarryMoves
            <4>7. Carry(breaking, base, o) \in Nat /\ Chain(CutOf(base), o) \in Nat
                BY <1>1, <4>1, <4>4, CarryCounts, ChainsCount
            <4> QED
                BY <1>1, <2>4, <4>3, <4>4, <4>5, <4>6, <4>7
        <3>9. Accounted(c, other, j)'
            BY <1>2, <3>8 DEF Accounted
        <3> QED
            BY <3>7, <3>9
    <2> QED
        BY <1>2, <2>4, <2>5, <2>6
<1> QED
    BY <1>3, <1>5 DEF RunsInv

LEMMA RunsStep ==
    ASSUME BatchSize <= 10, FailedLimit >= 8, IntakeInv, RunsInv, [RoundNext]_roundVars
    PROVE  RunsInv'
<1>1. badRuns \in Nat
    BY SizesAssumption DEF IntakeInv, JudgedOnce, RoundTypeOK
<1>2. CASE RoundNext
    <2>1. PICK b \in Batches : RunsOn(b)
        BY <1>2 DEF RoundNext
    <2>2. b \in todo /\ IsNext(b) /\ stopped = "no" /\ b.first \in Members(b)
        BY <2>1, MembersAreIssues DEF RunsOn, IsNext, Members
    <2>3. Fault => badRuns' # 0
        BY <1>1 DEF Fault
    <2>4. \/ Fails(b) /\ (badRuns' = 0 => badRuns = 0 /\ Members(b) \cap breaking # {})
          \/ \E took, turnedDown \in SUBSET Members(b) : Answers(b, took, turnedDown)
        BY <2>1, <2>2, <2>3 DEF RunsOn
    <2>5. CASE Fails(b) /\ (badRuns' = 0 => badRuns = 0 /\ Members(b) \cap breaking # {})
        BY <2>2, <2>5, HalvingKeepsRuns, AloneKeepsRuns
    <2>6. CASE \E took, turnedDown \in SUBSET Members(b) : Answers(b, took, turnedDown)
        <3>1. /\ todo' = todo \ {b} /\ breaking' = breaking /\ failedInARow' = 0
              /\ stopped' # "failed"
            BY <2>2, <2>6 DEF Answers
        <3> QED
            BY <2>2, <3>1, AnswersKeepRuns
    <2> QED
        BY <2>4, <2>5, <2>6
<1>3. CASE UNCHANGED roundVars
    BY <1>3 DEF roundVars, RunsInv, Shaped, Node, NoGap, RowInv, Accounted, IsNext
<1> QED
    BY <1>2, <1>3

\* Neither count ends the round without the cause it is there for: with batches
\* of up to ten, as INTAKE_BATCH_SIZE has it, eight failed runs in a row
\* (INTAKE_FAILED_RUNS_LIMIT) are never the work of three issues next to each
\* other, however many issues there are and wherever those three stand.
THEOREM RoundStopsForCause ==
    ASSUME BatchSize <= 10, FailedLimit >= 8
    PROVE  RoundSpec => []StopsForCause
<1>1. RoundInit => RunsInv
    BY RunsStart
<1>2. IntakeInv /\ RunsInv /\ [RoundNext]_roundVars => RunsInv'
    BY RunsStep
<1>3. RunsInv /\ RefusalsAddUp => StopsForCause
    BY DEF RunsInv, RowInv, RoomForThree, StopsForCause
<1> QED
    BY <1>1, <1>2, <1>3, IntakeInvariant, RefusalsDoAddUp, PTL DEF RoundSpec
==============================================================================
