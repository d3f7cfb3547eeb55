---------------------------- MODULE Round_proofs ----------------------------
(* What a round promises, for every number of issues, rounds and runs: the    *)
(* type invariant, the inductive invariant RoundInv and what follows from it. *)
EXTENDS Round, FiniteSetTheorems, WellFoundedInduction, TLAPS

USE ConstantsAssumption

------------------------------------------------------------------------------
(* The planner's order.                                                       *)

\* A non-empty set of natural numbers has a least element.
LEMMA LeastNat ==
    ASSUME NEW T \in SUBSET Nat, T # {}
    PROVE  \E m \in T : \A k \in T : m <= k
<1>1. PICK m \in T : \A k \in T : <<k, m>> \notin OpToRel(<, Nat)
  BY ONLY WFMin, NatLessThanWellFounded, T \in SUBSET Nat, T # {}, Zenon
<1>2. OpToRel(<, Nat) = {ss \in Nat \X Nat : ss[1] < ss[2]}
  BY ONLY Zenon DEF OpToRel
<1>3. \A k \in T : ~(k < m)
  BY <1>1, <1>2
<1> QED BY <1>3

\* Of two picks, one comes first.
LEMMA PicksAreOrdered ==
    ASSUME TypeOK, NEW i \in Picked, NEW j \in Picked, i # j
    PROVE  Before(i, j) \/ Before(j, i)
<1>1. PICK m \in DOMAIN picks : picks[m] = i
  BY DEF Picked, Range
<1>2. PICK n \in DOMAIN picks : picks[n] = j
  BY DEF Picked, Range
<1>3. m \in Nat /\ n \in Nat /\ m # n
  BY <1>1, <1>2 DEF TypeOK
<1>4. m < n \/ n < m
  BY <1>3
<1> QED BY <1>1, <1>2, <1>4 DEF Before

\* Some picks have a first one among them.
LEMMA FirstIsOne ==
    ASSUME TypeOK, NEW S \in SUBSET Picked, S # {}
    PROVE  First(S) \in S
<1> DEFINE T == {n \in DOMAIN picks : picks[n] \in S}
<1>1. T \in SUBSET Nat /\ T # {}
  BY DEF TypeOK, Picked, Range
<1>2. PICK m \in T : \A k \in T : m <= k
  BY <1>1, LeastNat
<1>3. \A j \in S : j = picks[m] \/ Before(picks[m], j)
  <2> SUFFICES ASSUME NEW j \in S, j # picks[m]
               PROVE  Before(picks[m], j)
    OBVIOUS
  <2>1. PICK n \in DOMAIN picks : picks[n] = j
    BY DEF Picked, Range
  <2>2. m <= n /\ m # n /\ m \in Nat /\ n \in Nat
    BY <1>1, <1>2, <2>1
  <2>3. m < n
    BY <2>2
  <2> QED BY <1>2, <2>1, <2>3 DEF Before
<1>4. picks[m] \in S
  BY <1>2
<1> QED BY <1>3, <1>4 DEF First

------------------------------------------------------------------------------
(* Type correctness.                                                          *)

\* The issues a step asks about are few enough to count.
LEMMA FewIssues ==
    ASSUME NEW S \in SUBSET Issues
    PROVE  Cardinality(S) \in Nat
<1>1. IsFiniteSet(S)
  BY FS_Subset
<1> QED BY <1>1, FS_CardinalityType

\* A plan of nothing is a plan.
LEMMA NoPlanType ==
    /\ << >> \in Seq(Issues)
    /\ [i \in Issues |-> {}] \in [Issues -> SUBSET Files]
OBVIOUS

LEMMA InitTypeOK == Init => TypeOK
<1> SUFFICES ASSUME Init PROVE TypeOK
  OBVIOUS
<1>1. picks \in Seq(Issues) /\ files \in [Issues -> SUBSET Files]
  BY NoPlanType DEF Init
<1>2. changes \in [PRs -> SUBSET Files]
  BY DEF Init
<1>3. /\ state \in [Issues -> {"open", "completed", "not_planned"}]
      /\ label \in [Issues -> {"queued", "ready", "needs-human"}]
      /\ pr \in [PRs -> {"none", "open", "merged", "closed"}]
  BY DEF Init
<1>4. round \in 0 .. MaxRounds /\ runs \in 0 .. MaxRuns /\ events \in 0 .. MaxEvents
  BY DEF Init
<1>5. pc \in Steps /\ links \subseteq Issues \X Issues
  BY DEF Init, Steps
<1> QED BY ONLY Init, <1>1, <1>2, <1>3, <1>4, <1>5 DEF Init, TypeOK

\* What people and merges do.
LEMMA AroundTypeOK == TypeOK /\ Around => TypeOK'
<1> SUFFICES ASSUME TypeOK, Around PROVE TypeOK'
  OBVIOUS
<1> USE DEF TypeOK, PRs, Event, gated, plan, cache, builds
<1>1. ASSUME NEW p \in PRs, PRMerges(p) PROVE TypeOK'
  BY <1>1 DEF PRMerges
<1>2. ASSUME NEW p \in PRs, PRCloses(p) PROVE TypeOK'
  BY <1>2 DEF PRCloses
<1>3. ASSUME NEW p \in PRs, PRChanges(p) PROVE TypeOK'
  BY <1>3 DEF PRChanges
<1>4. CASE OtherPROpens
  BY <1>4 DEF OtherPROpens
<1>8. ASSUME NEW i \in Issues, IssuePROpens(i) PROVE TypeOK'
  BY <1>8 DEF IssuePROpens
<1>5. ASSUME NEW i \in Issues, PersonRequeues(i) PROVE TypeOK'
  BY <1>5 DEF PersonRequeues
<1>6. ASSUME NEW i \in Issues, PersonDrops(i) PROVE TypeOK'
  BY <1>6 DEF PersonDrops
<1>7. ASSUME NEW i \in Issues, NEW j \in Issues, PersonUnlinks(i, j) PROVE TypeOK'
  BY <1>7 DEF PersonUnlinks
<1> HIDE DEF TypeOK, PRs, Event, gated, plan, cache, builds
<1> QED BY <1>1, <1>2, <1>3, <1>4, <1>5, <1>6, <1>7, <1>8 DEF Around

\* A round is over: nothing of it is kept.
LEMMA RoundOverTypeOK ==
    ASSUME TypeOK, NotGated, NoPlan, NoBuilds, UNCHANGED <<github, runs>>,
           pc' \in Steps, round' \in 0 .. MaxRounds, held' \subseteq Issues,
           events' \in 0 .. MaxEvents
    PROVE  TypeOK'
<1>1. picks' \in Seq(Issues) /\ files' \in [Issues -> SUBSET Files]
  BY NoPlanType DEF NoPlan
<1>2. /\ behind' \subseteq Issues \X Issues /\ added' \subseteq Issues \X Issues
      /\ lost' \subseteq Issues \X Issues /\ behindPR' \subseteq Issues
      /\ readOf' \subseteq Issues /\ cached' \subseteq Issues \X Issues
      /\ unseen' \subseteq Issues \X Issues
  BY DEF NoPlan, TypeOK
<1>3. /\ state' \in [Issues -> {"open", "completed", "not_planned"}]
      /\ label' \in [Issues -> {"queued", "ready", "needs-human"}]
      /\ pr' \in [PRs -> {"none", "open", "merged", "closed"}]
      /\ changes' \in [PRs -> SUBSET Files]
      /\ links' \subseteq Issues \X Issues /\ requeued' \subseteq Issues
      /\ runs' \in 0 .. MaxRuns
  BY DEF TypeOK, github
<1>4. /\ listed' \subseteq Issues /\ cleared' \subseteq Issues /\ ready' \subseteq Issues
      /\ work' \subseteq Issues /\ claimed' \subseteq Issues /\ building' \subseteq Issues
      /\ published' \subseteq Issues /\ inFlight' \in BOOLEAN /\ stopped' \in BOOLEAN
      /\ opened' \subseteq Issues
  BY DEF NotGated, NoBuilds
<1> QED BY <1>1, <1>2, <1>3, <1>4 DEF TypeOK

\* The end of the run, or of a round of it.
LEMMA RunEndsTypeOK ==
    ASSUME TypeOK, RunEnds, UNCHANGED <<github, runs>>, events' \in 0 .. MaxEvents
    PROVE  TypeOK'
<1>1. pc' \in Steps /\ round' \in 0 .. MaxRounds /\ held' \subseteq Issues
  BY DEF RunEnds, Steps
<1> QED BY <1>1, RoundOverTypeOK DEF RunEnds

LEMMA NextRoundTypeOK ==
    ASSUME NEW holds \in SUBSET Issues, TypeOK, NextRound(holds), UNCHANGED <<github, runs, events>>
    PROVE  TypeOK'
<1>1. round' \in 0 .. MaxRounds
  BY DEF TypeOK, NextRound
<1>2. pc' \in Steps /\ held' \subseteq Issues /\ events' \in 0 .. MaxEvents
  BY DEF TypeOK, NextRound, Steps
<1> QED BY <1>1, <1>2, RoundOverTypeOK DEF NextRound

LEMMA HoldsTypeOK ==
    ASSUME TypeOK, NEW done \in SUBSET Issues
    PROVE  held \union LastingHolds(done) \in SUBSET Issues
BY DEF TypeOK, LastingHolds

LEMMA BuildsTypeOK ==
    ASSUME NEW S \in SUBSET Issues, TypeOK, Builds(S)
    PROVE  TypeOK'
BY DEF TypeOK, Builds, NotGated, github, plan, cache, Steps

LEMMA PickedType == TypeOK => Picked \in SUBSET Issues
BY DEF TypeOK, Picked, Range

LEMMA HeldNowType ==
    TypeOK => /\ HeldNow \in SUBSET Issues /\ Kept \in SUBSET Picked
              /\ Kept \in SUBSET Issues /\ Deferred \in SUBSET Issues
BY PickedType DEF TypeOK, HeldNow, Kept, Deferred

\* What a run does in a round.
LEMMA RoundTypeOK == TypeOK /\ RoundStep => TypeOK'
<1> SUFFICES ASSUME TypeOK, RoundStep PROVE TypeOK'
  OBVIOUS
<1>1. CASE Startup
  BY <1>1 DEF Startup, TypeOK, Steps, github, gated, plan, cache, builds
<1>2. CASE Sweeps
  <2>1. PICK failed \in SUBSET ToHandBack :
            /\ events' = events + Cardinality(failed) /\ events' <= MaxEvents
            /\ label' = [i \in Issues |->
                            IF i \in ToHandBack \ failed THEN "needs-human" ELSE label[i]]
    BY <1>2 DEF Sweeps
  <2>2. Cardinality(failed) \in Nat
    BY FewIssues DEF ToHandBack
  <2>3. events' \in 0 .. MaxEvents
    BY <2>1, <2>2 DEF TypeOK
  <2>4. label' \in [Issues -> {"queued", "ready", "needs-human"}]
    BY <2>1 DEF TypeOK
  <2> QED BY <1>2, <2>3, <2>4 DEF Sweeps, TypeOK, Steps, gated, plan, cache, builds
<1>3. CASE FindsNoWork
  BY <1>3, RunEndsTypeOK DEF FindsNoWork, TypeOK
<1>4. CASE Intakes
  BY <1>4 DEF Intakes, TypeOK, Steps, gated, plan, cache, builds
<1>5. CASE ListsIssues
  BY <1>5 DEF ListsIssues, TypeOK, Steps, github, plan, cache, builds
<1>6. CASE Gate
  <2>1. PICK unread \in SUBSET cleared :
            /\ events' = events + Cardinality(unread) /\ events' <= MaxEvents
            /\ ready' = {i \in cleared \ unread : pr[i] # "open" /\ ~Blocked(i)}
    BY <1>6 DEF Gate
  <2>2. Cardinality(unread) \in Nat
    BY FewIssues DEF TypeOK
  <2>3. events' \in 0 .. MaxEvents
    BY <2>1, <2>2 DEF TypeOK
  <2> QED BY <1>6, <2>1, <2>3 DEF Gate, TypeOK, Steps, github, plan, cache, builds
<1>7. CASE Plans
  <2>1. PICK S \in (SUBSET (ready \ held)) \ {{}} :
            /\ picks' \in Bijection(1 .. Cardinality(S), S)
            /\ \E expected \in [S -> SUBSET Files] :
                files' = [i \in Issues |-> IF i \in S THEN expected[i] ELSE {}]
    BY <1>7 DEF Plans
  <2>2. S \in SUBSET Issues /\ Cardinality(S) \in Nat
    BY FewIssues DEF TypeOK
  <2>3. picks' \in [1 .. Cardinality(S) -> Issues]
    BY <2>1, <2>2 DEF Bijection, Injection
  <2>4. picks' \in Seq(Issues)
    BY <2>2, <2>3
  <2>5. files' \in [Issues -> SUBSET Files]
    BY <2>1, <2>2
  <2> QED BY <1>7, <2>4, <2>5 DEF Plans, TypeOK, Steps, github, gated, cache, builds
<1>8. CASE NothingToPlan
  BY <1>8, RunEndsTypeOK DEF NothingToPlan, TypeOK
<1>9. CASE HoldsOverlaps
  <2>1. PICK K \in SUBSET Picked :
            /\ IsWalk(K)
            /\ \E path \in [(Picked \ K) \ NoFiles -> Files] :
                /\ \A i \in DOMAIN path :
                    path[i] \in files[i] /\ (path[i] \in Changed \/ Claimants(K, i, path[i]) # {})
                /\ behind' = FilesBehind(K, path) \union NoFilesBehind(K)
                /\ behindPR' = FilesBehindPR(K, path) \union NoFilesBehindPR
    BY <1>9 DEF HoldsOverlaps
  <2>p. PICK path \in [(Picked \ K) \ NoFiles -> Files] :
            /\ behind' = FilesBehind(K, path) \union NoFilesBehind(K)
            /\ behindPR' = FilesBehindPR(K, path) \union NoFilesBehindPR
    BY <2>1
  <2>2. K \in SUBSET Issues /\ NoFiles \in SUBSET Issues /\ DOMAIN path \in SUBSET Issues
        /\ NoFiles \in SUBSET Picked
    BY PickedType DEF NoFiles
  <2>3. NoFilesBehind(K) \in SUBSET (Issues \X Issues)
    BY <2>2, FirstIsOne DEF NoFilesBehind
  <2>4. FilesBehind(K, path) \in SUBSET (Issues \X Issues)
    BY <2>2 DEF FilesBehind
  <2>5. behindPR' \in SUBSET Issues
    BY <2>p, <2>2 DEF FilesBehindPR, NoFilesBehindPR
  <2> QED BY <1>9, <2>p, <2>3, <2>4, <2>5 DEF HoldsOverlaps, TypeOK, Steps, github, gated, cache, builds
<1>10. CASE KeepsNone
  BY <1>10, NextRoundTypeOK, HoldsTypeOK DEF KeepsNone
<1>11. ASSUME NEW i \in Issues, NEW j \in Issues, Defers(i, j) PROVE TypeOK'
  BY <1>11 DEF Defers, Links, TypeOK, gated, builds
<1>22. ASSUME NEW i \in Issues, NEW j \in Issues, DeferFails(i, j) PROVE TypeOK'
  BY <1>22 DEF DeferFails, Links, Event, TypeOK, gated, builds
<1>23. ASSUME NEW k \in Issues, ReadsLinks(k) PROVE TypeOK'
  BY <1>23 DEF ReadsLinks, TypeOK, github, gated, plan, builds
<1>12. CASE DefersAll
  BY <1>12, NextRoundTypeOK, HoldsTypeOK DEF DefersAll
<1>13. CASE CritiqueEnds
  BY <1>13, BuildsTypeOK, HeldNowType DEF CritiqueEnds
<1>14. CASE CritiqueFails
  <2>1. First(Kept) \in Issues
    BY <1>14, FirstIsOne, HeldNowType DEF CritiqueFails
  <2> QED BY <1>14, <2>1, BuildsTypeOK DEF CritiqueFails
<1>15. ASSUME NEW i \in Issues, Begins(i) PROVE TypeOK'
  BY <1>15 DEF Begins, TypeOK, github, gated, plan, cache
<1>16. ASSUME NEW i \in Issues, HandsBackInstead(i) PROVE TypeOK'
  BY <1>16 DEF HandsBackInstead, TypeOK, gated, plan, cache
<1>17. ASSUME NEW i \in Issues, Publishes(i) PROVE TypeOK'
  BY <1>17 DEF Publishes, TypeOK, Event, PRs, gated, plan, cache
<1>18. ASSUME NEW i \in Issues, EndsUnpublished(i) PROVE TypeOK'
  BY <1>18 DEF EndsUnpublished, TypeOK, gated, plan, cache
<1>19. ASSUME NEW i \in Issues, Stops(i) PROVE TypeOK'
  BY <1>19 DEF Stops, TypeOK, Event, github, gated, plan, cache
<1>20. CASE RoundEnds
  BY <1>20, RunEndsTypeOK, NextRoundTypeOK, HoldsTypeOK DEF RoundEnds, TypeOK
<1>21. CASE Aborts
  BY <1>21, RunEndsTypeOK DEF Aborts, Event, TypeOK
<1> QED
  BY <1>1, <1>2, <1>3, <1>4, <1>5, <1>6, <1>7, <1>8, <1>9, <1>10, <1>11, <1>12, <1>13, <1>14,
     <1>15, <1>16, <1>17, <1>18, <1>19, <1>20, <1>21, <1>22, <1>23 DEF RoundStep

\* The values the run and GitHub hold stay what the model says they are.
THEOREM TypeCorrect == Spec => []TypeOK
<1>1. TypeOK /\ [Next]_vars => TypeOK'
  <2>1. TypeOK /\ UNCHANGED vars => TypeOK'
    BY DEF TypeOK, vars, github, gated, plan, cache, builds
  <2> QED BY <2>1, AroundTypeOK, RoundTypeOK DEF Next
<1> QED BY <1>1, InitTypeOK, PTL DEF Spec

------------------------------------------------------------------------------
(* The inductive invariant.                                                   *)

\* Links that a ring cannot be made of stay so when some are removed.
LEMMA FewerLinks ==
    ASSUME NEW L, NEW M, M \subseteq L, Acyclic(L)
    PROVE  Acyclic(M)
BY DEF Acyclic

\* What the critique knows of the links stays so while it reads and adds none and
\* only links are removed.
LEMMA LinksKept ==
    ASSUME NoRing, ReadsAreKnown, links' \subseteq links, UNCHANGED <<readOf, cached, added>>,
           \A l \in links' : l \in unseen => l \in unseen'
    PROVE  NoRing' /\ ReadsAreKnown'
<1>1. links' \ unseen' \subseteq links \ unseen
  OBVIOUS
<1>2. NoRing'
  BY <1>1, FewerLinks DEF NoRing
<1>3. ReadsAreKnown'
  BY DEF ReadsAreKnown, Known
<1> QED BY <1>2, <1>3

\* A critique that is over has read nothing and, but for a ring, missed nothing.
LEMMA NoPlanLinks ==
    ASSUME NoRing, NoPlan, UNCHANGED links
    PROVE  NoRing' /\ ReadsAreKnown'
<1>1. CASE Acyclic(links)
  <2>1. links' \ unseen' \subseteq links
    OBVIOUS
  <2>2. NoRing'
    BY <1>1, <2>1, FewerLinks DEF NoRing
  <2> QED BY <2>2 DEF NoPlan, ReadsAreKnown
<1>2. CASE ~Acyclic(links)
  <2>1. links' \ unseen' = links \ unseen
    BY <1>2 DEF NoPlan
  <2>2. NoRing'
    BY <2>1, FewerLinks DEF NoRing
  <2> QED BY <2>2 DEF NoPlan, ReadsAreKnown
<1> QED BY <1>1, <1>2

\* A step around the run, or inside a build, touches nothing the round planned,
\* adds no link and leaves what has landed.
LEMMA CalmStep ==
    ASSUME RoundInv, TypeOK',
           UNCHANGED <<pc, held, ready, plan, readOf, cached, work>>,
           links' \subseteq links,
           \A l \in links' : l \in unseen => l \in unseen',
           \A i \in Issues : state[i] = "completed" => state'[i] = "completed"
    PROVE  RoundInv'
<1> USE DEF plan
<1>1. Picked' = Picked /\ HeldNow' = HeldNow /\ Kept' = Kept
  BY DEF Picked, HeldNow, Kept, Range
<1>2. PicksChosen' /\ KeptApart' /\ HoldsAreBehindKept' /\ BuildsApart'
  BY <1>1 DEF RoundInv, PicksChosen, KeptApart, HoldsAreBehindKept, BuildsApart, Apart
<1>3. ReadyIsUnblocked'
  BY DEF RoundInv, ReadyIsUnblocked
<1>4. WorkIsUnblocked'
  BY DEF RoundInv, WorkIsUnblocked, TypeOK
<1>5. WorkIsBuilding' /\ NoRing' /\ ReadsAreKnown'
  BY LinksKept DEF RoundInv, WorkIsBuilding
<1> QED BY <1>2, <1>3, <1>4, <1>5 DEF RoundInv

\* Before the gate has read anything, and once a round is over, nothing is
\* planned or built.
LEMMA EarlyStep ==
    ASSUME RoundInv, TypeOK',
           pc' \in {"off", "top", "intake", "listing", "gate"},
           work' = {}, NoRing', ReadsAreKnown'
    PROVE  RoundInv'
BY DEF RoundInv, PicksChosen, KeptApart, HoldsAreBehindKept, ReadyIsUnblocked,
       WorkIsBuilding, BuildsApart, Apart, WorkIsUnblocked

\* What people and merges do is calm.
LEMMA AroundInv ==
    ASSUME RoundInv, Around, TypeOK'
    PROVE  RoundInv'
<1> USE DEF Around, plan, cache, builds, gated
<1>1. UNCHANGED <<pc, held, ready, plan, readOf, cached, work>>
  BY DEF PRMerges, PRCloses, PRChanges, OtherPROpens, IssuePROpens, PersonRequeues, PersonDrops,
         PersonUnlinks
<1>2. links' \subseteq links /\ \A l \in links' : l \in unseen => l \in unseen'
  BY DEF PRMerges, PRCloses, PRChanges, OtherPROpens, IssuePROpens, PersonRequeues, PersonDrops,
         PersonUnlinks
<1>3. \A i \in Issues : state[i] = "completed" => state'[i] = "completed"
  <2>1. state \in [Issues -> {"open", "completed", "not_planned"}]
    BY DEF RoundInv, TypeOK
  <2>2. ASSUME NEW p \in PRs, PRMerges(p)
        PROVE  \A i \in Issues : state[i] = "completed" => state'[i] = "completed"
    BY <2>2 DEF PRMerges
  <2>3. ASSUME NEW i \in Issues, PersonDrops(i)
        PROVE  \A j \in Issues : state[j] = "completed" => state'[j] = "completed"
    BY <2>1, <2>3 DEF PersonDrops
  <2>4. \/ \E p \in PRs : PRMerges(p)
        \/ \E i \in Issues : PersonDrops(i)
        \/ state' = state
    BY DEF PRCloses, PRChanges, OtherPROpens, IssuePROpens, PersonRequeues, PersonUnlinks
  <2> QED BY <2>2, <2>3, <2>4
<1> QED BY <1>1, <1>2, <1>3, CalmStep

\* The gate lets through only what waits on nothing.
LEMMA GateInv ==
    ASSUME RoundInv, Gate, TypeOK'
    PROVE  RoundInv'
<1>1. work' = {} /\ pc' = "planning" /\ links' = links /\ state' = state
  BY DEF RoundInv, WorkIsBuilding, Gate, github, builds
<1>2. ReadyIsUnblocked'
  BY <1>1 DEF Gate, ReadyIsUnblocked, Blocked
<1>3. PicksChosen' /\ KeptApart' /\ HoldsAreBehindKept' /\ WorkIsBuilding'
  BY <1>1 DEF PicksChosen, KeptApart, HoldsAreBehindKept, WorkIsBuilding
<1>4. BuildsApart' /\ WorkIsUnblocked'
  BY <1>1 DEF BuildsApart, Apart, WorkIsUnblocked
<1>5. NoRing' /\ ReadsAreKnown'
  BY <1>1, LinksKept DEF RoundInv, Gate, plan, cache
<1> QED BY <1>2, <1>3, <1>4, <1>5 DEF RoundInv

\* The planner picks from what passed.
LEMMA PlansInv ==
    ASSUME RoundInv, Plans, TypeOK'
    PROVE  RoundInv'
<1>1. work' = {} /\ pc' = "overlap" /\ links' = links /\ state' = state
  BY DEF RoundInv, WorkIsBuilding, Plans, github, builds
<1>2. PICK S \in (SUBSET (ready \ held)) \ {{}} : picks' \in Bijection(1 .. Cardinality(S), S)
  BY DEF Plans
<1>3. Picked' = S
  BY <1>2 DEF Picked, Range, Bijection, Surjection
<1>4. PicksChosen'
  BY <1>2, <1>3 DEF PicksChosen, Plans, gated
<1>5. ReadyIsUnblocked'
  BY <1>1 DEF RoundInv, Plans, gated, ReadyIsUnblocked
<1>6. KeptApart' /\ HoldsAreBehindKept' /\ WorkIsBuilding'
  BY <1>1 DEF KeptApart, HoldsAreBehindKept, WorkIsBuilding
<1>7. BuildsApart' /\ WorkIsUnblocked'
  BY <1>1 DEF BuildsApart, Apart, WorkIsUnblocked
<1>8. NoRing' /\ ReadsAreKnown'
  BY <1>1, LinksKept DEF RoundInv, Plans, cache
<1> QED BY <1>4, <1>5, <1>6, <1>7, <1>8 DEF RoundInv

\* What the walk keeps is apart, and every hold is behind one of what it keeps
\* or behind a pull request.
LEMMA HoldsOverlapsInv ==
    ASSUME RoundInv, HoldsOverlaps, TypeOK'
    PROVE  RoundInv'
<1>1. /\ work' = {} /\ pc' = "critique" /\ links' = links /\ state' = state
      /\ picks' = picks /\ files' = files /\ ready' = ready /\ held' = held /\ added' = added
      /\ lost' = lost
  BY DEF RoundInv, WorkIsBuilding, HoldsOverlaps, github, gated, builds
<1>2. Picked # {} /\ Picked \subseteq ready \ held /\ Picked \in SUBSET Issues /\ TypeOK
  BY PickedType DEF RoundInv, PicksChosen, HoldsOverlaps
<1>3. PICK K \in SUBSET Picked :
        /\ IsWalk(K)
        /\ \E path \in [(Picked \ K) \ NoFiles -> Files] :
            /\ \A i \in DOMAIN path :
                path[i] \in files[i] /\ (path[i] \in Changed \/ Claimants(K, i, path[i]) # {})
            /\ behind' = FilesBehind(K, path) \union NoFilesBehind(K)
            /\ behindPR' = FilesBehindPR(K, path) \union NoFilesBehindPR
  BY DEF HoldsOverlaps
<1>4. PICK path \in [(Picked \ K) \ NoFiles -> Files] :
        /\ behind' = FilesBehind(K, path) \union NoFilesBehind(K)
        /\ behindPR' = FilesBehindPR(K, path) \union NoFilesBehindPR
  BY <1>3
<1>5. NoFiles \in SUBSET Picked /\ K \intersect NoFiles = {}
  BY <1>3 DEF NoFiles, IsWalk
<1> DEFINE blocker == First(IF K # {} THEN K ELSE NoFiles)
<1>6. NoFiles # {} => blocker \in (IF K # {} THEN K ELSE NoFiles)
  BY <1>2, <1>5, FirstIsOne
<1>7. Picked' = Picked
  BY <1>1 DEF Picked, Range
<1>8. \A i, j : <<i, j>> \in behind' =>
        \/ i \in (Picked \ K) \ NoFiles /\ j \in K
        \/ NoFiles # {} /\ OpenPRs = {} /\ i \in NoFiles \ {blocker} /\ j = blocker
  BY <1>4 DEF FilesBehind, NoFilesBehind
<1>9. K \subseteq Kept'
  BY <1>2, <1>4, <1>5, <1>6, <1>7, <1>8
     DEF Kept, HeldNow, FilesBehindPR, NoFilesBehindPR
<1>10. ASSUME K = {}, OpenPRs = {}, NoFiles # {}
       PROVE  blocker \in Kept'
  BY <1>10, <1>4, <1>5, <1>6, <1>7, <1>8
     DEF Kept, HeldNow, FilesBehindPR, NoFilesBehindPR
<1>11. \A i \in Kept' : i \in K \/ (K = {} /\ i \in NoFiles /\ i = blocker)
  <2> SUFFICES ASSUME NEW i \in Kept', i \notin K
               PROVE  K = {} /\ i \in NoFiles /\ i = blocker
    OBVIOUS
  <2>1. i \in Picked /\ i \in Issues /\ i \notin behindPR' /\ \A j \in Issues : <<i, j>> \notin behind'
    BY <1>2, <1>7 DEF Kept, HeldNow
  <2>2. i \in NoFiles
    <3> SUFFICES ASSUME i \notin NoFiles PROVE FALSE
      OBVIOUS
    <3>1. i \in DOMAIN path
      BY <2>1
    <3>2. PICK j \in Claimants(K, i, path[i]) : TRUE
      BY <1>4, <2>1, <3>1 DEF FilesBehindPR
    <3>3. j \in K /\ j \in Issues
      BY <1>2, <3>2 DEF Claimants
    <3>4. <<i, j>> \in FilesBehind(K, path)
      BY <3>1, <3>2, <3>3 DEF FilesBehind
    <3> QED BY <1>4, <2>1, <3>3, <3>4
  <2>3. OpenPRs = {}
    BY <1>4, <2>1, <2>2 DEF NoFilesBehindPR
  <2>4. blocker \in Issues
    BY <1>2, <1>5, <1>6, <2>2
  <2>5. i = blocker
    BY <1>4, <2>1, <2>2, <2>3, <2>4 DEF NoFilesBehind
  <2> QED BY <1>5, <1>6, <2>2, <2>5
<1>12. PicksChosen'
  BY <1>1, <1>2, <1>7 DEF PicksChosen
<1>13. KeptApart'
  <2>1. HeldNow' \subseteq Picked'
    BY <1>4, <1>5, <1>7, <1>8 DEF HeldNow, FilesBehindPR, NoFilesBehindPR
  <2>2. \A i, j \in K : i # j => files[i] # {} /\ files[i] \intersect files[j] = {}
    BY <1>2, <1>3, PicksAreOrdered DEF IsWalk
  <2>3. Apart(Kept)'
    BY <1>1, <1>11, <2>2 DEF Apart
  <2> QED BY <2>1, <2>3 DEF KeptApart
<1>14. HoldsAreBehindKept'
  <2>1. \A i, j : <<i, j>> \in behind' => i \in Picked /\ j \in Kept'
    BY <1>5, <1>6, <1>8, <1>9, <1>10
  <2>2. ASSUME behindPR' = {} PROVE Kept' # {}
    <3>1. CASE K # {}
      BY <1>9, <3>1
    <3>2. CASE K = {} /\ NoFiles # {}
      <4>1. OpenPRs = {}
        BY <1>4, <2>2, <3>2 DEF NoFilesBehindPR
      <4> QED BY <1>10, <3>2, <4>1
    <3>3. CASE K = {} /\ NoFiles = {}
      <4>1. PICK i \in DOMAIN path : TRUE
        BY <1>2, <3>3
      <4>2. Claimants(K, i, path[i]) = {}
        BY <3>3 DEF Claimants
      <4> QED BY <1>4, <2>2, <4>1, <4>2 DEF FilesBehindPR
    <3> QED BY <3>1, <3>2, <3>3
  <2> QED BY <1>7, <2>1, <2>2 DEF HoldsAreBehindKept
<1>15. ReadyIsUnblocked'
  BY <1>1 DEF RoundInv, ReadyIsUnblocked, HoldsOverlaps
<1>16. WorkIsBuilding' /\ BuildsApart' /\ WorkIsUnblocked'
  BY <1>1 DEF WorkIsBuilding, BuildsApart, Apart, WorkIsUnblocked
<1>17. NoRing' /\ ReadsAreKnown'
  BY <1>1, LinksKept DEF RoundInv, HoldsOverlaps, cache
<1> QED BY <1>12, <1>13, <1>14, <1>15, <1>16, <1>17 DEF RoundInv

\* A link that wouldCycle lets through closes no ring but through an unseen one:
\* the set it read, of j and all that j waits on, has an issue that waits on none
\* of them.
LEMMA NoNewRing ==
    ASSUME NoRing, ReadsAreKnown, NEW i \in Issues, NEW j \in Issues, RulesOutCycle(i, j)
    PROVE  Acyclic((links \ unseen) \union {<<i, j>>})
<1> DEFINE L == links \ unseen
<1>a. Acyclic(L)
  BY DEF NoRing
<1>0. PICK C \in SUBSET (readOf \ {i}) :
        j \in C /\ \A a \in C, b \in Issues : <<a, b>> \in Known => b \in C
  BY DEF RulesOutCycle
<1>1. \A a \in C, b \in Issues : <<a, b>> \in L => b \in C
  BY <1>0 DEF ReadsAreKnown
<1> HIDE DEF L
<1> SUFFICES ASSUME NEW S \in (SUBSET Issues) \ {{}}
             PROVE  \E a \in S : \A b \in S : <<a, b>> \notin L \union {<<i, j>>}
  BY DEF Acyclic, L
<1>2. CASE S \intersect C # {}
  <2>1. PICK a \in S \intersect C : \A b \in S \intersect C : <<a, b>> \notin L
    BY <1>a, <1>2 DEF Acyclic
  <2>2. \A b \in S : <<a, b>> \notin L
    BY <1>1, <2>1
  <2>3. a # i
    BY <1>0, <2>1
  <2> QED BY <2>1, <2>2, <2>3
<1>3. CASE S \intersect C = {}
  <2>1. j \notin S
    BY <1>0, <1>3
  <2>2. PICK a \in S : \A b \in S : <<a, b>> \notin L
    BY <1>a DEF Acyclic
  <2> QED BY <2>1, <2>2
<1> QED BY <1>2, <1>3

\* Adding a link to what a critique knows or may know of keeps the rest of it.
LEMMA LinkedInv ==
    ASSUME RoundInv, NEW i \in Issues, NEW j \in Issues, Links(i, j), TypeOK',
           added \subseteq added', lost \subseteq lost', <<i, j>> \in added' \union lost',
           NoRing', ReadsAreKnown'
    PROVE  RoundInv'
<1>1. work' = {} /\ work = {} /\ pc = "critique" /\ pc' = "critique" /\ state' = state
  BY DEF RoundInv, WorkIsBuilding, Links, Judging, builds
<1>2. /\ picks' = picks /\ files' = files /\ ready' = ready /\ held' = held
      /\ behind' = behind /\ behindPR' = behindPR /\ links' = links \union {<<i, j>>}
  BY DEF Links, gated
<1>3. Picked' = Picked /\ HeldNow' = HeldNow /\ Kept' = Kept
  BY <1>2 DEF Picked, HeldNow, Kept, Range
<1>4. PicksChosen' /\ KeptApart' /\ HoldsAreBehindKept'
  BY <1>1, <1>2, <1>3 DEF RoundInv, PicksChosen, KeptApart, HoldsAreBehindKept, Apart
<1>5. ReadyIsUnblocked'
  BY <1>1, <1>2 DEF RoundInv, ReadyIsUnblocked
<1>6. WorkIsBuilding' /\ BuildsApart' /\ WorkIsUnblocked'
  BY <1>1 DEF WorkIsBuilding, BuildsApart, Apart, WorkIsUnblocked
<1> QED BY <1>4, <1>5, <1>6 DEF RoundInv

LEMMA DefersInv ==
    ASSUME RoundInv, NEW i \in Issues, NEW j \in Issues, Defers(i, j), TypeOK'
    PROVE  RoundInv'
<1>1. /\ links' = links \union {<<i, j>>} /\ added' = added \union {<<i, j>>}
      /\ UNCHANGED <<readOf, cached, unseen, lost>>
  BY DEF Defers, Links
<1>2. Acyclic((links \ unseen) \union {<<i, j>>})
  BY NoNewRing DEF RoundInv, Defers, Links
<1>3. NoRing'
  <2>1. links' \ unseen' \subseteq (links \ unseen) \union {<<i, j>>}
    BY <1>1
  <2> QED BY <1>2, <2>1, FewerLinks DEF NoRing
<1>4. ReadsAreKnown'
  BY <1>1 DEF RoundInv, ReadsAreKnown, Known
<1> QED BY <1>1, <1>3, <1>4, LinkedInv DEF Defers

\* A link that landed unknown is either read with its issue's links, or unseen.
LEMMA DeferFailsInv ==
    ASSUME RoundInv, NEW i \in Issues, NEW j \in Issues, DeferFails(i, j), TypeOK'
    PROVE  RoundInv'
<1>1. /\ links' = links \union {<<i, j>>} /\ lost' = lost \union {<<i, j>>}
      /\ UNCHANGED <<readOf, cached, added>>
      /\ unseen' = IF i \in readOf /\ <<i, j>> \notin Known THEN unseen \union {<<i, j>>} ELSE unseen
  BY DEF DeferFails, Links
<1>2. Acyclic((links \ unseen) \union {<<i, j>>})
  BY NoNewRing DEF RoundInv, DeferFails, Links
<1>3. NoRing'
  <2>1. links' \ unseen' \subseteq (links \ unseen) \union {<<i, j>>}
    BY <1>1
  <2> QED BY <1>2, <2>1, FewerLinks DEF NoRing
<1>4. ReadsAreKnown'
  BY <1>1 DEF RoundInv, ReadsAreKnown, Known
<1> QED BY <1>1, <1>3, <1>4, LinkedInv DEF DeferFails

\* A read adds all that there is to know of one more issue.
LEMMA ReadsLinksInv ==
    ASSUME RoundInv, NEW k \in Issues, ReadsLinks(k), TypeOK'
    PROVE  RoundInv'
<1>1. pc = "critique" /\ pc' = "critique" /\ work' = work /\ state' = state /\ links' = links
      /\ readOf' = readOf \union {k} /\ cached' = cached \union {l \in links : l[1] = k}
      /\ unseen' = unseen
  BY DEF ReadsLinks, Judging, github, builds
<1>2. /\ picks' = picks /\ files' = files /\ ready' = ready /\ held' = held
      /\ behind' = behind /\ behindPR' = behindPR /\ added' = added /\ lost' = lost
  BY DEF ReadsLinks, gated, plan
<1>3. Picked' = Picked /\ HeldNow' = HeldNow /\ Kept' = Kept
  BY <1>2 DEF Picked, HeldNow, Kept, Range
<1>4. PicksChosen' /\ KeptApart' /\ HoldsAreBehindKept'
  BY <1>1, <1>2, <1>3 DEF RoundInv, PicksChosen, KeptApart, HoldsAreBehindKept, Apart
<1>5. ReadyIsUnblocked' /\ WorkIsBuilding' /\ BuildsApart' /\ WorkIsUnblocked'
  BY <1>1, <1>2 DEF RoundInv, ReadyIsUnblocked, WorkIsBuilding, BuildsApart, Apart, WorkIsUnblocked
<1>6. NoRing'
  <2>1. links' \ unseen' \subseteq links \ unseen
    BY <1>1
  <2> QED BY <2>1, FewerLinks DEF RoundInv, NoRing
<1>7. ReadsAreKnown'
  BY <1>1, <1>2 DEF RoundInv, ReadsAreKnown, Known
<1> QED BY <1>4, <1>5, <1>6, <1>7 DEF RoundInv

\* Builds that are apart and wait on nothing the round knows of start a round's
\* builds well.
LEMMA BuildsInv ==
    ASSUME RoundInv, NEW S \in SUBSET Issues, Builds(S), TypeOK', Apart(S),
           \A i \in S : \A j \in Issues :
               <<i, j>> \in links => state[j] = "completed" \/ <<i, j>> \in lost
    PROVE  RoundInv'
<1>1. work' = S /\ pc' = "building" /\ links' = links /\ state' = state /\ files' = files
      /\ lost' = lost /\ unseen' = unseen /\ readOf' = {}
  BY DEF Builds, github, plan
<1>2. PicksChosen' /\ KeptApart' /\ HoldsAreBehindKept' /\ ReadyIsUnblocked' /\ ReadsAreKnown'
  BY <1>1 DEF PicksChosen, KeptApart, HoldsAreBehindKept, ReadyIsUnblocked, ReadsAreKnown
<1>3. WorkIsBuilding' /\ BuildsApart' /\ WorkIsUnblocked'
  BY <1>1 DEF WorkIsBuilding, BuildsApart, Apart, WorkIsUnblocked
<1>4. NoRing'
  BY <1>1, FewerLinks DEF RoundInv, NoRing
<1> QED BY <1>2, <1>3, <1>4 DEF RoundInv

LEMMA CritiqueEndsInv ==
    ASSUME RoundInv, CritiqueEnds, TypeOK'
    PROVE  RoundInv'
<1>1. TypeOK /\ pc = "critique" /\ Kept \in SUBSET Issues /\ Kept \subseteq ready
  BY HeldNowType DEF RoundInv, CritiqueEnds, PicksChosen, Kept
<1>2. Apart(Kept \ Deferred)
  BY <1>1 DEF RoundInv, KeptApart, Apart
<1>3. ASSUME NEW i \in Kept \ Deferred, NEW j \in Issues, <<i, j>> \in links
      PROVE  state[j] = "completed" \/ <<i, j>> \in lost
  BY <1>1, <1>3 DEF RoundInv, ReadyIsUnblocked, Deferred
<1> QED BY <1>1, <1>2, <1>3, BuildsInv DEF CritiqueEnds

LEMMA CritiqueFailsInv ==
    ASSUME RoundInv, CritiqueFails, TypeOK'
    PROVE  RoundInv'
<1>1. TypeOK /\ pc = "critique" /\ Kept \in SUBSET Issues /\ Kept \subseteq ready
      /\ added = {} /\ lost = {}
  BY HeldNowType DEF RoundInv, CritiqueFails, PicksChosen, Kept
<1>2. First(Kept) \in Kept
  BY <1>1, FirstIsOne, HeldNowType DEF CritiqueFails
<1>3. Apart({First(Kept)})
  BY DEF Apart
<1>4. ASSUME NEW j \in Issues, <<First(Kept), j>> \in links
      PROVE  state[j] = "completed"
  BY <1>1, <1>2, <1>4 DEF RoundInv, ReadyIsUnblocked
<1> QED BY <1>1, <1>2, <1>3, <1>4, BuildsInv DEF CritiqueFails

LEMMA RoundStepInv ==
    ASSUME RoundInv, RoundStep, TypeOK'
    PROVE  RoundInv'
<1>0. NoRing /\ ReadsAreKnown
  BY DEF RoundInv
<1>1. CASE Startup \/ Sweeps \/ Intakes \/ ListsIssues
  <2>1. work' = {} /\ pc' \in {"off", "top", "intake", "listing", "gate"} /\ links' = links
    BY <1>1 DEF RoundInv, WorkIsBuilding, Startup, Sweeps, Intakes, ListsIssues, github, builds
  <2>2. UNCHANGED <<readOf, cached, added, unseen>>
    BY <1>1 DEF Startup, Sweeps, Intakes, ListsIssues, plan, cache
  <2>3. NoRing' /\ ReadsAreKnown'
    BY <1>0, <2>1, <2>2, LinksKept
  <2> QED BY <2>1, <2>3, EarlyStep
<1>2. CASE FindsNoWork \/ NothingToPlan \/ Aborts
  <2>1. work' = {} /\ pc' = "off" /\ links' = links /\ NoPlan
    BY <1>2 DEF FindsNoWork, NothingToPlan, Aborts, RunEnds, NoBuilds, github
  <2> QED BY <1>0, <2>1, NoPlanLinks, EarlyStep
<1>3. CASE KeepsNone \/ DefersAll \/ RoundEnds
  <2>1. work' = {} /\ pc' \in {"off", "top"} /\ links' = links /\ NoPlan
    BY <1>3 DEF KeepsNone, DefersAll, RoundEnds, NextRound, RunEnds, NoBuilds, github
  <2> QED BY <1>0, <2>1, NoPlanLinks, EarlyStep
<1>4. ASSUME NEW i \in Issues,
             Begins(i) \/ HandsBackInstead(i) \/ Publishes(i) \/ EndsUnpublished(i) \/ Stops(i)
      PROVE  RoundInv'
  <2>1. UNCHANGED <<pc, held, ready, plan, cache, work, links, state>>
    BY <1>4 DEF Begins, HandsBackInstead, Publishes, EndsUnpublished, Stops, github, gated
  <2> QED BY <2>1, CalmStep DEF cache
<1> QED
  BY <1>1, <1>2, <1>3, <1>4, GateInv, PlansInv, HoldsOverlapsInv, ReadsLinksInv, DefersInv,
     DeferFailsInv, CritiqueEndsInv, CritiqueFailsInv DEF RoundStep

LEMMA InitInv == Init => RoundInv
<1> SUFFICES ASSUME Init PROVE RoundInv
  OBVIOUS
<1>1. pc = "off" /\ work = {} /\ ReadsAreKnown
  BY DEF Init, ReadsAreKnown
<1>2. NoRing
  <2>1. Acyclic(links) /\ links \ unseen \subseteq links
    BY DEF Init
  <2> QED BY <2>1, FewerLinks DEF NoRing
<1> QED
  BY <1>1, <1>2, InitTypeOK DEF RoundInv, PicksChosen, KeptApart, HoldsAreBehindKept, ReadyIsUnblocked,
     WorkIsBuilding, BuildsApart, Apart, WorkIsUnblocked

LEMMA RoundInvStep == RoundInv /\ [Next]_vars => RoundInv'
<1> SUFFICES ASSUME RoundInv, [Next]_vars PROVE RoundInv'
  OBVIOUS
<1>1. TypeOK
  BY DEF RoundInv
<1>2. CASE Around
  BY <1>1, <1>2, AroundTypeOK, AroundInv
<1>3. CASE RoundStep
  BY <1>1, <1>3, RoundTypeOK, RoundStepInv
<1>4. CASE UNCHANGED vars
  <2>1. TypeOK'
    BY <1>1, <1>4 DEF TypeOK, vars, github, gated, plan, cache, builds
  <2>2. UNCHANGED <<pc, held, ready, plan, cache, work, links, state>>
    BY <1>4 DEF vars, github, gated, builds
  <2> QED BY <2>1, <2>2, CalmStep DEF cache
<1> QED BY <1>2, <1>3, <1>4 DEF Next

\* What a round holds, defers and builds, in every reachable state.
THEOREM RoundInvariant == Spec => []RoundInv
BY InitInv, RoundInvStep, PTL DEF Spec

\* Builds that run side by side change no file in common.
THEOREM BuildsAreApart == Spec => []BuildsApart
<1>1. RoundInv => BuildsApart
  BY DEF RoundInv
<1> QED BY <1>1, RoundInvariant, PTL

\* Every hold of a round is behind a pick the round keeps, or behind a pull
\* request: the round is never stuck on itself.
THEOREM HoldsHaveAWayOut == Spec => []HoldsAreBehindKept
<1>1. RoundInv => HoldsAreBehindKept
  BY DEF RoundInv
<1> QED BY <1>1, RoundInvariant, PTL

\* The critique's links make issues wait on each other in a ring only through one
\* that landed under a call that failed, after its issue's links were read.
THEOREM LinksAreAcyclic == Spec => []NoRing
<1>1. RoundInv => NoRing
  BY DEF RoundInv
<1> QED BY <1>1, RoundInvariant, PTL

\* No issue is built before all it is blocked by has landed, but for a link the
\* same round added under a call that failed.
THEOREM WorkWaitsForBlockers == Spec => []WorkIsUnblocked
<1>1. RoundInv => WorkIsUnblocked
  BY DEF RoundInv
<1> QED BY <1>1, RoundInvariant, PTL

\* The action of RoundsMoveOn: a round that built nothing and goes on has held
\* a pick for the run, or linked it to a blocker.
TakesSomething ==
    pc = "critique" /\ pc' = "top" => \E i \in Picked : i \in Deferred \/ i \in held' \ held

LEMMA StepTakesSomething == RoundInv /\ [Next]_vars => [TakesSomething]_vars
<1> SUFFICES ASSUME RoundInv, [Next]_vars, pc = "critique", pc' = "top"
             PROVE  \E i \in Picked : i \in Deferred \/ i \in held' \ held
  BY DEF TakesSomething
<1>1. KeepsNone \/ DefersAll
  BY DEF Next, Around, RoundStep, vars, PRMerges, PRCloses, PRChanges, OtherPROpens, IssuePROpens,
         PersonRequeues, PersonDrops, PersonUnlinks, Startup, Sweeps, FindsNoWork, Intakes, ListsIssues, Gate, Plans,
         NothingToPlan, HoldsOverlaps, ReadsLinks, Defers, DeferFails, Links, Judging, CritiqueEnds, CritiqueFails, Builds, Begins,
         HandsBackInstead, Publishes, EndsUnpublished, Stops, RoundEnds, AllSettled, Aborts, RunEnds
<1>2. CASE DefersAll
  BY <1>2 DEF DefersAll, Kept
<1>3. CASE KeepsNone
  <2>1. held' = held \union LastingHolds({}) /\ Kept = {}
    BY <1>3 DEF KeepsNone, NextRound
  <2>2. PICK i \in behindPR : TRUE
    BY <2>1 DEF RoundInv, HoldsAreBehindKept
  <2>3. i \in Picked /\ i \notin held
    BY <2>2 DEF RoundInv, KeptApart, PicksChosen, HeldNow
  <2>4. i \in held'
    BY <2>1, <2>2 DEF LastingHolds
  <2> QED BY <2>3, <2>4
<1> QED BY <1>1, <1>2, <1>3

\* A round that built nothing and goes on leaves the next one less to plan.
THEOREM RoundsDoMoveOn == Spec => RoundsMoveOn
<1>1. RoundInv /\ [Next]_vars => [TakesSomething]_vars
  BY StepTakesSomething
<1>2. Spec => [][TakesSomething]_vars
  BY <1>1, RoundInvariant, PTL DEF Spec
<1> QED BY <1>2 DEF RoundsMoveOn, TakesSomething
------------------------------------------------------------------------------
(* What is built, and what is held for the rest of the run.                   *)

\* From the gate on, no issue of the round has an open pull request until its
\* own build or somebody else opens one; a build's issue is one of the round's,
\* and what was published has a pull request.
PRsAside ==
    /\ pc \in {"planning", "overlap", "critique"} => \A i \in ready : pr[i] = "open" => i \in opened
    /\ \A i \in claimed \union building : pr[i] = "open" => i \in opened
    /\ claimed # {} \/ building # {} => pc = "building"
    /\ claimed \intersect building = {}
    /\ claimed \subseteq work /\ building \subseteq work
    /\ published \subseteq work /\ \A i \in published : pr[i] # "none"

LEMMA AroundAside ==
    ASSUME TypeOK, PRsAside, Around
    PROVE  PRsAside'
<1> USE DEF Around, gated, plan, builds
<1>1. UNCHANGED <<pc, ready, claimed, building, published, work>> /\ opened \subseteq opened'
  BY DEF PRMerges, PRCloses, PRChanges, OtherPROpens, IssuePROpens, PersonRequeues, PersonDrops,
         PersonUnlinks
<1>2. ASSUME NEW i \in Issues
      PROVE  /\ pr[i] # "none" => pr'[i] # "none"
             /\ pr'[i] = "open" =>
                  \/ pr[i] = "open"
                  \/ pc \in {"planning", "overlap", "critique", "building"} => i \in opened'
  <2>1. i # OtherPR /\ i \in PRs
    BY DEF PRs
  <2>2. ASSUME NEW p \in PRs, PRMerges(p) \/ PRCloses(p)
        PROVE  (pr[i] # "open" => pr'[i] # "open") /\ (pr[i] # "none" => pr'[i] # "none")
    BY <2>1, <2>2 DEF PRMerges, PRCloses, TypeOK
  <2>3. CASE OtherPROpens
    BY <2>1, <2>3 DEF OtherPROpens, TypeOK
  <2>4. CASE UNCHANGED pr
    BY <2>4
  <2>5. ASSUME NEW p \in Issues, IssuePROpens(p)
        PROVE  /\ pr[i] # "none" => pr'[i] # "none"
               /\ pr'[i] = "open" =>
                    \/ pr[i] = "open"
                    \/ pc \in {"planning", "overlap", "critique", "building"} => i \in opened'
    BY <2>1, <2>5 DEF IssuePROpens, TypeOK
  <2> QED BY <2>2, <2>3, <2>4, <2>5 DEF PRChanges, PersonRequeues, PersonDrops, PersonUnlinks
<1>3. ready \subseteq Issues /\ claimed \subseteq Issues /\ building \subseteq Issues
      /\ published \subseteq Issues
  BY DEF TypeOK
<1> QED BY <1>1, <1>2, <1>3 DEF PRsAside

\* Builds start on issues that passed the gate.
LEMMA BuildsAside ==
    ASSUME RoundInv, PRsAside, pc = "critique", NEW S \in SUBSET ready, Builds(S)
    PROVE  PRsAside'
<1>1. work = {}
  BY DEF RoundInv, WorkIsBuilding
<1> QED BY <1>1 DEF PRsAside, Builds, github

LEMMA RoundAside ==
    ASSUME RoundInv, PRsAside, RoundStep
    PROVE  PRsAside'
<1>t. TypeOK
  BY DEF RoundInv
<1>1. CASE Startup \/ Sweeps \/ Intakes \/ ListsIssues
  BY <1>1 DEF PRsAside, Startup, Sweeps, Intakes, ListsIssues, github, builds, gated, plan, cache
<1>2. CASE FindsNoWork \/ NothingToPlan \/ Aborts
  BY <1>2 DEF PRsAside, FindsNoWork, NothingToPlan, Aborts, RunEnds, NoBuilds, github
<1>3. CASE KeepsNone \/ DefersAll \/ RoundEnds
  BY <1>3 DEF PRsAside, KeepsNone, DefersAll, RoundEnds, NextRound, RunEnds, NoBuilds, github
<1>4. CASE Gate
  BY <1>4 DEF PRsAside, Gate, github, builds
<1>5. CASE Plans \/ HoldsOverlaps
  BY <1>5 DEF PRsAside, Plans, HoldsOverlaps, github, gated, builds
<1>6. ASSUME NEW i \in Issues, NEW j \in Issues, Defers(i, j)
      PROVE  PRsAside'
  BY <1>6 DEF PRsAside, Defers, Links, gated, builds
<1>11. ASSUME NEW i \in Issues, NEW j \in Issues, DeferFails(i, j)
       PROVE  PRsAside'
  BY <1>11 DEF PRsAside, DeferFails, Links, gated, builds
<1>12. ASSUME NEW k \in Issues, ReadsLinks(k)
       PROVE  PRsAside'
  BY <1>12 DEF PRsAside, ReadsLinks, github, gated, builds
<1>7. CASE CritiqueEnds
  <2>1. Kept \ Deferred \in SUBSET ready
    BY <1>7 DEF RoundInv, PicksChosen, CritiqueEnds, Kept
  <2> QED BY <1>7, <2>1, BuildsAside DEF CritiqueEnds
<1>8. CASE CritiqueFails
  <2>1. First(Kept) \in Kept
    BY <1>t, <1>8, FirstIsOne, HeldNowType DEF CritiqueFails
  <2>2. {First(Kept)} \in SUBSET ready
    BY <1>8, <2>1 DEF RoundInv, PicksChosen, CritiqueFails, Kept
  <2> QED BY <1>8, <2>2, BuildsAside DEF CritiqueFails
<1>9. ASSUME NEW i \in Issues, Begins(i) \/ HandsBackInstead(i) \/ EndsUnpublished(i) \/ Stops(i)
      PROVE  PRsAside'
  BY <1>9 DEF PRsAside, Begins, HandsBackInstead, EndsUnpublished, Stops, github, gated, plan, cache
<1>10. ASSUME NEW i \in Issues, Publishes(i)
       PROVE  PRsAside'
  <2>1. pc = "building" /\ pc' = "building" /\ i \in building /\ i \notin claimed /\ i \in work
    BY <1>10 DEF RoundInv, WorkIsBuilding, PRsAside, Publishes
  <2>2. building' = building \ {i} /\ claimed' = claimed /\ pr' = [pr EXCEPT ![i] = "open"]
        /\ published' \subseteq published \union {i} /\ work' = work
        /\ opened' = opened
    BY <1>10 DEF Publishes
  <2> QED BY <1>t, <2>1, <2>2 DEF PRsAside, TypeOK, PRs
<1> QED
  BY <1>1, <1>2, <1>3, <1>4, <1>5, <1>6, <1>7, <1>8, <1>9, <1>10,
     <1>11, <1>12 DEF RoundStep

LEMMA AsideStep == RoundInv /\ PRsAside /\ [Next]_vars => PRsAside'
<1>1. RoundInv /\ PRsAside /\ UNCHANGED vars => PRsAside'
  BY DEF PRsAside, vars, github, gated, builds
<1> QED BY <1>1, AroundAside, RoundAside DEF Next, RoundInv

LEMMA AsideAlways == Spec => []PRsAside
<1>1. Init => PRsAside
  BY DEF Init, PRsAside
<1> QED BY <1>1, AsideStep, RoundInvariant, PTL DEF Spec

\* A branch with an open pull request is built again only when somebody opened it
\* after the gate had looked.
THEOREM OneOpenPRAlways == Spec => []OneOpenPR
<1>1. PRsAside => OneOpenPR
  BY DEF PRsAside, OneOpenPR
<1> QED BY <1>1, AsideAlways, PTL

LEMMA StepHasCause ==
    RoundInv /\ PRsAside /\ [Next]_vars => [HeldForCause /\ ClosedWorkNeedsConsent]_vars
<1> SUFFICES ASSUME RoundInv, PRsAside, Next
             PROVE  HeldForCause /\ ClosedWorkNeedsConsent
  OBVIOUS
<1>1. HeldForCause
  <2> SUFFICES ASSUME NEW i \in held' \ held
               PROVE  i \in behindPR \/ \E j \in work : <<i, j>> \in behind /\ pr[j] # "none"
    BY DEF HeldForCause
  <2>1. KeepsNone \/ DefersAll \/ RoundEnds
    BY DEF Next, Around, RoundStep, PRMerges, PRCloses, PRChanges, OtherPROpens, IssuePROpens,
           PersonRequeues, PersonDrops, PersonUnlinks, Startup, Sweeps, FindsNoWork, Intakes, ListsIssues, Gate, Plans,
           NothingToPlan, HoldsOverlaps, ReadsLinks, Defers, DeferFails, Links, Judging, CritiqueEnds, CritiqueFails, Builds, Begins,
           HandsBackInstead, Publishes, EndsUnpublished, Stops, Aborts, RunEnds
  <2>2. i \in LastingHolds({}) \/ i \in LastingHolds(published)
    BY <2>1 DEF KeepsNone, DefersAll, RoundEnds, RunEnds, NextRound
  <2> QED BY <2>2 DEF LastingHolds, PRsAside
<1>2. ClosedWorkNeedsConsent
  <2> SUFFICES ASSUME NEW i \in Issues, i \in building' \ building, pr[i] = "closed"
               PROVE  i \in requeued
    BY DEF ClosedWorkNeedsConsent
  <2>1. PICK k \in Issues : Begins(k)
    BY DEF Next, Around, RoundStep, PRMerges, PRCloses, PRChanges, OtherPROpens, IssuePROpens,
           PersonRequeues, PersonDrops, PersonUnlinks, Startup, Sweeps, FindsNoWork, Intakes, ListsIssues, Gate, Plans,
           NothingToPlan, HoldsOverlaps, ReadsLinks, Defers, DeferFails, Links, Judging, KeepsNone, DefersAll, RoundEnds, CritiqueEnds,
           CritiqueFails, Builds, HandsBackInstead, Publishes, EndsUnpublished, Stops, Aborts,
           RunEnds, NextRound, NoBuilds, builds
  <2> QED BY <2>1 DEF Begins
<1> QED BY <1>1, <1>2

\* What a round keeps out of the run is behind a pull request, and what it
\* builds over was given up by a person.
THEOREM EveryStepHasCause == Spec => StepsHaveCause
<1> QED BY StepHasCause, AsideAlways, RoundInvariant, PTL DEF Spec, StepsHaveCause
=============================================================================
