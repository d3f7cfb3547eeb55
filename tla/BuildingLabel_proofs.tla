------------------------ MODULE BuildingLabel_proofs ------------------------
(* Proofs about BuildingLabel, for any number of runs and issues and any       *)
(* values of the bounds.                                                       *)
EXTENDS BuildingLabel, TLAPS

\* Every variable keeps its type, whatever the runs do.
LEMMA TypeInit == Init => TypeOK
BY ConstantsAssumption DEF Init, TypeOK, Time, Steps, MidCall

\* The type of what a gh call can change.
GithubTypeOK ==
    /\ label \in [Issues -> BOOLEAN]
    /\ labelledAt \in [Issues -> Time \union {Never}]
    /\ adders \in [Issues -> SUBSET Runs]
    /\ holes \in [Issues -> SUBSET {"racing", "remembered", "overdue"}]

\* A write that failed leaves GitHub well typed whether or not it landed.
LEMMA RemovalFailedType ==
    ASSUME TypeOK, NEW i, RemovalFailed(i)
    PROVE  GithubTypeOK' /\ faults' \in 0 .. MaxFaults
<1>1. faults' \in 0 .. MaxFaults
    BY ConstantsAssumption DEF RemovalFailed, Fault, TypeOK
<1>2. CASE LabelRemoved(i)
    BY <1>1, <1>2 DEF LabelRemoved, TypeOK, GithubTypeOK, Time
<1>3. CASE UNCHANGED github
    BY <1>1, <1>3 DEF github, TypeOK, GithubTypeOK, Time
<1>4. QED
    BY <1>2, <1>3 DEF RemovalFailed

LEMMA AddFailedType ==
    ASSUME TypeOK, NEW r \in Runs, NEW i, LabelAdded(r, i) \/ UNCHANGED github
    PROVE  GithubTypeOK'
<1>1. CASE LabelAdded(r, i)
    BY <1>1 DEF LabelAdded, HolesAtAdd, TypeOK, GithubTypeOK, Time
<1>2. CASE UNCHANGED github
    BY <1>2 DEF github, TypeOK, GithubTypeOK, Time
<1>3. QED
    BY <1>1, <1>2

LEMMA TypeNext == TypeOK /\ [Next]_vars => TypeOK'
<1> USE ConstantsAssumption DEF Never
<1> SUFFICES ASSUME TypeOK, [Next]_vars PROVE TypeOK'
    OBVIOUS
<1> USE DEF TypeOK, Time, Steps, MidCall, Goto, Visited, Forget, Fault, github, process
<1>1. CASE Tick
    BY <1>1 DEF Tick
<1>2. ASSUME NEW r \in Runs, RunStep(r) PROVE TypeOK'
    <2>1. CASE Startup(r)
        BY <2>1 DEF Startup
    <2>2. CASE ClearRemoves(r)
        BY <2>2 DEF ClearRemoves, LabelRemoved
    <2>3. CASE ClearFails(r)
        <3>1. CASE pc[r] = "removing" /\ RemovalFailed(at[r])
            BY <2>3, <3>1, RemovalFailedType DEF ClearFails, GithubTypeOK, Remembered
        <3>2. CASE pc[r] = "clearing" /\ UNCHANGED github /\ Fault
            BY <2>3, <3>2 DEF ClearFails, Remembered
        <3>3. QED
            BY <2>3, <3>1, <3>2 DEF ClearFails
    <2>4. CASE BeginRound(r)
        BY <2>4 DEF BeginRound, Remembered
    <2>5. CASE StartBuilds(r)
        BY <2>5 DEF StartBuilds
    <2>6. CASE ClaimAdds(r)
        BY <2>6 DEF ClaimAdds, LabelAdded, HolesAtAdd
    <2>7. CASE ClaimAddFails(r)
        BY <2>7, AddFailedType DEF ClaimAddFails, GithubTypeOK
    <2>8. CASE Undoes(r)
        BY <2>8 DEF Undoes, LabelRemoved
    <2>9. CASE UndoFails(r)
        BY <2>9, RemovalFailedType DEF UndoFails, GithubTypeOK
    <2>10. CASE ClaimsDone(r)
        BY <2>10 DEF ClaimsDone
    <2>11. CASE Exits(r)
        BY <2>11 DEF Exits, Remembered
    <2>12. CASE Exited(r)
        BY <2>12 DEF Exited, Gone
    <2>13. ASSUME NEW picks \in SUBSET Issues, Gate(r, picks) PROVE TypeOK'
        BY <2>13 DEF Gate
    <2>14. ASSUME NEW i \in Issues, ClearKeeps(r, i) PROVE TypeOK'
        BY <2>14 DEF ClearKeeps
    <2>15. ASSUME NEW i \in Issues, ClearFinds(r, i) PROVE TypeOK'
        BY <2>15 DEF ClearFinds
    <2>16. ASSUME NEW i \in Issues, ReleaseForgets(r, i) PROVE TypeOK'
        BY <2>16 DEF ReleaseForgets
    <2>17. ASSUME NEW i \in Issues, ReleaseRemoves(r, i) PROVE TypeOK'
        BY <2>17 DEF ReleaseRemoves, LabelRemoved
    <2>18. ASSUME NEW i \in Issues, ReleaseFails(r, i) PROVE TypeOK'
        BY <2>18, RemovalFailedType DEF ReleaseFails, GithubTypeOK
    <2>19. ASSUME NEW i \in Issues, ClaimSkips(r, i) PROVE TypeOK'
        BY <2>19 DEF ClaimSkips
    <2>20. ASSUME NEW i \in Issues, ClaimReads(r, i) PROVE TypeOK'
        BY <2>20 DEF ClaimReads
    <2>21. ASSUME NEW i \in Issues, ClaimReadFails(r, i) PROVE TypeOK'
        BY <2>21 DEF ClaimReadFails
    <2>22. ASSUME NEW i \in Issues, BuildEnds(r, i) PROVE TypeOK'
        BY <2>22 DEF BuildEnds, LabelRemoved
    <2>23. ASSUME NEW i \in Issues, BuildEndsUnmarkFails(r, i) PROVE TypeOK'
        BY <2>23, RemovalFailedType DEF BuildEndsUnmarkFails, GithubTypeOK
    <2>24. QED
        BY <1>2, <2>1, <2>2, <2>3, <2>4, <2>5, <2>6, <2>7, <2>8, <2>9, <2>10, <2>11,
           <2>12, <2>13, <2>14, <2>15, <2>16, <2>17, <2>18, <2>19, <2>20, <2>21,
           <2>22, <2>23 DEF RunStep
<1>3. ASSUME NEW r \in Runs, Killed(r) PROVE TypeOK'
    BY <1>3 DEF Killed, Gone
<1>4. CASE UNCHANGED vars
    BY <1>4 DEF vars
<1>5. QED
    BY <1>1, <1>2, <1>3, <1>4 DEF Next

THEOREM TypeCorrect == Spec => []TypeOK
BY TypeInit, TypeNext, PTL DEF Spec
\* A step after which no run has a hold on issue j that it lacked before.
Quiet(j) ==
    /\ clock' = clock
    /\ \A s \in Runs :
        /\ j \in builds'[s] => j \in builds[s] /\ marked'[s][j] = marked[s][j]
        /\ at'[s] = j => at[s] = j /\ pc'[s] = pc[s]
        /\ marked'[s][j] \in {marked[s][j], Never}
        /\ pc'[s] \in Releasing /\ j \in todo'[s] =>
            now'[s] = clock \/ (pc[s] \in Releasing /\ j \in todo[s] /\ now'[s] = now[s])

\* What GitHub holds of issue j is as it was, or its label came off.
Same(j) ==
    label'[j] = label[j] /\ labelledAt'[j] = labelledAt[j] /\ adders'[j] = adders[j] /\ holes'[j] = holes[j]
TakenOff(j) ==
    label'[j] = FALSE /\ adders'[j] = {} /\ holes'[j] = holes[j] /\ \A r \in Runs : j \notin builds'[r]

LEMMA QuietKeepsApart ==
    ASSUME TypeOK, TypeOK', NEW j \in Issues, ApartAt(j), Quiet(j), Same(j) \/ TakenOff(j)
    PROVE  ApartAt(j)'
<1> USE ConstantsAssumption DEF Never, ApartAt, Quiet, Same, TakenOff, Time
<1>1. BuilderAlone(j)'
    BY DEF BuilderAlone, TypeOK
<1>2. NoCallOnBuild(j)'
    BY DEF NoCallOnBuild
<1>3. CallsSeeOwn(j)'
    BY DEF CallsSeeOwn, TypeOK
<1>4. OldClaimsIdle(j)'
    <2> SUFFICES ASSUME NEW s \in Runs, Remembers(s, j)', label'[j], s \notin adders'[j]
                 PROVE  /\ clock' - marked'[s][j] > MaxAge
                        /\ pc'[s] \in Releasing /\ j \in todo'[s] => now'[s] - marked'[s][j] > MaxAge
        BY DEF OldClaimsIdle, Releasing
    <2>1. marked'[s][j] = marked[s][j] /\ Remembers(s, j)
        BY DEF Remembers
    <2>2. label[j] /\ s \notin adders[j]
        OBVIOUS
    <2>3. clock - marked[s][j] > MaxAge
        BY <2>1, <2>2 DEF OldClaimsIdle
    <2>4. QED
        BY <2>1, <2>2, <2>3 DEF OldClaimsIdle
<1>5. QED
    BY <1>1, <1>2, <1>3, <1>4

\* The steps of run r that write nothing to GitHub and take up no issue.
LEMMA QuietSteps ==
    ASSUME LabelInv, TypeOK', NEW r \in Runs, NEW j \in Issues,
           \/ Startup(r) \/ BeginRound(r) \/ StartBuilds(r) \/ ClaimsDone(r) \/ Exits(r)
           \/ Exited(r) \/ Killed(r)
           \/ \E picks \in SUBSET Issues : Gate(r, picks)
           \/ \E i \in Issues :
                ClearKeeps(r, i) \/ ReleaseForgets(r, i) \/ ClaimSkips(r, i) \/ ClaimReadFails(r, i)
    PROVE  Quiet(j) /\ Same(j)
<1> USE ConstantsAssumption DEF LabelInv, TypeOK, Quiet, Same, Goto, Visited, Forget, Releasing, MidCall, github
<1>1. CASE Startup(r)
    BY <1>1 DEF Startup
<1>2. CASE BeginRound(r)
    BY <1>2 DEF BeginRound
<1>3. CASE StartBuilds(r)
    BY <1>3 DEF StartBuilds
<1>4. CASE ClaimsDone(r)
    BY <1>4 DEF ClaimsDone
<1>5. CASE Exits(r)
    BY <1>5 DEF Exits
<1>6. CASE Exited(r)
    BY <1>6 DEF Exited, Gone
<1>7. CASE Killed(r)
    BY <1>7 DEF Killed, Gone
<1>8. ASSUME NEW picks \in SUBSET Issues, Gate(r, picks) PROVE Quiet(j) /\ Same(j)
    BY <1>8 DEF Gate
<1>9. ASSUME NEW i \in Issues, ClearKeeps(r, i) PROVE Quiet(j) /\ Same(j)
    BY <1>9 DEF ClearKeeps
<1>10. ASSUME NEW i \in Issues, ReleaseForgets(r, i) PROVE Quiet(j) /\ Same(j)
    <2>1. j \in builds[r] => FALSE
        BY <1>10 DEF ReleaseForgets, WorkMatchesStep
    <2>2. QED
        BY <1>10, <2>1 DEF ReleaseForgets
<1>11. ASSUME NEW i \in Issues, ClaimSkips(r, i) PROVE Quiet(j) /\ Same(j)
    BY <1>11 DEF ClaimSkips
<1>12. ASSUME NEW i \in Issues, ClaimReadFails(r, i) PROVE Quiet(j) /\ Same(j)
    BY <1>12 DEF ClaimReadFails
<1>13. QED
    BY <1>1, <1>2, <1>3, <1>4, <1>5, <1>6, <1>7, <1>8, <1>9, <1>10, <1>11, <1>12

\* A removal that landed or not: the issue's label came off or all is as before.
Removal(i) == LabelRemoved(i) \/ UNCHANGED github

\* The steps of run r that try to remove the label of issue i.
Remover(r, i) ==
    \/ (ClearRemoves(r) \/ ClearFails(r) \/ Undoes(r) \/ UndoFails(r)) /\ at[r] = i
    \/ ReleaseRemoves(r, i) \/ ReleaseFails(r, i)
    \/ BuildEnds(r, i) \/ BuildEndsUnmarkFails(r, i)

LEMMA RemoverQuiet ==
    ASSUME LabelInv, TypeOK', NEW r \in Runs, NEW i, NEW j \in Issues,
           Remover(r, i)
    PROVE  Quiet(j) /\ Removal(i)
<1> USE ConstantsAssumption DEF LabelInv, TypeOK, Quiet, Removal, Goto, Visited, Forget, Releasing, github, MidCall
<1>1. CASE ClearRemoves(r) /\ at[r] = i
    BY <1>1 DEF ClearRemoves
<1>2. CASE ClearFails(r) /\ at[r] = i
    BY <1>2 DEF ClearFails, RemovalFailed
<1>3. CASE Undoes(r) /\ at[r] = i
    <2>1. i \notin builds[r]
        BY <1>3 DEF WorkMatchesStep
    <2>2. QED
        BY <1>3, <2>1 DEF Undoes
<1>4. CASE UndoFails(r) /\ at[r] = i
    BY <1>4 DEF UndoFails, RemovalFailed
<1>5. CASE ReleaseRemoves(r, i)
    <2>1. j \notin builds[r]
        BY <1>5 DEF ReleaseRemoves, WorkMatchesStep
    <2>2. QED
        BY <1>5, <2>1 DEF ReleaseRemoves
<1>6. CASE ReleaseFails(r, i)
    BY <1>6 DEF ReleaseFails, RemovalFailed
<1>7. CASE BuildEnds(r, i)
    BY <1>7 DEF BuildEnds
<1>8. CASE BuildEndsUnmarkFails(r, i)
    BY <1>8 DEF BuildEndsUnmarkFails, RemovalFailed
<1>9. QED
    BY <1>1, <1>2, <1>3, <1>4, <1>5, <1>6, <1>7, <1>8 DEF Remover

\* While no hole has opened on issue i, whoever removes its label takes it from
\* no build but the run's own, which is over.
LEMMA RemoverAlone ==
    ASSUME LabelInv, TypeOK', NEW r \in Runs, NEW i \in Issues, Remover(r, i), ApartAt(i), NEW b \in Runs
    PROVE  i \notin builds'[b]
<1> USE ConstantsAssumption DEF LabelInv, TypeOK, ApartAt
<1>1. CASE at[r] = i /\ (ClearRemoves(r) \/ ClearFails(r) \/ Undoes(r) \/ UndoFails(r))
    BY <1>1 DEF ClearRemoves, ClearFails, Undoes, UndoFails, NoCallOnBuild
<1>2. CASE ReleaseRemoves(r, i) \/ ReleaseFails(r, i)
    <2>1. builds' = builds /\ pc[r] \in Releasing /\ i \in todo[r] /\ now[r] - marked[r][i] <= MaxAge
        BY <1>2 DEF ReleaseRemoves, ReleaseFails
    <2>2. Remembers(r, i)
        BY <2>1 DEF WorkMatchesStep, Remembered
    <2>3. i \notin builds[r]
        BY <2>1 DEF WorkMatchesStep, Releasing
    <2>4. SUFFICES ASSUME i \in builds[b] PROVE FALSE
        BY <2>1
    <2>9. adders[i] = {b}
        BY <2>4 DEF BuilderAlone
    <2>10. b \in adders[i] /\ r \notin adders[i]
        BY <2>3, <2>4, <2>9
    <2>5. label[i] /\ r \notin adders[i]
        BY <2>10 DEF LabelHasAdder
    <2>6. now[r] - marked[r][i] > MaxAge
        BY <2>1, <2>2, <2>5 DEF OldClaimsIdle
    <2>7. now[r] \in Int /\ marked[r][i] \in Int
        BY DEF Time, Never
    <2>8. QED
        BY <2>1, <2>6, <2>7
<1>3. CASE BuildEnds(r, i) \/ BuildEndsUnmarkFails(r, i)
    <2>1. i \in builds[r] /\ builds' = [builds EXCEPT ![r] = @ \ {i}]
        BY <1>3 DEF BuildEnds, BuildEndsUnmarkFails
    <2>2. adders[i] = {r} /\ (i \in builds[b] => adders[i] = {b})
        BY <2>1 DEF BuilderAlone
    <2>4. i \in builds[b] => b \in {r}
        BY <2>2
    <2>3. QED
        BY <2>1, <2>4
<1>4. QED
    BY <1>1, <1>2, <1>3 DEF Remover

\* Taking issue i up: a claim whose read found no label.
LEMMA ClaimReadsApart ==
    ASSUME LabelInv, TypeOK', NEW r \in Runs, NEW i \in Issues, ClaimReads(r, i),
           NEW j \in Issues, ApartAt(j)
    PROVE  ApartAt(j)'
<1> USE ConstantsAssumption DEF LabelInv, TypeOK, ClaimReads, Goto, Visited
<1>1. Same(j)
    BY DEF Same, github
<1>2. CASE j # i
    <2>1. Quiet(j)
        BY <1>2 DEF Quiet, Releasing
    <2>2. QED
        BY <1>1, <2>1, QuietKeepsApart
<1>3. CASE j = i
    <2>1. ~label[i] /\ adders[i] = {}
        BY DEF LabelHasAdder
    <2>2. \A s \in Runs : i \notin builds[s]
        BY <1>3, <2>1 DEF ApartAt, BuilderAlone
    <2>3. ~label'[i] /\ adders'[i] = {} /\ builds' = builds
        BY <2>1 DEF github
    <2>4. BuilderAlone(i)' /\ NoCallOnBuild(i)'
        BY <2>2, <2>3 DEF BuilderAlone, NoCallOnBuild
    <2>5. CallsSeeOwn(i)' /\ OldClaimsIdle(i)'
        BY <2>3 DEF CallsSeeOwn, OldClaimsIdle
    <2>6. QED
        BY <1>3, <2>4, <2>5 DEF ApartAt
<1>4. QED
    BY <1>2, <1>3

\* Taking issue i up: a startup that found its label stale.
LEMMA ClearFindsApart ==
    ASSUME LabelInv, TypeOK', NEW r \in Runs, NEW i \in Issues, ClearFinds(r, i),
           NEW j \in Issues, ApartAt(j)
    PROVE  ApartAt(j)'
<1> USE ConstantsAssumption DEF LabelInv, TypeOK, ClearFinds, Goto, Visited
<1>1. Same(j)
    BY DEF Same, github
<1>2. CASE j # i
    <2>1. Quiet(j)
        BY <1>2 DEF Quiet, Releasing
    <2>2. QED
        BY <1>1, <2>1, QuietKeepsApart
<1>3. CASE j = i
    <2>1. clock - labelledAt[i] > MaxAge
        BY DEF LabelIsStale, TimesPast, Time, Never
    <2>2. \A s \in Runs : i \notin builds[s]
        <3>1. \A s \in Runs : i \in builds[s] => clock - labelledAt[i] <= MaxAge
            BY <1>3 DEF ApartAt, BuilderAlone
        <3>2. clock \in Int /\ labelledAt[i] \in Int
            BY DEF Time, Never
        <3>3. QED
            BY <2>1, <3>1, <3>2
    <2>3. BuilderAlone(i)' /\ NoCallOnBuild(i)'
        BY <2>2 DEF BuilderAlone, NoCallOnBuild
    <2>4. CallsSeeOwn(i)'
        <3>1. at' = [at EXCEPT ![r] = i] /\ pc'[r] = "removing" /\ \A s \in Runs \ {r} : pc'[s] = pc[s]
            OBVIOUS
        <3>2. QED
            BY <1>3, <2>1, <3>1 DEF ApartAt, CallsSeeOwn, github
    <2>5. OldClaimsIdle(i)'
        <3>1. \A s \in Runs : pc'[s] \in Releasing => pc[s] \in Releasing
            BY DEF Releasing
        <3>2. \A s \in Runs : i \in todo'[s] => i \in todo[s]
            OBVIOUS
        <3>3. QED
            BY <1>3, <3>1, <3>2 DEF ApartAt, OldClaimsIdle, Remembers, github
    <2>6. QED
        BY <1>3, <2>3, <2>4, <2>5 DEF ApartAt
<1>4. QED
    BY <1>2, <1>3

\* An add by run r that lands on its issue leaves claims apart unless it opened
\* a hole: no other run is at the issue, and those that remember it are idle.
LEMMA AddApart ==
    ASSUME LabelInv, TypeOK', NEW r \in Runs, NEW j \in Issues, ApartAt(j), holes'[j] = {},
           pc[r] = "adding", LabelAdded(r, at[r]),
           \/ ClaimAdds(r)
           \/ ClaimAddFails(r)
    PROVE  ApartAt(j)'
<1> USE ConstantsAssumption DEF LabelInv, TypeOK, Goto
<1>0. at[r] \in Issues /\ clock' = clock /\ marked' = marked /\ now' = now /\ todo' = todo
    BY DEF MidCall, ClaimAdds, ClaimAddFails
<1>1. /\ at' \in {at, [at EXCEPT ![r] = NoIssue]}
      /\ builds' \in {builds, [builds EXCEPT ![r] = @ \union {at[r]}]}
      /\ \A s \in Runs \ {r} : pc'[s] = pc[s]
      /\ pc'[r] \in {"claiming", "undoing"} /\ (pc'[r] = "claiming" => at'[r] = NoIssue)
    BY DEF ClaimAdds, ClaimAddFails
<1>2. CASE j # at[r]
    <2>1. Same(j)
        BY <1>0, <1>2 DEF Same, LabelAdded
    <2>2. Quiet(j)
        BY <1>0, <1>1, <1>2 DEF Quiet, Releasing
    <2>3. QED
        BY <2>1, <2>2, QuietKeepsApart
<1>3. CASE j = at[r]
    <2>1. adders[j] = {} /\ ~label[j]
        BY <1>3 DEF ApartAt, CallsSeeOwn, LabelHasAdder
    <2>2. /\ label'[j] /\ adders'[j] = {r} /\ labelledAt'[j] = clock
        BY <1>0, <1>3, <2>1 DEF LabelAdded
    <2>3. HolesAtAdd(r, j) = {}
        BY <1>0, <1>3 DEF LabelAdded
    <2>4. ASSUME NEW s \in Runs, s # r
          PROVE  ~Underway(s, j) /\ ~Pending(s, j)
        <3>1. "racing" \notin HolesAtAdd(r, j) /\ "remembered" \notin HolesAtAdd(r, j)
            BY <2>3
        <3>2. s \in Runs \ {r}
            BY <2>4
        <3>3. QED
            BY <3>1, <3>2 DEF HolesAtAdd
    <2>5. \A s \in Runs : j \notin builds[s]
        BY <1>3 DEF ApartAt, NoCallOnBuild
    <2>6. marked[r][j] <= clock
        BY <1>0 DEF TimesPast
    <2>7. BuilderAlone(j)'
        <3>1. \A s \in Runs : j \in builds'[s] => s = r
            BY <1>1, <2>5
        <3>2. QED
            BY <1>0, <2>2, <2>6, <3>1 DEF BuilderAlone, Time
    <2>8. NoCallOnBuild(j)'
        <3>1. \A s \in Runs : s # r => at[s] # j
            BY <2>4 DEF Underway
        <3>2. CASE ClaimAdds(r)
            BY <1>0, <3>1, <3>2 DEF ClaimAdds, NoCallOnBuild
        <3>3. CASE ClaimAddFails(r)
            BY <2>5, <3>3 DEF ClaimAddFails, NoCallOnBuild
        <3>4. QED
            BY <3>2, <3>3
    <2>9. CallsSeeOwn(j)'
        <3>1. \A s \in Runs : s # r => at'[s] # j
            BY <1>1, <2>4 DEF Underway
        <3>2. pc'[r] # "adding" /\ pc'[r] # "removing"
            BY <1>1
        <3>3. QED
            BY <2>2, <3>1, <3>2 DEF CallsSeeOwn
    <2>10. OldClaimsIdle(j)'
        <3> SUFFICES ASSUME NEW s \in Runs, Remembers(s, j)', s # r
                     PROVE  /\ clock' - marked'[s][j] > MaxAge
                            /\ pc'[s] \in Releasing /\ j \in todo'[s] => now'[s] - marked'[s][j] > MaxAge
            BY <2>2 DEF OldClaimsIdle, Releasing
        <3>1. Remembers(s, j) /\ j \notin builds[s] /\ ~Underway(s, j) /\ ~Pending(s, j)
            BY <1>0, <2>4, <2>5 DEF Remembers
        <3>2. clock \in Int /\ marked[s][j] \in Int /\ now[s] \in Int
            BY <1>0 DEF Time, Never
        <3>3. QED
            BY <1>0, <1>1, <3>1, <3>2 DEF Underway, Pending
    <2>11. QED
        BY <1>3, <2>7, <2>8, <2>9, <2>10 DEF ApartAt
<1>4. QED
    BY <1>2, <1>3

\* Time passing opens a hole where a build outlives MaxAge, and only ages the rest.
LEMMA TickApart ==
    ASSUME LabelInv, TypeOK', Tick, NEW j \in Issues, holes'[j] = {}, ApartAt(j)
    PROVE  ApartAt(j)'
<1> USE ConstantsAssumption DEF LabelInv, TypeOK, Tick, process, Time, Never
<1>1. \A r \in Runs : ~Overdue(r, j, clock + 1)
    OBVIOUS
<1>2. BuilderAlone(j)'
    <2> SUFFICES ASSUME NEW r \in Runs, j \in builds[r]
                 PROVE  /\ adders[j] = {r}
                        /\ marked[r][j] <= labelledAt[j]
                        /\ (clock + 1) - labelledAt[j] <= MaxAge
        BY DEF BuilderAlone
    <2>1. clock + 1 \in Int /\ MaxAge \in Int /\ marked[r][j] \in Int
        OBVIOUS
    <2>2. ~Overdue(r, j, clock + 1)
        BY <1>1
    <2>3. (clock + 1) - marked[r][j] <= MaxAge
        BY ONLY <2>1, <2>2, j \in builds[r] DEF Overdue
    <2>4. QED
        BY <2>3 DEF ApartAt, BuilderAlone
<1>3. NoCallOnBuild(j)'
    BY DEF ApartAt, NoCallOnBuild
<1>4. CallsSeeOwn(j)'
    <2>1. labelledAt[j] \in Int /\ labelledAt' = labelledAt /\ clock' = clock + 1
        OBVIOUS
    <2>2. QED
        BY <2>1 DEF ApartAt, CallsSeeOwn
<1>5. OldClaimsIdle(j)'
    <2>1. \A s \in Runs : clock' - marked'[s][j] > clock - marked[s][j]
        OBVIOUS
    <2>2. QED
        BY <2>1 DEF ApartAt, OldClaimsIdle, Remembers
<1>6. QED
    BY <1>2, <1>3, <1>4, <1>5 DEF ApartAt

\* A failed removal, or one that landed, leaves claims apart.
LEMMA RemoverApart ==
    ASSUME LabelInv, TypeOK', NEW r \in Runs, NEW i, Remover(r, i),
           NEW j \in Issues, ApartAt(j)
    PROVE  ApartAt(j)'
<1>1. Quiet(j) /\ Removal(i)
    BY RemoverQuiet
<1>2. CASE UNCHANGED github
    BY <1>1, <1>2, QuietKeepsApart DEF LabelInv, github, Same
<1>3. CASE LabelRemoved(i) /\ j # i
    BY <1>1, <1>3, QuietKeepsApart DEF LabelInv, TypeOK, LabelRemoved, Same
<1>4. CASE LabelRemoved(i) /\ j = i
    <2>1. \A b \in Runs : j \notin builds'[b]
        BY <1>4, RemoverAlone
    <2>2. TakenOff(j)
        BY <1>4, <2>1 DEF LabelInv, TypeOK, LabelRemoved, TakenOff
    <2>3. QED
        BY <1>1, <2>2, QuietKeepsApart DEF LabelInv
<1>5. QED
    BY <1>1, <1>2, <1>3, <1>4 DEF Removal

\* A hole that opened stays open.
LEMMA HolesGrow ==
    ASSUME TypeOK, [Next]_vars, NEW j \in Issues, holes'[j] = {}
    PROVE  holes[j] = {}
<1> USE DEF TypeOK, github
<1>1. CASE Tick
    BY <1>1 DEF Tick
<1>2. ASSUME NEW r \in Runs, RunStep(r) \/ Killed(r) PROVE holes[j] = {}
    <2>1. holes' = holes \/ LabelAdded(r, at[r])
        BY <1>2 DEF RunStep, Startup, ClearRemoves, ClearFails, BeginRound, StartBuilds, ClaimAdds,
            ClaimAddFails, Undoes, UndoFails, ClaimsDone, Exits, Exited, Gate, ClearKeeps, ClearFinds,
            ReleaseForgets, ReleaseRemoves, ReleaseFails, ClaimSkips, ClaimReads, ClaimReadFails,
            BuildEnds, BuildEndsUnmarkFails, Killed, Gone, RemovalFailed, LabelRemoved
    <2>2. QED
        BY <2>1 DEF LabelAdded
<1>3. CASE UNCHANGED vars
    BY <1>3 DEF vars
<1>4. QED
    BY <1>1, <1>2, <1>3 DEF Next

LEMMA ApartNext == LabelInv /\ TypeOK' /\ [Next]_vars => ClaimsApart'
<1> SUFFICES ASSUME LabelInv, TypeOK', [Next]_vars, NEW j \in Issues, holes'[j] = {}
             PROVE  ApartAt(j)'
    BY DEF ClaimsApart
<1>1. ApartAt(j) /\ TypeOK
    BY HolesGrow DEF LabelInv, ClaimsApart
<1>2. CASE Tick
    BY <1>1, <1>2, TickApart
<1>3. ASSUME NEW r \in Runs, RunStep(r) \/ Killed(r) PROVE ApartAt(j)'
    <2>1. ASSUME \/ Startup(r) \/ BeginRound(r) \/ StartBuilds(r) \/ ClaimsDone(r) \/ Exits(r)
                 \/ Exited(r) \/ Killed(r)
                 \/ \E picks \in SUBSET Issues : Gate(r, picks)
                 \/ \E i \in Issues :
                    ClearKeeps(r, i) \/ ReleaseForgets(r, i) \/ ClaimSkips(r, i) \/ ClaimReadFails(r, i)
          PROVE  ApartAt(j)'
        <3>1. Quiet(j) /\ Same(j)
            BY <2>1, QuietSteps
        <3>2. QED
            BY <1>1, <3>1, QuietKeepsApart
    <2>2. ASSUME NEW i, Remover(r, i) PROVE ApartAt(j)'
        BY <1>1, <2>2, RemoverApart
    <2>3. ASSUME NEW i \in Issues, ClaimReads(r, i) PROVE ApartAt(j)'
        BY <1>1, <2>3, ClaimReadsApart
    <2>4. ASSUME NEW i \in Issues, ClearFinds(r, i) PROVE ApartAt(j)'
        BY <1>1, <2>4, ClearFindsApart
    <2>5. CASE ClaimAdds(r)
        BY <1>1, <2>5, AddApart DEF ClaimAdds
    <2>6. CASE ClaimAddFails(r)
        <3>1. CASE LabelAdded(r, at[r])
            BY <1>1, <2>6, <3>1, AddApart DEF ClaimAddFails
        <3>2. CASE UNCHANGED github
            <4>1. /\ UNCHANGED <<clock, todo, at, now, marked, builds>>
                  /\ pc[r] = "adding" /\ pc' = [pc EXCEPT ![r] = "undoing"]
                BY <2>6 DEF ClaimAddFails, Goto
            <4>2. \A s \in Runs : pc'[s] # "adding" => pc'[s] = pc[s] \/ s = r
                BY <1>1, <4>1 DEF TypeOK
            <4>3. BuilderAlone(j)' /\ NoCallOnBuild(j)'
                BY <1>1, <3>2, <4>1 DEF ApartAt, BuilderAlone, NoCallOnBuild, github
            <4>4. CallsSeeOwn(j)'
                BY <1>1, <3>2, <4>1 DEF ApartAt, CallsSeeOwn, github, TypeOK
            <4>5. OldClaimsIdle(j)'
                BY <1>1, <3>2, <4>1 DEF ApartAt, OldClaimsIdle, Remembers, Releasing, github, TypeOK
            <4>6. QED
                BY <4>3, <4>4, <4>5 DEF ApartAt
        <3>3. QED
            BY <2>6, <3>1, <3>2 DEF ClaimAddFails
    <2>7. QED
        BY <1>3, <2>1, <2>2, <2>3, <2>4, <2>5, <2>6 DEF RunStep, Remover
<1>4. CASE UNCHANGED vars
    BY <1>1, <1>4 DEF vars, github, process, ApartAt, BuilderAlone, NoCallOnBuild, CallsSeeOwn,
        OldClaimsIdle, Remembers
<1>5. QED
    BY <1>2, <1>3, <1>4 DEF Next

\* A label comes and goes with its adders.
LEMMA AdderNext == LabelInv /\ TypeOK' /\ [Next]_vars => LabelHasAdder'
<1> SUFFICES ASSUME LabelInv, TypeOK', [Next]_vars PROVE LabelHasAdder'
    OBVIOUS
<1> USE DEF LabelInv, TypeOK, LabelHasAdder
<1>1. CASE UNCHANGED <<label, adders>>
    BY <1>1
<1>2. ASSUME NEW i, LabelRemoved(i) PROVE LabelHasAdder'
    BY <1>2 DEF LabelRemoved
<1>3. ASSUME NEW r \in Runs, NEW i, LabelAdded(r, i) PROVE LabelHasAdder'
    BY <1>3 DEF LabelAdded
<1>4. ASSUME NEW r \in Runs, RunStep(r) \/ Killed(r)
      PROVE  \/ UNCHANGED <<label, adders>>
             \/ \E i : LabelRemoved(i) \/ LabelAdded(r, i)
    BY <1>4 DEF RunStep, Startup, ClearRemoves, ClearFails, BeginRound, StartBuilds, ClaimAdds,
        ClaimAddFails, Undoes, UndoFails, ClaimsDone, Exits, Exited, Gate, ClearKeeps, ClearFinds,
        ReleaseForgets, ReleaseRemoves, ReleaseFails, ClaimSkips, ClaimReads, ClaimReadFails,
        BuildEnds, BuildEndsUnmarkFails, Killed, Gone, RemovalFailed, github
<1>5. CASE Tick
    BY <1>1, <1>5 DEF Tick
<1>6. CASE UNCHANGED vars
    BY <1>1, <1>6 DEF vars, github
<1>7. QED
    BY <1>1, <1>2, <1>3, <1>4, <1>5, <1>6 DEF Next

\* Times are read from the clock, and the clock only goes on.
LEMMA TimesPastNext == LabelInv /\ TypeOK' /\ [Next]_vars => TimesPast'
<1> USE ConstantsAssumption DEF Never
<1> SUFFICES ASSUME LabelInv, TypeOK', [Next]_vars PROVE TimesPast'
    OBVIOUS
<1> USE DEF LabelInv, TypeOK, TimesPast, Time, Goto, Visited, Forget, Fault, github, process
<1>1. CASE Tick
    <2>1. clock \in Int /\ clock' = clock + 1 /\ UNCHANGED <<labelledAt, now, marked>>
        BY <1>1 DEF Tick
    <2>2. (\A i \in Issues : labelledAt[i] \in Int) /\ (\A s \in Runs : now[s] \in Int)
        OBVIOUS
    <2>3. \A s \in Runs, i \in Issues : marked[s][i] \in Int
        OBVIOUS
    <2>4. (\A i \in Issues : labelledAt[i] <= clock) /\ (\A s \in Runs : now[s] <= clock)
        OBVIOUS
    <2>5. \A s \in Runs, i \in Issues : marked[s][i] <= clock
        OBVIOUS
    <2> HIDE DEF LabelInv, TypeOK
    <2>6. QED
        BY <2>1, <2>2, <2>3, <2>4, <2>5
<1>2. ASSUME NEW r \in Runs, RunStep(r) PROVE TimesPast'
    <2>1. CASE Startup(r)
        BY <2>1 DEF Startup
    <2>2. CASE ClearRemoves(r)
        BY <2>2 DEF ClearRemoves, LabelRemoved
    <2>3. CASE ClearFails(r)
        BY <2>3 DEF ClearFails, RemovalFailed, LabelRemoved
    <2>4. CASE BeginRound(r)
        BY <2>4 DEF BeginRound
    <2>5. CASE StartBuilds(r)
        BY <2>5 DEF StartBuilds
    <2>6. CASE ClaimAdds(r)
        BY <2>6 DEF ClaimAdds, LabelAdded
    <2>7. CASE ClaimAddFails(r)
        BY <2>7 DEF ClaimAddFails, LabelAdded
    <2>8. CASE Undoes(r)
        BY <2>8 DEF Undoes, LabelRemoved
    <2>9. CASE UndoFails(r)
        BY <2>9 DEF UndoFails, RemovalFailed, LabelRemoved
    <2>10. CASE ClaimsDone(r)
        BY <2>10 DEF ClaimsDone
    <2>11. CASE Exits(r)
        BY <2>11 DEF Exits
    <2>12. CASE Exited(r)
        BY <2>12 DEF Exited, Gone
    <2>13. ASSUME NEW picks \in SUBSET Issues, Gate(r, picks) PROVE TimesPast'
        BY <2>13 DEF Gate
    <2>14. ASSUME NEW i \in Issues, ClearKeeps(r, i) PROVE TimesPast'
        BY <2>14 DEF ClearKeeps
    <2>15. ASSUME NEW i \in Issues, ClearFinds(r, i) PROVE TimesPast'
        BY <2>15 DEF ClearFinds
    <2>16. ASSUME NEW i \in Issues, ReleaseForgets(r, i) PROVE TimesPast'
        BY <2>16 DEF ReleaseForgets
    <2>17. ASSUME NEW i \in Issues, ReleaseRemoves(r, i) PROVE TimesPast'
        BY <2>17 DEF ReleaseRemoves, LabelRemoved
    <2>18. ASSUME NEW i \in Issues, ReleaseFails(r, i) PROVE TimesPast'
        BY <2>18 DEF ReleaseFails, RemovalFailed, LabelRemoved
    <2>19. ASSUME NEW i \in Issues, ClaimSkips(r, i) PROVE TimesPast'
        BY <2>19 DEF ClaimSkips
    <2>20. ASSUME NEW i \in Issues, ClaimReads(r, i) PROVE TimesPast'
        BY <2>20 DEF ClaimReads
    <2>21. ASSUME NEW i \in Issues, ClaimReadFails(r, i) PROVE TimesPast'
        BY <2>21 DEF ClaimReadFails
    <2>22. ASSUME NEW i \in Issues, BuildEnds(r, i) PROVE TimesPast'
        BY <2>22 DEF BuildEnds, LabelRemoved
    <2>23. ASSUME NEW i \in Issues, BuildEndsUnmarkFails(r, i) PROVE TimesPast'
        BY <2>23 DEF BuildEndsUnmarkFails, RemovalFailed, LabelRemoved
    <2>24. QED
        BY <1>2, <2>1, <2>2, <2>3, <2>4, <2>5, <2>6, <2>7, <2>8, <2>9, <2>10, <2>11, <2>12,
           <2>13, <2>14, <2>15, <2>16, <2>17, <2>18, <2>19, <2>20, <2>21, <2>22, <2>23 DEF RunStep
<1>3. ASSUME NEW r \in Runs, Killed(r) PROVE TimesPast'
    BY <1>3 DEF Killed, Gone
<1>4. CASE UNCHANGED vars
    BY <1>4 DEF vars
<1>5. QED
    BY <1>1, <1>2, <1>3, <1>4 DEF Next

\* What a run holds matches the step it is in.
LEMMA WorkNext == LabelInv /\ TypeOK' /\ [Next]_vars => WorkMatchesStep'
<1> USE ConstantsAssumption DEF Never
<1> SUFFICES ASSUME LabelInv, TypeOK', [Next]_vars PROVE WorkMatchesStep'
    OBVIOUS
<1> USE DEF LabelInv, TypeOK, WorkMatchesStep, Remembered, Remembers, MidCall, Releasing, Steps, Time, Goto, Visited, Forget, Fault, github, process
<1>1. CASE Tick
    BY <1>1 DEF Tick
<1>2. ASSUME NEW r \in Runs, RunStep(r) PROVE WorkMatchesStep'
    <2>1. CASE Startup(r)
        BY <2>1 DEF Startup
    <2>2. CASE ClearRemoves(r)
        BY <2>2 DEF ClearRemoves, LabelRemoved
    <2>3. CASE ClearFails(r)
        BY <2>3 DEF ClearFails, RemovalFailed, LabelRemoved
    <2>4. CASE BeginRound(r)
        BY <2>4 DEF BeginRound
    <2>5. CASE StartBuilds(r)
        BY <2>5 DEF StartBuilds
    <2>6. CASE ClaimAdds(r)
        BY <2>6 DEF ClaimAdds, LabelAdded
    <2>7. CASE ClaimAddFails(r)
        BY <2>7 DEF ClaimAddFails, LabelAdded
    <2>8. CASE Undoes(r)
        BY <2>8 DEF Undoes, LabelRemoved
    <2>9. CASE UndoFails(r)
        BY <2>9 DEF UndoFails, RemovalFailed, LabelRemoved
    <2>10. CASE ClaimsDone(r)
        BY <2>10 DEF ClaimsDone
    <2>11. CASE Exits(r)
        BY <2>11 DEF Exits
    <2>12. CASE Exited(r)
        BY <2>12 DEF Exited, Gone
    <2>13. ASSUME NEW picks \in SUBSET Issues, Gate(r, picks) PROVE WorkMatchesStep'
        BY <2>13 DEF Gate
    <2>14. ASSUME NEW i \in Issues, ClearKeeps(r, i) PROVE WorkMatchesStep'
        BY <2>14 DEF ClearKeeps
    <2>15. ASSUME NEW i \in Issues, ClearFinds(r, i) PROVE WorkMatchesStep'
        BY <2>15 DEF ClearFinds
    <2>16. ASSUME NEW i \in Issues, ReleaseForgets(r, i) PROVE WorkMatchesStep'
        BY <2>16 DEF ReleaseForgets
    <2>17. ASSUME NEW i \in Issues, ReleaseRemoves(r, i) PROVE WorkMatchesStep'
        BY <2>17 DEF ReleaseRemoves, LabelRemoved
    <2>18. ASSUME NEW i \in Issues, ReleaseFails(r, i) PROVE WorkMatchesStep'
        BY <2>18 DEF ReleaseFails, RemovalFailed, LabelRemoved
    <2>19. ASSUME NEW i \in Issues, ClaimSkips(r, i) PROVE WorkMatchesStep'
        BY <2>19 DEF ClaimSkips
    <2>20. ASSUME NEW i \in Issues, ClaimReads(r, i) PROVE WorkMatchesStep'
        BY <2>20 DEF ClaimReads
    <2>21. ASSUME NEW i \in Issues, ClaimReadFails(r, i) PROVE WorkMatchesStep'
        BY <2>21 DEF ClaimReadFails
    <2>22. ASSUME NEW i \in Issues, BuildEnds(r, i) PROVE WorkMatchesStep'
        BY <2>22 DEF BuildEnds, LabelRemoved
    <2>23. ASSUME NEW i \in Issues, BuildEndsUnmarkFails(r, i) PROVE WorkMatchesStep'
        BY <2>23 DEF BuildEndsUnmarkFails, RemovalFailed, LabelRemoved
    <2>24. QED
        BY <1>2, <2>1, <2>2, <2>3, <2>4, <2>5, <2>6, <2>7, <2>8, <2>9, <2>10, <2>11, <2>12,
           <2>13, <2>14, <2>15, <2>16, <2>17, <2>18, <2>19, <2>20, <2>21, <2>22, <2>23 DEF RunStep
<1>3. ASSUME NEW r \in Runs, Killed(r) PROVE WorkMatchesStep'
    BY <1>3 DEF Killed, Gone
<1>4. CASE UNCHANGED vars
    BY <1>4 DEF vars
<1>5. QED
    BY <1>1, <1>2, <1>3, <1>4 DEF Next

\* Until a call fails, no claim is remembered idly.
LEMMA InUseNext == LabelInv /\ TypeOK' /\ [Next]_vars => ClaimsInUse'
<1> USE ConstantsAssumption DEF Never
<1> SUFFICES ASSUME LabelInv, TypeOK', [Next]_vars PROVE ClaimsInUse'
    OBVIOUS
<1> USE DEF LabelInv, TypeOK, WorkMatchesStep, ClaimsInUse, Remembered, Remembers, MidCall, Releasing, Steps, Time, Goto, Visited, Forget, Fault, github, process
<1>1. CASE Tick
    BY <1>1 DEF Tick
<1>2. ASSUME NEW r \in Runs, RunStep(r) PROVE ClaimsInUse'
    <2>1. CASE Startup(r)
        BY <2>1 DEF Startup
    <2>2. CASE ClearRemoves(r)
        BY <2>2 DEF ClearRemoves, LabelRemoved
    <2>3. CASE ClearFails(r)
        BY <2>3 DEF ClearFails, RemovalFailed, LabelRemoved
    <2>4. CASE BeginRound(r)
        BY <2>4 DEF BeginRound
    <2>5. CASE StartBuilds(r)
        BY <2>5 DEF StartBuilds
    <2>6. CASE ClaimAdds(r)
        BY <2>6 DEF ClaimAdds, LabelAdded
    <2>7. CASE ClaimAddFails(r)
        BY <2>7 DEF ClaimAddFails, LabelAdded
    <2>8. CASE Undoes(r)
        BY <2>8 DEF Undoes, LabelRemoved
    <2>9. CASE UndoFails(r)
        BY <2>9 DEF UndoFails, RemovalFailed, LabelRemoved
    <2>10. CASE ClaimsDone(r)
        BY <2>10 DEF ClaimsDone
    <2>11. CASE Exits(r)
        BY <2>11 DEF Exits
    <2>12. CASE Exited(r)
        BY <2>12 DEF Exited, Gone
    <2>13. ASSUME NEW picks \in SUBSET Issues, Gate(r, picks) PROVE ClaimsInUse'
        BY <2>13 DEF Gate
    <2>14. ASSUME NEW i \in Issues, ClearKeeps(r, i) PROVE ClaimsInUse'
        BY <2>14 DEF ClearKeeps
    <2>15. ASSUME NEW i \in Issues, ClearFinds(r, i) PROVE ClaimsInUse'
        BY <2>15 DEF ClearFinds
    <2>16. ASSUME NEW i \in Issues, ReleaseForgets(r, i) PROVE ClaimsInUse'
        BY <2>16 DEF ReleaseForgets
    <2>17. ASSUME NEW i \in Issues, ReleaseRemoves(r, i) PROVE ClaimsInUse'
        BY <2>17 DEF ReleaseRemoves, LabelRemoved
    <2>18. ASSUME NEW i \in Issues, ReleaseFails(r, i) PROVE ClaimsInUse'
        BY <2>18 DEF ReleaseFails, RemovalFailed, LabelRemoved
    <2>19. ASSUME NEW i \in Issues, ClaimSkips(r, i) PROVE ClaimsInUse'
        BY <2>19 DEF ClaimSkips
    <2>20. ASSUME NEW i \in Issues, ClaimReads(r, i) PROVE ClaimsInUse'
        <3> SUFFICES ASSUME faults = 0, NEW s \in Runs, NEW k \in Issues, Remembers(s, k)'
                      PROVE  k \in builds'[s] \/ at'[s] = k \/ (pc'[s] \in Releasing /\ k \in todo'[s])
            BY <2>20 DEF ClaimReads
        <3>1. CASE s # r
            BY <2>20, <3>1 DEF ClaimReads
        <3>2. CASE s = r /\ k = i
            BY <2>20, <3>2 DEF ClaimReads
        <3>3. CASE s = r /\ k # i
            <4>1. pc[r] = "claiming" /\ at[r] \notin Issues
                BY <2>20 DEF ClaimReads
            <4>2. Remembers(r, k) /\ builds' = builds
                BY <2>20, <3>3 DEF ClaimReads
            <4>3. QED
                BY <3>3, <4>1, <4>2
        <3>4. QED
            BY <3>1, <3>2, <3>3
    <2>21. ASSUME NEW i \in Issues, ClaimReadFails(r, i) PROVE ClaimsInUse'
        BY <2>21 DEF ClaimReadFails
    <2>22. ASSUME NEW i \in Issues, BuildEnds(r, i) PROVE ClaimsInUse'
        BY <2>22 DEF BuildEnds, LabelRemoved
    <2>23. ASSUME NEW i \in Issues, BuildEndsUnmarkFails(r, i) PROVE ClaimsInUse'
        BY <2>23 DEF BuildEndsUnmarkFails, RemovalFailed, LabelRemoved
    <2>24. QED
        BY <1>2, <2>1, <2>2, <2>3, <2>4, <2>5, <2>6, <2>7, <2>8, <2>9, <2>10, <2>11, <2>12,
           <2>13, <2>14, <2>15, <2>16, <2>17, <2>18, <2>19, <2>20, <2>21, <2>22, <2>23 DEF RunStep
<1>3. ASSUME NEW r \in Runs, Killed(r) PROVE ClaimsInUse'
    BY <1>3 DEF Killed, Gone
<1>4. CASE UNCHANGED vars
    BY <1>4 DEF vars
<1>5. QED
    BY <1>1, <1>2, <1>3, <1>4 DEF Next

LEMMA InvInit == Init => LabelInv
<1> SUFFICES ASSUME Init PROVE LabelInv
    OBVIOUS
<1>1. TypeOK
    BY TypeInit
<1>2. TimesPast /\ LabelHasAdder /\ ClaimsInUse
    BY ConstantsAssumption DEF Init, TimesPast, LabelHasAdder, ClaimsInUse, Remembers, Never
<1>3. WorkMatchesStep
    BY ConstantsAssumption DEF Init, WorkMatchesStep, Remembered, Remembers, Releasing
<1>4. ClaimsApart
    BY ConstantsAssumption DEF Init, ClaimsApart, ApartAt, BuilderAlone, NoCallOnBuild, CallsSeeOwn,
        OldClaimsIdle
<1>5. QED
    BY <1>1, <1>2, <1>3, <1>4 DEF LabelInv

LEMMA InvNext == LabelInv /\ [Next]_vars => LabelInv'
<1> SUFFICES ASSUME LabelInv, [Next]_vars PROVE LabelInv'
    OBVIOUS
<1>1. TypeOK'
    BY TypeNext DEF LabelInv
<1>2. QED
    BY <1>1, TimesPastNext, WorkNext, AdderNext, ApartNext, InUseNext DEF LabelInv

\* The inductive invariant holds in every reachable state.
THEOREM InvCorrect == Spec => []LabelInv
BY InvInit, InvNext, PTL DEF Spec

\* While no hole has opened on an issue, at most one run builds it.
THEOREM OneBuilderCorrect == Spec => []OneBuilder
<1>1. LabelInv => OneBuilder
    <2> SUFFICES ASSUME LabelInv, NEW i \in Issues, holes[i] = {},
                        NEW r \in Runs, NEW s \in Runs, i \in builds[r], i \in builds[s]
                 PROVE  r = s
        BY DEF OneBuilder
    <2>1. adders[i] = {r} /\ adders[i] = {s}
        BY DEF LabelInv, ClaimsApart, ApartAt, BuilderAlone
    <2>2. QED
        BY <2>1, Zenon
<1>2. QED
    BY <1>1, InvCorrect, PTL

\* While no hole has opened on an issue, its build's own label stays on it.
THEOREM LabelCoversBuildCorrect == Spec => []LabelCoversBuild
<1>1. LabelInv => LabelCoversBuild
    <2> SUFFICES ASSUME LabelInv, NEW r \in Runs, NEW i \in builds[r], holes[i] = {}
                 PROVE  label[i] /\ adders[i] = {r}
        BY DEF LabelCoversBuild
    <2>1. i \in Issues
        BY DEF LabelInv, TypeOK
    <2>2. adders[i] = {r}
        BY <2>1 DEF LabelInv, ClaimsApart, ApartAt, BuilderAlone
    <2>3. QED
        BY <2>1, <2>2 DEF LabelInv, LabelHasAdder
<1>2. QED
    BY <1>1, InvCorrect, PTL

\* An add that opens the "remembered" hole is preceded by a failed call or a kill.
LEMMA AddRemembered ==
    ASSUME LabelInv, faults = 0, NEW r \in Runs, NEW i \in Issues
    PROVE  "remembered" \notin HolesAtAdd(r, i)
<1> SUFFICES ASSUME NEW s \in Runs, Pending(s, i) PROVE FALSE
    BY DEF HolesAtAdd
<1>1. pc[s] \in Releasing /\ i \in todo[s]
    BY DEF LabelInv, ClaimsInUse, Pending, Underway
<1>2. now[s] - marked[s][i] > MaxAge
    <2>1. now[s] \in Int /\ marked[s][i] \in Int
        BY DEF LabelInv, TypeOK, Time, Never
    <2>2. QED
        BY <1>1, <2>1, ConstantsAssumption DEF Pending, Underway
<1>3. now[s] <= clock /\ now[s] \in Int /\ marked[s][i] \in Int /\ clock \in Int
    BY DEF LabelInv, TypeOK, TimesPast, Time, Never
<1>4. QED
    BY <1>2, <1>3, ConstantsAssumption DEF Pending

\* Until a call fails, the "remembered" hole opens on no issue.
THEOREM OnlyFaultsCorrect == Spec => []OnlyFaultsAreRemembered
<1>1. Init => OnlyFaultsAreRemembered
    BY DEF Init, OnlyFaultsAreRemembered
<1>2. LabelInv /\ OnlyFaultsAreRemembered /\ [Next]_vars => OnlyFaultsAreRemembered'
    <2> SUFFICES ASSUME LabelInv, OnlyFaultsAreRemembered, [Next]_vars, faults' = 0, NEW j \in Issues
                 PROVE  "remembered" \notin holes'[j]
        BY DEF OnlyFaultsAreRemembered
    <2> USE DEF LabelInv, TypeOK, github
    <2>1. CASE Tick
        BY <2>1 DEF Tick, OnlyFaultsAreRemembered
    <2>2. ASSUME NEW r \in Runs, RunStep(r) \/ Killed(r) PROVE "remembered" \notin holes'[j]
        <3>1. \/ holes' = holes /\ faults = 0
              \/ ClaimAdds(r)
            <4>1. ASSUME Fault PROVE FALSE
                BY <4>1 DEF Fault
            <4>2. QED
                BY <2>2, <4>1 DEF RunStep, Startup, ClearRemoves, ClearFails, BeginRound, StartBuilds,
                    ClaimAddFails, Undoes, UndoFails, ClaimsDone, Exits, Exited, Gate,
                    ClearKeeps, ClearFinds, ReleaseForgets, ReleaseRemoves, ReleaseFails, ClaimSkips,
                    ClaimReads, ClaimReadFails, BuildEnds, BuildEndsUnmarkFails, Killed, Gone,
                    RemovalFailed, LabelRemoved
        <3>2. CASE ClaimAdds(r)
            <4>1. at[r] \in Issues /\ faults = 0
                BY <3>2 DEF ClaimAdds, MidCall
            <4>2. "remembered" \notin HolesAtAdd(r, at[r])
                BY <4>1, AddRemembered
            <4>3. QED
                BY <3>2, <4>1, <4>2 DEF ClaimAdds, LabelAdded, OnlyFaultsAreRemembered
        <3>3. QED
            BY <3>1, <3>2 DEF OnlyFaultsAreRemembered
    <2>3. CASE UNCHANGED vars
        BY <2>3 DEF vars, OnlyFaultsAreRemembered
    <2>4. QED
        BY <2>1, <2>2, <2>3 DEF Next
<1>3. QED
    BY <1>1, <1>2, InvCorrect, PTL DEF Spec

\* While no hole has opened on an issue, only the run that added its young label
\* takes it off.
THEOREM YoungLabelStaysCorrect == Spec => YoungLabelStays
<1>1. LabelInv /\ TypeOK' /\ [Next]_vars => YoungLabelStep
    <2> SUFFICES ASSUME LabelInv, TypeOK', [Next]_vars, NEW j \in Issues,
                        label[j], ~label'[j], holes[j] = {}, clock - labelledAt[j] <= MaxAge
                 PROVE  \E r \in adders[j] : Remembers(r, j)
        BY DEF YoungLabelStep
    <2>1. PICK r \in Runs : Remover(r, j)
        <3>1. \E r \in Runs : RunStep(r) \/ Killed(r)
            BY DEF Next, Tick, vars, github
        <3>2. PICK r \in Runs : RunStep(r) \/ Killed(r)
            BY <3>1
        <3>3. \E i : Remover(r, i) /\ LabelRemoved(i)
            BY <3>2 DEF RunStep, Startup, ClearRemoves, ClearFails, BeginRound, StartBuilds, ClaimAdds,
                ClaimAddFails, Undoes, UndoFails, ClaimsDone, Exits, Exited, Gate, ClearKeeps, ClearFinds,
                ReleaseForgets, ReleaseRemoves, ReleaseFails, ClaimSkips, ClaimReads, ClaimReadFails,
                BuildEnds, BuildEndsUnmarkFails, Killed, Gone, RemovalFailed, github, LabelAdded, Remover,
                LabelInv, TypeOK
        <3>4. \A i : LabelRemoved(i) => i = j
            BY DEF LabelRemoved, LabelInv, TypeOK
        <3>5. QED
            BY <3>3, <3>4
    <2>2. ApartAt(j) /\ adders[j] # {} /\ adders[j] \subseteq Runs
        BY DEF LabelInv, ClaimsApart, LabelHasAdder, TypeOK
    <2>3. CASE at[r] = j /\ (ClearRemoves(r) \/ ClearFails(r))
        <3>1. pc[r] = "removing"
            BY <2>3 DEF ClearRemoves, ClearFails, LabelInv, TypeOK, MidCall, github
        <3>2. clock - labelledAt[j] > MaxAge
            BY <2>2, <2>3, <3>1 DEF ApartAt, CallsSeeOwn
        <3>3. clock \in Int /\ labelledAt[j] \in Int /\ MaxAge \in Int
            BY ConstantsAssumption DEF LabelInv, TypeOK, Time, Never
        <3>4. QED
            BY <3>2, <3>3
    <2>4. CASE at[r] = j /\ (Undoes(r) \/ UndoFails(r))
        <3>1. pc[r] = "undoing"
            BY <2>4 DEF Undoes, UndoFails
        <3>2. adders[j] \subseteq {r} /\ Remembers(r, j)
            BY <2>2, <2>4, <3>1 DEF ApartAt, CallsSeeOwn, LabelInv, WorkMatchesStep, Remembered
        <3>3. QED
            BY <2>2, <3>2
    <2>5. CASE ReleaseRemoves(r, j) \/ ReleaseFails(r, j)
        <3>1. pc[r] \in Releasing /\ j \in todo[r] /\ now[r] - marked[r][j] <= MaxAge
            BY <2>5 DEF ReleaseRemoves, ReleaseFails
        <3>2. Remembers(r, j)
            BY <3>1 DEF LabelInv, WorkMatchesStep, Remembered
        <3>3. now[r] \in Int /\ marked[r][j] \in Int /\ MaxAge \in Int
            BY ConstantsAssumption DEF LabelInv, TypeOK, Time, Never
        <3>4. r \in adders[j]
            BY <2>2, <3>1, <3>2, <3>3 DEF ApartAt, OldClaimsIdle
        <3>5. QED
            BY <3>2, <3>4
    <2>6. CASE BuildEnds(r, j) \/ BuildEndsUnmarkFails(r, j)
        <3>1. j \in builds[r]
            BY <2>6 DEF BuildEnds, BuildEndsUnmarkFails
        <3>2. r \in adders[j] /\ Remembers(r, j)
            BY <2>2, <3>1 DEF ApartAt, BuilderAlone, LabelInv, WorkMatchesStep, Remembered
        <3>3. QED
            BY <3>2
    <2>7. QED
        BY <2>1, <2>3, <2>4, <2>5, <2>6 DEF Remover
<1>2. LabelInv /\ [Next]_vars => TypeOK'
    BY TypeNext DEF LabelInv
<1>3. QED
    BY <1>1, <1>2, InvCorrect, PTL DEF Spec, YoungLabelStays
=============================================================================
