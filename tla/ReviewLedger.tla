---------------------------- MODULE ReviewLedger -----------------------------
(* The local review's ledgers (lib/review-ledger.mts): sessions that review a  *)
(* branch in rounds and record what they found, the person who reads the       *)
(* report and accepts a finding by its id, and the gate's check. The branch    *)
(* goes on meanwhile, and any command may be killed holding the lock.          *)
EXTENDS Integers, FiniteSets, Sequences, FiniteSetsExt

CONSTANTS
    Sessions,     \* review sessions in the clone
    MaxCommits,   \* bound: commits of the branch
    MaxFindings,  \* bound: findings raised, at most one in a review
    MaxCrashes    \* bound: commands killed

ASSUME ConstantsAssumption ==
    /\ Sessions \cap {"free", "person", "dead"} = {}
    /\ MaxCommits \in Nat \ {0} /\ MaxFindings \in Nat /\ MaxCrashes \in Nat

VARIABLES
    commits,   \* the branch's own commits, in the order they were made
    head,
    ledgers,   \* the review folder: the ledger of each key that has one
    lock,      \* "free", who holds it, or "dead": its holder was killed
    session,   \* each review session
    person,    \* the person's accept command
    seen,      \* the findings the person has read in a report, with their ids
    findings, crashes,
    \* History, read by no guard.
    codeRead,  \* code every part of which some session's reviewers read
    lastFound, \* the finding, if any, of the last review recorded at each key
    accepted,  \* findings accepted, with their ids
    overtaken  \* a review was recorded after HEAD had moved on from it

branch == <<commits, head>>
history == <<codeRead, lastFound, accepted, overtaken>>
vars == <<commits, head, ledgers, lock, session, person, seen, findings, crashes, history>>

\* A commit: the branch's own commits up to it, its diff's key (patchKey), the
\* branch's code, which the key does not tell apart entirely, and how much of
\* main it has.
Commit(line, key, code, main) == [line |-> line, key |-> key, code |-> code, main |-> main]

None == [head |-> 0, id |-> 0, what |-> 0, status |-> "none", lastId |-> 0]
NoSession == [pc |-> "idle", at |-> 0, read |-> {}, id |-> 0, what |-> 0, head |-> 0]
NoPerson == [pc |-> "idle", id |-> 0, key |-> 0, ledger |-> None]

Keys == 1..MaxCommits

Init ==
    /\ commits = <<Commit({1}, 1, 1, 1)>> /\ head = 1
    /\ ledgers = [key \in Keys |-> None]
    /\ lock = "free"
    /\ session = [s \in Sessions |-> NoSession]
    /\ person = NoPerson /\ seen = {}
    /\ findings = 0 /\ crashes = 0
    /\ codeRead = {} /\ lastFound = [key \in Keys |-> 0] /\ accepted = {} /\ overtaken = FALSE

------------------------------------------------------------------------------
(* The branch.                                                                *)

New == Len(commits) + 1
Adds(commit) ==
    /\ New <= MaxCommits
    /\ commits' = Append(commits, commit)
    /\ head' = New
    /\ UNCHANGED <<ledgers, lock, session, person, seen, findings, crashes, history>>

\* A commit of the branch: a new diff; new code with the same key, as when an
\* edit moves to an identical block; or a revert to an earlier commit's code.
Commits ==
    LET line == commits[head].line \union {New}
        main == commits[head].main
    IN \/ \E key \in {New, commits[head].key} : Adds(Commit(line, key, New, main))
       \/ \E c \in commits[head].line : Adds(Commit(line, commits[c].key, commits[c].code, main))

\* A merge of main: clean, near the branch's hunks or not, or one whose
\* conflict was resolved.
MergesMain ==
    \E key \in {New, commits[head].key}, code \in {New, commits[head].code} :
        Adds(Commit(commits[head].line \union {New}, key, code, commits[head].main + 1))

\* An amend: the last commit is left behind.
AmendsHead ==
    \/ Adds(Commit((commits[head].line \ {head}) \union {New}, New, New, commits[head].main))
    \/ Adds([commits[head] EXCEPT !.line = (@ \ {head}) \union {New}])

------------------------------------------------------------------------------
(* The ledger's reads.                                                        *)

\* Mutation: the key alone says the code was reviewed.
SameKey(reviewed, now) == commits[reviewed].key = commits[now].key

\* isReviewedCode: the commit reviewed, or it and a clean merge of main.
IsReviewedCode(reviewed, now) == commits[reviewed].code = commits[now].code

Recorded == {key \in Keys : ledgers[key] # None}
HighestId(ledger) == Max({ledger.lastId, ledger.id})

\* Mutation: only the ledger it replaces is looked at.
TakenIdsThere(now) == HighestId(ledgers[commits[now].key])

\* takenIds: what the ledger it replaces, and the reviews recorded at the
\* branch's own commits, took.
TakenIds(now) ==
    Max({HighestId(ledgers[commits[now].key])} \union
        {HighestId(ledgers[key]) : key \in {k \in Recorded : ledgers[k].head \in commits[now].line}})

\* checkReview, where neither the skip variable, an empty diff nor a re-Apply
\* lets the branch pass without a review.
Passes ==
    LET ledger == ledgers[commits[head].key]
    IN /\ ledger # None /\ IsReviewedCode(ledger.head, head)
       /\ ledger.status # "open"

------------------------------------------------------------------------------
(* A review session: rounds, then record.                                     *)

\* A round: its reviewers read the patch, and may find something, numbered
\* from `next`.
Reads(s, patch) ==
    /\ codeRead' = IF commits[head].line \subseteq session[s].read \union patch
                   THEN codeRead \union {commits[head].code} ELSE codeRead
    /\ \E new \in {0, 1} :
        /\ findings + new <= MaxFindings
        /\ findings' = findings + new
        /\ session' = [session EXCEPT ![s] =
                         [pc |-> "reviewed", at |-> head, read |-> session[s].read \union patch, head |-> 0,
                          id |-> IF new = 1 THEN TakenIds(head) + 1 ELSE 0,
                          what |-> IF new = 1 THEN findings' ELSE 0]]
    /\ UNCHANGED <<branch, ledgers, lock, person, seen, crashes, lastFound, accepted, overtaken>>

\* prepare, round 1: the whole diff.
Prepares(s) == session[s].pc = "idle" /\ Reads(s, commits[head].line)

\* The commits fixesPatch takes as the round before's HEAD.
Since(s) ==
    {c \in (commits[head].line \ {head}) \intersect commits[session[s].at].line :
        commits[c].main = commits[head].main}

\* prepare <since>, a later round, which finds what is left: the fixes.
PreparesFixes(s) ==
    /\ session[s].pc = "reviewed"
    /\ \E c \in Since(s) : Reads(s, commits[head].line \ commits[c].line)

\* recordReview, up to the lock: HEAD is read once. A HEAD that moved ends the
\* review: it starts again.
Records(s) ==
    /\ session[s].pc = "reviewed"
    /\ session' = [session EXCEPT ![s] =
                     IF /\ commits[head].key = commits[session[s].at].key
                        /\ IsReviewedCode(session[s].at, head)
                     THEN [@ EXCEPT !.pc = "records", !.head = head] ELSE NoSession]
    /\ UNCHANGED <<branch, ledgers, lock, person, seen, findings, crashes, history>>

Locks(s) ==
    /\ session[s].pc = "records" /\ lock = "free"
    /\ lock' = s
    /\ session' = [session EXCEPT ![s].pc = "locked"]
    /\ UNCHANGED <<branch, ledgers, person, seen, findings, crashes, history>>

\* Another holds the lock, or was killed holding it: the command fails at once,
\* and the session may run it again.
RecordFails(s) ==
    /\ session[s].pc = "records" /\ lock # "free"
    /\ session' = [session EXCEPT ![s].pc = "reviewed"]
    /\ UNCHANGED <<branch, ledgers, lock, person, seen, findings, crashes, history>>

\* Mutation: a refusal leaves the lock taken.
RefusesIdsLocked(s) ==
    /\ session[s].pc = "locked"
    /\ session[s].id \in 1..TakenIds(session[s].head)
    /\ session' = [session EXCEPT ![s].pc = "reviewed", ![s].id = TakenIds(session[s].head) + 1]
    /\ UNCHANGED <<branch, ledgers, lock, person, seen, findings, crashes, history>>

\* An id taken meanwhile: refused, and the finding is numbered again.
RefusesIds(s) ==
    /\ session[s].pc = "locked"
    /\ session[s].id \in 1..TakenIds(session[s].head)
    /\ lock' = "free"
    /\ session' = [session EXCEPT ![s].pc = "reviewed", ![s].id = TakenIds(session[s].head) + 1]
    /\ UNCHANGED <<branch, ledgers, person, seen, findings, crashes, history>>

\* Mutation: an acceptance carries over from the ledger that is replaced.
WritesCarrying(s) ==
    /\ session[s].pc = "locked"
    /\ LET key == commits[session[s].head].key
           floor == TakenIds(session[s].head)
       IN /\ session[s].id = 0 \/ session[s].id > floor
          /\ ledgers' = [ledgers EXCEPT ![key] =
                           [head |-> session[s].head, id |-> session[s].id, what |-> session[s].what,
                            status |-> IF session[s].what = 0 THEN "none"
                                       ELSE IF ledgers[key].status = "accepted" THEN "accepted" ELSE "open",
                            lastId |-> Max({floor, session[s].id})]]
          /\ lastFound' = [lastFound EXCEPT ![key] = session[s].what]
          /\ overtaken' = (overtaken \/ session[s].head # head)
    /\ session' = [session EXCEPT ![s].pc = "written"]
    /\ UNCHANGED <<branch, lock, person, seen, findings, crashes, codeRead, accepted>>

\* writeLedger, replacing the key's ledger whole.
Writes(s) ==
    /\ session[s].pc = "locked"
    /\ LET key == commits[session[s].head].key
           floor == TakenIds(session[s].head)
       IN /\ session[s].id = 0 \/ session[s].id > floor
          /\ ledgers' = [ledgers EXCEPT ![key] =
                           [head |-> session[s].head, id |-> session[s].id, what |-> session[s].what,
                            status |-> IF session[s].what = 0 THEN "none" ELSE "open",
                            lastId |-> Max({floor, session[s].id})]]
          /\ lastFound' = [lastFound EXCEPT ![key] = session[s].what]
          /\ overtaken' = (overtaken \/ session[s].head # head)
    /\ session' = [session EXCEPT ![s].pc = "written"]
    /\ UNCHANGED <<branch, lock, person, seen, findings, crashes, codeRead, accepted>>

Unlocks(s) ==
    /\ session[s].pc = "written"
    /\ lock' = "free"
    /\ session' = [session EXCEPT ![s] = NoSession]
    /\ UNCHANGED <<branch, ledgers, person, seen, findings, crashes, history>>

------------------------------------------------------------------------------
(* The person.                                                                *)

\* report: the ledger of HEAD's diff.
ReadsReport ==
    /\ person.pc = "idle"
    /\ LET ledger == ledgers[commits[head].key]
       IN ledger.what # 0 /\ seen' = seen \union {<<ledger.id, ledger.what>>}
    /\ UNCHANGED <<branch, ledgers, lock, session, person, findings, crashes, history>>

\* accept, of an id the person has read, on the ledger of HEAD's diff as it is
\* then: the key is read before the lock is taken.
StartsAccept ==
    /\ person.pc = "idle"
    /\ \E finding \in seen :
        person' = [NoPerson EXCEPT !.pc = "accepts", !.id = finding[1], !.key = commits[head].key]
    /\ UNCHANGED <<branch, ledgers, lock, session, seen, findings, crashes, history>>

LocksForAccept ==
    /\ person.pc = "accepts" /\ lock = "free"
    /\ lock' = "person"
    /\ person' = [person EXCEPT !.pc = "locked", !.ledger = ledgers[person.key]]
    /\ UNCHANGED <<branch, ledgers, session, seen, findings, crashes, history>>

\* Another holds the lock, or was killed holding it: the command fails at once.
AcceptFails ==
    /\ person.pc = "accepts" /\ lock # "free"
    /\ person' = NoPerson
    /\ UNCHANGED <<branch, ledgers, lock, session, seen, findings, crashes, history>>

\* The ledger has the id, still open: accepted, and written whole.
Accepts ==
    /\ person.pc = "locked"
    /\ IF person.ledger.id = person.id /\ person.ledger.status = "open"
       THEN /\ ledgers' = [ledgers EXCEPT ![person.key] = [person.ledger EXCEPT !.status = "accepted"]]
            /\ accepted' = accepted \union {<<person.id, person.ledger.what>>}
       ELSE UNCHANGED <<ledgers, accepted>>
    /\ person' = [person EXCEPT !.pc = "written"]
    /\ UNCHANGED <<branch, lock, session, seen, findings, crashes, codeRead, lastFound, overtaken>>

EndsAccept ==
    /\ person.pc = "written"
    /\ lock' = "free"
    /\ person' = NoPerson
    /\ UNCHANGED <<branch, ledgers, session, seen, findings, crashes, history>>

\* No command takes over the lock of a dead one: a person may delete it, as the
\* error of the next command says ("delete it if none is running").
DeletesLock ==
    /\ lock = "dead"
    /\ lock' = "free"
    /\ UNCHANGED <<branch, ledgers, session, person, seen, findings, crashes, history>>

Crash == crashes < MaxCrashes /\ crashes' = crashes + 1

Killed ==
    /\ Crash
    /\ \/ \E s \in Sessions :
            /\ session[s].pc # "idle"
            /\ session' = [session EXCEPT ![s] = NoSession]
            /\ lock' = IF lock = s THEN "dead" ELSE lock
            /\ UNCHANGED person
       \/ /\ person.pc # "idle"
          /\ person' = NoPerson
          /\ lock' = IF lock = "person" THEN "dead" ELSE lock
          /\ UNCHANGED session
    /\ UNCHANGED <<branch, ledgers, seen, findings, history>>

HoldsOn ==
    \/ \E s \in Sessions : RefusesIds(s) \/ Writes(s) \/ Unlocks(s)
    \/ Accepts \/ EndsAccept

Next ==
    \/ Commits \/ MergesMain \/ AmendsHead
    \/ \E s \in Sessions : Prepares(s) \/ PreparesFixes(s) \/ Records(s) \/ Locks(s) \/ RecordFails(s)
    \/ ReadsReport \/ StartsAccept \/ LocksForAccept \/ AcceptFails
    \/ HoldsOn \/ Killed \/ DeletesLock

Spec == Init /\ [][Next]_vars

\* A command that has the lock and is not killed goes on. Nobody need delete a
\* lock left behind.
LiveSpec == Spec /\ WF_vars(HoldsOn)

------------------------------------------------------------------------------
(* Properties.                                                                *)

TypeOK ==
    /\ \A c \in DOMAIN commits : c \in commits[c].line /\ commits[c].line \subseteq 1..c
    /\ head \in DOMAIN commits
    /\ \A key \in Recorded :
        /\ ledgers[key].head \in DOMAIN commits /\ commits[ledgers[key].head].key = key
        /\ ledgers[key].what \in 0..findings /\ ledgers[key].id <= ledgers[key].lastId
    /\ lock \in Sessions \union {"free", "person", "dead"}
    /\ \A s \in Sessions : session[s].pc \in {"locked", "written"} <=> lock = s
    /\ person.pc \in {"locked", "written"} <=> lock = "person"

\* A branch passes the check only with code that one session's reviewers read
\* whole, over their rounds: moved edits, resolutions and fixes included.
CheckMeansReviewed == Passes => commits[head].code \in codeRead

\* ... and every recorded review was of such code, whatever HEAD is now.
RecordedWasRead == \A key \in Recorded : commits[ledgers[key].head].code \in codeRead

ReviewsAreWhole == CheckMeansReviewed /\ RecordedWasRead

\* What the last review recorded for a diff found is answered before the
\* branch passes: no command overtaking another loses it.
FindingsAnswered ==
    Passes => LET found == lastFound[commits[head].key]
              IN found = 0 \/ \E finding \in accepted : finding[2] = found

\* The branch only grew.
Grows == \A c \in DOMAIN commits : commits[c].line = 1..c

\* An id names one finding along a branch that only grows, where no review was
\* recorded with HEAD already elsewhere: whatever was recorded since they read a
\* report, a person never accepts by its id a finding other than the one they read.
AcceptedWasRead == Grows /\ ~overtaken => accepted \subseteq seen

\* A finding stays open until a person answered that very finding.
FindingsKept == TypeOK /\ FindingsAnswered /\ AcceptedWasRead

\* However commands end, refused or done, they give the lock back: it is free again
\* and again, unless a command was killed with it and nobody deleted it since,
\* when it stays ("delete it if none is running").
LockComesFree == []<>(lock = "free") \/ <>[](lock = "dead")
=============================================================================
