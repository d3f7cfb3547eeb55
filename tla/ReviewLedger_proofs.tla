------------------------- MODULE ReviewLedger_proofs -------------------------
(* That a branch passes the local review's check only with code that was      *)
(* read whole and findings that were answered (ReviewLedger), for any number  *)
(* of sessions, commits, findings and killed commands.                        *)
EXTENDS ReviewLedger, FiniteSetTheorems, WellFoundedInduction, TLAPS

USE ConstantsAssumption

------------------------------------------------------------------------------
(* Greatest elements.                                                         *)

LEMMA LeastNat ==
    ASSUME NEW T \in SUBSET Nat, T # {}
    PROVE  \E m \in T : \A k \in T : m <= k
<1>1. PICK m \in T : \A k \in T : <<k, m>> \notin OpToRel(<, Nat)
    BY ONLY WFMin, NatLessThanWellFounded, T \in SUBSET Nat, T # {}, Zenon
<1>2. OpToRel(<, Nat) = {ss \in Nat \X Nat : ss[1] < ss[2]}
    BY ONLY Zenon DEF OpToRel
<1>3. \A k \in T : ~(k < m)
    BY <1>1, <1>2
<1> QED
    BY <1>3

\* Max finds the greatest of a set of numbers that has a bound.
LEMMA MaxIsGreatest ==
    ASSUME NEW S \in SUBSET Nat, S # {}, NEW n \in Nat, \A x \in S : x <= n
    PROVE  Max(S) \in S /\ \A x \in S : x <= Max(S)
<1> DEFINE T == {n - x : x \in S}
<1>1. T \in SUBSET Nat /\ T # {}
    <2>1. \A x \in S : n - x \in Nat
        OBVIOUS
    <2> QED
        BY <2>1
<1>2. PICK m \in T : \A k \in T : m <= k
    BY <1>1, LeastNat
<1>3. PICK y \in S : m = n - y
    BY <1>2
<1>4. \A x \in S : y >= x
    <2> SUFFICES ASSUME NEW x \in S PROVE y >= x
        OBVIOUS
    <2>1. n - x \in T /\ x \in Nat /\ y \in Nat
        OBVIOUS
    <2>2. m <= n - x
        BY <1>2, <2>1
    <2> QED
        BY <1>3, <2>1, <2>2
<1>5. \E y0 \in S : \A x \in S : y0 >= x
    BY <1>4
<1>6. Max(S) \in S /\ \A x \in S : Max(S) >= x
    BY <1>5 DEF Max
<1> QED
    BY <1>6

------------------------------------------------------------------------------
(* The inductive invariant.                                                   *)

CommitRecords == [line : SUBSET Nat, key : Keys, code : Nat, main : Nat]
Ledgers == [head : Nat, id : Nat, what : Nat, status : {"none", "open", "accepted"}, lastId : Nat]
Reviews ==
    [pc : {"idle", "reviewed", "records", "locked", "written"}, at : Nat, read : SUBSET Nat,
     id : Nat, what : Nat, head : Nat]
Commands == [pc : {"idle", "accepts", "locked", "written"}, id : Nat, key : Nat, ledger : Ledgers]

Types ==
    /\ commits \in Seq(CommitRecords) /\ Len(commits) \in 1..MaxCommits /\ head = Len(commits)
    /\ ledgers \in [Keys -> Ledgers] /\ lastFound \in [Keys -> Nat]
    /\ session \in [Sessions -> Reviews]
    /\ person \in Commands
    /\ lock \in Sessions \union {"free", "person", "dead"}
    /\ findings \in Nat
    /\ seen \in SUBSET (Nat \X Nat) /\ accepted \in SUBSET (Nat \X Nat)

\* A commit is the last of its line, and a line holds the lines of its commits.
LinesInv ==
    \A c \in 1..Len(commits) :
        /\ c \in commits[c].line /\ commits[c].line \subseteq 1..c
        /\ \A d \in commits[c].line : commits[d].line \subseteq commits[c].line

\* A ledger is of a review of its own diff's code, which was read whole; it has
\* the last finding there, which the person's acceptance alone closes.
LedgerIsSound(key) ==
    LET ledger == ledgers[key]
    IN /\ ledger = None \/ /\ ledger.head \in 1..Len(commits)
                           /\ commits[ledger.head].key = key
                           /\ commits[ledger.head].code \in codeRead
       /\ ledger.what <= findings /\ ledger.id <= ledger.lastId
       /\ ledger.what # 0 => ledger.id # 0
       /\ ledger.what = lastFound[key]
       /\ ledger.status = "none" <=> ledger.what = 0
       /\ ledger.status = "accepted" => \E finding \in accepted : finding[2] = ledger.what

\* A session has read the whole branch of the HEAD it reviewed last.
SessionIsSound(s) ==
    session[s].pc # "idle" =>
        /\ session[s].at \in 1..Len(commits)
        /\ commits[session[s].at].line \subseteq session[s].read
        /\ commits[session[s].at].code \in codeRead
        /\ session[s].what <= findings
        /\ session[s].what = 0 <=> session[s].id = 0
        /\ session[s].pc \in {"records", "locked"} =>
              /\ session[s].head \in 1..Len(commits)
              /\ commits[session[s].head].code = commits[session[s].at].code

\* Who holds the lock; what the person's command read under it is still there.
LockInv ==
    /\ \A s \in Sessions : session[s].pc \in {"locked", "written"} <=> lock = s
    /\ person.pc \in {"locked", "written"} <=> lock = "person"
    /\ person.pc # "idle" => person.key \in Keys
    /\ person.pc = "locked" => person.ledger = ledgers[person.key]

LedgerInv ==
    /\ Types
    /\ LinesInv
    /\ \A key \in Keys : LedgerIsSound(key)
    /\ \A s \in Sessions : SessionIsSound(s)
    /\ LockInv

\* The ids given out are bounded at any time.
IdsAreBounded == \E n \in Nat : \A key \in Keys : ledgers[key].lastId <= n

LEMMA LedgerStarts == Init => LedgerInv /\ IdsAreBounded
<1> SUFFICES ASSUME Init PROVE LedgerInv /\ IdsAreBounded
    OBVIOUS
<1>1. 1 \in Keys /\ None \in Ledgers /\ NoSession \in Reviews /\ NoPerson \in Commands
    BY DEF Keys, None, NoSession, NoPerson, Ledgers, Reviews, Commands
<1>2. Commit({1}, 1, 1, 1) \in CommitRecords
    BY <1>1 DEF Commit, CommitRecords
<1>3. commits = <<Commit({1}, 1, 1, 1)>> /\ Len(commits) = 1 /\ commits[1] = Commit({1}, 1, 1, 1)
    BY DEF Init
<1>4. Types
    BY <1>1, <1>2, <1>3 DEF Init, Types
<1>5. LinesInv
    BY <1>3 DEF LinesInv, Commit
<1>6. \A key \in Keys : LedgerIsSound(key)
    BY DEF Init, LedgerIsSound, None
<1>7. \A s \in Sessions : SessionIsSound(s)
    BY DEF Init, SessionIsSound, NoSession
<1>8. LockInv
    BY DEF Init, LockInv, NoSession, NoPerson
<1>9. IdsAreBounded
    BY DEF Init, IdsAreBounded, None
<1> QED
    BY <1>4, <1>5, <1>6, <1>7, <1>8, <1>9 DEF LedgerInv

------------------------------------------------------------------------------
(* The branch.                                                                *)

\* A commit at the end of the branch, whose line is closed, disturbs nothing.
LEMMA AddsKeep ==
    ASSUME LedgerInv, NEW commit \in CommitRecords, Adds(commit),
           New \in commit.line, commit.line \subseteq 1..New,
           \A d \in commit.line : d # New => commits[d].line \subseteq commit.line
    PROVE  LedgerInv'
<1>1. /\ commits \in Seq(CommitRecords) /\ Len(commits) \in Nat /\ New = Len(commits) + 1
      /\ New <= MaxCommits /\ commits' = Append(commits, commit) /\ head' = New
    BY DEF LedgerInv, Types, Adds, New
<1>2. /\ commits' \in Seq(CommitRecords) /\ Len(commits') = New
      /\ commits'[New] = commit
      /\ \A c \in 1..Len(commits) : commits'[c] = commits[c]
    BY <1>1
<1>3. Types'
    BY <1>1, <1>2 DEF LedgerInv, Types, Adds, history
<1>4. LinesInv'
    <2> SUFFICES ASSUME NEW c \in 1..New
                 PROVE  /\ c \in commits'[c].line /\ commits'[c].line \subseteq 1..c
                        /\ \A d \in commits'[c].line : commits'[d].line \subseteq commits'[c].line
        BY <1>2 DEF LinesInv
    <2>1. CASE c = New
        <3>1. \A d \in commit.line : d = New \/ d \in 1..Len(commits)
            BY <1>1
        <3> QED
            BY <1>2, <2>1, <3>1
    <2>2. CASE c \in 1..Len(commits)
        <3>1. /\ c \in commits[c].line /\ commits[c].line \subseteq 1..c
              /\ \A d \in commits[c].line : commits[d].line \subseteq commits[c].line
            BY <2>2 DEF LedgerInv, LinesInv
        <3>2. \A d \in commits[c].line : d \in 1..Len(commits)
            BY <1>1, <2>2, <3>1
        <3> QED
            BY <1>2, <2>2, <3>1, <3>2
    <2> QED
        BY <1>1, <2>1, <2>2
<1>5. ASSUME NEW key \in Keys PROVE LedgerIsSound(key)'
    <2>1. LedgerIsSound(key)
        BY DEF LedgerInv
    <2>2. UNCHANGED <<ledgers, findings, codeRead, lastFound, accepted, overtaken>>
        BY DEF Adds, history
    <2> QED
        BY <1>1, <1>2, <2>1, <2>2 DEF LedgerIsSound
<1>6. ASSUME NEW s \in Sessions PROVE SessionIsSound(s)'
    <2>1. SessionIsSound(s)
        BY DEF LedgerInv
    <2>2. UNCHANGED <<session, findings, codeRead>>
        BY DEF Adds, history
    <2> QED
        BY <1>1, <1>2, <2>1, <2>2 DEF SessionIsSound
<1>7. LockInv'
    BY DEF LedgerInv, LockInv, Adds
<1> QED
    BY <1>3, <1>4, <1>5, <1>6, <1>7 DEF LedgerInv

LEMMA BranchKeeps ==
    ASSUME LedgerInv, Commits \/ MergesMain \/ AmendsHead
    PROVE  LedgerInv' /\ UNCHANGED ledgers
<1> DEFINE now == commits[head]
<1>1. /\ head \in Nat \ {0} /\ New = head + 1 /\ now \in CommitRecords /\ Len(commits) = head
      /\ \A c \in 1..head : commits[c] \in CommitRecords
    BY DEF LedgerInv, Types, New
<1>2. /\ head \in now.line /\ now.line \subseteq 1..head
      /\ \A d \in now.line : commits[d].line \subseteq now.line
      /\ \A d \in 1..head : commits[d].line \subseteq 1..d
    BY <1>1 DEF LedgerInv, LinesInv
<1>3. ASSUME NEW commit, Adds(commit), commit \in CommitRecords,
             \/ commit.line = now.line \union {New}
             \/ commit.line = (now.line \ {head}) \union {New}
      PROVE  LedgerInv' /\ UNCHANGED ledgers
    <2>1. New \in commit.line /\ commit.line \subseteq 1..New
        BY <1>1, <1>2, <1>3
    <2>2. ASSUME NEW d \in commit.line, d # New
          PROVE  commits[d].line \subseteq commit.line
        <3>1. d \in now.line /\ d \in 1..head
            BY <1>2, <1>3, <2>2
        <3>2. CASE commit.line = now.line \union {New}
            BY <1>2, <3>1, <3>2
        <3>3. CASE commit.line = (now.line \ {head}) \union {New}
            <4>1. d # head \/ New = head
                BY <2>2, <3>3
            <4>2. head \notin 1..d
                BY <1>1, <3>1, <4>1
            <4> QED
                BY <1>2, <3>1, <3>3, <4>2
        <3> QED
            BY <1>3, <3>2, <3>3
    <2> QED
        BY <1>3, <2>1, <2>2, AddsKeep DEF Adds
<1>4. New \in Nat /\ now.key \in Keys /\ now.code \in Nat /\ now.main \in Nat /\ now.line \in SUBSET Nat
    BY <1>1 DEF CommitRecords
<1>5. \A commit : Adds(commit) => New \in Keys
    BY <1>1 DEF Adds, Keys
<1>6. CASE Commits
    <2>1. CASE \E key \in {New, now.key} : Adds(Commit(now.line \union {New}, key, New, now.main))
        BY <1>3, <1>4, <1>5, <2>1 DEF Commit, CommitRecords
    <2>2. CASE \E c \in now.line :
                Adds(Commit(now.line \union {New}, commits[c].key, commits[c].code, now.main))
        BY <1>1, <1>2, <1>3, <1>4, <2>2 DEF Commit, CommitRecords
    <2> QED
        BY <1>6, <2>1, <2>2 DEF Commits
<1>7. CASE MergesMain
    BY <1>3, <1>4, <1>5, <1>7 DEF MergesMain, Commit, CommitRecords
<1>8. CASE AmendsHead
    <2> DEFINE line == (now.line \ {head}) \union {New}
    <2>1. CASE Adds(Commit(line, New, New, now.main))
        BY <1>3, <1>4, <1>5, <2>1 DEF Commit, CommitRecords
    <2>2. CASE Adds([now EXCEPT !.line = (@ \ {head}) \union {New}])
        <3>1. [now EXCEPT !.line = (@ \ {head}) \union {New}] \in CommitRecords
              /\ [now EXCEPT !.line = (@ \ {head}) \union {New}].line = line
            BY <1>1, <1>4 DEF CommitRecords
        <3> QED
            BY <1>3, <2>2, <3>1
    <2> QED
        BY <1>8, <2>1, <2>2 DEF AmendsHead
<1> QED
    BY <1>6, <1>7, <1>8

------------------------------------------------------------------------------
(* The reviews.                                                               *)

\* What takes the ids below TakenIds is all the ledgers it looks at.
LEMMA TakenIdsAreTaken ==
    ASSUME Types, LinesInv, IdsAreBounded, \A key \in Keys : LedgerIsSound(key),
           NEW now \in 1..Len(commits)
    PROVE  /\ TakenIds(now) \in Nat
           /\ ledgers[commits[now].key].lastId <= TakenIds(now)
           /\ \A key \in Recorded : ledgers[key].head \in commits[now].line
                                        => ledgers[key].lastId <= TakenIds(now)
<1> DEFINE here == commits[now].key
           on == {k \in Recorded : ledgers[k].head \in commits[now].line}
           S == {HighestId(ledgers[here])} \union {HighestId(ledgers[key]) : key \in on}
<1>1. here \in Keys /\ on \subseteq Keys
    <2>1. commits[now] \in CommitRecords
        BY DEF Types
    <2> QED
        BY <2>1 DEF CommitRecords, Recorded
<1>2. ASSUME NEW key \in Keys
      PROVE  HighestId(ledgers[key]) = ledgers[key].lastId /\ ledgers[key].lastId \in Nat
    <2>1. ledgers[key].id \in Nat /\ ledgers[key].lastId \in Nat /\ ledgers[key].id <= ledgers[key].lastId
        BY DEF Types, Ledgers, LedgerIsSound
    <2>2. {ledgers[key].lastId, ledgers[key].id} \in SUBSET Nat
        BY <2>1
    <2>3. /\ Max({ledgers[key].lastId, ledgers[key].id}) \in {ledgers[key].lastId, ledgers[key].id}
          /\ ledgers[key].lastId <= Max({ledgers[key].lastId, ledgers[key].id})
        <3> DEFINE pair == {ledgers[key].lastId, ledgers[key].id}
        <3>1. pair \in SUBSET Nat /\ pair # {} /\ \A x \in pair : x <= ledgers[key].lastId
            BY <2>1
        <3>2. ledgers[key].lastId \in pair
            OBVIOUS
        <3> HIDE DEF pair
        <3>3. Max(pair) \in pair /\ \A x \in pair : x <= Max(pair)
            BY <2>1, <3>1, MaxIsGreatest
        <3>4. Max(pair) \in pair /\ ledgers[key].lastId <= Max(pair)
            BY <3>2, <3>3
        <3> QED
            BY <3>4 DEF pair
    <2> QED
        BY <2>1, <2>3 DEF HighestId
<1>3. PICK n \in Nat : \A key \in Keys : ledgers[key].lastId <= n
    BY DEF IdsAreBounded
<1>4. S \in SUBSET Nat /\ S # {} /\ \A x \in S : x <= n
    BY <1>1, <1>2, <1>3
<1>5. Max(S) \in S /\ \A x \in S : x <= Max(S)
    <2> HIDE DEF S
    <2> QED
        BY <1>4, MaxIsGreatest
<1>6. TakenIds(now) = Max(S)
    BY DEF TakenIds
<1>7. HighestId(ledgers[here]) \in S /\ \A key \in on : HighestId(ledgers[key]) \in S
    OBVIOUS
<1> HIDE DEF S
<1>8. \A key \in on : ledgers[key].lastId <= Max(S)
    BY <1>1, <1>2, <1>5, <1>7
<1>9. ledgers[here].lastId <= Max(S) /\ Max(S) \in Nat
    BY <1>1, <1>2, <1>4, <1>5, <1>7
<1> QED
    BY <1>6, <1>8, <1>9

LEMMA ReadsKeep ==
    ASSUME LedgerInv, IdsAreBounded, NEW s \in Sessions, NEW patch \in SUBSET Nat, Reads(s, patch),
           commits[head].line \subseteq session[s].read \union patch,
           session[s].pc \in {"idle", "reviewed"}
    PROVE  LedgerInv'
<1>1. PICK new \in {0, 1} :
        /\ findings' = findings + new
        /\ session' = [session EXCEPT ![s] =
                         [pc |-> "reviewed", at |-> head, read |-> session[s].read \union patch, head |-> 0,
                          id |-> IF new = 1 THEN TakenIds(head) + 1 ELSE 0,
                          what |-> IF new = 1 THEN findings' ELSE 0]]
    BY DEF Reads
<1>2. /\ codeRead' = codeRead \union {commits[head].code}
      /\ UNCHANGED <<branch, ledgers, lock, person, seen, crashes, lastFound, accepted, overtaken>>
    BY DEF Reads
<1>3. head \in 1..Len(commits) /\ findings \in Nat /\ session \in [Sessions -> Reviews]
      /\ session[s].read \in SUBSET Nat
    BY DEF LedgerInv, Types, Reviews
<1>4. TakenIds(head) \in Nat
    BY <1>3, TakenIdsAreTaken DEF LedgerInv
<1>5. Types'
    <2>1. findings' \in Nat
        BY <1>1, <1>3
    <2>2. session'[s] \in Reviews /\ session' \in [Sessions -> Reviews]
        <3> DEFINE review ==
                [pc |-> "reviewed", at |-> head, read |-> session[s].read \union patch, head |-> 0,
                 id |-> IF new = 1 THEN TakenIds(head) + 1 ELSE 0,
                 what |-> IF new = 1 THEN findings' ELSE 0]
        <3>1. head \in Nat /\ session[s].read \union patch \in SUBSET Nat
            BY <1>3 DEF LedgerInv, Types
        <3>2. (IF new = 1 THEN TakenIds(head) + 1 ELSE 0) \in Nat
              /\ (IF new = 1 THEN findings' ELSE 0) \in Nat
            BY <1>4, <2>1
        <3>3. review \in Reviews
            BY <3>1, <3>2 DEF Reviews
        <3>4. session' = [session EXCEPT ![s] = review]
            BY <1>1
        <3> HIDE DEF review
        <3> QED
            BY <1>3, <3>3, <3>4
    <2> QED
        BY <1>2, <2>1, <2>2 DEF LedgerInv, Types, branch
<1>6. LinesInv'
    BY <1>2 DEF LedgerInv, LinesInv, branch
<1>7. ASSUME NEW key \in Keys PROVE LedgerIsSound(key)'
    <2>1. LedgerIsSound(key) /\ ledgers[key].what \in Nat
        BY DEF LedgerInv, Types, Ledgers
    <2> QED
        BY <1>1, <1>2, <1>3, <2>1 DEF LedgerIsSound, branch
<1>8. ASSUME NEW u \in Sessions PROVE SessionIsSound(u)'
    <2>1. SessionIsSound(u) /\ session[u].what \in Nat
        BY <1>3 DEF LedgerInv, Reviews
    <2>2. CASE u = s
        BY <1>1, <1>2, <1>3, <1>4, <2>2 DEF SessionIsSound, branch
    <2>3. CASE u # s
        BY <1>1, <1>2, <1>3, <2>1, <2>3 DEF SessionIsSound, branch
    <2> QED
        BY <2>2, <2>3
<1>9. LockInv'
    BY <1>1, <1>2, <1>3 DEF LedgerInv, LockInv
<1> QED
    BY <1>5, <1>6, <1>7, <1>8, <1>9 DEF LedgerInv

\* A first round reads the branch whole, a later one what the fixes changed,
\* from a commit the rounds before have read the branch up to.
LEMMA ReviewsKeep ==
    ASSUME LedgerInv, IdsAreBounded, NEW s \in Sessions, Prepares(s) \/ PreparesFixes(s)
    PROVE  LedgerInv' /\ UNCHANGED ledgers
<1>1. /\ head \in 1..Len(commits) /\ session[s] \in Reviews
      /\ \A c \in 1..Len(commits) : commits[c] \in CommitRecords
    BY DEF LedgerInv, Types
<1>2. CASE Prepares(s)
    BY <1>1, <1>2, ReadsKeep DEF Prepares, Reads, CommitRecords
<1>3. CASE PreparesFixes(s)
    <2>1. PICK c \in Since(s) : Reads(s, commits[head].line \ commits[c].line)
        BY <1>3 DEF PreparesFixes
    <2>2. session[s].pc = "reviewed" /\ c \in commits[session[s].at].line
        BY <1>3, <2>1 DEF PreparesFixes, Since
    <2>3. /\ session[s].at \in 1..Len(commits)
          /\ commits[session[s].at].line \subseteq session[s].read
        BY <2>2 DEF LedgerInv, SessionIsSound
    <2>4. commits[c].line \subseteq session[s].read
        BY <2>2, <2>3 DEF LedgerInv, LinesInv
    <2> DEFINE patch == commits[head].line \ commits[c].line
    <2>5. patch \in SUBSET Nat /\ commits[head].line \subseteq session[s].read \union patch
        <3>1. commits[head] \in CommitRecords
            BY <1>1
        <3> QED
            BY <2>4, <3>1 DEF CommitRecords
    <2>6. Reads(s, patch)
        BY <2>1
    <2> HIDE DEF patch
    <2>7. LedgerInv'
        BY <2>2, <2>5, <2>6, ReadsKeep
    <2> QED
        BY <2>6, <2>7 DEF Reads
<1> QED
    BY <1>2, <1>3

\* A step of one session's that leaves it sound, and the lock in order.
LEMMA SessionMoves ==
    ASSUME LedgerInv, NEW s \in Sessions, NEW review \in Reviews,
           session' = [session EXCEPT ![s] = review], SessionIsSound(s)', LockInv',
           lock' \in Sessions \union {"free", "person", "dead"},
           UNCHANGED <<branch, ledgers, person, seen, findings, history>>
    PROVE  LedgerInv'
<1>1. Types'
    BY DEF LedgerInv, Types, branch, history
<1>2. LinesInv'
    BY DEF LedgerInv, LinesInv, branch
<1>3. \A key \in Keys : LedgerIsSound(key)'
    BY DEF LedgerInv, LedgerIsSound, branch, history
<1>4. ASSUME NEW u \in Sessions PROVE SessionIsSound(u)'
    <2>1. CASE u = s
        BY <2>1
    <2>2. CASE u # s
        <3>1. SessionIsSound(u) /\ session'[u] = session[u]
            BY <2>2 DEF LedgerInv, Types
        <3> QED
            BY <3>1 DEF SessionIsSound, branch, history
    <2> QED
        BY <2>1, <2>2
<1> QED
    BY <1>1, <1>2, <1>3, <1>4 DEF LedgerInv

\* To record, the code at HEAD must be the code that was reviewed.
LEMMA RecordsKeep ==
    ASSUME LedgerInv, NEW s \in Sessions, Records(s)
    PROVE  LedgerInv' /\ UNCHANGED ledgers
<1> DEFINE review == IF /\ commits[head].key = commits[session[s].at].key
                        /\ IsReviewedCode(session[s].at, head)
                     THEN [session[s] EXCEPT !.pc = "records", !.head = head] ELSE NoSession
<1>1. /\ session[s] \in Reviews /\ session \in [Sessions -> Reviews]
      /\ head \in 1..Len(commits) /\ head \in Nat
    BY DEF LedgerInv, Types
<1>2. review \in Reviews
    BY <1>1 DEF Reviews, NoSession
<1>3. session' = [session EXCEPT ![s] = review] /\ session'[s] = review
    BY <1>1 DEF Records
<1>4. SessionIsSound(s)'
    <2>1. CASE review = NoSession
        <3>1. session'[s] = NoSession
            BY <1>3, <2>1
        <3>2. session'[s].pc = "idle"
            BY <3>1 DEF NoSession
        <3> QED
            BY <3>2 DEF SessionIsSound
    <2>2. CASE review = [session[s] EXCEPT !.pc = "records", !.head = head]
               /\ commits[head].code = commits[session[s].at].code
        <3>1. SessionIsSound(s) /\ session[s].pc = "reviewed"
            BY DEF Records, LedgerInv
        <3>2. /\ review.at = session[s].at /\ review.read = session[s].read
              /\ review.what = session[s].what /\ review.id = session[s].id /\ review.head = head
            BY <1>1, <2>2 DEF Reviews
        <3> HIDE DEF review
        <3> QED
            BY <1>1, <1>3, <2>2, <3>1, <3>2 DEF SessionIsSound, Records, branch, history
    <2> QED
        BY <2>1, <2>2 DEF IsReviewedCode
<1>5. LockInv'
    <2>1. review.pc \in {"records", "idle"} /\ session[s].pc = "reviewed"
        BY <1>1 DEF Reviews, NoSession, Records
    <2> HIDE DEF review
    <2> QED
        BY <1>1, <1>3, <2>1 DEF LedgerInv, LockInv, Records
<1> HIDE DEF review
<1> QED
    BY <1>2, <1>3, <1>4, <1>5, SessionMoves DEF Records, LedgerInv, Types

\* The lock is taken when it is free.
LEMMA LocksKeep ==
    ASSUME LedgerInv, NEW s \in Sessions, Locks(s)
    PROVE  LedgerInv' /\ UNCHANGED ledgers
<1> DEFINE review == [session[s] EXCEPT !.pc = "locked"]
<1>1. session[s] \in Reviews /\ session \in [Sessions -> Reviews] /\ session[s].pc = "records"
    BY DEF LedgerInv, Types, Locks
<1>2. /\ review \in Reviews /\ review.pc = "locked"
      /\ review.at = session[s].at /\ review.read = session[s].read /\ review.what = session[s].what
      /\ review.id = session[s].id /\ review.head = session[s].head
    BY <1>1 DEF Reviews
<1>3. session' = [session EXCEPT ![s] = review] /\ session'[s] = review
    BY <1>1 DEF Locks
<1> HIDE DEF review
<1>4. SessionIsSound(s)'
    BY <1>1, <1>2, <1>3 DEF SessionIsSound, LedgerInv, Locks, branch, history
<1>5. LockInv'
    BY <1>1, <1>2, <1>3 DEF LedgerInv, LockInv, Locks
<1> QED
    BY <1>2, <1>3, <1>4, <1>5, SessionMoves DEF Locks

\* A session that finds the lock taken is as it was before it began to record.
LEMMA RecordFailsKeeps ==
    ASSUME LedgerInv, NEW s \in Sessions, RecordFails(s)
    PROVE  LedgerInv' /\ UNCHANGED ledgers
<1> DEFINE review == [session[s] EXCEPT !.pc = "reviewed"]
<1>1. session[s] \in Reviews /\ session \in [Sessions -> Reviews] /\ session[s].pc = "records"
    BY DEF LedgerInv, Types, RecordFails
<1>2. /\ review \in Reviews /\ review.pc = "reviewed"
      /\ review.at = session[s].at /\ review.read = session[s].read /\ review.what = session[s].what
      /\ review.id = session[s].id
    BY <1>1 DEF Reviews
<1>3. session' = [session EXCEPT ![s] = review] /\ session'[s] = review
    BY <1>1 DEF RecordFails
<1> HIDE DEF review
<1>4. SessionIsSound(s)'
    BY <1>1, <1>2, <1>3 DEF SessionIsSound, LedgerInv, RecordFails, branch, history
<1>5. LockInv'
    BY <1>1, <1>2, <1>3 DEF LedgerInv, LockInv, RecordFails
<1>6. lock \in Sessions \union {"free", "person", "dead"}
    BY DEF LedgerInv, Types
<1> QED
    BY <1>2, <1>3, <1>4, <1>5, <1>6, SessionMoves DEF RecordFails

\* A refusal gives the finding another id.
LEMMA RefusesIdsKeeps ==
    ASSUME LedgerInv, IdsAreBounded, NEW s \in Sessions, RefusesIds(s)
    PROVE  LedgerInv' /\ UNCHANGED ledgers
<1> DEFINE review == [session[s] EXCEPT !.pc = "reviewed", !.id = TakenIds(session[s].head) + 1]
<1>1. session[s] \in Reviews /\ session \in [Sessions -> Reviews] /\ session[s].pc = "locked"
    BY DEF LedgerInv, Types, RefusesIds
<1>2. SessionIsSound(s) /\ session[s].head \in 1..Len(commits) /\ session[s].id # 0
    BY <1>1 DEF LedgerInv, SessionIsSound, RefusesIds
<1>3. TakenIds(session[s].head) \in Nat
    BY <1>2, TakenIdsAreTaken DEF LedgerInv
<1>4. /\ review \in Reviews /\ review.pc = "reviewed" /\ review.id # 0
      /\ review.at = session[s].at /\ review.read = session[s].read /\ review.what = session[s].what
    <2>1. PICK id \in Nat \ {0} : id = TakenIds(session[s].head) + 1
        BY <1>3
    <2>2. review = [session[s] EXCEPT !.pc = "reviewed", !.id = id]
        BY <2>1
    <2> HIDE DEF review
    <2> QED
        BY <1>1, <2>1, <2>2 DEF Reviews
<1>5. session' = [session EXCEPT ![s] = review] /\ session'[s] = review
    BY <1>1 DEF RefusesIds
<1> HIDE DEF review
<1>6. SessionIsSound(s)'
    BY <1>1, <1>2, <1>4, <1>5 DEF SessionIsSound, RefusesIds, branch, history
<1>7. LockInv'
    BY <1>1, <1>4, <1>5 DEF LedgerInv, LockInv, RefusesIds
<1> QED
    BY <1>4, <1>5, <1>6, <1>7, SessionMoves DEF RefusesIds

LEMMA UnlocksKeep ==
    ASSUME LedgerInv, NEW s \in Sessions, Unlocks(s)
    PROVE  LedgerInv' /\ UNCHANGED ledgers
<1>1. session \in [Sessions -> Reviews] /\ NoSession \in Reviews /\ NoSession.pc = "idle"
    BY DEF LedgerInv, Types, Reviews, NoSession
<1>2. session' = [session EXCEPT ![s] = NoSession] /\ session'[s] = NoSession
    BY <1>1 DEF Unlocks
<1>3. SessionIsSound(s)'
    BY <1>1, <1>2 DEF SessionIsSound
<1>4. LockInv'
    BY <1>1, <1>2 DEF LedgerInv, LockInv, Unlocks
<1> QED
    BY <1>1, <1>2, <1>3, <1>4, SessionMoves DEF Unlocks

\* The ledger written under the lock is of the code its session read, and has
\* an id above every one taken.
LEMMA WritesKeep ==
    ASSUME LedgerInv, IdsAreBounded, NEW s \in Sessions, Writes(s)
    PROVE  LedgerInv' /\ IdsAreBounded'
<1> DEFINE key0 == commits[session[s].head].key
           floor == TakenIds(session[s].head)
           last == Max({floor, session[s].id})
           ledger0 == [head |-> session[s].head, id |-> session[s].id, what |-> session[s].what,
                       status |-> IF session[s].what = 0 THEN "none" ELSE "open", lastId |-> last]
<1>1. session[s] \in Reviews /\ session \in [Sessions -> Reviews] /\ session[s].pc = "locked" /\ lock = s
    BY DEF LedgerInv, Types, Writes, LockInv
<1>2. SessionIsSound(s) /\ session[s].head \in 1..Len(commits)
    BY <1>1 DEF LedgerInv, SessionIsSound
<1>3. floor \in Nat
    BY <1>2, TakenIdsAreTaken DEF LedgerInv
<1>4. session[s].id \in Nat /\ session[s].what \in Nat /\ session[s].head \in Nat
    BY <1>1 DEF Reviews
<1>5. last \in Nat /\ floor <= last /\ session[s].id <= last
    <2> DEFINE pair == {floor, session[s].id}
    <2>1. pair \in SUBSET Nat /\ pair # {} /\ \A x \in pair : x <= floor + session[s].id
        BY <1>3, <1>4
    <2>2. floor \in pair /\ session[s].id \in pair
        OBVIOUS
    <2>3. floor + session[s].id \in Nat
        BY <1>3, <1>4
    <2> HIDE DEF pair, floor
    <2>4. Max(pair) \in Nat /\ \A x \in pair : x <= Max(pair)
        BY <2>1, <2>3, MaxIsGreatest
    <2>5. Max(pair) \in Nat /\ floor <= Max(pair) /\ session[s].id <= Max(pair)
        BY <2>2, <2>4
    <2> QED
        BY <2>5 DEF pair
<1>6. key0 \in Keys
    <2>1. commits[session[s].head] \in CommitRecords
        BY <1>2 DEF LedgerInv, Types
    <2> QED
        BY <2>1 DEF CommitRecords
<1>7. ledger0 \in Ledgers
    <2> HIDE DEF last
    <2> QED
        BY <1>4, <1>5 DEF Ledgers
<1>8. /\ ledgers' = [ledgers EXCEPT ![key0] = ledger0]
      /\ lastFound' = [lastFound EXCEPT ![key0] = session[s].what]
      /\ session' = [session EXCEPT ![s].pc = "written"]
      /\ UNCHANGED <<branch, lock, person, seen, findings, crashes, codeRead, accepted>>
    BY DEF Writes
<1>9. /\ ledger0.head = session[s].head /\ ledger0.id = session[s].id /\ ledger0.what = session[s].what
      /\ ledger0.status = (IF session[s].what = 0 THEN "none" ELSE "open") /\ ledger0.lastId = last
    OBVIOUS
<1> HIDE DEF key0, floor, last, ledger0
<1>10. /\ ledgers \in [Keys -> Ledgers] /\ lastFound \in [Keys -> Nat]
       /\ ledgers'[key0] = ledger0 /\ lastFound'[key0] = session[s].what
       /\ \A key \in Keys \ {key0} : ledgers'[key] = ledgers[key] /\ lastFound'[key] = lastFound[key]
    BY <1>6, <1>8 DEF LedgerInv, Types
<1>11. Types'
    <2>1. ledgers' \in [Keys -> Ledgers] /\ lastFound' \in [Keys -> Nat]
        BY <1>4, <1>7, <1>8, <1>10
    <2>2. session' \in [Sessions -> Reviews]
        BY <1>1, <1>8 DEF Reviews
    <2> QED
        BY <1>8, <2>1, <2>2 DEF LedgerInv, Types, branch
<1>12. LinesInv'
    BY <1>8 DEF LedgerInv, LinesInv, branch
<1>13. ASSUME NEW key \in Keys PROVE LedgerIsSound(key)'
    <2>1. CASE key = key0
        <3>1. commits[session[s].head].key = key0
            BY DEF key0
        <3> QED
            BY <1>1, <1>2, <1>5, <1>8, <1>9, <1>10, <2>1, <3>1 DEF LedgerIsSound, SessionIsSound, branch
    <2>2. CASE key # key0
        <3>1. LedgerIsSound(key)
            BY DEF LedgerInv
        <3> QED
            BY <1>8, <1>10, <2>2, <3>1 DEF LedgerIsSound, branch
    <2> QED
        BY <2>1, <2>2
<1>14. ASSUME NEW u \in Sessions PROVE SessionIsSound(u)'
    <2>1. SessionIsSound(u)
        BY DEF LedgerInv
    <2>2. CASE u = s
        BY <1>1, <1>2, <1>8, <2>2 DEF SessionIsSound, branch
    <2>3. CASE u # s
        BY <1>1, <1>8, <2>1, <2>3 DEF SessionIsSound, branch
    <2> QED
        BY <2>2, <2>3
<1>15. LockInv'
    <2>1. lock # "person" /\ person.pc # "locked"
        BY <1>1 DEF LedgerInv, LockInv
    <2> QED
        BY <1>1, <1>8, <2>1 DEF LedgerInv, LockInv
<1>16. IdsAreBounded'
    <2>1. PICK n \in Nat : \A key \in Keys : ledgers[key].lastId <= n
        BY DEF IdsAreBounded
    <2>2. \A key \in Keys : ledgers'[key].lastId \in Nat
        BY <1>11 DEF Types, Ledgers
    <2>3. \A key \in Keys : ledgers'[key].lastId <= n + last
        BY <1>5, <1>9, <1>10, <2>1, <2>2
    <2> QED
        BY <1>5, <2>3 DEF IdsAreBounded
<1> QED
    BY <1>11, <1>12, <1>13, <1>14, <1>15, <1>16 DEF LedgerInv

------------------------------------------------------------------------------
(* The person, and killed commands.                                           *)

\* A step of the person's that leaves the ledgers as they are.
LEMMA PersonMoves ==
    ASSUME LedgerInv, person' \in Commands, LockInv', seen' \in SUBSET (Nat \X Nat),
           lock' \in Sessions \union {"free", "person", "dead"},
           UNCHANGED <<branch, ledgers, session, findings, history>>
    PROVE  LedgerInv'
<1>1. Types'
    BY DEF LedgerInv, Types, branch, history
<1>2. LinesInv'
    BY DEF LedgerInv, LinesInv, branch
<1>3. \A key \in Keys : LedgerIsSound(key)'
    BY DEF LedgerInv, LedgerIsSound, branch, history
<1>4. \A s \in Sessions : SessionIsSound(s)'
    BY DEF LedgerInv, SessionIsSound, branch, history
<1> QED
    BY <1>1, <1>2, <1>3, <1>4 DEF LedgerInv

LEMMA PersonKeeps ==
    ASSUME LedgerInv,
           ReadsReport \/ StartsAccept \/ LocksForAccept \/ AcceptFails \/ EndsAccept \/ DeletesLock
    PROVE  LedgerInv' /\ UNCHANGED ledgers
<1>1. /\ ledgers \in [Keys -> Ledgers] /\ person \in Commands /\ NoPerson \in Commands
      /\ NoPerson.pc = "idle" /\ seen \in SUBSET (Nat \X Nat)
    <2>1. None \in Ledgers
        BY DEF None, Ledgers
    <2> QED
        BY <2>1 DEF LedgerInv, Types, NoPerson, Commands
<1>2. commits[head].key \in Keys /\ Keys \subseteq Nat
    <2>1. commits[head] \in CommitRecords
        BY DEF LedgerInv, Types
    <2> QED
        BY <2>1 DEF CommitRecords, Keys
<1>3. CASE ReadsReport
    <2>1. ledgers[commits[head].key] \in Ledgers
        BY <1>1, <1>2
    <2>2. seen' \in SUBSET (Nat \X Nat)
        BY <1>1, <1>3, <2>1 DEF ReadsReport, Ledgers
    <2>3. LockInv'
        BY <1>3 DEF ReadsReport, LedgerInv, LockInv
    <2> QED
        BY <1>1, <1>3, <2>2, <2>3, PersonMoves DEF ReadsReport, LedgerInv, Types
<1>4. CASE StartsAccept
    <2>1. PICK finding \in seen :
            person' = [NoPerson EXCEPT !.pc = "accepts", !.id = finding[1], !.key = commits[head].key]
        BY <1>4 DEF StartsAccept
    <2>2. finding[1] \in Nat
        BY <1>1, <2>1
    <2>3. person' \in Commands /\ person'.pc = "accepts" /\ person'.key = commits[head].key
        BY <1>1, <1>2, <2>1, <2>2 DEF Commands
    <2>4. LockInv'
        BY <1>2, <1>4, <2>3 DEF StartsAccept, LedgerInv, LockInv
    <2> QED
        BY <1>1, <1>4, <2>3, <2>4, PersonMoves DEF StartsAccept, LedgerInv, Types
<1>5. CASE LocksForAccept
    <2>1. person.key \in Keys /\ ledgers[person.key] \in Ledgers
        BY <1>1, <1>5 DEF LocksForAccept, LedgerInv, LockInv
    <2>2. /\ person' \in Commands /\ person'.pc = "locked" /\ person'.key = person.key
          /\ person'.ledger = ledgers[person.key]
        BY <1>1, <1>5, <2>1 DEF LocksForAccept, Commands
    <2>3. LockInv'
        BY <1>5, <2>1, <2>2 DEF LocksForAccept, LedgerInv, LockInv
    <2> QED
        BY <1>1, <1>5, <2>2, <2>3, PersonMoves DEF LocksForAccept, LedgerInv, Types
<1>6. CASE AcceptFails
    <2>1. LockInv'
        BY <1>1, <1>6 DEF AcceptFails, LedgerInv, LockInv
    <2> QED
        BY <1>1, <1>6, <2>1, PersonMoves DEF AcceptFails, LedgerInv, Types
<1>7. CASE EndsAccept
    <2>1. LockInv'
        BY <1>1, <1>7 DEF EndsAccept, LedgerInv, LockInv
    <2> QED
        BY <1>1, <1>7, <2>1, PersonMoves DEF EndsAccept, LedgerInv, Types
<1>8. CASE DeletesLock
    <2>1. LockInv'
        BY <1>8 DEF DeletesLock, LedgerInv, LockInv
    <2> QED
        BY <1>1, <1>8, <2>1, PersonMoves DEF DeletesLock, LedgerInv, Types
<1> QED
    BY <1>3, <1>4, <1>5, <1>6, <1>7, <1>8

\* What is accepted is the finding of the ledger, as no one wrote it since.
LEMMA AcceptsKeep ==
    ASSUME LedgerInv, Accepts
    PROVE  LedgerInv' /\ \A key \in Keys : ledgers'[key].lastId = ledgers[key].lastId
<1> DEFINE ledger0 == [person.ledger EXCEPT !.status = "accepted"]
<1>1. /\ person \in Commands /\ ledgers \in [Keys -> Ledgers] /\ person.pc = "locked"
      /\ person.key \in Keys /\ person.ledger = ledgers[person.key] /\ lock = "person"
    BY DEF LedgerInv, Types, Accepts, LockInv
<1>2. /\ person' = [person EXCEPT !.pc = "written"]
      /\ UNCHANGED <<branch, lock, session, seen, findings, crashes, codeRead, lastFound, overtaken>>
    BY DEF Accepts
<1>3. person' \in Commands /\ person'.pc = "written" /\ person'.key = person.key
    BY <1>1, <1>2 DEF Commands
<1>4. LockInv'
    BY <1>1, <1>2, <1>3 DEF LedgerInv, LockInv
<1>5. CASE UNCHANGED <<ledgers, accepted>>
    <2>1. LedgerInv'
        BY <1>2, <1>3, <1>4, <1>5, PersonMoves DEF LedgerInv, Types, history
    <2> QED
        BY <1>5, <2>1
<1>6. CASE /\ person.ledger.status = "open"
           /\ ledgers' = [ledgers EXCEPT ![person.key] = ledger0]
           /\ accepted' = accepted \union {<<person.id, person.ledger.what>>}
    <2>1. /\ ledger0 \in Ledgers /\ ledger0.status = "accepted"
          /\ ledger0.head = person.ledger.head /\ ledger0.id = person.ledger.id
          /\ ledger0.what = person.ledger.what /\ ledger0.lastId = person.ledger.lastId
        BY <1>1 DEF Ledgers
    <2> HIDE DEF ledger0
    <2>2. /\ ledgers'[person.key] = ledger0
          /\ \A key \in Keys \ {person.key} : ledgers'[key] = ledgers[key]
        BY <1>1, <1>6
    <2>3. Types'
        <3>1. accepted' \in SUBSET (Nat \X Nat)
            BY <1>1, <1>6 DEF LedgerInv, Types, Commands, Ledgers
        <3>2. ledgers' \in [Keys -> Ledgers]
            BY <1>1, <1>6, <2>1
        <3> QED
            BY <1>2, <1>3, <3>1, <3>2 DEF LedgerInv, Types, branch
    <2>4. LinesInv'
        BY <1>2 DEF LedgerInv, LinesInv, branch
    <2>5. ASSUME NEW key \in Keys PROVE LedgerIsSound(key)'
        <3>1. LedgerIsSound(key)
            BY DEF LedgerInv
        <3>2. CASE key = person.key
            <4>1. \E finding \in accepted' : finding[2] = person.ledger.what
                <5>1. <<person.id, person.ledger.what>> \in accepted'
                    BY <1>6
                <5> QED
                    BY <5>1
            <4>2. ledgers[key] # None
                BY <1>1, <1>6, <3>2 DEF None
            <4> QED
                BY <1>1, <1>2, <1>6, <2>1, <2>2, <3>1, <3>2, <4>1, <4>2 DEF LedgerIsSound, branch
        <3>3. CASE key # person.key
            BY <1>2, <1>6, <2>2, <3>1, <3>3 DEF LedgerIsSound, branch
        <3> QED
            BY <3>2, <3>3
    <2>6. \A s \in Sessions : SessionIsSound(s)'
        BY <1>2 DEF LedgerInv, SessionIsSound, branch
    <2>7. \A key \in Keys : ledgers'[key].lastId = ledgers[key].lastId
        BY <1>1, <2>1, <2>2
    <2> QED
        BY <1>4, <2>3, <2>4, <2>5, <2>6, <2>7 DEF LedgerInv
<1> QED
    BY <1>5, <1>6 DEF Accepts

LEMMA KilledKeeps ==
    ASSUME LedgerInv, Killed
    PROVE  LedgerInv' /\ UNCHANGED ledgers
<1>1. CASE \E s \in Sessions :
            /\ session[s].pc # "idle"
            /\ session' = [session EXCEPT ![s] = NoSession]
            /\ lock' = IF lock = s THEN "dead" ELSE lock
            /\ UNCHANGED person
    <2>1. PICK s \in Sessions :
            /\ session' = [session EXCEPT ![s] = NoSession]
            /\ lock' = IF lock = s THEN "dead" ELSE lock
            /\ UNCHANGED person
        BY <1>1
    <2>2. /\ session \in [Sessions -> Reviews] /\ NoSession \in Reviews /\ NoSession.pc = "idle"
          /\ lock' \in Sessions \union {"free", "person", "dead"}
        BY <2>1 DEF LedgerInv, Types, Reviews, NoSession
    <2>3. SessionIsSound(s)'
        BY <2>1, <2>2 DEF SessionIsSound
    <2>4. LockInv'
        BY <2>1, <2>2 DEF LedgerInv, LockInv, Killed
    <2> QED
        BY <2>1, <2>2, <2>3, <2>4, SessionMoves DEF Killed
<1>2. CASE /\ person' = NoPerson
           /\ lock' = IF lock = "person" THEN "dead" ELSE lock
           /\ UNCHANGED session
    <2>1. None \in Ledgers
        BY DEF None, Ledgers
    <2>2. NoPerson \in Commands /\ NoPerson.pc = "idle"
        BY <2>1 DEF NoPerson, Commands
    <2>3. LockInv'
        BY <1>2, <2>2 DEF LedgerInv, LockInv, Killed
    <2> QED
        BY <1>2, <2>2, <2>3, PersonMoves DEF Killed, LedgerInv, Types
<1> QED
    BY <1>1, <1>2 DEF Killed

------------------------------------------------------------------------------
(* The theorems.                                                              *)

\* A person's or a session's step gives no id.
LEMMA IdsStayBounded ==
    ASSUME IdsAreBounded, \A key \in Keys : ledgers'[key].lastId = ledgers[key].lastId
    PROVE  IdsAreBounded'
BY DEF IdsAreBounded

LEMMA LedgerStep == LedgerInv /\ IdsAreBounded /\ [Next]_vars => LedgerInv' /\ IdsAreBounded'
<1> SUFFICES ASSUME LedgerInv, IdsAreBounded, [Next]_vars PROVE LedgerInv' /\ IdsAreBounded'
    OBVIOUS
<1>1. CASE Commits \/ MergesMain \/ AmendsHead
    BY <1>1, BranchKeeps, IdsStayBounded
<1>2. CASE \E s \in Sessions : Prepares(s) \/ PreparesFixes(s)
    BY <1>2, ReviewsKeep, IdsStayBounded
<1>3. CASE \E s \in Sessions : Records(s)
    BY <1>3, RecordsKeep, IdsStayBounded
<1>4. CASE \E s \in Sessions : Locks(s)
    BY <1>4, LocksKeep, IdsStayBounded
<1>12. CASE \E s \in Sessions : RecordFails(s)
    BY <1>12, RecordFailsKeeps, IdsStayBounded
<1>5. CASE \E s \in Sessions : RefusesIds(s)
    BY <1>5, RefusesIdsKeeps, IdsStayBounded
<1>6. CASE \E s \in Sessions : Writes(s)
    BY <1>6, WritesKeep
<1>7. CASE \E s \in Sessions : Unlocks(s)
    BY <1>7, UnlocksKeep, IdsStayBounded
<1>8. CASE ReadsReport \/ StartsAccept \/ LocksForAccept \/ AcceptFails \/ EndsAccept \/ DeletesLock
    BY <1>8, PersonKeeps, IdsStayBounded
<1>9. CASE Accepts
    BY <1>9, AcceptsKeep, IdsStayBounded
<1>10. CASE Killed
    BY <1>10, KilledKeeps, IdsStayBounded
<1>11. CASE UNCHANGED vars
    <2>1. UNCHANGED ledgers
        BY <1>11 DEF vars
    <2>2. /\ UNCHANGED <<branch, ledgers, session, findings, history>>
          /\ UNCHANGED <<person, seen, lock>>
        BY <1>11 DEF vars, branch, history
    <2>3. LockInv'
        BY <2>2 DEF LedgerInv, LockInv
    <2>4. person' \in Commands /\ seen' \in SUBSET (Nat \X Nat)
          /\ lock' \in Sessions \union {"free", "person", "dead"}
        BY <2>2 DEF LedgerInv, Types
    <2> QED
        BY <2>1, <2>2, <2>3, <2>4, PersonMoves, IdsStayBounded
<1> QED
    BY <1>1, <1>2, <1>3, <1>4, <1>5, <1>6, <1>7, <1>8, <1>9, <1>10, <1>11, <1>12 DEF Next, HoldsOn

\* The inductive invariant: what a session and a ledger hold was read, and
\* what a ledger has stays open until accepted.
THEOREM LedgerInvariant == Spec => []LedgerInv
<1>1. Spec => [](LedgerInv /\ IdsAreBounded)
    BY LedgerStarts, LedgerStep, PTL DEF Spec
<1> QED
    BY <1>1, PTL

\* A branch passes the check only with code whose every part some session's
\* reviewers read over their rounds, and so was all that is recorded: however
\* the branch goes on between a round, its record and the check.
THEOREM ReviewsAlwaysWhole == Spec => []ReviewsAreWhole
<1>1. LedgerInv => ReviewsAreWhole
    <2> SUFFICES ASSUME LedgerInv PROVE ReviewsAreWhole
        OBVIOUS
    <2>1. ASSUME NEW key \in Recorded
          PROVE  ledgers[key].head \in 1..Len(commits) /\ commits[ledgers[key].head].code \in codeRead
        BY DEF LedgerInv, LedgerIsSound, Recorded
    <2>2. commits[head].key \in Keys
        <3>1. commits[head] \in CommitRecords
            BY DEF LedgerInv, Types
        <3> QED
            BY <3>1 DEF CommitRecords
    <2>3. CheckMeansReviewed
        BY <2>1, <2>2 DEF CheckMeansReviewed, Passes, IsReviewedCode, Recorded
    <2>4. RecordedWasRead
        BY <2>1 DEF RecordedWasRead
    <2> QED
        BY <2>3, <2>4 DEF ReviewsAreWhole
<1> QED
    BY <1>1, LedgerInvariant, PTL

------------------------------------------------------------------------------
(* Ids along a branch that only grows.                                        *)

\* What the person read is what any ledger with that id still says, as a new
\* finding's id is above every id read and every id recorded.
IdsInv ==
    Grows /\ ~overtaken =>
        /\ \A finding \in seen : finding[1] # 0 /\ \E key \in Keys : finding[1] <= ledgers[key].lastId
        /\ \A finding \in seen, key \in Keys :
              ledgers[key].id = finding[1] => ledgers[key].what = finding[2]
        /\ \A key, other \in Keys :
              ledgers[key].id = ledgers[other].id /\ ledgers[key].id # 0
                  => ledgers[key].what = ledgers[other].what
        /\ accepted \subseteq seen
        /\ person.pc \in {"accepts", "locked"} => \E finding \in seen : finding[1] = person.id

\* A commit may end the growing, never begin it.
LEMMA GrewBefore ==
    ASSUME LedgerInv, [Next]_vars, Grows', ~overtaken'
    PROVE  Grows /\ ~overtaken
<1>1. overtaken => overtaken'
    BY DEF Next, vars, Commits, MergesMain, AmendsHead, Adds, Prepares, PreparesFixes, Reads, Records,
           Locks, RecordFails, ReadsReport, StartsAccept, LocksForAccept, AcceptFails, HoldsOn, RefusesIds, Writes,
           Unlocks, Accepts, EndsAccept, DeletesLock, Killed, history, branch
<1>2. commits' = commits \/ \E commit : commits' = Append(commits, commit)
    BY DEF Next, vars, Commits, MergesMain, AmendsHead, Adds, Prepares, PreparesFixes, Reads, Records,
           Locks, RecordFails, ReadsReport, StartsAccept, LocksForAccept, AcceptFails, HoldsOn, RefusesIds, Writes,
           Unlocks, Accepts, EndsAccept, DeletesLock, Killed, history, branch
<1>3. commits \in Seq(CommitRecords)
    BY DEF LedgerInv, Types
<1>4. Grows
    <2>1. CASE commits' = commits
        BY <2>1 DEF Grows
    <2>2. CASE \E commit : commits' = Append(commits, commit)
        <3>1. PICK commit : commits' = Append(commits, commit)
            BY <2>2
        <3>2. \A c \in DOMAIN commits : c \in DOMAIN commits' /\ commits'[c] = commits[c]
            BY <1>3, <3>1
        <3> QED
            BY <3>2 DEF Grows
    <2> QED
        BY <1>2, <2>1, <2>2
<1> QED
    BY <1>1, <1>4

\* At HEAD of a branch that only grew, takenIds takes every ledger there is.
LEMMA AllIdsAreTaken ==
    ASSUME LedgerInv, IdsAreBounded, Grows, NEW key \in Keys
    PROVE  TakenIds(head) \in Nat /\ ledgers[key].lastId <= TakenIds(head)
<1>1. head = Len(commits) /\ Len(commits) \in Nat \ {0} /\ commits \in Seq(CommitRecords)
    BY DEF LedgerInv, Types
<1>2. head \in 1..Len(commits) /\ commits[head].line = 1..head
    BY <1>1 DEF Grows
<1>3. /\ TakenIds(head) \in Nat
      /\ \A k \in Recorded : ledgers[k].head \in commits[head].line => ledgers[k].lastId <= TakenIds(head)
    BY <1>2, TakenIdsAreTaken DEF LedgerInv
<1>4. CASE ledgers[key] = None
    BY <1>3, <1>4 DEF None
<1>5. CASE ledgers[key] # None
    <2>1. key \in Recorded /\ ledgers[key].head \in 1..Len(commits)
        BY <1>5 DEF LedgerInv, LedgerIsSound, Recorded
    <2> QED
        BY <1>1, <1>2, <1>3, <2>1
<1> QED
    BY <1>3, <1>4, <1>5

LEMMA IdsStart == Init => IdsInv
BY DEF Init, IdsInv, None, NoPerson

\* Most steps write no ledger, show no report and accept nothing.
LEMMA IdsAside ==
    ASSUME LedgerInv, [Next]_vars, IdsInv, UNCHANGED <<ledgers, seen, accepted>>,
           person' = person \/ person'.pc \notin {"accepts", "locked"}
    PROVE  IdsInv'
<1> SUFFICES ASSUME Grows', ~overtaken'
             PROVE  IdsInv'
    BY DEF IdsInv
<1>1. Grows /\ ~overtaken
    BY GrewBefore
<1> QED
    BY <1>1 DEF IdsInv

LEMMA IdsRead == LedgerInv /\ IdsInv /\ [Next]_vars /\ ReadsReport => IdsInv'
<1> SUFFICES ASSUME LedgerInv, IdsInv, [Next]_vars, ReadsReport, Grows', ~overtaken'
             PROVE  IdsInv'
    BY DEF IdsInv
<1> DEFINE here == commits[head].key
<1>1. Grows /\ ~overtaken
    BY GrewBefore
<1>2. here \in Keys
    <2>1. commits[head] \in CommitRecords
        BY DEF LedgerInv, Types
    <2> QED
        BY <2>1 DEF CommitRecords
<1>3. /\ ledgers[here].what # 0 /\ seen' = seen \union {<<ledgers[here].id, ledgers[here].what>>}
      /\ UNCHANGED <<ledgers, person, accepted>>
    BY DEF ReadsReport, history
<1> HIDE DEF here
<1>4. ledgers[here].id # 0 /\ ledgers[here].id <= ledgers[here].lastId
    BY <1>2, <1>3 DEF LedgerInv, LedgerIsSound
<1> QED
    BY <1>1, <1>2, <1>3, <1>4 DEF IdsInv

LEMMA IdsAccept ==
    LedgerInv /\ IdsInv /\ [Next]_vars /\ (StartsAccept \/ LocksForAccept) => IdsInv'
<1> SUFFICES ASSUME LedgerInv, IdsInv, [Next]_vars, StartsAccept \/ LocksForAccept, Grows', ~overtaken'
             PROVE  IdsInv'
    BY DEF IdsInv
<1>1. Grows /\ ~overtaken
    BY GrewBefore
<1>2. UNCHANGED <<ledgers, seen, accepted>>
    BY DEF StartsAccept, LocksForAccept, history
<1>3. \E finding \in seen : finding[1] = person'.id
    <2>1. CASE StartsAccept
        BY <2>1 DEF StartsAccept, NoPerson
    <2>2. CASE LocksForAccept
        <3>1. person' = [person EXCEPT !.pc = "locked", !.ledger = ledgers[person.key]]
              /\ person.pc = "accepts" /\ person \in Commands
            BY <2>2 DEF LocksForAccept, LedgerInv, Types
        <3>2. person'.id = person.id
            BY <3>1 DEF Commands
        <3> QED
            BY <1>1, <3>1, <3>2 DEF IdsInv
    <2> QED
        BY <2>1, <2>2
<1> QED
    BY <1>1, <1>2, <1>3 DEF IdsInv

LEMMA IdsAccepted == LedgerInv /\ IdsInv /\ [Next]_vars /\ Accepts => IdsInv'
<1> SUFFICES ASSUME LedgerInv, IdsInv, [Next]_vars, Accepts, Grows', ~overtaken'
             PROVE  IdsInv'
    BY DEF IdsInv
<1>1. Grows /\ ~overtaken
    BY GrewBefore
<1>2. /\ person \in Commands /\ ledgers \in [Keys -> Ledgers] /\ person.key \in Keys
      /\ person.ledger = ledgers[person.key] /\ person.pc = "locked" /\ seen' = seen
    BY DEF LedgerInv, Types, LockInv, Accepts
<1>3. person'.pc = "written"
    BY <1>2 DEF Accepts, Commands
<1>4. CASE UNCHANGED <<ledgers, accepted>>
    BY <1>1, <1>2, <1>3, <1>4 DEF IdsInv
<1>5. CASE /\ person.ledger.id = person.id
           /\ ledgers' = [ledgers EXCEPT ![person.key] = [person.ledger EXCEPT !.status = "accepted"]]
           /\ accepted' = accepted \union {<<person.id, person.ledger.what>>}
    <2>1. \A key \in Keys : /\ ledgers'[key].id = ledgers[key].id
                           /\ ledgers'[key].what = ledgers[key].what
                           /\ ledgers'[key].lastId = ledgers[key].lastId
        BY <1>2, <1>5 DEF Ledgers
    <2>2. PICK finding \in seen : finding[1] = person.id
        BY <1>1, <1>2 DEF IdsInv
    <2>3. finding[2] = person.ledger.what
        BY <1>1, <1>2, <1>5, <2>2 DEF IdsInv
    <2>4. finding = <<person.id, person.ledger.what>>
        BY <2>2, <2>3 DEF LedgerInv, Types
    <2>5. accepted' \subseteq seen
        BY <1>1, <1>5, <2>2, <2>4 DEF IdsInv
    <2> QED
        BY <1>1, <1>2, <1>3, <2>1, <2>5 DEF IdsInv
<1> QED
    BY <1>4, <1>5 DEF Accepts

LEMMA IdsWritten ==
    LedgerInv /\ IdsAreBounded /\ IdsInv /\ [Next]_vars /\ (\E s \in Sessions : Writes(s)) => IdsInv'
<1> SUFFICES ASSUME LedgerInv, IdsAreBounded, IdsInv, [Next]_vars, NEW s \in Sessions, Writes(s),
                    Grows', ~overtaken'
             PROVE  IdsInv'
    BY DEF IdsInv
<1> DEFINE key0 == commits[head].key
           floor == TakenIds(head)
           last == Max({floor, session[s].id})
<1>1. Grows /\ ~overtaken
    BY GrewBefore
<1>2. session[s].head = head
    BY DEF Writes
<1>3. /\ UNCHANGED <<seen, accepted, person>>
      /\ session[s].id = 0 \/ session[s].id > floor
      /\ ledgers' = [ledgers EXCEPT ![key0] =
                       [head |-> head, id |-> session[s].id, what |-> session[s].what,
                        status |-> IF session[s].what = 0 THEN "none" ELSE "open", lastId |-> last]]
    BY <1>2 DEF Writes
<1>4. key0 \in Keys
    <2>1. commits[head] \in CommitRecords
        BY DEF LedgerInv, Types
    <2> QED
        BY <2>1 DEF CommitRecords
<1>5. /\ session[s].id \in Nat /\ floor \in Nat
      /\ \A key \in Keys : ledgers[key].lastId <= floor
    <2>1. session[s] \in Reviews
        BY DEF LedgerInv, Types
    <2> QED
        BY <1>1, <1>4, <2>1, AllIdsAreTaken DEF Reviews
<1>6. last \in Nat /\ floor <= last
    <2> DEFINE pair == {floor, session[s].id}
    <2>1. /\ pair \in SUBSET Nat /\ pair # {} /\ \A x \in pair : x <= floor + session[s].id
          /\ floor + session[s].id \in Nat /\ floor \in pair
        BY <1>5
    <2> HIDE DEF pair, floor
    <2>2. Max(pair) \in Nat /\ floor <= Max(pair)
        BY <2>1, MaxIsGreatest
    <2> QED
        BY <2>2 DEF pair
<1> HIDE DEF key0, floor, last
<1>7. /\ ledgers \in [Keys -> Ledgers]
      /\ ledgers'[key0].id = session[s].id /\ ledgers'[key0].lastId = last
      /\ \A key \in Keys \ {key0} : ledgers'[key] = ledgers[key]
    BY <1>3, <1>4 DEF LedgerInv, Types
<1>8. \A key \in Keys : ledgers[key].id <= floor /\ ledgers[key].id \in Nat /\ ledgers[key].lastId \in Nat
    <2>1. \A key \in Keys : /\ ledgers[key].id \in Nat /\ ledgers[key].lastId \in Nat
                           /\ ledgers[key].id <= ledgers[key].lastId
        BY <1>7 DEF LedgerInv, LedgerIsSound, Ledgers
    <2> QED
        BY <1>5, <2>1
<1>9. \A finding \in seen : finding[1] \in Nat /\ finding[1] # 0 /\ finding[1] <= floor
    <2>1. \A finding \in seen : finding[1] \in Nat
        BY DEF LedgerInv, Types
    <2> QED
        BY <1>1, <1>5, <1>8, <2>1 DEF IdsInv
<1>10. \A finding \in seen : finding[1] # 0 /\ finding[1] <= ledgers'[key0].lastId
    BY <1>5, <1>6, <1>7, <1>9
<1>11. ASSUME NEW finding \in seen, NEW key \in Keys, ledgers'[key].id = finding[1]
       PROVE  ledgers'[key].what = finding[2]
    <2>1. key # key0
        BY <1>3, <1>5, <1>7, <1>9, <1>11
    <2> QED
        BY <1>1, <1>7, <1>11, <2>1 DEF IdsInv
<1>12. ASSUME NEW key \in Keys, NEW other \in Keys,
              ledgers'[key].id = ledgers'[other].id, ledgers'[key].id # 0
       PROVE  ledgers'[key].what = ledgers'[other].what
    <2>1. CASE key = other
        BY <2>1
    <2>2. CASE key # other
        <3>1. key # key0 /\ other # key0
            BY <1>3, <1>5, <1>7, <1>8, <1>12, <2>2
        <3> QED
            BY <1>1, <1>7, <1>12, <3>1 DEF IdsInv
    <2> QED
        BY <2>1, <2>2
<1>13. accepted \subseteq seen /\ (person.pc \in {"accepts", "locked"} => \E finding \in seen : finding[1] = person.id)
    BY <1>1 DEF IdsInv
<1> QED
    BY <1>3, <1>4, <1>10, <1>11, <1>12, <1>13 DEF IdsInv

LEMMA IdsStep == LedgerInv /\ IdsAreBounded /\ IdsInv /\ [Next]_vars => IdsInv'
<1> SUFFICES ASSUME LedgerInv, IdsAreBounded, IdsInv, [Next]_vars PROVE IdsInv'
    OBVIOUS
<1>1. CASE Commits \/ MergesMain \/ AmendsHead
    BY <1>1, IdsAside DEF Commits, MergesMain, AmendsHead, Adds, history
<1>2. CASE \E s \in Sessions : Prepares(s) \/ PreparesFixes(s)
    BY <1>2, IdsAside DEF Prepares, PreparesFixes, Reads
<1>3. CASE \E s \in Sessions : Records(s) \/ Locks(s) \/ RecordFails(s) \/ RefusesIds(s) \/ Unlocks(s)
    BY <1>3, IdsAside DEF Records, Locks, RecordFails, RefusesIds, Unlocks, history
<1>4. CASE AcceptFails \/ EndsAccept \/ DeletesLock
    BY <1>4, IdsAside DEF AcceptFails, EndsAccept, DeletesLock, NoPerson, history
<1>5. CASE Killed
    BY <1>5, IdsAside DEF Killed, NoPerson, history
<1>6. CASE UNCHANGED vars
    BY <1>6, IdsAside DEF vars, history
<1> QED
    BY <1>1, <1>2, <1>3, <1>4, <1>5, <1>6, IdsRead, IdsAccept, IdsAccepted, IdsWritten DEF Next, HoldsOn

\* No finding is lost: the branch passes only when what the last review of its
\* diff found was answered, and the answer was to the finding that was read,
\* however two sessions and an acceptance overtake one another.
THEOREM FindingsAlwaysKept == Spec => []FindingsKept
<1>1. LedgerInv => TypeOK
    <2> SUFFICES ASSUME LedgerInv PROVE TypeOK
        OBVIOUS
    <2>1. /\ \A c \in DOMAIN commits : c \in commits[c].line /\ commits[c].line \subseteq 1..c
          /\ head \in DOMAIN commits
        BY DEF LedgerInv, Types, LinesInv
    <2>2. ASSUME NEW key \in Recorded
          PROVE  /\ ledgers[key].head \in DOMAIN commits /\ commits[ledgers[key].head].key = key
                 /\ ledgers[key].what \in 0..findings /\ ledgers[key].id <= ledgers[key].lastId
        BY DEF LedgerInv, Types, Ledgers, LedgerIsSound, Recorded
    <2> QED
        BY <2>1, <2>2 DEF TypeOK, LedgerInv, Types, LockInv
<1>2. LedgerInv => FindingsAnswered
    <2> SUFFICES ASSUME LedgerInv, Passes PROVE FindingsAnswered
        BY DEF FindingsAnswered
    <2>1. commits[head] \in CommitRecords
        BY DEF LedgerInv, Types
    <2>2. commits[head].key \in Keys
        BY <2>1 DEF CommitRecords
    <2>3. LedgerIsSound(commits[head].key) /\ ledgers[commits[head].key] \in Ledgers
        BY <2>2 DEF LedgerInv, Types
    <2> QED
        BY <2>3 DEF FindingsAnswered, Passes, LedgerIsSound, Ledgers
<1>3. IdsInv => AcceptedWasRead
    BY DEF IdsInv, AcceptedWasRead
<1>4. Spec => [](LedgerInv /\ IdsAreBounded /\ IdsInv)
    BY LedgerStarts, LedgerStep, IdsStart, IdsStep, PTL DEF Spec
<1> QED
    BY <1>1, <1>2, <1>3, <1>4, PTL DEF FindingsKept
=============================================================================
