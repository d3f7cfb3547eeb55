------------------------------ MODULE FollowUp ------------------------------
(* The rules that the follow-up sweep and the follow-up pass share            *)
(* (lib/follow-up.mts#threadStanding, #decide, lib/follow-up-pass.mts         *)
(* #planRedCi, #fixesInPush, #threadActions): how a review thread stands, what *)
(* the sweep does about a pull request, what a pass does about red checks and *)
(* which of the role's verdicts it carries out. Constant level: the modules   *)
(* that hold the state extend this one.                                       *)
EXTENDS Integers, Sequences

CONSTANT Checks  \* the pull request's CI checks, each with an Actions run behind it

\* Who wrote a comment, as isOwner and the reply marker sort them: a bot, the
\* repository owner (or the host's login, which counts as the owner's), the
\* host's own marked reply, a person without push access, and a person GitHub
\* couldn't answer for.
Authors == {"bot", "owner", "reply", "stranger", "unknown"}

\* A review thread: [resolved, comments], its first comment first.
ThreadIn(comments) == [resolved : BOOLEAN, comments : comments]

\* The authors whose last comment decides whether the thread is answered.
Heard(thread) ==
    IF thread.comments[1] = "bot" THEN {"bot", "owner", "reply"} ELSE {"owner", "reply"}

\* The last comment heard is the host's reply.
LastHeardIsReply(thread) ==
    \E i \in DOMAIN thread.comments :
        /\ thread.comments[i] = "reply"
        /\ \A j \in DOMAIN thread.comments : j > i => thread.comments[j] \notin Heard(thread)

Standing(thread) ==
    LET first == thread.comments[1]
    IN IF thread.resolved THEN "resolved"
       ELSE IF first = "unknown" THEN "unknown"
       ELSE IF first = "stranger" THEN "human"
       ELSE IF LastHeardIsReply(thread) THEN "answered"
       ELSE first

\* A standing that the follow-up role takes up.
ForRole == {"bot", "owner"}

------------------------------------------------------------------------------
(* The sweep's decision. The checks on the head are given as the set of their *)
(* states, Sandcastle's own check left out; empty when none has reported.     *)

CheckStates == {"running", "green", "red"}

Settled(states) == states # {} /\ "running" \notin states

\* Mutation: a conflict waits for checks GitHub never starts.
NeedsPassSettledOnly(dirty, states, standings) ==
    Settled(states) /\ (dirty \/ "red" \in states \/ standings \cap ForRole # {})

\* A conflict is flagged at once; a red check or a thread once CI is done,
\* whether or not Copilot has reviewed the head.
NeedsPass(dirty, states, standings) ==
    \/ dirty
    \/ Settled(states) /\ ("red" \in states \/ standings \cap ForRole # {})

\* pr: [dirty, behind, states, standings, pending, reviewed, asked, waited]:
\* pending, Copilot's review is requested; reviewed, it reviewed this head;
\* asked, a request was recorded once the head's first check had completed;
\* waited, CI has been done for longer than COPILOT_REREQUEST_AFTER_MS.
Decide(pr) ==
    IF NeedsPass(pr.dirty, pr.states, pr.standings) THEN "needs-pass"
    ELSE IF ~Settled(pr.states) \/ pr.pending THEN "wait"
    ELSE IF ~pr.reviewed THEN IF ~pr.asked /\ pr.waited THEN "request-review" ELSE "wait"
    ELSE IF pr.behind THEN "update-branch" ELSE "leave"

------------------------------------------------------------------------------
(* The pass.                                                                  *)

\* planRedCi: nothing to re-run or forward while the gate reproduces a failure.
Rerun(gatePassed, red, covered) == IF gatePassed THEN red \cap covered ELSE {}
Forward(gatePassed, red, covered) == IF gatePassed THEN red \ covered ELSE {}

\* Mutation: any commit the role names is taken at its word.
AddedByPassTrusting(commit, gated, before, base, hostMerge) == TRUE

\* fixesInPush: `commit` is one this pass added. A commit is a natural number,
\* a branch the set of commits in its history.
AddedByPass(commit, gated, before, base, hostMerge) ==
    /\ commit \in gated
    /\ commit \notin before
    /\ commit \notin base
    /\ commit # hostMerge
=============================================================================
