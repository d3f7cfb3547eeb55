---------------------------- MODULE BuildAttempt ----------------------------
(* What one build of an issue promises the rest of Sandcastle, whatever its   *)
(* roles, the gate, git and GitHub do (buildIssue's BuildResult and the       *)
(* doc's "Giving up and telling the human"): it ends; it opens at most one    *)
(* pull request; it counts at most one failed attempt, never one that opened  *)
(* a pull request, and never for a usage-limit or time-budget stop.           *)

VARIABLES
    result,  \* "building", then how the build ended
    counted, \* a failed attempt was recorded on the issue
    opened   \* a pull request was opened

vars == <<result, counted, opened>>

Results == {"published", "failedAttempt", "notPublished", "stopped", "threw"}

Init == result = "building" /\ counted = FALSE /\ opened = FALSE

Count ==
    /\ result = "building"
    /\ ~counted
    /\ ~opened
    /\ counted' = TRUE
    /\ UNCHANGED <<result, opened>>

Open ==
    /\ result = "building"
    /\ ~opened
    /\ ~counted
    /\ opened' = TRUE
    /\ UNCHANGED <<result, counted>>

\* An opened pull request may go with any end but a stop: GitHub can open one
\* and still answer with an error.
End(r) ==
    /\ result = "building"
    /\ r = "published" => opened
    /\ r = "failedAttempt" => counted
    /\ r = "notPublished" => ~counted
    /\ r = "stopped" => ~counted /\ ~opened
    /\ result' = r
    /\ UNCHANGED <<counted, opened>>

Next == Count \/ Open \/ \E r \in Results : End(r)

\* The promise apart from the end itself.
Safety == Init /\ [][Next]_vars

Spec == Safety /\ WF_vars(\E r \in Results : End(r))
=============================================================================
