------------------------------ MODULE Attempt ------------------------------
(***************************************************************************)
(* What the dispatch pipeline relies on: an attempt to process one commit  *)
(* writes its row in the order PROCESSING, RUNNING, FINAL, never goes back *)
(* except by a release of a PROCESSING row, and may end anywhere.  Only    *)
(* the environment, Requeue, puts any other row back.                      *)
(***************************************************************************)
VARIABLES row, at

vars == <<row, at>>

Init == row = "IN_QUEUE" /\ at = "idle"

Claim ==
  /\ at = "idle" /\ row = "IN_QUEUE"
  /\ at' = "prepare" /\ row' = "PROCESSING"

\* The claim takes effect but its answer is lost: the attempt ends before it
\* begins.
Unanswered ==
  /\ at = "idle" /\ row = "IN_QUEUE"
  /\ row' = "PROCESSING"
  /\ UNCHANGED at

StartTests ==
  /\ at = "prepare"
  /\ at' = "tests" /\ row' = "RUNNING"

Settle ==
  /\ at \in {"prepare", "tests"}
  /\ at' = "store" /\ row' = "FINAL"

Fail ==
  /\ at \in {"prepare", "tests", "store"}
  /\ at' = "release"
  /\ UNCHANGED row

Release ==
  /\ at = "release"
  /\ at' = "idle"
  /\ row' = IF row = "PROCESSING" THEN "IN_QUEUE" ELSE row

\* It returns, or its process dies, or its release fails.
End ==
  /\ at # "idle"
  /\ at' = "idle"
  /\ UNCHANGED row

\* What attempts do to the row.
Move == Claim \/ Unanswered \/ StartTests \/ Settle \/ Fail \/ Release \/ End

\* The environment: somebody else puts the commit back into the queue between
\* two attempts.
Requeue ==
  /\ at = "idle"
  /\ row' = "IN_QUEUE"
  /\ UNCHANGED at

Next == Move \/ Requeue

Spec == Init /\ [][Next]_vars
=============================================================================
