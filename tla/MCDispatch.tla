----------------------------- MODULE MCDispatch -----------------------------
(* Instances of Dispatch for TLC. *)
EXTENDS Dispatch

CONSTANTS w1, w2

OneWorker == {w1}
TwoWorkers == {w1, w2}
OneMortal == {w1}
OneCommit == {1}
ThreeCommits == 1..3
TwoCommits == 1..2

\* Everything that may go wrong while the engine runs.
AllFaults == FaultKind
\* Failures that leave a claim with its owner, and a graceful Ctrl-C.
BenignFaults == {"claim", "retry", "interrupt"}
LiveFaults == {"claim", "retry", "fatal", "crash", "expire", "interrupt"}
Nobody == {}
TwoTasks == 1..2
ThreeTasks == 1..3
CtrlCOnly == {"interrupt"}
RetryOnly == {"retry"}
=============================================================================
