---------------------------- MODULE RunContract ----------------------------
(***************************************************************************)
(* What process_commit and the container run (run, src/rcc/engine.py)      *)
(* agree on: the order in which the row of a commit moves while its        *)
(* container is used, and what it may say when the run raises.             *)
(***************************************************************************)
VARIABLES
  compilable,  \* commit.is_compilable
  row,         \* commits.status
  at           \* the next write of the run; "score" after the last one

vars == <<compilable, row, at>>

Init == at = "outside"

Enter ==
  /\ at = "outside" /\ row = "PROCESSING"
  /\ at' = IF compilable THEN "compile" ELSE "compiled"
  /\ UNCHANGED <<compilable, row>>

\* What the next write may make of the row.
Written ==
  CASE at = "compile" -> {"COMPILING"}
    [] at = "compiled" -> IF compilable THEN {"ERROR", "COMPILED"} ELSE {row}
    [] at = "run" -> {"RUNNING"}
    [] OTHER -> {}

Advance ==
  /\ row' \in Written
  /\ at' = CASE at = "compile" -> "compiled"
             [] at = "compiled" /\ row' # "ERROR" -> "run"
             [] OTHER -> "score"
  /\ UNCHANGED compilable

\* The run raises, before or after its next write took effect; or its process
\* dies.
Raise ==
  /\ at # "outside"
  /\ row' \in {row} \cup Written
  /\ at' = "outside"
  /\ UNCHANGED compilable

\* The run has returned: the row is process_commit's again.
Leave ==
  /\ at = "score"
  /\ at' = "outside"
  /\ UNCHANGED compilable

Outside == at = "outside" /\ at' = "outside" /\ UNCHANGED compilable

Next == Enter \/ Advance \/ Raise \/ Leave \/ Outside

Spec == Init /\ [][Next]_vars
=============================================================================
