-------------------------- MODULE MCProcessCommit --------------------------
(* Instances of ProcessCommit for TLC. *)
EXTENDS ProcessCommit

\* Everything may fail, or everything but what a property excludes.
Everything ==
  {FaultKind, FaultKind \ {"mark"}, FaultKind \ {"crash", "report"}}
MarkFails == {{"mark"}}
HandlerFails == {{"run", "report"}}
=============================================================================
