---------------------------- MODULE MCContainer ----------------------------
(* Instances of Container for TLC. *)
EXTENDS Container

CONSTANTS r1, r2

Two == {r1, r2}
\* A program to be compiled beside an interpreted one.
Both == [r \in Two |-> IF r = r1 THEN {"correct", "broken"} ELSE {"interpreted"}]
\* The first run meets every failure, the second those that share the loop with it:
\* deadlines, a silent or dying container.
Failing ==
  [r \in Two |->
     IF r = r1 THEN {{"docker", "remove"}, {"noise"}, {"stream", "errors", "update"}} ELSE {{}}]
Sound == [r \in Two |-> {{}}]
=============================================================================
