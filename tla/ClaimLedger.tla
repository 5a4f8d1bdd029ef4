---------------------------- MODULE ClaimLedger ----------------------------
(***************************************************************************)
(* What the claim protocol promises, without queue, processes or tasks.    *)
(*                                                                         *)
(* Every commit has a row.  A waiting row can be taken, by one holder and  *)
(* only while nobody holds the commit; only a held commit is settled or    *)
(* given back; a settled row never changes.  A holder may let go of a      *)
(* commit without giving it back (it crashed, or it finished): the row     *)
(* then keeps its value.                                                   *)
(***************************************************************************)
CONSTANTS Commit, Holder

VARIABLES row, holders

vars == <<row, holders>>

Init ==
  /\ row = [c \in Commit |-> "absent"]
  /\ holders = [c \in Commit |-> {}]

Offer(c) ==
  /\ row[c] = "absent"
  /\ row' = [row EXCEPT ![c] = "waiting"]
  /\ UNCHANGED holders

Idle(h) == \A c \in Commit : h \notin holders[c]

\* A claim and its answer.
Take(c, h) ==
  /\ row[c] = "waiting"
  /\ holders[c] = {}
  /\ Idle(h)
  /\ row' = [row EXCEPT ![c] = "taken"]
  /\ holders' = [holders EXCEPT ![c] = {h}]

\* A claim whose answer is lost.
TakeUnheld(c) ==
  /\ row[c] = "waiting"
  /\ row' = [row EXCEPT ![c] = "taken"]
  /\ UNCHANGED holders

Settle(c) ==
  /\ row[c] = "taken"
  /\ holders[c] # {}
  /\ row' = [row EXCEPT ![c] = "settled"]
  /\ UNCHANGED holders

GiveBack(c) ==
  /\ row[c] = "taken"
  /\ holders[c] # {}
  /\ row' = [row EXCEPT ![c] = "waiting"]
  /\ holders' = [holders EXCEPT ![c] = {}]

\* The holders of the commits in C let go.
LetGo(C) ==
  /\ holders' = [c \in Commit |-> IF c \in C THEN {} ELSE holders[c]]
  /\ UNCHANGED row

Next ==
  \/ \E c \in Commit :
       \/ Offer(c) \/ TakeUnheld(c) \/ Settle(c) \/ GiveBack(c)
       \/ \E h \in Holder : Take(c, h)
  \/ \E C \in SUBSET Commit : LetGo(C)

Spec == Init /\ [][Next]_vars
=============================================================================
