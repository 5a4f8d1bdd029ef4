------------------------ MODULE DispatchRefinements ------------------------
(***************************************************************************)
(* Dispatch implements ClaimLedger, under the mapping of Ledger, and for   *)
(* each commit Attempt, under the mapping of Steps: every step of the      *)
(* engine is a step of both or leaves them unchanged.                      *)
(***************************************************************************)
EXTENDS DispatchProofs

-----------------------------------------------------------------------------
(* The claim ledger *)

rows == [c \in Commit |-> Row(c)]
holding == [c \in Commit |-> Holders(c)]

\* The rows of the ledger only depend on the statuses.
LEMMA RowsFrame ==
  ASSUME UNCHANGED status
  PROVE  UNCHANGED rows
  BY DEF rows, Row

\* Its holders only depend on the coroutines that hold.
LEMMA HoldersFrame ==
  ASSUME \A x \in Coro : /\ Holding(x)' <=> Holding(x)
                         /\ Holding(x) => job'[x] = job[x]
  PROVE  UNCHANGED holding
  BY DEF holding, Holders

\* A write to the row of one commit changes one row of the ledger.
LEMMA RowsWrite ==
  ASSUME TypeOK, NEW c \in Commit, NEW s \in Status,
         status' = [status EXCEPT ![c] = s]
  PROVE  rows' = [rows EXCEPT ![c] = Row(c)']
  <1>1. \A d \in Commit : d # c => Row(d)' = Row(d)
    BY DEF Row, TypeOK
  <1> QED
    BY <1>1 DEF rows

\* A coroutine that returns lets go of its commit and of no other.
LEMMA ReturnLetsGo ==
  ASSUME IInv, NEW x \in Coro, Holding(x), Return(x)
  PROVE  holding' = [c \in Commit |-> IF c = job[x] THEN {} ELSE holding[c]]
  <1>t. TypeOK
    BY DEF IInv
  <1>1. \A y \in Coro : Holding(y)' <=> Holding(y) /\ y # x
    BY <1>t DEF TypeOK, Return, SetCoro, Holding
  <1>2. \A y \in Coro : y # x => job'[y] = job[y]
    BY <1>t DEF TypeOK, Return
  <1>3. \A y \in Coro : Holding(y) /\ y # x => job[y] # job[x]
    BY DEF IInv, AtMostOneHolder
  <1>4. ASSUME NEW c \in Commit
        PROVE  Holders(c)' = IF c = job[x] THEN {} ELSE Holders(c)
    <2>1. Holders(c)' = {y \in Coro : Holding(y) /\ y # x /\ job[y] = c}
      BY <1>1, <1>2 DEF Holders
    <2>2. CASE c = job[x]
      BY <2>1, <2>2, <1>3
    <2>3. CASE c # job[x]
      BY <2>1, <2>3 DEF Holders
    <2> QED
      BY <2>2, <2>3
  <1> QED
    BY <1>4 DEF holding

-----------------------------------------------------------------------------
LEMMA InitRefines == Init => Ledger!Init
  <1> SUFFICES ASSUME Init PROVE Ledger!Init
    OBVIOUS
  <1>1. \A c \in Commit : Row(c) = "absent"
    <2>1. \A c \in Commit : status[c] = "ABSENT"
      BY DEF Init
    <2> QED
      BY <2>1 DEF Row, InProgress
  <1>2. \A c \in Commit : Holders(c) = {}
    BY DEF Init, Holders, Holding
  <1> QED
    BY <1>1, <1>2 DEF Ledger!Init

\* The steps of a coroutine.
LEMMA RunCommitRefines ==
  ASSUME IInv, NEW x \in Coro, RunCommit(x)
  PROVE  Ledger!Next \/ UNCHANGED <<rows, holding>>
  <1>t. TypeOK
    BY DEF IInv
  <1>c. coro[x] # "idle" => job[x] \in Commit
    BY <1>t DEF TypeOK, Item
  <1>1. CASE ClaimWins(x)
    <2>1. job[x] \in Commit /\ Row(job[x]) = "waiting" /\ Row(job[x])' = "taken"
      BY <1>1, <1>c, <1>t DEF ClaimWins, Claimable, Row, InProgress, TypeOK
    <2>2. Holders(job[x]) = {}
      BY <1>1 DEF ClaimWins, Claimable, IInv, HeldNotQueued, Holders
    <2>3. \A c \in Commit : x \notin Holders(c)
      BY <1>1 DEF ClaimWins, Claimable, Holders, Holding
    <2>4. rows' = [rows EXCEPT ![job[x]] = "taken"]
      BY <1>1, <1>t, <2>1, RowsWrite DEF ClaimWins, Status
    <2>5. holding' = [holding EXCEPT ![job[x]] = {x}]
      <3>1. \A y \in Coro : Holding(y)' <=> Holding(y) \/ y = x
        BY <1>1, <1>t DEF ClaimWins, SetCoro, Holding, TypeOK
      <3>2. ASSUME NEW c \in Commit
            PROVE  Holders(c)' = IF c = job[x] THEN {x} ELSE Holders(c)
        BY <1>1, <2>2, <3>1 DEF Holders, ClaimWins
      <3> QED
        BY <3>2 DEF holding
    <2>6. Ledger!Take(job[x], x)
      BY <2>1, <2>2, <2>3, <2>4, <2>5 DEF Ledger!Take, Ledger!Idle, rows, holding
    <2> QED
      BY <2>1, <2>6 DEF Ledger!Next
  <1>2. CASE ClaimDrops(x) \/ Fail(x)
    <2>1. \A y \in Coro : /\ Holding(y)' <=> Holding(y)
                          /\ Holding(y) => job'[y] = job[y]
      BY <1>2, <1>t DEF ClaimDrops, Fail, Return, SetCoro, Holding, TypeOK
    <2> QED
      BY <1>2, <2>1, RowsFrame, HoldersFrame DEF ClaimDrops, Fail
  <1>3. CASE ClaimUnacked(x)
    <2>0. PICK c \in Commit : c = job[x]
      BY <1>3, <1>c DEF ClaimUnacked, Claimable
    <2>1. Row(c) = "waiting" /\ Row(c)' = "taken"
      BY <1>3, <2>0, <1>t DEF ClaimUnacked, Claimable, Row, InProgress, TypeOK
    <2>2. rows' = [rows EXCEPT ![c] = "taken"]
      BY <1>3, <1>t, <2>0, <2>1, RowsWrite DEF ClaimUnacked, Status
    <2>3. \A y \in Coro : /\ Holding(y)' <=> Holding(y)
                          /\ Holding(y) => job'[y] = job[y]
      BY <1>3, <1>t DEF ClaimUnacked, Claimable, Return, SetCoro, Holding, TypeOK
    <2>4. Ledger!TakeUnheld(c)
      BY <2>1, <2>2, <2>3, HoldersFrame DEF Ledger!TakeUnheld, rows, holding
    <2> QED
      BY <2>4 DEF Ledger!Next
  <1>4. CASE StartTests(x)
    <2>1. status[job[x]] = "PROCESSING" /\ job[x] \in Commit
      BY <1>4, <1>c DEF StartTests, IInv, RowFollows, RowFor
    <2>2. Row(job[x])' = Row(job[x])
      BY <1>4, <1>t, <2>1 DEF StartTests, Row, InProgress, TypeOK
    <2>3. UNCHANGED rows
      BY <1>4, <1>t, <2>1, <2>2, RowsWrite DEF StartTests, Status, rows
    <2>4. \A y \in Coro : /\ Holding(y)' <=> Holding(y)
                          /\ Holding(y) => job'[y] = job[y]
      BY <1>4, <1>t DEF StartTests, SetCoro, Holding, TypeOK
    <2> QED
      BY <2>3, <2>4, HoldersFrame
  <1>5. CASE Settle(x)
    <2>1. status[job[x]] \in InProgress /\ job[x] \in Commit
      BY <1>5, <1>c DEF Settle, IInv, RowFollows, RowFor, InProgress
    <2>2. Row(job[x]) = "taken" /\ Row(job[x])' = "settled"
      BY <1>5, <1>t, <2>1 DEF Settle, Row, InProgress, TypeOK
    <2>3. rows' = [rows EXCEPT ![job[x]] = "settled"]
      BY <1>5, <1>t, <2>1, <2>2, RowsWrite DEF Settle, Status
    <2>4. \A y \in Coro : /\ Holding(y)' <=> Holding(y)
                          /\ Holding(y) => job'[y] = job[y]
      BY <1>5, <1>t DEF Settle, SetCoro, Holding, TypeOK
    <2>5. x \in Holders(job[x])
      BY <1>5 DEF Settle, Holders, Holding
    <2>6. Ledger!Settle(job[x])
      BY <2>1, <2>2, <2>3, <2>4, <2>5, HoldersFrame DEF Ledger!Settle, rows, holding
    <2> QED
      BY <2>1, <2>6 DEF Ledger!Next
  <1>6. CASE Release(x) /\ status[job[x]] = "PROCESSING"
    <2>0. PICK c \in Commit : c = job[x]
      BY <1>6, <1>c DEF Release
    <2>1. Row(c) = "taken" /\ Row(c)' = "waiting"
      BY <1>6, <2>0, <1>t DEF Release, Row, InProgress, TypeOK
    <2>2. rows' = [rows EXCEPT ![c] = "waiting"]
      BY <1>6, <1>t, <2>0, <2>1, RowsWrite DEF Release, Status
    <2>3. holding' = [holding EXCEPT ![c] = {}]
      BY <1>6, <2>0, ReturnLetsGo DEF Release, Holding, holding
    <2>4. x \in Holders(c)
      BY <1>6, <2>0 DEF Release, Holders, Holding
    <2>5. Ledger!GiveBack(c)
      BY <2>1, <2>2, <2>3, <2>4 DEF Ledger!GiveBack, rows, holding
    <2> QED
      BY <2>5 DEF Ledger!Next
  <1>7. CASE \/ Release(x) /\ status[job[x]] # "PROCESSING"
             \/ Finish(x) \/ FailFatal(x) \/ ReleaseFails(x)
    <2>1. /\ Holding(x) /\ Return(x) /\ UNCHANGED status
          /\ job[x] \in Commit
      BY <1>7, <1>c DEF Release, Finish, FailFatal, ReleaseFails, Holding
    <2>2. Ledger!LetGo({job[x]})
      BY <2>1, RowsFrame, ReturnLetsGo DEF Ledger!LetGo, rows, holding
    <2> QED
      BY <2>1, <2>2 DEF Ledger!Next
  <1> QED
    BY <1>1, <1>2, <1>3, <1>4, <1>5, <1>6, <1>7 DEF RunCommit

\* Dead processes let go of what they held.
LEMMA DeathRefines ==
  ASSUME IInv, Terminate \/ \E w \in Worker : Crash(w)
  PROVE  Ledger!Next
  <1>t. TypeOK
    BY DEF IInv
  <1> DEFINE gone == {x \in Coro : coro'[x] = "idle"}
             left == {c \in Commit : \E x \in gone : x \in Holders(c)}
  <1>1. /\ UNCHANGED status
        /\ \A x \in Coro \ gone : coro'[x] = coro[x] /\ job'[x] = job[x]
    BY <1>t DEF Terminate, Crash, TypeOK
  <1>2. ASSUME NEW c \in Commit
        PROVE  Holders(c)' = IF c \in left THEN {} ELSE Holders(c)
    <2>1. Holders(c)' = Holders(c) \ gone
      BY <1>1 DEF Holders, Holding
    <2>2. CASE c \in left
      <3>1. Holders(c) \subseteq gone
        BY <2>2 DEF IInv, AtMostOneHolder, Holders
      <3> QED
        BY <2>1, <2>2, <3>1
    <2>3. CASE c \notin left
      BY <2>1, <2>3 DEF Holders
    <2> QED
      BY <2>2, <2>3
  <1>3. holding' = [c \in Commit |-> IF c \in left THEN {} ELSE holding[c]]
    BY <1>2 DEF holding
  <1>4. Ledger!LetGo(left)
    BY <1>1, <1>3, RowsFrame DEF Ledger!LetGo, rows, holding
  <1> QED
    BY <1>4 DEF Ledger!Next

\* The kinds of steps that matter to a commit's row and holders.
LEMMA StepKinds ==
  ASSUME [Next]_vars
  PROVE  \/ UNCHANGED <<status, coro, job>>
         \/ \E c \in Commit : Submit(c)
         \/ \E w \in Worker : Spawn(w)
         \/ Terminate \/ \E w \in Worker : Crash(w)
         \/ \E x \in Coro : RunCommit(x)
  BY DEF Next, vars, workerVars, Expire, Parent, Poll, Put, Hint, StartJoin, Join,
         LookAt, OrphanPut, CtrlC, Interrupt, Escape, PullLoop, GetItem, GetEmpty,
         GetFails, SpawnFails, Drained

LEMMA StepRefines ==
  ASSUME IInv, [Next]_vars
  PROVE  Ledger!Next \/ UNCHANGED <<rows, holding>>
  <1>t. TypeOK
    BY DEF IInv
  <1>1. CASE UNCHANGED <<status, coro, job>>
    <2>1. \A y \in Coro : /\ Holding(y)' <=> Holding(y)
                          /\ Holding(y) => job'[y] = job[y]
      BY <1>1 DEF Holding
    <2> QED
      BY <1>1, <2>1, RowsFrame, HoldersFrame
  <1>2. ASSUME NEW c \in Commit, Submit(c) PROVE Ledger!Next
    <2>1. Row(c) = "absent" /\ Row(c)' = "waiting"
      BY <1>2, <1>t DEF Submit, Row, InProgress, TypeOK
    <2>2. rows' = [rows EXCEPT ![c] = "waiting"]
      BY <1>2, <1>t, <2>1, RowsWrite DEF Submit, Status
    <2>3. UNCHANGED holding
      <3>1. \A y \in Coro : /\ Holding(y)' <=> Holding(y)
                            /\ Holding(y) => job'[y] = job[y]
        BY <1>2 DEF Submit, workerVars, Holding
      <3> QED
        BY <3>1, HoldersFrame
    <2>4. Ledger!Offer(c)
      BY <2>1, <2>2, <2>3 DEF Ledger!Offer, rows, holding
    <2> QED
      BY <2>4 DEF Ledger!Next
  <1>3. ASSUME NEW w \in Worker, Spawn(w) PROVE UNCHANGED <<rows, holding>>
    <2>1. FreeTask(w) \in Task /\ coro[<<w, FreeTask(w)>>] = "idle"
      BY <1>3, <1>t, FreeTaskExists DEF IInv, TypeOK, Spawn
    <2>2. \A y \in Coro : /\ Holding(y)' <=> Holding(y)
                          /\ Holding(y) => job'[y] = job[y]
      BY <1>3, <1>t, <2>1 DEF Spawn, Holding, TypeOK
    <2> QED
      BY <1>3, <2>2, RowsFrame, HoldersFrame DEF Spawn
  <1>4. CASE Terminate \/ \E w \in Worker : Crash(w)
    BY <1>4, DeathRefines
  <1>5. ASSUME NEW x \in Coro, RunCommit(x)
        PROVE  Ledger!Next \/ UNCHANGED <<rows, holding>>
    BY <1>5, RunCommitRefines
  <1> QED
    BY <1>1, <1>2, <1>3, <1>4, <1>5, StepKinds

\* The whole engine, whatever fails and however many processes there are,
\* implements the claim ledger: commits are taken by one coroutine at a time,
\* and only their holder settles them or gives them back.
THEOREM DispatchImplementsLedger == Spec => ImplementsLedger
  <1>1. Init => Ledger!Init
    BY InitRefines
  <1>2. IInv /\ [Next]_vars => [Ledger!Next]_(Ledger!vars)
    BY StepRefines DEF Ledger!vars, rows, holding
  <1> QED
    BY <1>1, <1>2, Invariance, PTL DEF Spec, ImplementsLedger, Ledger!Spec

-----------------------------------------------------------------------------
(* The attempts at one commit *)

\* Where the one coroutine that holds a commit is.
LEMMA AttemptAtHolder ==
  ASSUME AtMostOneHolder, NEW c \in Commit, NEW x \in Coro, Holding(x), job[x] = c
  PROVE  AttemptAt(c) = coro[x]
  <1>1. x \in Holders(c) /\ \A y \in Holders(c) : y = x
    BY DEF Holders, AtMostOneHolder
  <1> QED
    BY <1>1 DEF AttemptAt

LEMMA AttemptAtNobody ==
  ASSUME NEW c \in Commit, \A x \in Coro : Holding(x) => job[x] # c
  PROVE  AttemptAt(c) = "idle"
  BY DEF AttemptAt, Holders

\* A step that leaves the row and the holders of a commit as they are.
LEMMA AttemptFrame ==
  ASSUME NEW c \in Commit, status'[c] = status[c],
         \A x \in Coro : Holding(x) /\ job[x] = c
                           => coro'[x] = coro[x] /\ job'[x] = job[x],
         \A x \in Coro : Holding(x)' /\ job'[x] = c => Holding(x) /\ job[x] = c
  PROVE  UNCHANGED <<AttemptRow(c), AttemptAt(c)>>
  <1>1. Holders(c)' = Holders(c)
    BY DEF Holders, Holding
  <1>2. \A x \in Holders(c) : coro'[x] = coro[x]
    BY DEF Holders
  <1>3. AttemptAt(c)' = AttemptAt(c)
    <2>1. CASE Holders(c) = {}
      BY <1>1, <2>1 DEF AttemptAt
    <2>2. CASE Holders(c) # {}
      <3> DEFINE x == CHOOSE y \in Holders(c) : TRUE
      <3>1. x \in Holders(c)
        BY <2>2
      <3>2. AttemptAt(c) = coro[x] /\ AttemptAt(c)' = coro'[x]
        BY <1>1, <2>2 DEF AttemptAt
      <3> QED
        BY <1>2, <3>1, <3>2
    <2> QED
      BY <2>1, <2>2
  <1> QED
    BY <1>3 DEF AttemptRow

\* When the holder of a commit ends, its attempt does.
LEMMA AttemptEnds ==
  ASSUME IInv, IInv', NEW c \in Commit, NEW x \in Coro, Holding(x), job[x] = c,
         \A y \in Coro : y # x => (Holding(y)' /\ job'[y] = c => Holding(y) /\ job[y] = c),
         ~Holding(x)'
  PROVE  AttemptAt(c) = coro[x] /\ AttemptAt(c)' = "idle"
  <1>1. AttemptAt(c) = coro[x]
    BY AttemptAtHolder DEF IInv
  <1>2. \A y \in Coro : Holding(y)' => job'[y] # c
    BY DEF IInv, AtMostOneHolder
  <1>3. AttemptAt(c)' = "idle"
    <2>1. Holders(c)' = {}
      BY <1>2 DEF Holders
    <2> QED
      BY <2>1 DEF AttemptAt
  <1> QED
    BY <1>1, <1>3

\* The steps of a coroutine are steps of the attempt at its commit, and none at
\* any other.
LEMMA RunCommitFollows ==
  ASSUME IInv, IInv', NEW x \in Coro, RunCommit(x), NEW c \in Commit
  PROVE  Steps(c)!Move \/ UNCHANGED <<AttemptRow(c), AttemptAt(c)>>
  <1>t. TypeOK /\ AtMostOneHolder /\ AtMostOneHolder'
    BY DEF IInv
  <1>f. /\ coro[x] # "idle"
        /\ \A y \in Coro : y # x => coro'[y] = coro[y] /\ job'[y] = job[y]
        /\ Holding(x)' => job'[x] = job[x]
    BY <1>t DEF TypeOK, RunCommit, ClaimWins, ClaimDrops, ClaimUnacked, Claimable, StartTests,
                Settle, Finish, Fail, FailFatal, Release, ReleaseFails, Return, SetCoro, Holding
  <1>o. \A y \in Coro : y # x /\ Holding(y)' /\ job'[y] = c => Holding(y) /\ job[y] = c
    BY <1>f DEF Holding
  <1>1. CASE job[x] # c
    <2>1. status'[c] = status[c]
      BY <1>1, <1>t DEF TypeOK, RunCommit, ClaimWins, ClaimDrops, ClaimUnacked, StartTests,
                Settle, Finish, Fail, FailFatal, Release, ReleaseFails
    <2> QED
      BY <1>1, <1>f, <1>o, <2>1, AttemptFrame
  <1>2. CASE job[x] = c
    <2> USE <1>2
    <2>1. ASSUME Holding(x) PROVE AttemptAt(c) = coro[x] /\ status[c] \notin {"ABSENT", "IN_QUEUE"}
      BY <1>t, <2>1, AttemptAtHolder DEF IInv, HeldNotQueued
    <2>2. ASSUME Holding(x)' PROVE AttemptAt(c)' = coro'[x]
      <3>1. \A y \in Coro : Holding(y)' /\ job'[y] = c => y = x
        BY <1>t, <1>f, <2>2 DEF AtMostOneHolder
      <3>2. x \in Holders(c)' /\ \A y \in Holders(c)' : y = x
        BY <1>f, <2>2, <3>1 DEF Holders
      <3> QED
        BY <3>2 DEF AttemptAt
    <2>3. ASSUME Holding(x), ~Holding(x)' PROVE AttemptAt(c)' = "idle"
      BY <1>o, <2>3, AttemptEnds
    <2>4. ASSUME status[c] = "IN_QUEUE" PROVE AttemptAt(c) = "idle"
      BY <2>4, AttemptAtNobody DEF IInv, HeldNotQueued
    <2>5. CASE ClaimWins(x)
      <3>1. status[c] = "IN_QUEUE" /\ status'[c] = "PROCESSING" /\ coro'[x] = "prepare"
        BY <1>t, <2>5 DEF ClaimWins, Claimable, SetCoro, TypeOK
      <3>2. AttemptAt(c) = "idle" /\ AttemptAt(c)' = "prepare"
        BY <2>2, <2>4, <3>1 DEF Holding
      <3>3. Steps(c)!Claim
        BY <3>1, <3>2 DEF Steps!Claim, AttemptRow
      <3> QED
        BY <3>3 DEF Steps!Move
    <2>6. CASE ClaimUnacked(x)
      <3>1. status[c] = "IN_QUEUE" /\ status'[c] = "PROCESSING" /\ ~Holding(x)'
        BY <1>t, <2>6 DEF ClaimUnacked, Claimable, Return, SetCoro, TypeOK, Holding
      <3>2. AttemptAt(c) = "idle" /\ AttemptAt(c)' = "idle"
        <4>1. \A y \in Coro : Holding(y)' /\ job'[y] = c => FALSE
          BY <1>o, <3>1 DEF IInv, HeldNotQueued
        <4>2. Holders(c)' = {}
          BY <4>1 DEF Holders
        <4> QED
          BY <2>4, <3>1, <4>2 DEF AttemptAt
      <3>3. Steps(c)!Unanswered
        BY <3>1, <3>2 DEF Steps!Unanswered, AttemptRow
      <3> QED
        BY <3>3 DEF Steps!Move
    <2>7. CASE ClaimDrops(x)
      <3>1. ~Holding(x) /\ ~Holding(x)' /\ UNCHANGED status
        BY <1>t, <2>7 DEF ClaimDrops, Return, SetCoro, TypeOK, Holding
      <3> QED
        BY <1>f, <1>o, <3>1, AttemptFrame
    <2>8. CASE StartTests(x)
      <3>1. coro[x] = "prepare" /\ coro'[x] = "tests" /\ status'[c] = "RUNNING"
        BY <1>t, <2>8 DEF StartTests, SetCoro, TypeOK
      <3>2. AttemptAt(c) = "prepare" /\ AttemptAt(c)' = "tests"
        BY <2>1, <2>2, <3>1 DEF Holding
      <3>3. Steps(c)!StartTests
        BY <3>1, <3>2 DEF Steps!StartTests, AttemptRow
      <3> QED
        BY <3>3 DEF Steps!Move
    <2>9. CASE Settle(x)
      <3>1. coro[x] \in {"prepare", "tests"} /\ coro'[x] = "store" /\ status'[c] = "FINAL"
        BY <1>t, <2>9 DEF Settle, SetCoro, TypeOK
      <3>2. AttemptAt(c) \in {"prepare", "tests"} /\ AttemptAt(c)' = "store"
        BY <2>1, <2>2, <3>1 DEF Holding
      <3>3. Steps(c)!Settle
        BY <3>1, <3>2 DEF Steps!Settle, AttemptRow
      <3> QED
        BY <3>3 DEF Steps!Move
    <2>10. CASE Fail(x)
      <3>1. /\ coro[x] \in {"prepare", "tests", "store"} /\ coro'[x] = "release"
            /\ UNCHANGED status
        BY <1>t, <2>10 DEF Fail, SetCoro, TypeOK
      <3>2. AttemptAt(c) \in {"prepare", "tests", "store"} /\ AttemptAt(c)' = "release"
        BY <2>1, <2>2, <3>1 DEF Holding
      <3>3. Steps(c)!Fail
        BY <3>1, <3>2 DEF Steps!Fail, AttemptRow
      <3> QED
        BY <3>3 DEF Steps!Move
    <2>11. CASE Release(x)
      <3>1. /\ coro[x] = "release" /\ ~Holding(x)'
            /\ status'[c] = IF status[c] = "PROCESSING" THEN "IN_QUEUE" ELSE status[c]
        BY <1>t, <2>11 DEF Release, Return, SetCoro, TypeOK, Holding
      <3>2. AttemptAt(c) = "release" /\ AttemptAt(c)' = "idle" /\ status[c] # "ABSENT"
        BY <2>1, <2>3, <3>1 DEF Holding
      <3>3. Steps(c)!Release
        BY <3>1, <3>2 DEF Steps!Release, AttemptRow
      <3> QED
        BY <3>3 DEF Steps!Move
    <2>12. CASE Finish(x) \/ FailFatal(x) \/ ReleaseFails(x)
      <3>1. Holding(x) /\ ~Holding(x)' /\ UNCHANGED status
        BY <1>t, <2>12 DEF Finish, FailFatal, ReleaseFails, Return, SetCoro, TypeOK, Holding
      <3>2. AttemptAt(c) # "idle" /\ AttemptAt(c)' = "idle"
        BY <1>f, <2>1, <2>3, <3>1
      <3>3. Steps(c)!End
        BY <3>1, <3>2 DEF Steps!End, AttemptRow
      <3> QED
        BY <3>3 DEF Steps!Move
    <2> QED
      BY <2>5, <2>6, <2>7, <2>8, <2>9, <2>10, <2>11, <2>12 DEF RunCommit
  <1> QED
    BY <1>1, <1>2

\* The death of processes ends the attempts of their coroutines, whatever the
\* rows say.
LEMMA DeathFollows ==
  ASSUME IInv, IInv', Terminate \/ \E w \in Worker : Crash(w), NEW c \in Commit
  PROVE  Steps(c)!Move \/ UNCHANGED <<AttemptRow(c), AttemptAt(c)>>
  <1>t. TypeOK
    BY DEF IInv
  <1>1. /\ UNCHANGED status
        /\ \A x \in Coro : \/ coro'[x] = coro[x] /\ job'[x] = job[x]
                           \/ coro'[x] = "idle"
    BY <1>t DEF Terminate, Crash, TypeOK
  <1>2. CASE \E x \in Coro : Holding(x) /\ job[x] = c /\ coro'[x] = "idle"
    <2>1. PICK x \in Coro : Holding(x) /\ job[x] = c /\ coro'[x] = "idle"
      BY <1>2
    <2>2. AttemptAt(c) = coro[x] /\ AttemptAt(c)' = "idle"
      BY <1>1, <2>1, AttemptEnds DEF Holding
    <2>3. Steps(c)!End
      BY <1>1, <2>1, <2>2 DEF Steps!End, AttemptRow, Holding
    <2> QED
      BY <2>3 DEF Steps!Move
  <1>3. CASE \A x \in Coro : Holding(x) /\ job[x] = c => coro'[x] # "idle"
    <2>1. UNCHANGED <<AttemptRow(c), AttemptAt(c)>>
      BY <1>1, <1>3, AttemptFrame DEF Holding
    <2> QED
      BY <2>1
  <1> QED
    BY <1>2, <1>3

LEMMA StepFollows ==
  ASSUME IInv, [Next]_vars, NEW c \in Commit
  PROVE  Steps(c)!Move \/ UNCHANGED <<AttemptRow(c), AttemptAt(c)>>
  <1>t. TypeOK /\ IInv'
    BY StepIInv DEF IInv
  <1>1. CASE UNCHANGED <<status, coro, job>>
    BY <1>1, AttemptFrame DEF Holding
  <1>2. ASSUME NEW d \in Commit, Submit(d)
        PROVE  UNCHANGED <<AttemptRow(c), AttemptAt(c)>>
    <2>1. AttemptRow(c)' = AttemptRow(c)
      BY <1>2, <1>t DEF Submit, TypeOK, AttemptRow
    <2>2. Holders(c)' = Holders(c) /\ UNCHANGED coro
      BY <1>2 DEF Submit, workerVars, Holders, Holding
    <2> QED
      BY <2>1, <2>2 DEF AttemptAt
  <1>3. ASSUME NEW w \in Worker, Spawn(w)
        PROVE  UNCHANGED <<AttemptRow(c), AttemptAt(c)>>
    <2> DEFINE y == <<w, FreeTask(w)>>
    <2>1. y \in Coro /\ coro[y] = "idle"
      BY <1>3, <1>t, FreeTaskExists DEF IInv, TypeOK, Spawn, Coro
    <2>2. /\ UNCHANGED status /\ coro'[y] = "claim"
          /\ \A x \in Coro : x # y => coro'[x] = coro[x] /\ job'[x] = job[x]
      BY <1>3, <1>t, <2>1 DEF Spawn, TypeOK
    <2> HIDE DEF y
    <2> QED
      BY <2>1, <2>2, AttemptFrame DEF Holding
  <1>4. CASE Terminate \/ \E w \in Worker : Crash(w)
    BY <1>4, <1>t, DeathFollows
  <1>5. ASSUME NEW x \in Coro, RunCommit(x)
        PROVE  Steps(c)!Move \/ UNCHANGED <<AttemptRow(c), AttemptAt(c)>>
    BY <1>5, <1>t, RunCommitFollows
  <1> QED
    BY <1>1, <1>2, <1>3, <1>4, <1>5, StepKinds

\* The row of every commit goes through attempts as process_commit makes them,
\* whatever fails, for any number of commits, workers and slots: with
\* ProcessCommitImplementsAttempt, both sides of what Dispatch leaves of an
\* attempt are proved.
THEOREM DispatchFollowsAttempt == Spec => FollowsAttempt
  <1>1. Init => \A c \in Commit : Steps(c)!Init
    BY DEF Init, Steps!Init, AttemptRow, AttemptAt, Holders, Holding
  <1>2. IInv /\ [Next]_vars =>
          [\A c \in Commit : [Steps(c)!Move]_(Steps(c)!vars)]_vars
    BY StepFollows DEF Steps!vars
  <1> QED
    BY <1>1, <1>2, Invariance, PTL DEF Spec, FollowsAttempt
=============================================================================
