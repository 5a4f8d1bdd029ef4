---------------------------- MODULE FaultProofs ----------------------------
(***************************************************************************)
(* What Dispatch guarantees as long as some faults do not occur.  When     *)
(* every claim is left to its owner, rows in progress are held and a       *)
(* shutdown abandons nothing.  When answers are not lost, only the loss of *)
(* a worker leaves a commit behind.  When no entry of recently_enqueued    *)
(* expires, one copy of a commit at most is under way.                     *)
(***************************************************************************)
EXTENDS DispatchProofs

-----------------------------------------------------------------------------
(* Claims left to their owners: claims may fail, attempts be retried, entries *)
(* expire, and Ctrl-C come once, but nothing dies, no answer is lost, and no  *)
(* release fails or comes too late.                                           *)


Answered == Faults \cap {"unacked", "retry_late", "release"} = {}
Benign == Answered /\ Faults \cap {"fatal", "crash", "interrupt2"} = {}

Held(c) == \E x \in Coro : Holding(x) /\ job[x] = c

\* A coroutine only releases a row that release_commit matches.
ReleasesClaim == \A x \in Coro : coro[x] = "release" => status[job[x]] = "PROCESSING"
DoneMeansEnded == poller = "done" => \A w \in Worker : Ended(w)

\* The inductive invariant, beside IInv.
BInv ==
  /\ \A c \in Commit : status[c] \in InProgress => Held(c)
  /\ ReleasesClaim
  /\ DoneMeansEnded

-----------------------------------------------------------------------------
LEMMA InitBInv == Init => BInv
  BY DEF Init, BInv, InProgress, ReleasesClaim, DoneMeansEnded

\* Steps that leave the rows and the coroutines alone.
LEMMA ElsewhereStep ==
  ASSUME BInv, UNCHANGED <<status, coro, job>>, DoneMeansEnded'
  PROVE  BInv'
  BY DEF BInv, Held, Holding, ReleasesClaim

LEMMA SubmitKeeps ==
  ASSUME IInv, BInv, NEW c \in Commit, Submit(c)
  PROVE  BInv'
  <1>1. \A x \in Coro : coro[x] = "release" => job[x] \in Commit
    BY DEF IInv, TypeOK, Item
  <1> QED
    BY <1>1 DEF IInv, TypeOK, Submit, BInv, Held, Holding, InProgress, ReleasesClaim, DoneMeansEnded,
           parentVars, workerVars, Ended

LEMMA SpawnKeeps ==
  ASSUME IInv, BInv, NEW w \in Worker, Spawn(w)
  PROVE  BInv'
  <1> DEFINE y == <<w, FreeTask(w)>>
  <1>1. y \in Coro /\ coro[y] = "idle"
    BY FreeTaskExists DEF IInv, TypeOK, Spawn, Coro
  <1>2. \A x \in Coro : x # y => coro'[x] = coro[x] /\ job'[x] = job[x]
    BY DEF IInv, TypeOK, Spawn
  <1>3. coro'[y] = "claim" /\ UNCHANGED <<status, poller>>
    BY <1>1 DEF IInv, TypeOK, Spawn, parentVars
  <1>4. DoneMeansEnded'
    BY <1>3 DEF BInv, DoneMeansEnded, Spawn, Ended
  <1> HIDE DEF y
  <1>5. \A c \in Commit : Held(c) => Held(c)'
    BY <1>1, <1>2 DEF Held, Holding
  <1>6. ReleasesClaim'
    BY <1>2, <1>3 DEF BInv, ReleasesClaim
  <1> QED
    BY <1>3, <1>4, <1>5, <1>6 DEF BInv

LEMMA RunCommitKeeps ==
  ASSUME Answered, IInv, BInv, NEW x \in Coro, RunCommit(x), ~FailFatal(x)
  PROVE  BInv'
  <1>t. /\ TypeOK /\ RowFollows
        /\ coro[x] # "idle" => job[x] \in Commit
    BY DEF IInv, TypeOK, Item
  <1>d. DoneMeansEnded'
    BY DEF BInv, DoneMeansEnded, Ended, parentVars, RunCommit, ClaimWins, ClaimDrops,
           ClaimUnacked, StartTests, Settle, Finish, Fail, FailFatal, Release, ReleaseFails
  <1> USE DEF BInv, ReleasesClaim, TypeOK, SetCoro, Return, Held, Holding, InProgress
  <1>1. CASE ClaimWins(x)
    <2>1. /\ coro[x] = "claim" /\ coro' = [coro EXCEPT ![x] = "prepare"] /\ UNCHANGED job
          /\ status' = [status EXCEPT ![job[x]] = "PROCESSING"]
      BY <1>1 DEF ClaimWins, Claimable
    <2>2. \A c \in Commit : Held(c) => Held(c)'
      BY <1>t, <2>1
    <2>3. Held(job[x])'
      BY <1>t, <2>1
    <2>4. ReleasesClaim'
      BY <1>t, <2>1
    <2> QED BY <1>t, <1>d, <2>1, <2>2, <2>3, <2>4
  <1>2. CASE ClaimDrops(x)
    <2>1. /\ coro[x] = "claim" /\ coro' = [coro EXCEPT ![x] = "idle"]
          /\ job' = [job EXCEPT ![x] = None] /\ UNCHANGED status
      BY <1>2 DEF ClaimDrops
    <2>2. \A c \in Commit : Held(c) => Held(c)'
      BY <1>t, <2>1
    <2>3. ReleasesClaim'
      BY <1>t, <2>1
    <2> QED BY <1>d, <2>1, <2>2, <2>3
  <1>3. CASE StartTests(x)
    <2>1. /\ coro[x] = "prepare" /\ coro' = [coro EXCEPT ![x] = "tests"] /\ UNCHANGED job
          /\ status' = [status EXCEPT ![job[x]] = "RUNNING"]
      BY <1>3 DEF StartTests
    <2>2. \A c \in Commit : Held(c) => Held(c)'
      BY <1>t, <2>1
    <2>3. Held(job[x])'
      BY <1>t, <2>1
    <2>4. ReleasesClaim'
      BY <1>t, <2>1 DEF IInv, AtMostOneHolder
    <2> QED BY <1>t, <1>d, <2>1, <2>2, <2>3, <2>4
  <1>4. CASE Settle(x)
    <2>1. /\ coro[x] \in {"prepare", "tests"} /\ coro' = [coro EXCEPT ![x] = "store"]
          /\ UNCHANGED job /\ status' = [status EXCEPT ![job[x]] = "FINAL"]
      BY <1>4 DEF Settle
    <2>2. \A c \in Commit : Held(c) => Held(c)'
      BY <1>t, <2>1
    <2>3. ReleasesClaim'
      BY <1>t, <2>1 DEF IInv, AtMostOneHolder
    <2> QED BY <1>t, <1>d, <2>1, <2>2, <2>3
  <1>5. CASE Finish(x)
    <2>1. /\ coro[x] = "store" /\ coro' = [coro EXCEPT ![x] = "idle"]
          /\ job' = [job EXCEPT ![x] = None] /\ UNCHANGED status
      BY <1>5 DEF Finish
    <2>2. status[job[x]] = "FINAL"
      BY <1>t, <2>1 DEF RowFollows, RowFor
    <2>3. \A c \in Commit : c # job[x] /\ Held(c) => Held(c)'
      BY <1>t, <2>1
    <2>4. ReleasesClaim'
      BY <1>t, <2>1
    <2> QED BY <1>t, <1>d, <2>1, <2>2, <2>3, <2>4
  <1>6. CASE Fail(x)
    <2>1. /\ coro[x] = "prepare" /\ coro' = [coro EXCEPT ![x] = "release"]
          /\ UNCHANGED <<job, status>>
      BY <1>6 DEF Fail, Answered
    <2>2. status[job[x]] = "PROCESSING"
      BY <1>t, <2>1 DEF RowFollows, RowFor
    <2>3. \A c \in Commit : Held(c) => Held(c)'
      BY <1>t, <2>1
    <2>4. ReleasesClaim'
      BY <1>t, <2>1, <2>2
    <2> QED BY <1>t, <1>d, <2>1, <2>3, <2>4
  <1>7. CASE Release(x)
    <2>1. /\ coro[x] = "release" /\ coro' = [coro EXCEPT ![x] = "idle"]
          /\ job' = [job EXCEPT ![x] = None]
          /\ status' = [status EXCEPT ![job[x]] = "IN_QUEUE"]
      BY <1>7 DEF Release
    <2>2. \A c \in Commit : c # job[x] /\ Held(c) => Held(c)'
      BY <1>t, <2>1
    <2>3. ReleasesClaim'
      BY <1>t, <2>1 DEF IInv, AtMostOneHolder
    <2> QED BY <1>t, <1>d, <2>1, <2>2, <2>3
  <1>8. ~ClaimUnacked(x) /\ ~ReleaseFails(x)
    BY DEF Answered, ClaimUnacked, ReleaseFails
  <1> QED
    BY <1>1, <1>2, <1>3, <1>4, <1>5, <1>6, <1>7, <1>8 DEF RunCommit

\* The steps after which no worker has died or met a non-retryable error.
LEMMA UnharmedStep ==
  ASSUME Answered, IInv, BInv, [Next]_vars,
         ~Terminate, \A w \in Worker : ~Crash(w), \A x \in Coro : ~FailFatal(x)
  PROVE  BInv'
  <1>1. ASSUME NEW c \in Commit, Submit(c) PROVE BInv'
    BY <1>1, SubmitKeeps
  <1>2. ASSUME NEW w \in Worker, Spawn(w) PROVE BInv'
    BY <1>2, SpawnKeeps
  <1>3. ASSUME NEW x \in Coro, RunCommit(x) PROVE BInv'
    BY <1>3, RunCommitKeeps
  <1>4. CASE UNCHANGED vars
    BY <1>4, ElsewhereStep DEF vars, workerVars, parentVars, BInv, DoneMeansEnded, Ended
  <1>5. ASSUME NEW c \in Commit, Expire(c) PROVE BInv'
    BY <1>5, ElsewhereStep DEF Expire, workerVars, BInv, DoneMeansEnded, Ended
  <1>6. CASE Parent
    <2>1. DoneMeansEnded'
      BY <1>6 DEF Parent, Poll, Put, Hint, StartJoin, Join, LookAt, OrphanPut, workerVars,
                  BInv, DoneMeansEnded, Ended
    <2>2. UNCHANGED <<status, coro, job>>
      BY <1>6 DEF Parent, Poll, Put, Hint, StartJoin, Join, LookAt, OrphanPut, workerVars
    <2> QED BY <2>1, <2>2, ElsewhereStep
  <1>7. CASE CtrlC
    BY <1>7, ElsewhereStep DEF CtrlC, Interrupt, Escape, workerVars, BInv, DoneMeansEnded
  <1>8. ASSUME NEW w \in Worker, PullLoop(w), ~Spawn(w) PROVE BInv'
    <2>1. DoneMeansEnded'
      BY <1>8 DEF IInv, TypeOK, PullLoop, GetItem, GetEmpty, GetFails, SpawnFails, Drained,
                  parentVars, BInv, DoneMeansEnded, Ended
    <2>2. UNCHANGED <<status, coro, job>>
      BY <1>8 DEF PullLoop, GetItem, GetEmpty, GetFails, SpawnFails, Drained
    <2> QED BY <2>1, <2>2, ElsewhereStep
  <1> QED
    BY <1>1, <1>2, <1>3, <1>4, <1>5, <1>6, <1>7, <1>8 DEF Next

LEMMA StepBInv ==
  ASSUME Benign, IInv, BInv, [Next]_vars
  PROVE  BInv'
  <1>1. ~Terminate /\ \A w \in Worker : ~Crash(w)
    BY DEF Benign, Terminate, Crash
  <1>2. \A x \in Coro : ~FailFatal(x)
    BY DEF Benign, FailFatal
  <1> QED
    BY <1>1, <1>2, UnharmedStep DEF Benign

THEOREM BenignInvariance == ASSUME Benign PROVE Spec => [](IInv /\ BInv)
  <1>1. IInv /\ BInv /\ [Next]_vars => BInv'
    BY StepBInv
  <1> QED
    BY <1>1, InitBInv, Invariance, PTL DEF Spec

\* As long as claims are left to their owners, a row that says a commit is being
\* processed is not lying, for any number of commits, workers and slots.
THEOREM ClaimsAreHeld == ASSUME Benign PROVE Spec => []InProgressIsHeld
  <1>1. BInv => InProgressIsHeld
    BY DEF BInv, Held, InProgressIsHeld, Holders
  <1> QED
    BY <1>1, BenignInvariance, PTL

\* When the parent exits after one Ctrl-C, no commit was abandoned half-way.
THEOREM ShutdownIsClean == ASSUME Benign PROVE Spec => []CleanShutdown
  <1>1. ASSUME IInv, BInv, poller = "done", NEW c \in Commit
        PROVE  status[c] \notin InProgress
    <2> SUFFICES ASSUME status[c] \in InProgress PROVE FALSE
      OBVIOUS
    <2>1. PICK x \in Coro : Holding(x)
      BY <1>1 DEF BInv, Held
    <2>2. ~Ended(x[1]) /\ x[1] \in Worker
      BY <1>1, <2>1 DEF IInv, TypeOK, Holding, Coro
    <2> QED BY <1>1, <2>2 DEF BInv, DoneMeansEnded
  <1>2. IInv /\ BInv => CleanShutdown
    BY <1>1 DEF CleanShutdown
  <1> QED
    BY <1>2, BenignInvariance, PTL

-----------------------------------------------------------------------------
(* Answers are not lost and releases come in time, but workers may be killed,  *)
(* hit non-retryable errors, and Ctrl-C come twice.                            *)

Lost(w) == worker[w] \in {"dead", "jammed"} \/ fatal[w]

\* What happened to a worker is not undone.
LEMMA LostStays ==
  ASSUME IInv, NEW v \in Worker, Lost(v), [Next]_vars
  PROVE  Lost(v)'
  <1>t. worker \in [Worker -> WorkerState] /\ fatal \in [Worker -> BOOLEAN]
    BY DEF IInv, TypeOK
  <1> USE DEF Lost
  <1>1. ASSUME NEW w \in Worker, PullLoop(w) PROVE Lost(v)'
    <2>1. UNCHANGED fatal /\ \E s : worker' = [worker EXCEPT ![w] = s]
      BY <1>1 DEF PullLoop, GetItem, GetEmpty, GetFails, Spawn, SpawnFails, Drained
    <2>2. worker[w] \in {"get", "acquire", "drain"}
      BY <1>1 DEF PullLoop, GetItem, GetEmpty, GetFails, Spawn, SpawnFails, Drained
    <2> QED BY <1>t, <2>1, <2>2
  <1>2. ASSUME NEW w \in Worker, Crash(w) PROVE Lost(v)'
    BY <1>2, <1>t DEF Crash, Ended
  <1>3. ASSUME NEW x \in Coro, RunCommit(x) PROVE Lost(v)'
    <2>1. CASE FailFatal(x)
      BY <1>t, <2>1 DEF FailFatal
    <2>2. CASE ~FailFatal(x)
      BY <1>3, <2>2 DEF RunCommit, ClaimWins, ClaimDrops, ClaimUnacked, StartTests, Settle, Finish,
                        Fail, Release, ReleaseFails
    <2> QED BY <2>1, <2>2
  <1>4. CASE CtrlC
    BY <1>4, <1>t DEF CtrlC, Interrupt, Terminate, Escape, workerVars, Ended
  <1>5. CASE Parent
    BY <1>5 DEF Parent, Poll, Put, Hint, StartJoin, Join, LookAt, OrphanPut, workerVars
  <1>6. ASSUME NEW c \in Commit, Submit(c) \/ Expire(c) PROVE Lost(v)'
    BY <1>6 DEF Submit, Expire, workerVars
  <1>7. CASE UNCHANGED vars
    BY <1>7 DEF vars, workerVars
  <1> QED
    BY <1>1, <1>2, <1>3, <1>4, <1>5, <1>6, <1>7 DEF Next

\* A step by which a worker is lost, or by which there is none left to be lost.
LEMMA HarmfulStep ==
  ASSUME IInv, BInv,
         \/ Terminate
         \/ \E w \in Worker : Crash(w)
         \/ \E x \in Coro : FailFatal(x)
  PROVE  BInv' \/ \E v \in Worker : Lost(v)'
  <1>t. TypeOK
    BY DEF IInv
  <1>1. CASE Terminate
    <2>1. ASSUME NEW v \in Worker, ~Ended(v) PROVE Lost(v)'
      BY <1>1, <2>1, <1>t DEF Terminate, TypeOK, Lost
    <2>2. CASE \A v \in Worker : Ended(v)
      <3>1. \A x \in Coro : coro[x] = "idle"
        BY <1>t, <2>2 DEF TypeOK, Coro
      <3>2. \A c \in Commit : ~Held(c)
        BY <3>1 DEF Held, Holding
      <3> QED
        BY <1>1, <3>2 DEF Terminate, BInv, ReleasesClaim, DoneMeansEnded
    <2> QED BY <2>1, <2>2
  <1>2. ASSUME NEW w \in Worker, Crash(w) PROVE Lost(w)'
    BY <1>2, <1>t DEF Crash, TypeOK, Lost
  <1>3. ASSUME NEW x \in Coro, FailFatal(x) PROVE Lost(x[1])' /\ x[1] \in Worker
    BY <1>3, <1>t DEF FailFatal, TypeOK, Lost, Coro
  <1> QED
    BY <1>1, <1>2, <1>3

\* A commit is left half-way only by a worker that was lost: until then the
\* invariant of the benign instances holds.
THEOREM OnlyLossStrands == ASSUME Answered PROVE Spec => []StrandedByLoss
  <1> DEFINE LInv == BInv \/ \E w \in Worker : Lost(w)
  <1>1. Init => LInv
    BY InitBInv
  <1>2. ASSUME IInv, LInv, [Next]_vars PROVE LInv'
    <2>1. CASE \E w \in Worker : Lost(w)
      BY <1>2, <2>1, LostStays
    <2>2. CASE BInv
      BY <1>2, <2>2, UnharmedStep, HarmfulStep
    <2> QED BY <1>2, <2>1, <2>2
  <1>3. LInv => StrandedByLoss
    BY DEF StrandedByLoss, Stranded, Holders, BInv, Held, Lost
  <1> QED
    BY <1>1, <1>2, <1>3, Invariance, PTL DEF Spec

-----------------------------------------------------------------------------
(* No entry expires, whatever else fails. *)


\* The places a copy of a commit can be in, besides orphans.
Listed(c) == \E i \in DOMAIN queue : queue[i] = c
Pulled(c) == \E w \in Worker : pulled[w] = c
Claiming(x, c) == coro[x] = "claim" /\ job[x] = c
Claimed(c) == \E x \in Coro : Claiming(x, c)
Underway(c) == Listed(c) \/ Pulled(c) \/ Claimed(c) \/ c \in orphans

\* There is one copy at most, said without counting.
OncePerPlace(c) ==
  /\ \A i, j \in DOMAIN queue : queue[i] = c /\ queue[j] = c => i = j
  /\ \A v, w \in Worker : pulled[v] = c /\ pulled[w] = c => v = w
  /\ \A x, y \in Coro : Claiming(x, c) /\ Claiming(y, c) => x = y
OnePlace(c) ==
  /\ Listed(c) => ~Pulled(c) /\ ~Claimed(c) /\ c \notin orphans
  /\ Pulled(c) => ~Claimed(c) /\ c \notin orphans
  /\ Claimed(c) => c \notin orphans

Polling == poller \in {"poll", "put"}

\* The inductive invariant, beside IInv: a copy under way belongs to a commit
\* that waits, and while the parent polls its entry is there.
Singles == \A c \in Commit : OncePerPlace(c) /\ OnePlace(c)
CopyWaits == \A c \in Commit : Underway(c) => status[c] = "IN_QUEUE"
CopyRecorded == Polling => \A c \in Commit : Underway(c) => c \in recent
BatchIsNew == \A c \in batch : c \notin recent /\ status[c] = "IN_QUEUE"
CInv == Singles /\ CopyWaits /\ CopyRecorded /\ BatchIsNew
-----------------------------------------------------------------------------
(* What the steps have in common *)

LEMMA InitCInv == Init => CInv
  BY NoneAssumption DEF Init, CInv, Singles, OncePerPlace, OnePlace, CopyWaits, CopyRecorded,
     BatchIsNew, Underway, Listed, Pulled, Claimed, Claiming

\* A step that makes no copy keeps them single.
LEMMA NoNewCopy ==
  ASSUME Singles, UNCHANGED queue,
         \A w \in Worker, c \in Commit : pulled'[w] = c => pulled[w] = c,
         \A x \in Coro, c \in Commit : Claiming(x, c)' => Claiming(x, c),
         \A c \in Commit : c \in orphans' => c \in orphans
  PROVE  Singles' /\ \A c \in Commit : Underway(c)' => Underway(c)
  <1>1. \A c \in Commit : /\ Listed(c)' <=> Listed(c)
                          /\ Pulled(c)' => Pulled(c)
                          /\ Claimed(c)' => Claimed(c)
    BY DEF Listed, Pulled, Claimed
  <1>2. \A c \in Commit : OncePerPlace(c)'
    BY DEF Singles, OncePerPlace
  <1>3. \A c \in Commit : OnePlace(c)'
    BY <1>1 DEF Singles, OnePlace
  <1> QED
    BY <1>1, <1>2, <1>3 DEF Singles, Underway

\* A step that leaves the poller's cycle alone and takes no row out of the
\* queue that still has a copy or is about to get one.
LEMMA RestFollows ==
  ASSUME CInv, Singles', UNCHANGED <<recent, batch>>, Polling' => Polling,
         batch \subseteq Commit,
         \A c \in Commit : Underway(c)' => Underway(c),
         \A c \in Commit : status[c] = "IN_QUEUE" /\ (Underway(c)' \/ c \in batch)
                             => status'[c] = "IN_QUEUE"
  PROVE  CInv'
  <1>1. CopyWaits'
    BY DEF CInv, CopyWaits
  <1>2. CopyRecorded'
    BY DEF CInv, CopyRecorded
  <1>3. BatchIsNew'
    BY DEF CInv, BatchIsNew
  <1> QED
    BY <1>1, <1>2, <1>3 DEF CInv

\* A step that also leaves the rows alone.
LEMMA CopiesOnly ==
  ASSUME CInv, Singles', UNCHANGED <<status, recent, batch>>, Polling' => Polling,
         batch \subseteq Commit,
         \A c \in Commit : Underway(c)' => Underway(c)
  PROVE  CInv'
  BY RestFollows

\* A step that leaves every copy where it is.
LEMMA CopiesStay ==
  ASSUME Singles, UNCHANGED <<queue, pulled, coro, job, orphans>>
  PROVE  Singles' /\ \A c \in Commit : Underway(c)' <=> Underway(c)
  <1>1. \A c \in Commit : /\ Listed(c)' <=> Listed(c)
                          /\ Pulled(c)' <=> Pulled(c)
                          /\ Claimed(c)' <=> Claimed(c)
    BY DEF Listed, Pulled, Claimed, Claiming
  <1>2. \A c \in Commit : OncePerPlace(c)'
    BY DEF Singles, OncePerPlace, Claiming
  <1>3. \A c \in Commit : OnePlace(c)'
    BY <1>1 DEF Singles, OnePlace
  <1> QED
    BY <1>1, <1>2, <1>3 DEF Singles, Underway

-----------------------------------------------------------------------------
(* The parent *)

\* Appending an item: a copy of that item, and of no other, joins the queue.
LEMMA Appended ==
  ASSUME TypeOK, NEW i \in Item, queue' = Append(queue, i)
  PROVE  /\ \A c \in Commit : Listed(c)' <=> Listed(c) \/ c = i
         /\ \A c \in Commit : (c = i => ~Listed(c)) =>
              ((\A j, k \in DOMAIN queue : queue[j] = c /\ queue[k] = c => j = k)
                 => (\A j, k \in DOMAIN queue' : queue'[j] = c /\ queue'[k] = c => j = k))
  <1>1. queue \in Seq(Item)
    BY DEF TypeOK
  <1>2. /\ DOMAIN queue' = 1..(Len(queue) + 1) /\ DOMAIN queue = 1..Len(queue)
        /\ Len(queue) \in Nat
        /\ queue'[Len(queue) + 1] = i
        /\ \A j \in 1..Len(queue) : queue'[j] = queue[j]
    BY <1>1
  <1> HIDE DEF Listed
  <1>3. \A j \in DOMAIN queue' : j \in DOMAIN queue \/ j = Len(queue) + 1
    BY <1>2
  <1>4. DOMAIN queue \subseteq DOMAIN queue' /\ Len(queue) + 1 \in DOMAIN queue'
    BY <1>2
  <1>5. \A c \in Commit : Listed(c)' <=> Listed(c) \/ c = i
    BY <1>2, <1>3, <1>4 DEF Listed
  <1>6. ASSUME NEW c \in Commit, c = i => ~Listed(c),
               \A j, k \in DOMAIN queue : queue[j] = c /\ queue[k] = c => j = k,
               NEW j \in DOMAIN queue', NEW k \in DOMAIN queue',
               queue'[j] = c, queue'[k] = c
        PROVE  j = k
    <2>1. CASE c = i
      BY <1>2, <1>3, <1>6, <2>1 DEF Listed
    <2>2. CASE c # i
      BY <1>2, <1>3, <1>6, <2>2
    <2> QED BY <2>1, <2>2
  <1> QED
    BY <1>5, <1>6

LEMMA PutSingle ==
  ASSUME IInv, CInv, Put
  PROVE  CInv'
  <1>1. PICK c \in batch : /\ queue' = Append(queue, c)
                           /\ recent' = recent \cup {c}
                           /\ batch' = batch \ {c}
    BY DEF Put, Earliest
  <1>2. /\ TypeOK /\ c \in Commit /\ c \in Item /\ Polling /\ batch \subseteq Commit
        /\ UNCHANGED <<status, orphans, pulled, coro, job>>
    BY <1>1 DEF IInv, TypeOK, Put, workerVars, Polling, Item
  <1>3. ~Underway(c) /\ status[c] = "IN_QUEUE"
    BY <1>1, <1>2 DEF CInv, BatchIsNew, CopyRecorded
  <1>4. \A d \in Commit : /\ Listed(d)' <=> Listed(d) \/ d = c
                          /\ Pulled(d)' <=> Pulled(d)
                          /\ Claimed(d)' <=> Claimed(d)
    BY <1>1, <1>2, Appended DEF Pulled, Claimed, Claiming
  <1>5. \A d \in Commit : OncePerPlace(d)'
    <2> SUFFICES ASSUME NEW d \in Commit PROVE OncePerPlace(d)'
      OBVIOUS
    <2>1. OncePerPlace(d) /\ (d = c => ~Listed(d))
      BY <1>3 DEF CInv, Singles, Underway
    <2>2. \A j, k \in DOMAIN queue' : queue'[j] = d /\ queue'[k] = d => j = k
      BY <1>1, <1>2, <2>1, Appended DEF OncePerPlace
    <2> QED BY <1>2, <2>1, <2>2 DEF OncePerPlace, Claiming
  <1>6. \A d \in Commit : OnePlace(d)'
    BY <1>2, <1>3, <1>4 DEF CInv, Singles, OnePlace, Underway
  <1>7. \A d \in Commit : Underway(d)' => Underway(d) \/ d = c
    BY <1>2, <1>4 DEF Underway
  <1> QED
    BY <1>1, <1>2, <1>3, <1>5, <1>6, <1>7 DEF CInv, Singles, CopyWaits, CopyRecorded, BatchIsNew

\* A surviving put() only moves a copy.
LEMMA OrphanPutSingle ==
  ASSUME IInv, CInv, NEW i \in Item, OrphanPut(i)
  PROVE  CInv'
  <1>1. /\ TypeOK /\ batch \subseteq Commit /\ i \in orphans
        /\ queue' = Append(queue, i) /\ orphans' = orphans \ {i}
        /\ UNCHANGED <<status, recent, batch, poller, pulled, coro, job>>
    BY DEF IInv, TypeOK, OrphanPut, workerVars
  <1>2. \A d \in Commit : /\ Listed(d)' <=> Listed(d) \/ d = i
                          /\ Pulled(d)' <=> Pulled(d)
                          /\ Claimed(d)' <=> Claimed(d)
    BY <1>1, Appended DEF Pulled, Claimed, Claiming
  <1>3. \A d \in Commit : OncePerPlace(d)'
    <2> SUFFICES ASSUME NEW d \in Commit PROVE OncePerPlace(d)'
      OBVIOUS
    <2>1. OncePerPlace(d) /\ (d = i => ~Listed(d))
      BY <1>1 DEF CInv, Singles, OnePlace
    <2>2. \A j, k \in DOMAIN queue' : queue'[j] = d /\ queue'[k] = d => j = k
      BY <1>1, <2>1, Appended DEF OncePerPlace
    <2> QED BY <1>1, <2>1, <2>2 DEF OncePerPlace, Claiming
  <1>4. \A d \in Commit : OnePlace(d)'
    BY <1>1, <1>2 DEF CInv, Singles, OnePlace
  <1>5. \A d \in Commit : Underway(d)' => Underway(d)
    BY <1>1, <1>2 DEF Underway
  <1>6. Singles'
    BY <1>3, <1>4 DEF Singles
  <1> QED
    BY <1>1, <1>5, <1>6, CopiesOnly DEF Polling

\* A hint is no copy of a commit.
LEMMA HintSingle ==
  ASSUME IInv, CInv, Hint
  PROVE  CInv'
  <1>1. /\ TypeOK /\ batch \subseteq Commit /\ None \in Item
        /\ queue' = Append(queue, None) /\ ~Polling'
        /\ UNCHANGED <<status, recent, batch, orphans, pulled, coro, job>>
    BY DEF IInv, TypeOK, Hint, workerVars, Item, Polling
  <1>2. \A d \in Commit : d # None
    BY NoneAssumption
  <1>3. \A d \in Commit : /\ Listed(d)' <=> Listed(d)
                          /\ Pulled(d)' <=> Pulled(d)
                          /\ Claimed(d)' <=> Claimed(d)
    BY <1>1, <1>2, Appended DEF Pulled, Claimed, Claiming
  <1>4. \A d \in Commit : OncePerPlace(d)'
    <2> SUFFICES ASSUME NEW d \in Commit PROVE OncePerPlace(d)'
      OBVIOUS
    <2>1. OncePerPlace(d)
      BY DEF CInv, Singles
    <2>2. \A j, k \in DOMAIN queue' : queue'[j] = d /\ queue'[k] = d => j = k
      BY <1>1, <1>2, <2>1, Appended DEF OncePerPlace
    <2> QED BY <1>1, <2>1, <2>2 DEF OncePerPlace, Claiming
  <1>5. \A d \in Commit : OnePlace(d)'
    BY <1>1, <1>3 DEF CInv, Singles, OnePlace
  <1>6. \A d \in Commit : Underway(d)' => Underway(d)
    BY <1>1, <1>3 DEF Underway
  <1>7. Singles'
    BY <1>4, <1>5 DEF Singles
  <1> QED
    BY <1>1, <1>6, <1>7, CopiesOnly

LEMMA PollSingle ==
  ASSUME IInv, CInv, Poll
  PROVE  CInv'
  <1>1. /\ UNCHANGED <<status, queue, pulled, coro, job, orphans>>
        /\ recent' = recent \cap InQueue /\ batch' = InQueue \ recent' /\ Polling
    BY DEF Poll, Pruned, workerVars, Polling
  <1>2. Singles' /\ \A c \in Commit : Underway(c)' <=> Underway(c)
    BY <1>1, CopiesStay DEF CInv
  <1>3. CopyWaits'
    BY <1>1, <1>2 DEF CInv, CopyWaits
  <1>4. CopyRecorded'
    BY <1>1, <1>2 DEF CInv, CopyWaits, CopyRecorded, InQueue
  <1>5. BatchIsNew'
    BY <1>1 DEF BatchIsNew, InQueue
  <1> QED
    BY <1>2, <1>3, <1>4, <1>5 DEF CInv

\* The cancelled put() may survive: its commit was in the batch, so it is the
\* only copy.
LEMMA InterruptSingle ==
  ASSUME IInv, CInv, Interrupt
  PROVE  CInv'
  <1>1. PICK surviving \in SUBSET batch : orphans' = orphans \cup surviving
    BY DEF Interrupt, Earliest
  <1>2. /\ batch' = {} /\ Polling /\ ~Polling' /\ batch \subseteq Commit
        /\ UNCHANGED <<status, queue, pulled, coro, job>>
    BY DEF IInv, TypeOK, Interrupt, workerVars, Polling
  <1>3. \A c \in surviving : ~Underway(c) /\ status[c] = "IN_QUEUE"
    BY <1>1, <1>2 DEF CInv, BatchIsNew, CopyRecorded
  <1>4. \A d \in Commit : /\ Listed(d)' <=> Listed(d)
                          /\ Pulled(d)' <=> Pulled(d)
                          /\ Claimed(d)' <=> Claimed(d)
    BY <1>2 DEF Listed, Pulled, Claimed, Claiming
  <1>5. \A d \in Commit : OncePerPlace(d)'
    BY <1>2 DEF CInv, Singles, OncePerPlace, Claiming
  <1>6. \A d \in Commit : OnePlace(d)'
    BY <1>1, <1>3, <1>4 DEF CInv, Singles, OnePlace, Underway
  <1>7. \A d \in Commit : Underway(d)' => Underway(d) \/ d \in surviving
    BY <1>1, <1>4 DEF Underway
  <1> QED
    BY <1>2, <1>3, <1>5, <1>6, <1>7 DEF CInv, Singles, CopyWaits, CopyRecorded, BatchIsNew

LEMMA TerminateSingle ==
  ASSUME IInv, CInv, Terminate
  PROVE  CInv'
  <1>1. /\ UNCHANGED <<status, recent, batch, queue, orphans>>
        /\ ~Polling' /\ batch \subseteq Commit
    BY DEF IInv, TypeOK, Terminate, Polling
  <1>2. \A w \in Worker, c \in Commit : pulled'[w] # c
    BY NoneAssumption DEF Terminate
  <1>3. \A x \in Coro : coro'[x] # "claim"
    BY DEF Terminate
  <1>4. Singles' /\ \A c \in Commit : Underway(c)' => Underway(c)
    BY <1>1, <1>2, <1>3, NoNewCopy DEF CInv, Claiming
  <1> QED
    BY <1>1, <1>4, CopiesOnly

LEMMA EscapeSingle ==
  ASSUME IInv, CInv, Escape
  PROVE  CInv'
  <1>1. /\ UNCHANGED <<status, recent, batch, queue, pulled, coro, job>>
        /\ ~Polling' /\ batch \subseteq Commit /\ orphans' = orphans \cup {None}
    BY DEF IInv, TypeOK, Escape, workerVars, Polling
  <1>2. Singles' /\ \A c \in Commit : Underway(c)' => Underway(c)
    BY <1>1, NoNewCopy, NoneAssumption DEF CInv, Claiming
  <1> QED
    BY <1>1, <1>2, CopiesOnly

-----------------------------------------------------------------------------
(* The workers *)

\* get() moves the copy at the head of the queue to the worker.
LEMMA GetItemSingle ==
  ASSUME IInv, CInv, NEW w \in Worker, GetItem(w)
  PROVE  CInv'
  <1>1. /\ TypeOK /\ batch \subseteq Commit /\ worker[w] = "get"
        /\ queue \in Seq(Item) /\ queue # <<>> /\ queue' = Tail(queue)
        /\ UNCHANGED <<status, recent, batch, poller, orphans, coro, job>>
    BY DEF IInv, TypeOK, GetItem, parentVars
  <1>2. /\ DOMAIN queue = 1..Len(queue) /\ Len(queue) \in Nat \ {0}
        /\ DOMAIN queue' = 1..(Len(queue) - 1) /\ 1 \in DOMAIN queue
        /\ Head(queue) = queue[1]
        /\ \A j \in DOMAIN queue' : j + 1 \in DOMAIN queue /\ queue'[j] = queue[j + 1]
        /\ \A j \in DOMAIN queue : j # 1 => j - 1 \in DOMAIN queue'
    BY <1>1
  <1>3. \A v \in Worker, c \in Commit :
          pulled'[v] = c <=> pulled[v] = c \/ (v = w /\ Head(queue) = c)
    <2>1. pulled[w] = None /\ pulled \in [Worker -> Item]
      BY <1>1 DEF TypeOK
    <2>2. CASE Head(queue) = None
      BY <2>1, <2>2, NoneAssumption DEF GetItem
    <2>3. CASE Head(queue) # None
      BY <2>1, <2>3, NoneAssumption DEF GetItem
    <2> QED BY <2>2, <2>3
  <1>4. \A c \in Commit : /\ OncePerPlace(c) /\ OnePlace(c)
                          /\ Head(queue) = c => Listed(c)
    BY <1>2 DEF CInv, Singles, Listed
  <1>5. \A c \in Commit : /\ Listed(c)' => Listed(c) /\ Head(queue) # c
                          /\ Pulled(c)' <=> Pulled(c) \/ Head(queue) = c
                          /\ Claimed(c)' <=> Claimed(c)
    <2>1. \A c \in Commit : Listed(c)' => Listed(c) /\ Head(queue) # c
      <3> SUFFICES ASSUME NEW c \in Commit, NEW j \in DOMAIN queue', queue'[j] = c
                   PROVE  Listed(c) /\ Head(queue) # c
        BY DEF Listed
      <3>1. j + 1 \in DOMAIN queue /\ queue[j + 1] = c /\ j + 1 # 1
        BY <1>2
      <3> QED BY <1>2, <1>4, <3>1 DEF Listed, OncePerPlace
    <2>2. \A c \in Commit : Pulled(c)' <=> Pulled(c) \/ Head(queue) = c
      BY <1>3 DEF Pulled
    <2> QED BY <1>1, <2>1, <2>2 DEF Claimed, Claiming
  <1>6. \A c \in Commit : OncePerPlace(c)'
    <2> SUFFICES ASSUME NEW c \in Commit PROVE OncePerPlace(c)'
      OBVIOUS
    <2>1. \A j, k \in DOMAIN queue' : queue'[j] = c /\ queue'[k] = c => j = k
      <3> SUFFICES ASSUME NEW j \in DOMAIN queue', NEW k \in DOMAIN queue',
                          queue'[j] = c, queue'[k] = c
                   PROVE  j = k
        OBVIOUS
      <3>1. j + 1 = k + 1
        BY <1>2, <1>4 DEF OncePerPlace
      <3> QED BY <1>2, <3>1
    <2>2. \A u, v \in Worker : pulled'[u] = c /\ pulled'[v] = c => u = v
      BY <1>3, <1>4 DEF OncePerPlace, OnePlace, Pulled
    <2> QED BY <1>1, <1>4, <2>1, <2>2 DEF OncePerPlace, Claiming
  <1>7. \A c \in Commit : OnePlace(c)'
    BY <1>1, <1>4, <1>5 DEF OnePlace
  <1>8. \A c \in Commit : Underway(c)' => Underway(c)
    BY <1>1, <1>4, <1>5 DEF Underway
  <1>9. Singles'
    BY <1>6, <1>7 DEF Singles
  <1> QED
    BY <1>1, <1>8, <1>9, CopiesOnly DEF Polling

\* The copy a worker pulled becomes its coroutine's.
LEMMA SpawnSingle ==
  ASSUME IInv, CInv, NEW w \in Worker, Spawn(w)
  PROVE  CInv'
  <1> DEFINE y == <<w, FreeTask(w)>>
  <1>1. /\ TypeOK /\ batch \subseteq Commit
        /\ UNCHANGED <<status, recent, batch, poller, orphans, queue>>
    BY DEF IInv, TypeOK, Spawn, parentVars
  <1>2. y \in Coro /\ coro[y] = "idle" /\ pulled[w] # None
    BY FreeTaskExists DEF IInv, TypeOK, Spawn, Coro
  <1>3. /\ coro' = [coro EXCEPT ![y] = "claim"] /\ job' = [job EXCEPT ![y] = pulled[w]]
        /\ pulled' = [pulled EXCEPT ![w] = None]
        /\ coro \in [Coro -> CoroState] /\ job \in [Coro -> Item]
        /\ pulled \in [Worker -> Item]
    BY <1>1 DEF Spawn, TypeOK
  <1> HIDE DEF y
  <1>4. \A v \in Worker, c \in Commit : pulled'[v] = c <=> pulled[v] = c /\ v # w
    BY <1>3, NoneAssumption
  <1>5. \A x \in Coro, c \in Commit :
          Claiming(x, c)' <=> Claiming(x, c) \/ (x = y /\ pulled[w] = c)
    BY <1>2, <1>3 DEF Claiming
  <1>6. \A c \in Commit : /\ OncePerPlace(c) /\ OnePlace(c)
                          /\ pulled[w] = c => Pulled(c)
    BY DEF CInv, Singles, Pulled
  <1>7. \A c \in Commit : /\ Listed(c)' <=> Listed(c)
                          /\ Pulled(c)' => Pulled(c) /\ pulled[w] # c
                          /\ Claimed(c)' <=> Claimed(c) \/ pulled[w] = c
    <2>1. \A c \in Commit : Pulled(c)' => Pulled(c) /\ pulled[w] # c
      BY <1>4, <1>6 DEF Pulled, OncePerPlace
    <2>2. \A c \in Commit : Claimed(c)' <=> Claimed(c) \/ pulled[w] = c
      BY <1>2, <1>5 DEF Claimed
    <2> QED BY <1>1, <2>1, <2>2 DEF Listed
  <1>8. \A c \in Commit : OncePerPlace(c)'
    <2> SUFFICES ASSUME NEW c \in Commit PROVE OncePerPlace(c)'
      OBVIOUS
    <2>1. \A u, v \in Worker : pulled'[u] = c /\ pulled'[v] = c => u = v
      BY <1>4, <1>6 DEF OncePerPlace
    <2>2. \A x, z \in Coro : Claiming(x, c)' /\ Claiming(z, c)' => x = z
      BY <1>5, <1>6 DEF OncePerPlace, OnePlace, Claimed
    <2> QED BY <1>1, <1>6, <2>1, <2>2 DEF OncePerPlace
  <1>9. \A c \in Commit : OnePlace(c)'
    BY <1>1, <1>6, <1>7 DEF OnePlace
  <1>10. \A c \in Commit : Underway(c)' => Underway(c)
    BY <1>1, <1>6, <1>7 DEF Underway
  <1>11. Singles'
    BY <1>8, <1>9 DEF Singles
  <1> QED
    BY <1>1, <1>10, <1>11, CopiesOnly DEF Polling

\* get() loses the item at the head of the queue.
LEMMA DroppedSingle ==
  ASSUME IInv, CInv, NEW w \in Worker, GetFails(w), queue # <<>>, queue' = Tail(queue)
  PROVE  CInv'
  <1>1. /\ queue \in Seq(Item) /\ batch \subseteq Commit
        /\ UNCHANGED <<status, recent, batch, poller, orphans, pulled, coro, job>>
    BY DEF IInv, TypeOK, GetFails, parentVars
  <1>2. /\ DOMAIN queue = 1..Len(queue) /\ Len(queue) \in Nat \ {0}
        /\ DOMAIN queue' = 1..(Len(queue) - 1)
        /\ \A j \in DOMAIN queue' : j + 1 \in DOMAIN queue /\ queue'[j] = queue[j + 1]
    BY <1>1
  <1>3. \A c \in Commit : OncePerPlace(c) /\ OnePlace(c)
    BY DEF CInv, Singles
  <1>4. \A c \in Commit : /\ Listed(c)' => Listed(c)
                          /\ Pulled(c)' <=> Pulled(c)
                          /\ Claimed(c)' <=> Claimed(c)
    BY <1>1, <1>2 DEF Listed, Pulled, Claimed, Claiming
  <1>5. \A c \in Commit : OncePerPlace(c)'
    <2> SUFFICES ASSUME NEW c \in Commit PROVE OncePerPlace(c)'
      OBVIOUS
    <2>1. ASSUME NEW j \in DOMAIN queue', NEW k \in DOMAIN queue', queue'[j] = c, queue'[k] = c
          PROVE  j = k
      <3>1. j + 1 = k + 1
        BY <1>2, <1>3, <2>1 DEF OncePerPlace
      <3> QED BY <1>2, <3>1
    <2> QED BY <1>1, <1>3, <2>1 DEF OncePerPlace, Claiming
  <1>6. Singles' /\ \A c \in Commit : Underway(c)' => Underway(c)
    BY <1>1, <1>3, <1>4, <1>5 DEF Singles, OnePlace, Underway
  <1> QED
    BY <1>1, <1>6, CopiesOnly DEF Polling

\* The other steps of the loop, and the death of a worker, move no copy or drop it.
LEMMA LoopSingle ==
  ASSUME IInv, CInv, NEW w \in Worker,
         GetEmpty(w) \/ GetFails(w) \/ SpawnFails(w) \/ Drained(w) \/ Crash(w)
  PROVE  CInv'
  <1> SUFFICES ASSUME ~(GetFails(w) /\ queue # <<>> /\ queue' = Tail(queue)) PROVE CInv'
    BY DroppedSingle
  <1>1. /\ UNCHANGED <<status, recent, batch, poller, queue, orphans>>
        /\ batch \subseteq Commit
    BY DEF IInv, TypeOK, GetEmpty, GetFails, SpawnFails, Drained, Crash, parentVars
  <1>2. \A v \in Worker, c \in Commit : pulled'[v] = c => pulled[v] = c
    <2>1. pulled \in [Worker -> Item]
      BY DEF IInv, TypeOK
    <2>2. pulled' = pulled \/ pulled' = [pulled EXCEPT ![w] = None]
      BY DEF GetEmpty, GetFails, SpawnFails, Drained, Crash
    <2> QED BY <2>1, <2>2, NoneAssumption
  <1>3. \A x \in Coro, c \in Commit : Claiming(x, c)' => Claiming(x, c)
    BY DEF GetEmpty, GetFails, SpawnFails, Drained, Crash, Claiming
  <1>4. Singles' /\ \A c \in Commit : Underway(c)' => Underway(c)
    BY <1>1, <1>2, <1>3, NoNewCopy DEF CInv
  <1> QED
    BY <1>1, <1>4, CopiesOnly DEF Polling

\* A coroutine only takes a row out of the queue by using up the one copy of its
\* commit, and no other write meets a row that waits.
LEMMA RunCommitSingle ==
  ASSUME IInv, CInv, NEW x \in Coro, RunCommit(x)
  PROVE  CInv'
  <1>1. /\ TypeOK /\ UNCHANGED <<recent, batch, poller, queue, orphans, pulled>>
        /\ batch \subseteq Commit
    BY DEF IInv, TypeOK, RunCommit, ClaimWins, ClaimDrops, ClaimUnacked, StartTests, Settle,
           Finish, Fail, FailFatal, Release, ReleaseFails, parentVars
  <1>2. \A y \in Coro : y # x => coro'[y] = coro[y] /\ job'[y] = job[y]
    BY <1>1 DEF TypeOK, RunCommit, ClaimWins, ClaimDrops, ClaimUnacked, StartTests, Settle,
           Finish, Fail, FailFatal, Release, ReleaseFails, SetCoro, Return
  <1>3. coro'[x] # "claim"
    BY <1>1 DEF TypeOK, RunCommit, ClaimWins, ClaimDrops, ClaimUnacked, StartTests, Settle,
           Finish, Fail, FailFatal, Release, ReleaseFails, SetCoro, Return
  <1>4. \A y \in Coro, c \in Commit : Claiming(y, c)' <=> Claiming(y, c) /\ y # x
    BY <1>2, <1>3 DEF Claiming
  <1>5. Singles' /\ \A c \in Commit : Underway(c)' => Underway(c)
    BY <1>1, <1>4, NoNewCopy DEF CInv
  <1>6. \A c \in Commit : status[c] = "IN_QUEUE" /\ status'[c] # "IN_QUEUE" => Claiming(x, c)
    <2> SUFFICES ASSUME NEW c \in Commit, status[c] = "IN_QUEUE", status'[c] # "IN_QUEUE"
                 PROVE  Claiming(x, c)
      OBVIOUS
    <2>1. /\ status \in [Commit -> Status]
          /\ Holding(x) => status[job[x]] # "IN_QUEUE"
      BY <1>1 DEF IInv, TypeOK, HeldNotQueued
    <2>2. CASE ClaimWins(x) \/ ClaimUnacked(x)
      BY <2>1, <2>2 DEF ClaimWins, ClaimUnacked, Claimable, Claiming
    <2>3. CASE StartTests(x) \/ Settle(x)
      BY <2>1, <2>3 DEF StartTests, Settle, Holding
    <2>4. CASE Release(x)
      BY <2>1, <2>4 DEF Release
    <2>5. CASE ClaimDrops(x) \/ Finish(x) \/ Fail(x) \/ FailFatal(x) \/ ReleaseFails(x)
      BY <2>5 DEF ClaimDrops, Finish, Fail, FailFatal, ReleaseFails
    <2> QED BY <2>2, <2>3, <2>4, <2>5 DEF RunCommit
  <1>7. \A c \in Commit : Claiming(x, c) => ~Underway(c)' /\ c \notin batch
    <2> SUFFICES ASSUME NEW c \in Commit, Claiming(x, c)
                 PROVE  ~Underway(c)' /\ c \notin batch
      OBVIOUS
    <2>1. /\ OncePerPlace(c) /\ OnePlace(c) /\ Claimed(c) /\ Underway(c)
      BY DEF CInv, Singles, Claimed, Underway
    <2>2. ~Listed(c) /\ ~Pulled(c) /\ c \notin orphans
      BY <2>1 DEF OnePlace
    <2>3. ~Claimed(c)'
      BY <1>4, <2>1 DEF OncePerPlace, Claimed
    <2>4. ~Underway(c)'
      BY <1>1, <2>2, <2>3 DEF Underway, Listed, Pulled
    <2>5. c \notin batch
      BY <1>1, <2>1 DEF TypeOK, CInv, CopyRecorded, BatchIsNew, Polling
    <2> QED BY <2>4, <2>5
  <1> QED
    BY <1>1, <1>5, <1>6, <1>7, RestFollows DEF Polling

-----------------------------------------------------------------------------
(* The theorem *)

LEMMA StepCInv ==
  ASSUME "expire" \notin Faults, IInv, CInv, [Next]_vars
  PROVE  CInv'
  <1>t. batch \subseteq Commit
    BY DEF IInv, TypeOK
  <1>1. ASSUME NEW c \in Commit, Submit(c) PROVE CInv'
    <2>1. /\ UNCHANGED <<recent, batch, poller, queue, pulled, coro, job, orphans>>
          /\ \A d \in Commit : status[d] = "IN_QUEUE" => status'[d] = "IN_QUEUE"
      BY <1>1 DEF IInv, TypeOK, Submit, parentVars, workerVars
    <2> QED BY <1>t, <2>1, CopiesStay, RestFollows DEF CInv, Polling
  <1>2. ASSUME NEW c \in Commit, Expire(c) PROVE CInv'
    BY <1>2 DEF Expire
  <1>3. CASE UNCHANGED vars
    <2>1. UNCHANGED <<status, recent, batch, poller, queue, pulled, coro, job, orphans>>
      BY <1>3 DEF vars, parentVars, workerVars
    <2> QED BY <1>t, <2>1, CopiesStay, CopiesOnly DEF CInv, Polling
  <1>4. CASE Parent
    <2>1. CASE StartJoin \/ Join \/ \E w \in Worker : LookAt(w)
      <3>1. /\ UNCHANGED <<status, recent, batch, queue, pulled, coro, job, orphans>>
            /\ ~Polling'
        BY <2>1 DEF StartJoin, Join, LookAt, workerVars, Polling
      <3> QED BY <1>t, <3>1, CopiesStay, CopiesOnly DEF CInv
    <2> QED
      BY <1>4, <2>1, PollSingle, PutSingle, HintSingle, OrphanPutSingle DEF Parent
  <1>5. CASE CtrlC
    BY <1>5, InterruptSingle, TerminateSingle, EscapeSingle DEF CtrlC
  <1>6. ASSUME NEW w \in Worker, PullLoop(w) \/ Crash(w) PROVE CInv'
    BY <1>6, GetItemSingle, SpawnSingle, LoopSingle DEF PullLoop
  <1>7. ASSUME NEW x \in Coro, RunCommit(x) PROVE CInv'
    BY <1>7, RunCommitSingle
  <1> QED
    BY <1>1, <1>2, <1>3, <1>4, <1>5, <1>6, <1>7 DEF Next

\* A set whose elements are all equal has at most one.
LEMMA AtMostOne ==
  ASSUME NEW S, \A a, b \in S : a = b
  PROVE  /\ Cardinality(S) \in {0, 1}
         /\ S = {} => Cardinality(S) = 0
  <1>1. CASE S = {}
    BY <1>1, FS_EmptySet
  <1>2. CASE S # {}
    <2>1. PICK a \in S : S = {a}
      BY <1>2
    <2> QED BY <1>2, <2>1, FS_Singleton
  <1> QED BY <1>1, <1>2

LEMMA SinglesCount == Singles => NoDuplicateCopies
  <1> SUFFICES ASSUME Singles, NEW c \in Commit PROVE Copies(c) <= 1
    BY DEF NoDuplicateCopies
  <1>1. OncePerPlace(c) /\ OnePlace(c)
    BY DEF Singles
  <1>2. /\ Cardinality(Queued(c)) \in {0, 1}
        /\ ~Listed(c) => Cardinality(Queued(c)) = 0
    BY <1>1, AtMostOne DEF OncePerPlace, Queued, Listed
  <1>3. /\ Cardinality(Pullers(c)) \in {0, 1}
        /\ ~Pulled(c) => Cardinality(Pullers(c)) = 0
    BY <1>1, AtMostOne DEF OncePerPlace, Pullers, Pulled
  <1>4. /\ Cardinality(Claimers(c)) \in {0, 1}
        /\ ~Claimed(c) => Cardinality(Claimers(c)) = 0
    BY <1>1, AtMostOne DEF OncePerPlace, Claimers, Claimed, Claiming
  <1> QED
    BY <1>1, <1>2, <1>3, <1>4 DEF OnePlace, Copies

\* Within the suppression window there is at most one copy of a commit on its way
\* to a claim, however often it is fetched and whatever dies, fails or is
\* interrupted: the cycles of the poller do not fill the bounded queue with
\* copies of what is in it.
THEOREM CopiesAreSingle ==
  ASSUME "expire" \notin Faults PROVE Spec => []NoDuplicateCopies
  <1>1. IInv /\ CInv /\ [Next]_vars => CInv'
    BY StepCInv
  <1>2. CInv => NoDuplicateCopies
    BY SinglesCount DEF CInv
  <1> QED
    BY <1>1, <1>2, InitCInv, Invariance, PTL DEF Spec
=============================================================================
