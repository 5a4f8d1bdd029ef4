------------------------------ MODULE Dispatch ------------------------------
(***************************************************************************)
(* How commits travel through the compiler engine: the parent process      *)
(* polls the commits table and puts what it finds on a bounded queue, the  *)
(* worker processes pull from that queue and run one coroutine per commit, *)
(* a conditional UPDATE decides who processes a commit, and Ctrl-C stops   *)
(* everything with one None hint per worker.                               *)
(*                                                                         *)
(* src/rcc/__init__.py       main, select_new_commits, _stop_workers       *)
(* src/rcc/engine.py         process_commits, run_commit                   *)
(* provider/data/postgres.py fetch_commits_in_queue, claim_commit,         *)
(*                           release_commit, update_commit                 *)
(*                                                                         *)
(* What process_commit does between the claim and its return is reduced to *)
(* the writes it makes to commits.status: PROCESSING, then "RUNNING" (one  *)
(* value for COMPILING, COMPILED and RUNNING), then "FINAL" (COMPLETED,    *)
(* INCOMPLETE, ERROR and INTERNAL_ERROR).                                  *)
(***************************************************************************)
EXTENDS Naturals, Sequences, FiniteSets

CONSTANTS
  Commit,       \* commit ids; smaller means an earlier commit_time
  Worker,       \* worker processes
  Task,         \* names for the coroutines of one worker
  Concurrency,  \* concurrency_per_worker
  None,         \* the stop hint, and "no commit"
  Faults,       \* what may go wrong in this instance, see FaultKind
  Mortal        \* workers that may be killed or hit a non-retryable error

FaultKind ==
  { "claim",       \* the claim's UPDATE raises and was not applied
    "unacked",     \* the claim's UPDATE raises although it was applied
    "retry",       \* a retryable failure while the row says PROCESSING
    "retry_late",  \* a retryable failure after a later status was written
    "release",     \* release_commit raises
    "fatal",       \* a non-retryable exception in a Mortal worker
    "crash",       \* a Mortal worker is killed
    "expire",      \* the suppression window elapses
    "interrupt",   \* Ctrl-C
    "interrupt2" } \* a second Ctrl-C while the first is being handled

ASSUME CommitAssumption == Commit \subseteq Nat
ASSUME NoneAssumption == None \notin Commit
ASSUME ConcurrencyAssumption == Concurrency \in Nat \ {0}
ASSUME WorkerAssumption == IsFiniteSet(Worker) /\ Worker # {}
ASSUME TaskAssumption == IsFiniteSet(Task) /\ Cardinality(Task) > Concurrency
ASSUME FaultAssumption == Faults \subseteq FaultKind /\ Mortal \subseteq Worker

QueueMax == 2 * Cardinality(Worker) * Concurrency
Coro == Worker \X Task
Item == Commit \cup {None}

VARIABLES
  status,   \* commits.status of every commit, "ABSENT" before it is submitted
  recent,   \* unexpired entries of recently_enqueued
  batch,    \* commits of this poll cycle not yet put
  poller,   \* where the parent process is
  tohint,   \* engine_workers that _stop_workers has not looked at yet
  orphans,  \* items of put() threads whose awaiting task was cancelled
  queue,    \* the JoinableQueue
  worker,   \* where each worker's pull loop is
  pulled,   \* the commit a worker pulled and has no slot for yet
  fatal,    \* the fatal event of each worker
  sem,      \* free permits of each worker's semaphore
  coro,     \* where each run_commit coroutine is
  job       \* its commit

parentVars == <<recent, batch, poller, tohint, orphans>>
workerVars == <<worker, pulled, fatal, sem, coro, job>>
vars == <<status, parentVars, queue, workerVars>>

Status == {"ABSENT", "IN_QUEUE", "PROCESSING", "RUNNING", "FINAL"}
InProgress == {"PROCESSING", "RUNNING"}

\* poll: fetching or sleeping; put: awaiting put(commit); stop: looking at the
\* next worker; hint: awaiting put(None); join: worker.join(); done: exited
\* after the workers; terminated: SIGTERMed them; escaped: left on the second
\* Ctrl-C without doing either
PollerState ==
  {"poll", "put", "stop", "hint", "join", "done", "terminated", "escaped"}
\* get: in queue.get(); acquire: awaiting a slot for the commit pulled; drain:
\* awaiting the coroutines in flight; jammed: killed inside get(), with the
\* queue's reader lock
WorkerState == {"get", "acquire", "drain", "stopped", "dead", "jammed"}
\* claim: awaiting claim_commit; prepare, tests, store: in process_commit
\* before the row says RUNNING, before it says FINAL, after; release: awaiting
\* release_commit
CoroState == {"idle", "claim", "prepare", "tests", "store", "release"}

Ended(w) == worker[w] \in {"stopped", "dead", "jammed"}
Jammed == \E w \in Worker : worker[w] = "jammed"
Holding(x) == coro[x] \in {"prepare", "tests", "store", "release"}
Holders(c) == {x \in Coro : Holding(x) /\ job[x] = c}
InFlight(w) == {t \in Task : coro[<<w, t>>] # "idle"}

Init ==
  /\ status = [c \in Commit |-> "ABSENT"]
  /\ recent = {} /\ batch = {} /\ poller = "poll" /\ tohint = {} /\ orphans = {}
  /\ queue = <<>>
  /\ worker = [w \in Worker |-> "get"]
  /\ pulled = [w \in Worker |-> None]
  /\ fatal = [w \in Worker |-> FALSE]
  /\ sem = [w \in Worker |-> Concurrency]
  /\ coro = [x \in Coro |-> "idle"]
  /\ job = [x \in Coro |-> None]

-----------------------------------------------------------------------------
(* The environment: the web server and the clock *)

\* The server inserts the commit's row.
Submit(c) ==
  /\ status[c] = "ABSENT"
  /\ status' = [status EXCEPT ![c] = "IN_QUEUE"]
  /\ UNCHANGED <<parentVars, queue, workerVars>>

\* Mutant: entries have no age.
Expire_Never(c) == FALSE /\ UNCHANGED <<vars, c>>

\* The entry of c becomes older than the suppression window.
Expire(c) ==
  /\ "expire" \in Faults
  /\ c \in recent
  /\ recent' = recent \ {c}
  /\ UNCHANGED <<status, batch, poller, tohint, orphans, queue, workerVars>>

-----------------------------------------------------------------------------
(* The parent: polling *)

InQueue == {c \in Commit : status[c] = "IN_QUEUE"}

\* The entries select_new_commits keeps: those that were fetched and are young.
Pruned(fetched) == recent \cap fetched

\* A cycle that fetches, prunes and selects.  A failing fetch changes nothing.
Poll ==
  /\ poller = "poll"
  /\ recent' = Pruned(InQueue)
  /\ batch' = InQueue \ recent'
  /\ poller' = IF batch' = {} THEN "poll" ELSE "put"
  /\ UNCHANGED <<status, tohint, orphans, queue, workerVars>>

\* Mutant: off by one.
HasRoom_OneMore == Len(queue) <= QueueMax
HasRoom == Len(queue) < QueueMax

\* The commit of the batch being put: the batch is in commit_time order.
Earliest == {c \in batch : \A d \in batch : c <= d}

\* Mutant: the entry is not recorded.
Put_Unrecorded ==
  /\ poller = "put"
  /\ HasRoom
  /\ \E c \in Earliest : queue' = Append(queue, c) /\ batch' = batch \ {c}
  /\ poller' = IF batch' = {} THEN "poll" ELSE "put"
  /\ UNCHANGED <<status, recent, tohint, orphans, workerVars>>

\* put(commit) gets room; then the entry is recorded, with no await between.
Put ==
  /\ poller = "put"
  /\ HasRoom
  /\ \E c \in Earliest :
       /\ queue' = Append(queue, c)
       /\ recent' = recent \cup {c}
       /\ batch' = batch \ {c}
  /\ poller' = IF batch' = {} THEN "poll" ELSE "put"
  /\ UNCHANGED <<status, tohint, orphans, workerVars>>

-----------------------------------------------------------------------------
(* The parent: stopping *)

\* The first Ctrl-C cancels main() at its await.  Cancelling the await does not
\* cancel a thread that is already inside put().
Interrupt ==
  /\ "interrupt" \in Faults
  /\ poller \in {"poll", "put"}
  /\ \E surviving \in SUBSET Earliest : orphans' = orphans \cup surviving
  /\ poller' = "stop"
  /\ batch' = {}
  /\ tohint' = Worker
  /\ UNCHANGED <<status, recent, queue, workerVars>>

\* Mutant: a worker that is about to stop by itself gets no hint either.
LookAt_SkipsFatal(w) ==
  /\ poller = "stop"
  /\ w \in tohint
  /\ tohint' = tohint \ {w}
  /\ poller' = IF Ended(w) \/ fatal[w] THEN "stop" ELSE "hint"
  /\ UNCHANGED <<status, recent, batch, orphans, queue, workerVars>>

\* is_alive(): a worker that ended gets no hint.
LookAt(w) ==
  /\ poller = "stop"
  /\ w \in tohint
  /\ tohint' = tohint \ {w}
  /\ poller' = IF Ended(w) THEN "stop" ELSE "hint"
  /\ UNCHANGED <<status, recent, batch, orphans, queue, workerVars>>

Hint ==
  /\ poller = "hint"
  /\ HasRoom
  /\ queue' = Append(queue, None)
  /\ poller' = "stop"
  /\ UNCHANGED <<status, recent, batch, tohint, orphans, workerVars>>

StartJoin ==
  /\ poller = "stop"
  /\ tohint = {}
  /\ poller' = "join"
  /\ UNCHANGED <<status, recent, batch, tohint, orphans, queue, workerVars>>

Join ==
  /\ poller = "join"
  /\ \A w \in Worker : Ended(w)
  /\ poller' = "done"
  /\ UNCHANGED <<status, recent, batch, tohint, orphans, queue, workerVars>>

\* A surviving put() thread finds room.
OrphanPut(i) ==
  /\ i \in orphans
  /\ HasRoom
  /\ queue' = Append(queue, i)
  /\ orphans' = orphans \ {i}
  /\ UNCHANGED <<status, recent, batch, poller, tohint, workerVars>>

\* A second Ctrl-C while Python code of _stop_workers runs or joins: caught
\* there, every worker gets SIGTERM.
Terminate ==
  /\ "interrupt2" \in Faults
  /\ poller \in {"stop", "join"}
  /\ poller' = "terminated"
  /\ worker' = [w \in Worker |-> IF Ended(w) THEN worker[w] ELSE "dead"]
  /\ pulled' = [w \in Worker |-> None]
  /\ sem' = [w \in Worker |-> Concurrency]
  /\ coro' = [x \in Coro |-> "idle"]
  /\ job' = [x \in Coro |-> None]
  /\ UNCHANGED <<status, recent, batch, tohint, orphans, queue, fatal>>

\* A second Ctrl-C while put(None) is awaited: the event loop is waiting, so
\* KeyboardInterrupt leaves asyncio.run() and the coroutine sees a cancellation.
Escape ==
  /\ "interrupt2" \in Faults
  /\ poller = "hint"
  /\ poller' = "escaped"
  /\ orphans' = orphans \cup {None}
  /\ UNCHANGED <<status, recent, batch, tohint, queue, workerVars>>

-----------------------------------------------------------------------------
(* A worker's pull loop.  From the end of one iteration to the get() of the   *)
(* next there is no await, so the test of the fatal event belongs to both.    *)

LoopHead(w) == IF fatal[w] THEN "drain" ELSE "get"

GetItem(w) ==
  /\ worker[w] = "get" /\ ~Jammed
  /\ queue # <<>>
  /\ queue' = Tail(queue)
  /\ IF Head(queue) = None
       THEN /\ worker' = [worker EXCEPT ![w] = "drain"]
            /\ UNCHANGED pulled
       ELSE /\ worker' = [worker EXCEPT ![w] = "acquire"]
            /\ pulled' = [pulled EXCEPT ![w] = Head(queue)]
  /\ UNCHANGED <<status, parentVars, fatal, sem, coro, job>>

\* get() times out; the loop only changes state if it then sees fatal.
GetEmpty(w) ==
  /\ worker[w] = "get"
  /\ fatal[w]
  /\ worker' = [worker EXCEPT ![w] = LoopHead(w)]
  /\ UNCHANGED <<status, parentVars, queue, pulled, fatal, sem, coro, job>>

\* get() raises: nothing was taken, or an item was and is lost because it could
\* not be read.  The loop stops or, after a retryable exception, goes on; a hint
\* that was received can always be read, unless memory ran out.
GetFails(w) ==
  /\ "fatal" \in Faults /\ w \in Mortal
  /\ worker[w] = "get"
  /\ \/ worker' = [worker EXCEPT ![w] = "drain"] /\ UNCHANGED queue
     \/ /\ queue # <<>> /\ ~Jammed
        /\ queue' = Tail(queue)
        /\ \E next \in {"drain"} \cup (IF Head(queue) = None THEN {} ELSE {LoopHead(w)}) :
             worker' = [worker EXCEPT ![w] = next]
  /\ UNCHANGED <<status, parentVars, pulled, fatal, sem, coro, job>>

FreeTask(w) == CHOOSE t \in Task : coro[<<w, t>>] = "idle"

\* semaphore.acquire() succeeds and create_task() starts the coroutine.
Spawn(w) ==
  /\ worker[w] = "acquire"
  /\ sem[w] > 0
  /\ sem' = [sem EXCEPT ![w] = @ - 1]
  /\ coro' = [coro EXCEPT ![<<w, FreeTask(w)>>] = "claim"]
  /\ job' = [job EXCEPT ![<<w, FreeTask(w)>>] = pulled[w]]
  /\ pulled' = [pulled EXCEPT ![w] = None]
  /\ worker' = [worker EXCEPT ![w] = LoopHead(w)]
  /\ UNCHANGED <<status, parentVars, queue, fatal>>

\* Mutant: the slot is not given back.
SpawnFails_LeaksSlot(w) ==
  /\ "fatal" \in Faults /\ w \in Mortal
  /\ worker[w] = "acquire"
  /\ sem[w] > 0
  /\ sem' = [sem EXCEPT ![w] = @ - 1]
  /\ pulled' = [pulled EXCEPT ![w] = None]
  /\ worker' = [worker EXCEPT ![w] = "drain"]
  /\ UNCHANGED <<status, parentVars, queue, fatal, coro, job>>

\* create_task() raises: the slot is given back, the copy is dropped, and the
\* loop stops or, after a retryable exception, goes on.
SpawnFails(w) ==
  /\ "fatal" \in Faults /\ w \in Mortal
  /\ worker[w] = "acquire"
  /\ sem[w] > 0
  /\ pulled' = [pulled EXCEPT ![w] = None]
  /\ \E next \in {"drain", LoopHead(w)} : worker' = [worker EXCEPT ![w] = next]
  /\ UNCHANGED <<status, parentVars, queue, fatal, sem, coro, job>>

\* Mutant: the coroutines in flight are cancelled instead of awaited.
Drained_NoWait(w) ==
  /\ worker[w] = "drain"
  /\ worker' = [worker EXCEPT ![w] = "stopped"]
  /\ coro' = [x \in Coro |-> IF x[1] = w THEN "idle" ELSE coro[x]]
  /\ job' = [x \in Coro |-> IF x[1] = w THEN None ELSE job[x]]
  /\ UNCHANGED <<status, parentVars, queue, pulled, fatal, sem>>

\* gather() over in_flight is done.
Drained(w) ==
  /\ worker[w] = "drain"
  /\ InFlight(w) = {}
  /\ worker' = [worker EXCEPT ![w] = "stopped"]
  /\ UNCHANGED <<status, parentVars, queue, pulled, fatal, sem, coro, job>>

\* The process is killed; its coroutines vanish with what they held.  The lock
\* readers of the queue take while they wait for an item is not given back: if
\* this worker has it, the queue is jammed.
Crash(w) ==
  /\ "crash" \in Faults /\ w \in Mortal
  /\ ~Ended(w)
  /\ \/ worker' = [worker EXCEPT ![w] = "dead"]
     \/ worker[w] = "get" /\ ~Jammed /\ worker' = [worker EXCEPT ![w] = "jammed"]
  /\ pulled' = [pulled EXCEPT ![w] = None]
  /\ sem' = [sem EXCEPT ![w] = Concurrency]
  /\ coro' = [x \in Coro |-> IF x[1] = w THEN "idle" ELSE coro[x]]
  /\ job' = [x \in Coro |-> IF x[1] = w THEN None ELSE job[x]]
  /\ UNCHANGED <<status, parentVars, queue, fatal>>

-----------------------------------------------------------------------------
(* A run_commit coroutine *)

SetCoro(x, state) == coro' = [coro EXCEPT ![x] = state]

\* The finally block: the coroutine ends and its slot is given back.
Return(x) ==
  /\ SetCoro(x, "idle")
  /\ job' = [job EXCEPT ![x] = None]
  /\ sem' = [sem EXCEPT ![x[1]] = @ + 1]

\* Mutant: UPDATE without "AND status = IN_QUEUE".
Claimable_Unconditional(x) == coro[x] = "claim"

\* The conditional UPDATE matches the row.
Claimable(x) == coro[x] = "claim" /\ status[job[x]] = "IN_QUEUE"

\* Mutant: the claim only looks whether the row is in the queue.
ClaimWins_ReadOnly(x) ==
  /\ Claimable(x)
  /\ SetCoro(x, "prepare")
  /\ UNCHANGED <<status, parentVars, queue, worker, pulled, fatal, sem, job>>

ClaimWins(x) ==
  /\ Claimable(x)
  /\ status' = [status EXCEPT ![job[x]] = "PROCESSING"]
  /\ SetCoro(x, "prepare")
  /\ UNCHANGED <<parentVars, queue, worker, pulled, fatal, sem, job>>

\* Mutant: a claim that was not won is released like one that was.
ClaimDrops_Releases(x) ==
  /\ coro[x] = "claim"
  /\ ~Claimable(x) \/ "claim" \in Faults
  /\ status' = IF status[job[x]] = "PROCESSING"
                 THEN [status EXCEPT ![job[x]] = "IN_QUEUE"]
                 ELSE status
  /\ Return(x)
  /\ UNCHANGED <<parentVars, queue, worker, pulled, fatal>>

\* The UPDATE matches no row, or raises without being applied.
ClaimDrops(x) ==
  /\ coro[x] = "claim"
  /\ ~Claimable(x) \/ "claim" \in Faults
  /\ Return(x)
  /\ UNCHANGED <<status, parentVars, queue, worker, pulled, fatal>>

\* The UPDATE is applied but its answer is lost: run_commit takes the
\* exception for a claim that did not happen.
ClaimUnacked(x) ==
  /\ "unacked" \in Faults
  /\ Claimable(x)
  /\ status' = [status EXCEPT ![job[x]] = "PROCESSING"]
  /\ Return(x)
  /\ UNCHANGED <<parentVars, queue, worker, pulled, fatal>>

\* process_commit writes COMPILING (and later COMPILED, RUNNING).
StartTests(x) ==
  /\ coro[x] = "prepare"
  /\ status' = [status EXCEPT ![job[x]] = "RUNNING"]
  /\ SetCoro(x, "tests")
  /\ UNCHANGED <<parentVars, queue, worker, pulled, fatal, sem, job>>

\* It writes a score, or INTERNAL_ERROR after a failed step.
Settle(x) ==
  /\ coro[x] \in {"prepare", "tests"}
  /\ status' = [status EXCEPT ![job[x]] = "FINAL"]
  /\ SetCoro(x, "store")
  /\ UNCHANGED <<parentVars, queue, worker, pulled, fatal, sem, job>>

\* It stores results and output and returns.
Finish(x) ==
  /\ coro[x] = "store"
  /\ Return(x)
  /\ UNCHANGED <<status, parentVars, queue, worker, pulled, fatal>>

\* Mutant: the row is put back at once, before the attempt is wound up.
Fail_RequeuesFirst(x) ==
  /\ "retry" \in Faults /\ coro[x] = "prepare"
  /\ status' = [status EXCEPT ![job[x]] = "IN_QUEUE"]
  /\ SetCoro(x, "release")
  /\ UNCHANGED <<parentVars, queue, worker, pulled, fatal, sem, job>>

\* Mutant: the failure is logged and nothing is released.
Fail_NoRelease(x) ==
  /\ "retry" \in Faults /\ coro[x] = "prepare"
  /\ Return(x)
  /\ UNCHANGED <<status, parentVars, queue, worker, pulled, fatal>>

\* It raises a retryable exception.
Fail(x) ==
  /\ \/ "retry" \in Faults /\ coro[x] = "prepare"
     \/ "retry_late" \in Faults /\ coro[x] \in {"tests", "store"}
  /\ SetCoro(x, "release")
  /\ UNCHANGED <<status, parentVars, queue, worker, pulled, fatal, sem, job>>

\* It raises a non-retryable exception: the claim is kept.
FailFatal(x) ==
  /\ "fatal" \in Faults /\ x[1] \in Mortal
  /\ coro[x] \in {"prepare", "tests", "store"}
  /\ fatal' = [fatal EXCEPT ![x[1]] = TRUE]
  /\ Return(x)
  /\ UNCHANGED <<status, parentVars, queue, worker, pulled>>

\* Mutant: UPDATE without "AND status = PROCESSING".
Release_Unguarded(x) ==
  /\ coro[x] = "release"
  /\ status' = [status EXCEPT ![job[x]] = "IN_QUEUE"]
  /\ Return(x)
  /\ UNCHANGED <<parentVars, queue, worker, pulled, fatal>>

\* The row goes back to the queue, if it still says PROCESSING.
Release(x) ==
  /\ coro[x] = "release"
  /\ status' = IF status[job[x]] = "PROCESSING"
                 THEN [status EXCEPT ![job[x]] = "IN_QUEUE"]
                 ELSE status
  /\ Return(x)
  /\ UNCHANGED <<parentVars, queue, worker, pulled, fatal>>

ReleaseFails(x) ==
  /\ "release" \in Faults
  /\ coro[x] = "release"
  /\ Return(x)
  /\ UNCHANGED <<status, parentVars, queue, worker, pulled, fatal>>

-----------------------------------------------------------------------------
Parent ==
  \/ Poll \/ Put \/ Hint \/ StartJoin \/ Join
  \/ \E w \in Worker : LookAt(w)
  \/ \E i \in Item : OrphanPut(i)

CtrlC == Interrupt \/ Terminate \/ Escape

PullLoop(w) ==
  \/ GetItem(w) \/ GetEmpty(w) \/ GetFails(w)
  \/ Spawn(w) \/ SpawnFails(w) \/ Drained(w)

RunCommit(x) ==
  \/ ClaimWins(x) \/ ClaimDrops(x) \/ ClaimUnacked(x)
  \/ StartTests(x) \/ Settle(x) \/ Finish(x)
  \/ Fail(x) \/ FailFatal(x) \/ Release(x) \/ ReleaseFails(x)

Next ==
  \/ \E c \in Commit : Submit(c) \/ Expire(c)
  \/ Parent
  \/ CtrlC
  \/ \E w \in Worker : PullLoop(w) \/ Crash(w)
  \/ \E x \in Coro : RunCommit(x)

Spec == Init /\ [][Next]_vars

\* Every process is scheduled, time passes, a put() thread that finds room
\* proceeds; and a commit whose attempt is not stopped by a crash is not
\* refused its reading from the queue, its coroutine, its claim or its final
\* write by transient failures for ever.
Fairness ==
  /\ WF_vars(Poll) /\ WF_vars(Put) /\ WF_vars(Hint)
  /\ WF_vars(StartJoin) /\ WF_vars(Join)
  /\ \A w \in Worker : WF_vars(LookAt(w)) /\ WF_vars(PullLoop(w))
  /\ \A i \in Item : WF_vars(OrphanPut(i))
  /\ \A x \in Coro : WF_vars(RunCommit(x))
  /\ \A c \in Commit :
       /\ WF_vars(Expire(c))
       /\ SF_vars(\E w \in Worker : queue # <<>> /\ Head(queue) = c /\ GetItem(w))
       /\ SF_vars(\E w \in Worker : pulled[w] = c /\ Spawn(w))
       /\ SF_vars(\E x \in Coro : job[x] = c /\ ClaimWins(x))
       /\ SF_vars(\E x \in Coro : job[x] = c /\ Settle(x))

FairSpec == Spec /\ Fairness
-----------------------------------------------------------------------------
(* Properties *)

\* Type invariant.  It also says what a worker that ended, or a coroutine that
\* ended, leaves behind, and that the queue never outgrows its maxsize.
TypeOK ==
  /\ status \in [Commit -> Status]
  /\ recent \subseteq Commit
  /\ batch \subseteq Commit
  /\ poller \in PollerState
  /\ poller = "put" <=> batch # {}
  /\ tohint \subseteq Worker
  /\ orphans \subseteq Item
  /\ queue \in Seq(Item)
  /\ Len(queue) <= QueueMax
  /\ worker \in [Worker -> WorkerState]
  /\ pulled \in [Worker -> Item]
  /\ \A w \in Worker : pulled[w] # None <=> worker[w] = "acquire"
  /\ fatal \in [Worker -> BOOLEAN]
  /\ sem \in [Worker -> 0..Concurrency]
  /\ coro \in [Coro -> CoroState]
  /\ job \in [Coro -> Item]
  /\ \A x \in Coro : job[x] = None <=> coro[x] = "idle"
  /\ \A x \in Coro : coro[x] # "idle" => ~Ended(x[1])

\* However often the poller enqueues a commit, and whatever fails, no two
\* coroutines, in one worker or in two, are processing it: they would collide
\* on its directory and on its result rows.
AtMostOneHolder ==
  \A x, y \in Coro :
    Holding(x) /\ Holding(y) /\ job[x] = job[y] => x = y

\* While a coroutine is processing a commit its row is not up for another
\* claim, in particular not between a failed attempt and its release.
HeldNotQueued ==
  \A x \in Coro : Holding(x) => status[job[x]] \notin {"ABSENT", "IN_QUEUE"}

\* A worker's free permits and its running coroutines always add up to
\* concurrency_per_worker: no failing path leaks a slot or frees one twice.
SlotAccounting ==
  \A w \in Worker : sem[w] + Cardinality(InFlight(w)) = Concurrency

\* A score or an INTERNAL_ERROR that was written stays: a late release or a
\* stale copy of the commit never puts the row back.
FinalIsFinal ==
  [][\A c \in Commit : status[c] = "FINAL" => status'[c] = "FINAL"]_vars

\* A row that says a commit is being processed is not lying: a coroutine holds
\* it.  (Of the instances whose faults spare the claim's owner.)
InProgressIsHeld ==
  \A c \in Commit : status[c] \in InProgress => Holders(c) # {}

\* The copies of a commit on their way to a claim.
Queued(c) == {i \in DOMAIN queue : queue[i] = c}
Pullers(c) == {w \in Worker : pulled[w] = c}
Claimers(c) == {x \in Coro : job[x] = c /\ coro[x] = "claim"}
Copies(c) ==
  Cardinality(Queued(c)) + Cardinality(Pullers(c)) + Cardinality(Claimers(c))
    + (IF c \in orphans THEN 1 ELSE 0)

\* Inside the suppression window the poller never has two copies of a commit
\* under way, although it fetches the commit again and again.
NoDuplicateCopies == \A c \in Commit : Copies(c) <= 1

\* When the parent exits after Ctrl-C every commit is either settled or still
\* in the queue for the next start: none was abandoned half-way.
CleanShutdown ==
  poller = "done" => \A c \in Commit : status[c] \notin InProgress

Stopping == poller \notin {"poll", "put"}
Stranded(c) == status[c] \in InProgress /\ Holders(c) = {}

\* As long as the database answers what it executes, only a worker that is killed
\* or hits a non-retryable error leaves a commit behind half-way: no retry, no
\* lost or stale copy and no stop hint does, whoever else dies in between.  (Of
\* the instances without lost answers and without failures that come too late for
\* a release.)
StrandedByLoss ==
  (\E c \in Commit : Stranded(c)) =>
    \E w \in Worker : worker[w] \in {"dead", "jammed"} \/ fatal[w]

\* The abstract ledger this module implements: a row as the claim protocol
\* sees it, and the coroutines between a won claim and their return as holders.
Row(c) ==
  CASE status[c] = "ABSENT" -> "absent"
    [] status[c] = "IN_QUEUE" -> "waiting"
    [] status[c] \in InProgress -> "taken"
    [] status[c] = "FINAL" -> "settled"

Ledger == INSTANCE ClaimLedger WITH
  Holder <- Coro,
  row <- [c \in Commit |-> Row(c)],
  holders <- [c \in Commit |-> Holders(c)]

\* Whatever fails, every step of the engine is a step of the ledger: a commit
\* is taken by one coroutine at a time, only that one settles it or gives it
\* back, and nothing else ever moves its row.
ImplementsLedger == Ledger!Spec

\* The attempts at one commit as process_commit makes them: the row, which is
\* absent before it is submitted, and where the coroutine that holds it is.
AttemptRow(c) == IF status[c] = "ABSENT" THEN "IN_QUEUE" ELSE status[c]
AttemptAt(c) ==
  IF Holders(c) = {} THEN "idle" ELSE coro[CHOOSE x \in Holders(c) : TRUE]
Steps(c) == INSTANCE Attempt WITH row <- AttemptRow(c), at <- AttemptAt(c)

\* Whatever coroutines in whatever workers hold a commit one after the other,
\* its row makes the moves of attempts that process_commit makes when it is
\* alone, and no other: nobody writes in between, a row that got past PROCESSING
\* is never put back, and one that says PROCESSING only by the release of the
\* attempt that holds it.  A claim whose answer is lost (Unanswered) is the one
\* write without a holder, and it takes the row out of the queue.
FollowsAttempt ==
  /\ \A c \in Commit : Steps(c)!Init
  /\ [][\A c \in Commit : [Steps(c)!Move]_(Steps(c)!vars)]_vars

\* As long as one worker survives, a submitted commit is settled, or stranded
\* by a crash or a fatal error of the worker that held it, or the crash of a
\* worker jams the queue; losing the commit between the pull and the claim does
\* not keep it in the queue for ever.
QueuedSettles ==
  \A c \in Commit :
    status[c] = "IN_QUEUE" ~>
      status[c] = "FINAL" \/ Stranded(c) \/ Jammed \/ Stopping

\* Ctrl-C ends the program, unless a worker ended before _stop_workers looked
\* at it (see ShutdownEnds for why) or jammed the queue.
HintedShutdownEnds ==
  poller = "stop" /\ tohint = Worker
    ~> poller = "done" \/ Jammed \/ \E w \in tohint : Ended(w)

\* _stop_workers, "Ask the workers to stop and wait for them to finish": after
\* Ctrl-C the parent gets past its join().  It need not: a worker that has not
\* been looked at may take the hint meant for another, end, and then be given
\* none, so that one hint is missing.
ShutdownEnds == poller = "stop" ~> poller = "done"

\* select_new_commits, "a commit released back to the queue after a retryable
\* failure is re-enqueued immediately": a cycle that enqueues anything does not
\* pass over a fetched commit of which no copy is left.
ReleasedIsReenqueued ==
  [][Poll /\ poller' = "put" =>
       \A c \in InQueue : Copies(c) = 0 => c \in batch']_vars
=============================================================================
