# Compiler engine: TLA+ specifications and proofs

The compiler engine polls a table of submitted programs ("commits"), hands them
to worker processes, compiles and runs each in a container, compares the output
with the expected one and writes a score. This directory holds its formal
model: TLA+ modules translated from `src/rcc`, TLC instances that check them,
and theorems that TLAPS proves for every value of the constants. Source lines
are given as in `PROJECT.json`, whose `map` names the lines behind every
definition.

## The system

| Part | State | Operations | Interacts with |
|---|---|---|---|
| Poller, `__init__.py: main`, `select_new_commits` | `recently_enqueued`, the batch of the cycle | fetch, prune, select, blocking `put` | reads the commits table, writes the task queue |
| Shutdown, `__init__.py: _stop_workers` | the workers still to be given a hint | one `None` per live worker, `join`, SIGTERM on a second Ctrl-C | task queue, worker processes |
| Worker loop, `engine.py: process_commits` | `fatal`, semaphore, `in_flight` | `get`, take a slot, start a coroutine, drain | task queue, coroutines |
| Coroutine, `run_commit` | whether it holds the claim | claim, process, release, give the slot back | commits table |
| Claim protocol, `postgres.py` | `commits.status` | conditional UPDATEs, poll query | everything above |
| Commit processing, `engine.py: process_commit` | work directory, download task, result rows, output archive | prefetch, prepare, run, score, store, clean up, error handlers | commits table, S3, container |
| Container run, `engine.py: run`, `ContainerLogReader`, `expect_message` | log queue, reader thread, container | start, expected lines, timeouts, wait/kill/remove | Docker, and the other runs through the event loop |
| Comparison and scoring, `cmp.py`, `diff`, `process_test_results`, `compute_score` | results and score of the commit | compare, grade, score | commit processing |
| Languages, `languages.py`, `util.py` | language, extension and protocol of the commit | by name, by archive | poller, commit processing, container run |
| Singleton lock, `util.py` | the lock file and its record lock | acquire, release | other engine processes |
| Configuration, pool, S3, images | - | input handling and I/O | - |

What is hard in it:

* **Concurrency.** The poller sees a commit in the queue until a claim's UPDATE
  lands, so it may deliver it several times; the claim is the only state the
  worker processes share. Each worker runs several coroutines, and the blocking
  calls (`queue.get`, `queue.put`, downloads) run in threads that a cancelled
  `await` does not stop.
* **Failure.** Every call to the database, to S3 and to Docker may raise, before
  or after it took effect. Workers may be killed; one killed inside `get()` takes
  the queue's reader lock with it.
* **Ordering.** Stop hints share the queue with commits; a Ctrl-C arrives at any
  await; the DELETE of old results overlaps the fetch of the test cases and the
  download; the score is written before the results are stored.
* **Timeouts and retries.** The suppression window of the poller, the release of
  a failed claim, the next attempt on the same directory; the deadlines of the
  container's lines, which go on while the event loop is blocked.
* **Edges of pure code.** Blank lines at the end of a file, nan, an exercise without
  test cases, names without an extension, archives of archives.

What makes each part correct is stated by the properties below. `PROJECT.json` lists every hazard at its line with
the properties that would catch it.

## Modules

| Module | What it is |
|---|---|
| `Dispatch` | poller, queue, workers, coroutines, claims, shutdown |
| `ClaimLedger` | what the claim protocol promises: rows and holders, nothing else |
| `MCDispatch` | instances of `Dispatch` for TLC |
| `DispatchProofs` | the inductive invariant of `Dispatch` and its consequences |
| `FaultProofs` | what `Dispatch` guarantees while every claim is left to its owner, while answers are not lost, and while no entry expires |
| `DispatchRefinements` | `Dispatch` implements `ClaimLedger`, and its rows follow `Attempt` |
| `ProcessCommit` | `process_commit`, one commit, any number of attempts |
| `Attempt` | what `Dispatch` and `ProcessCommit` agree on: the row while a commit is held |
| `MCProcessCommit` | instances of `ProcessCommit` for TLC |
| `ProcessCommitProofs` | its inductive invariant, that it implements `Attempt` and uses `RunContract` |
| `RunContract` | what `ProcessCommit` and `Container` agree on: the row while a container is used |
| `Container` | `run`, `ContainerLogReader`, `expect_message`: all runs of one worker |
| `MCContainer` | instances of `Container` for TLC |
| `ContainerProofs` | its inductive invariant, and that it keeps `RunContract` |
| `Comparison` | the comparators of `cmp.py` and `diff`, as functions |
| `ComparisonProofs` | what the comparators accept, by induction over the lines |
| `Languages` | names, extensions and archives, as functions |
| `Grading` | from a submission to its score, one commit |
| `MCGrading` | the submissions TLC is given |
| `GradingProofs` | that the score, the verdicts and the language are right, for any submission |
| `SingletonLock` | `SingletonContext`, any number of engines |
| `MCSingletonLock` | an instance for TLC |

The parts meet in abstract specifications. `Dispatch` implements `ClaimLedger`;
`ProcessCommit` implements `Attempt`, the row as an attempt moves it, and so does, for
each commit, `Dispatch`, in which the attempts are those of any coroutines in any
workers (`Attempt!Move`; the environment's part of `Attempt`, `Requeue`, is only allowed
to `ProcessCommit`);
`ProcessCommit` and `Container` both implement `RunContract`, one as the user of a
container run, the other as the run itself.

### Dispatch

One action per step between two awaits. The parent is `poller` (`poll`, `put`,
`stop`, `hint`, `join`, and three ways to have ended), `recent`
(`recently_enqueued`), `batch` (what is left of this cycle), `tohint` and
`orphans` (items in `put()` threads that outlived a cancelled await). `queue` is
the bounded `JoinableQueue`. A worker is `worker`, `pulled`, `fatal` and `sem`; a
coroutine is `coro` (`claim`, `prepare`, `tests`, `store`, `release`) and `job`.

* `Poll` fetches, prunes and selects in one step (no await in between matters to
  anybody else); the commits are then put one at a time (`Put`), each recorded in
  `recent` after its `put` returns, so a batch may be stale by the time it is
  delivered. `Expire` is the suppression window elapsing.
* `Interrupt` is the first Ctrl-C: the await is cancelled, a thread inside `put()`
  may survive (`orphans`, `OrphanPut`). `LookAt`/`Hint`/`StartJoin`/`Join` are
  `_stop_workers`. The second Ctrl-C is `Terminate` where Python code of the
  coroutine runs, `Escape` where the event loop waits.
* `GetItem`, `GetEmpty`, `GetFails`, `Spawn`, `SpawnFails`, `Drained` are the pull
  loop. The test of `fatal` at the head of the loop belongs to the step before
  it, since there is no await between. A `get()` that raises (`GetFails`) took nothing,
  or took an item that cannot be read and is lost; the loop ends or goes on by the kind
  of the exception.
* `ClaimWins`, `ClaimDrops`, `ClaimUnacked` are the outcomes of `claim_commit`: it
  matched, it matched nothing or raised, it was applied but its answer was lost.
  `Release` and `ReleaseFails` likewise.
* Inside an attempt only the writes to the row remain: `StartTests` (COMPILING,
  COMPILED, RUNNING are one value), `Settle` (a final status), `Finish`, `Fail`
  (a retryable exception), `FailFatal`. `ProcessCommit` justifies that reduction.
* `Crash` kills a worker. If its thread is inside `get()` it may hold the queue's
  reader lock, and the queue is `Jammed` for the others.

`Faults` selects what may fail in an instance and `Mortal` which workers may die
or stop on a non-retryable exception.

Simplifications: a commit is submitted once (a request to grade a settled commit
again is in `ProcessCommit`); the commits of a batch are put in the order of their
ids, which stand for `commit_time`; `_stop_workers` may look at the workers in any
order; failing polls and empty `get()`s change nothing and are stuttering.

### ProcessCommit

`pc` says what the attempt awaits; `status` is the row and `local` the status of the
attempt's `Commit` object, which the row gets at the next `update_commit`.
`results` and `output` are what the database and S3 hold, named by the attempt that
stored them; `dir` is the attempt that made the work directory; `download[a]` is
the download thread of attempt `a`. Every call that may raise has a failing
variant, and a call that writes may fail before or after its effect. `faults` is
chosen initially from `FaultSets`, so that one run covers different combinations.

* `Open` empties and makes the directory and starts the download; `FetchEnds`,
  `DeleteEnds` and `DownloadEnds` then end in any order; `Gather` goes on when the
  two queries have ended, to the path `AfterQueries` gives.
* `Mark` is the PROCESSING update, `Prepare` everything up to the container,
  `Compile`, `Compiled`, `Run`, `RunFails` the container with its status writes.
* `Score`, `Store`, `Upload`, `Cleanup`, `StoringFails` are the last block; `Report`,
  `ReportFails` and `Tidy` the error handlers, whose own update may raise;
  `Raise` and `Release` what `run_commit` makes of that.
* `Requeue` is the web server putting the commit back; `Crash` kills the worker and,
  with it, the download thread.

Simplifications: the claim is exclusive, which `Dispatch` shows, so attempts do not
overlap; files other than the submitted one are part of `Prepare`; the number of
test cases is zero or not.

A comment in `process_commit` (engine.py:702) explains that a crash between the
DELETE and the PROCESSING update must not leave a commit PROCESSING with stale
results. `claim_commit` now writes PROCESSING before `process_commit` starts, so that
a crash before the DELETE leaves just that; `NoStaleResults` therefore speaks of the
steps from the PROCESSING update on, where the code does guarantee it.

### Container

The runs of one worker, which share its event loop. `step[r]` is what the coroutine of
run `r` awaits, in the order of `run`'s code; `box` is the container; `output` what it
has written or will write and the reader thread has not read; `reader` the thread;
`log` the asyncio queue between the two; `row` and `local` as in `ProcessCommit`;
`outcome` tells an exception before `container.wait` (`cut`) from a later one.

* `Launch` picks what the container will say: any prefix of the protocol's lines, with
  an unexpected line after it if `noise` may happen. It may `Exit` at any time, or
  never. `ReadLine` and `ReadEnd` are the thread, which a dropped stream ends too.
* `TakeExpected`, `TakeWrong` and `TimesOut` are the outcomes of `expect_message`, by
  the position of the run; `Update` and `UpdateFails` the three status writes.
* `WaitEnds`, `WaitTimesOut`, `Kill`, `EndingFails`, `Remove`, `RemoveFails` are the end
  of the container; `kill` of a container that is not running raises.
* `Stop` is `ContainerLogReader.stop`, the only step that blocks the loop: no other
  coroutine moves while a run is there (`LoopFree`), but threads, containers and the
  clock do. It may take until the thread ends or return before that.
* `Deadline` is the clock. Deadlines are seconds long and a line in the queue is
  taken at once, so a deadline passes either with the queue empty or while the loop is
  blocked; in the second case the due timer and the queued `put_nowait` are handled in
  the same iteration of the loop and `asyncio.wait_for` raises (Python 3.12 and later;
  `pyproject.toml` asks for 3.14).

Simplifications: a line is in the asyncio queue as soon as the thread pushes it; the
two deadlines of a phase are alike; workers are not killed here (a crash is in
`Dispatch` and `ProcessCommit`, and leaves the container as a cut run does).

Lines 310-312 of `engine.py` say that stuck reader threads are bounded by the
concurrency. They are not for cut runs, which return their slot and leave container
and thread: `ReadersEnd` and `OnlyCutRunsLeak` are about the others.

### Comparison, Languages, Grading

A file is a sequence of lines, a line its words and the spacing around them, a word
its text, its lower case and what `float()` makes of it. `text_cmp`, `text_cmp2` (its
loop over both iterators as a recursive function of two positions), `number_cmp` and
`diff` follow the code branch by branch. A file name is the sequence of its parts
between dots; five languages stand for the table: a compiled one, an interpreted one,
two that share an extension, and parallel variants. `Standard` keeps one part of the
first extension; for a parallel language, whose extensions have two, it is never asked
(only bare extensions are looked up).

`Grading` follows one commit: the language from the poller's row, `Copy`
(`copy_source_files`: extension, archive, language, protocol), the container as an
external step, `GradeTest` per test case in order, one of which may raise and spoil
the batch, and `compute_score`. The score is a fraction, not a float.

### SingletonLock

The name, the files it stood for, who holds the lock of which file, and what file
each engine has open. `Close` and `Unlink` are two steps, as in `__exit__`; `Die` is
the end of a process, which drops its lock and leaves the name. `main` leaves
`remove_lock_at_exit` at its default, so `Unlink` always follows `Close`.

## Runs

| Run | Question | Properties |
|---|---|---|
| `dispatch_faults` | Does the claim stay exclusive whatever fails? | `TypeOK`, `AtMostOneHolder`, `HeldNotQueued`, `SlotAccounting`, `FinalIsFinal`, `ImplementsLedger`, `FollowsAttempt` |
| `dispatch_benign` | With retries but no crash, is a commit ever lost, doubled or abandoned? | `InProgressIsHeld`, `NoDuplicateCopies`, `CleanShutdown` |
| `dispatch_live` | Is every commit settled, does Ctrl-C end the program, what is lost with a worker? | `StrandedByLoss`, `QueuedSettles`, `HintedShutdownEnds` |
| `process_commit` | What does a failing attempt leave for the next? | `TypeOK`, `DownloadOwned`, `NoStaleResults`, `GradedIsStored`, `ImplementsAttempt`, `UsesContract` |
| `container` | Is a container always ended, the row right, no slot or thread kept? | `TypeOK`, `OutputSettled`, `OnlyCutRunsLeak`, `ReturnedRow`, `KeepsContract`, `RunsEnd`, `ReadersEnd` |
| `grading` | Does a submission get the verdicts and the score it deserves? | `TypeOK`, `ScoreIsDeserved`, `MalformedMeans`, `StrictnessOrder`, `VerdictSymmetric`, `ProtocolFitsImage`, `LanguageKept` |
| `dispatch_lost_hint` | finding | `ShutdownEnds` |
| `dispatch_suppressed_retry` | finding | `ReleasedIsReenqueued` |
| `process_dangling_download` | finding | `DownloadJoined` |
| `process_lost_release` | finding | `ReleasedToQueue` |
| `container_stalled_loop` | finding | `TimeoutMeansNothingArrived` |
| `singleton_unlink` | finding | `MutualExclusion` |

Each property of a passing run has a mutant of the code (an operator kept next to
the definition it replaces) that TLC finds to break it.

**Bounds.** `dispatch_faults` and `dispatch_live` have two workers with one slot each
and one commit, enqueued again and again: two coroutines and a queue of four is
the least in which two copies of the same commit meet two claims, and every fault
is on. What a second commit adds is competition for slots and queue places, which
`dispatch_benign` has (two commits, two slots per worker, milder faults). One
worker is `Mortal`, the other survives: with all workers dead liveness is
trivially lost. `process_commit` has three attempts, so that a thread or a file of
one can meet the second next; the faults are all, all but `mark`, and all but
`crash` and `report`, since two properties speak about those instances.

`container` has two runs and two slots: one run that is compiled, with and without
errors, and in which every call may fail (in three groups, since independent failures
of one run end it and do not add up), beside one of an interpreted program whose
container may say anything less than its protocol or hang. Two are enough for one
to block the loop while the other waits. `grading` enumerates all pairs of files of up
to three lines from a blank one and two words, and of two lines with other case and
spacing; all pairs of lines of up to two of eight numbers and words; all names of up
to three parts; all archives of up to three files; all sequences of up to three of nine
ways a test case can go. Those reach every branch of the comparators, also with a
blank line at any place of either file. `singleton_unlink` has two engines and three
files, of which its trace needs two.

The theorems have no bounds.

**Deadlock.** All runs say `CHECK_DEADLOCK FALSE`: the program ends after Ctrl-C,
and a model of three attempts ends after the third.

**Fairness** (`Dispatch!Fairness`). Weak fairness of the parent, of each worker's
loop and of each coroutine: they are processes and tasks that the operating system
and the event loop schedule. Weak fairness of `Expire`: the window is 60 seconds by
default (config.py:34) and the clock runs. Strong fairness, per commit, of being read from
the queue, of starting its coroutine, of winning a claim and of writing a final status: a
transient failure (of the database, of memory) is not repeated for ever. Nothing is assumed of `Submit`, of
the crashes, of the failures or of Ctrl-C.

`Container!Fairness`: some ready coroutine goes on (the event loop), some thread that
can read goes on, some deadline passes. Nothing is assumed of the containers, which
may hang for ever.

## What the runs show

They hold: no two coroutines process the same commit, whatever is delivered twice,
lost or killed; a row under a claim is never up for another; slots are neither
leaked nor doubled; a final status stays (it needs release's guard on the status);
inside the suppression window there is one copy of a commit under way; a graceful
shutdown abandons nothing; a queued commit is settled unless a crash or fatal
error strands it (its row then says PROCESSING or later with nobody holding it,
which nothing in the code repairs), or jams the queue. As long as the
database answers, nothing but a lost worker strands a commit (`StrandedByLoss`). An attempt never mixes its
results with an earlier one's; a grade has its rows and its output.

A run that returned has a container that runs no more, whatever timed out; only a
run that raised before `container.wait`, or whose removal failed, leaves one. Its row
says ERROR exactly if the compiler did. Every run ends. A commit is COMPLETED and its
score full exactly if the program ran and every test case is correct. Malformed means
equal up to case, spacing and blank lines, except that a file which ends with a blank
line is incorrect, even against itself (`text_cmp2` gives up when a file ends while
its blank lines are skipped; `text_cmp` accepts such a file first, if it is strictly
equal). The numeric comparison accepts nan for any number. The protocol `run` follows
fits the image except for names like `c` or `.c`, for which the poller finds a language
that `set_extension` does not; and `p.omp.c` is run in the image for plain C, since
`copy_source_files` replaces the language by that of the bare extension. These
exceptions are part of the properties' statements.

They disagree with the repository's own words in six places (`PROJECT.json`,
`findings`):

1. `ShutdownEnds`. The hint counted for one worker can be taken by another, which
   ends before `_stop_workers` looks at it and so is given none: one hint is missing
   and `join()` waits for ever.
2. `ReleasedIsReenqueued`. A commit claimed and released between two polls never left
   the fetch, so its entry is kept and it is suppressed until the window elapses.
3. `DownloadJoined`. If the PROCESSING update raises, the download thread is left
   running while the claim is released; the retry removes the directory under it.
4. `ReleasedToQueue`. If an error handler's own update raises after COMPILING was
   written, the release matches no row and the commit stays COMPILING (or COMPILED, or
   RUNNING) with nobody working on it. A final status the release keeps is no violation:
   `release_commit` is meant to keep it.
5. `TimeoutMeansNothingArrived`. `stop()` blocks the event loop for up to five seconds
   when a container hangs; the other runs of the worker may then time out on lines
   that arrived in time.
6. `MutualExclusion`. The lock file is unlinked after its lock was dropped: an engine
   that opened it before holds the lock of a file without a name, and the next one
   locks a new file.

Two more need no run. A second Ctrl-C during the awaited `put(None)` is raised in the
event loop, so that `except KeyboardInterrupt` (`__init__.py:98`) does not see it and no
worker is terminated, against the docstring of lines 86-87; `Dispatch!Escape` is that
step. And stuck reader threads are not bounded, see Container above.

## What is proved

From the assumptions on the constants in `Dispatch` (commit ids are numbers, `None`
is not one, at least one worker, finitely many workers and coroutine names, more
names than slots, concurrency at least one), for any `Faults` and `Mortal`:

* `TypeCorrect`, `ExclusiveClaims`, `HeldIsNotQueued`, `SlotsAccounted`, `FinalStays`
  (`DispatchProofs`);
* `DispatchImplementsLedger`, `DispatchFollowsAttempt` (`DispatchRefinements`).

The inductive invariant of `DispatchProofs` is `IInv`: `TypeOK`, `AtMostOneHolder`, `HeldNotQueued`,
`RowFollows` and `SlotAccounting`. Exclusivity alone is not inductive: a claim is won
on a row that says IN_QUEUE, so nobody may hold a commit whose row says so
(`HeldNotQueued`). That in turn is not preserved by a release unless the releasing
coroutine is the only holder, and a late failure must not find a row it cannot
have: `RowFollows` ties what a coroutine is doing to what its row may say, which is
also what makes `FinalIsFinal` hold (a settled row belongs to a coroutine past its
final write, or to none). `SlotAccounting` is needed to know that `FreeTask` exists
when a coroutine starts. Each action has its own lemma; `WorkersFrame` and
`CorosFrame` carry the parts an action leaves alone. The refinement maps the row to
four values and the holders to the coroutines between a won claim and their return;
each step is a step of the ledger or a stutter, by cases. `DispatchFollowsAttempt`, the
theorem of `FollowsAttempt`, says of each commit that its row and its holder make the
steps of `Attempt`, without `Requeue`: a row goes back to the queue only when it says
PROCESSING and its holder releases it. Several coroutines stand behind that one attempt: the invariant
says that there is one holder at most (`AtMostOneHolder`), so that the holder of the
abstraction is the coroutine that steps, and what its row may say (`RowFollows`). A claim whose
answer is lost moves the row with nobody holding it (`Attempt!Unanswered`); attempts in
`ProcessCommit` begin with an answered claim. Together with
`ProcessCommitImplementsAttempt`, what `Dispatch` leaves of `process_commit` is proved
from both sides.

Under the hypothesis `Benign` on `Faults` (none of `unacked`, `retry_late`, `release`,
`fatal`, `crash`, `interrupt2`: claims may fail, attempts be retried, entries expire
and Ctrl-C come once, but every claim is left to its owner), `FaultProofs` proves
`ClaimsAreHeld` and `ShutdownIsClean`, the theorems of `InProgressIsHeld` and
`CleanShutdown`. Its invariant `BInv` adds to `IInv` that a row in progress is held, that
a coroutine which is about to release has a row saying PROCESSING (else the release would
match nothing and the row be abandoned), and that the parent is `done` only when every
worker has ended, which is what turns the first into a statement about the shutdown: an
ended worker holds nothing.

Under `Answered` alone (none of `unacked`, `retry_late`, `release`) `OnlyLossStrands` is the
theorem of `StrandedByLoss`: `BInv` holds until a worker is killed or hits a non-retryable
error (`UnharmedStep`), the step that breaks it loses one (`HarmfulStep`), and a lost worker
stays lost (`LostStays`). `Answered` is needed: a lost answer of a claim, a release that
fails and one that matches nothing strand a commit with every worker alive.

`FaultProofs` also proves `CopiesAreSingle`, the theorem of `NoDuplicateCopies`, from the
hypothesis that no entry expires (`"expire" \notin Faults`) and no other: it holds through
crashes, lost answers, late failures and both Ctrl-C. Its invariant `CInv` says without
counting that there is one copy at most (`Singles`: no place holds a commit twice and no
two places hold it), that a copy belongs to a commit that still waits (`CopyWaits`), that
while the parent polls the entry of such a commit is there (`CopyRecorded`), and that a
commit of the batch has no entry yet (`BatchIsNew`). `CopyWaits` is the part one would
not guess: pruning forgets a commit that left the queue, which is only harmless because
the claim that took it out used up its one copy; had a second copy stayed behind, a
release would let the poller add a third. `SinglesCount` turns the invariant into the
cardinalities of the property.

For `ProcessCommit`, assuming only that there is at least one attempt and that
`FaultSets` names known faults (`ProcessCommitProofs`): `AttemptTypeCorrect`,
`DownloadsOwned`, `ResultsNotStale`, `GradesStored` and
`ProcessCommitImplementsAttempt`. The invariant there says, for each value of `pc`,
what the row and the `Commit` object hold (`RowFollows`), which query has been
answered and which rows are stored (`ResultsFollow`), where a download may be
running (`DownloadFollows`) and when a release can happen (`ReleaseFollows`).
`NoStaleResults` is not inductive: that the rows are gone at `prepare` is the
DELETE's answer, which `ResultsFollow` carries from the prefetch. `GradedIsStored`
needs to know that a graded row was written by the step before `store` and that,
without a failing handler, a release only meets a PROCESSING row. The refinement
needs `RowFollows` alone: it decides which of `Attempt`'s actions a write is.

For `Container`, assuming finitely many runs, at least one slot, and known programs and
faults (`ContainerProofs`): `TypeCorrect`, `OutputSettles`, `NoOtherLeak`, `RowReturns` and
`RunsKeepContract`. The invariant has the types, `OneJoin` (one run at a time blocks the
loop, because a coroutine enters `stop` only while the loop is free), `WithinSlots`
(only `Start` makes a run active, and its guard leaves a slot), and for each run what
its step says of its outcome, its container and its row. `OutputSettled` is not
inductive: that the container of a returned run is gone comes from the step `remove`,
which a run reaches without exception only after `wait` answered or `kill` succeeded
(`BoxFollows` with `OutcomeFollows`). `ReturnedRow` needs to know, at every step, which
status was written last and which is about to be (`RowFollows`), and that is also all
the refinement needs. With `ProcessCommitUsesContract` both sides of the contract are
proved.

For the comparators, of any two files with finitely many lines and words
(`IsFile`), `ComparisonProofs` proves `LenientMeans`: `text_cmp2` accepts exactly the files
whose lines that are not blank correspond in order and have the same words, and of
which none ends with a blank line. That is said without recursion (`SameWords`: there is an
order-preserving map of the one file's filled lines onto the other's); the loop is the recursive function
`Agreement` of two positions. Two facts connect them. `AlignedStep`: sets of lines
correspond if their first lines do and the rest does, which makes the correspondence a
solution of the loop's recursion (`AcceptsTurn`). And the recursion has one solution
(`AgreementIs`): one that differed would differ at a latest line, and there it cannot.
That a set of numbers has a least one (`Least`, from the library's well-founded order on
Nat) takes the place of induction. `AlignedSymmetric` inverts the map, which gives
`ComparatorsSymmetric`; `StrictestFirst` orders `text_cmp` and `number_cmp` by strictness,
for any tolerances (`StrictnessOrder` compares neighbouring ones up to 3).

For `Grading`, assuming of a submission that its test cases are a finite sequence, their
files finite, their tolerances numbers, and that `None` is neither a language nor an extension,
`GradingProofs` proves `TypeCorrect`, `ScoresAreDeserved`, `ProtocolFits`, `MalformedIsExact`,
`StrictnessOrdered`, `VerdictsSymmetric` and `LanguageIsKept`, for any names, archives, files
and number of test cases. The invariant has three parts. `Scored` says at each step what status and results
there are; the lemma it rests on is `CorrectsCount`: as many results are correct as there
are results only if all are, a fact about cardinalities. `ResultsFollow` says that
each result is the verdict on its own test case, and carries what the comparators mean
into the run. `LanguageFollows` says that the language is the one of the full
name until the source is copied, that afterwards the protocol fits it but for the
names the property excepts, and that nothing is graded without a language. `LanguageIsKept`
needs two facts about the table: the
standard extension of a language that was found in one part leads back to it
(`StandardLeadsBack`), and an extension that is nobody's is no parallel program's either
(`UnknownName`).

Only model-checked: the liveness properties `QueuedSettles`, `HintedShutdownEnds`,
`RunsEnd` and `ReadersEnd` (fairness and ENABLED are beyond the prover). Every invariant
and every action property of a passing run has its theorem.

## Not modelled

The connection pool (psycopg's; a coroutine never holds one connection while it
waits for another), S3 and Docker themselves, reading of the configuration (its
bounds are the assumptions on the constants), how long the poller sleeps (`Sleeper`),
Dockerfiles and the scripts that run inside the containers. Of the container run, the
end of the event loop while a thread still pushes lines (`_push` then stops the thread,
and the process ends). Of the comparison, floating point: numbers are exact, so a
difference that rounds to the tolerance is not looked at; and universal newlines.
Of the parent, killing it: its workers then live on, and the lock is free. Of the worker, killing it in the middle of a container run, beyond what `Dispatch` and
`ProcessCommit` say of its commit.

## What could be added

* The number of containers and threads that cut runs leave behind over time, as a
  bound in the number of failures.
* How many commits a lost worker strands: not more than its slots if it is killed, one
  more after a non-retryable error (the fatal event is looked at before an item is waited
  for, not after).
* Passing checks of `SingletonLock`, such as that an engine is refused only while another
  is inside.
* Exclusivity as a theorem of `ClaimLedger` itself.
