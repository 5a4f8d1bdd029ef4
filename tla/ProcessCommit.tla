--------------------------- MODULE ProcessCommit ---------------------------
(***************************************************************************)
(* process_commit (src/rcc/engine.py): one commit through any number of    *)
(* attempts.  Each attempt claims the commit, prepares its work directory, *)
(* overlaps the download of the submitted file with two queries, runs the  *)
(* container, writes the score, stores results and output and cleans up;   *)
(* every step may fail and each failure takes the path the code gives it.  *)
(* The claim is exclusive (module Dispatch), so attempts do not overlap;   *)
(* the download thread of an earlier attempt may.                          *)
(***************************************************************************)
EXTENDS Naturals

CONSTANTS
  MaxAttempts,  \* bound on the attempts of a behaviour
  FaultSets     \* which steps may fail together, see FaultKind

FaultKind ==
  { "storage",   \* storage.from_config
    "workdir",   \* cleanup_tests or makedirs before the prefetch
    "download",  \* the submitted file
    "fetch",     \* fetch_test_cases
    "delete",    \* delete_commit_test_results
    "mark",      \* the PROCESSING update
    "prepare",   \* container configuration, source files, test case files
    "run",       \* anything in run_tests, its updates included
    "score",     \* the update with the score
    "store",     \* store_commit_test_results
    "upload",    \* output archive
    "cleanup",   \* cleanup_tests
    "report",    \* the INTERNAL_ERROR update of an error handler
    "release",   \* release_commit
    "crash",     \* the worker is killed
    "requeue" }  \* the web server puts the commit back into the queue

ASSUME AttemptsAssumption == MaxAttempts \in Nat \ {0}
ASSUME FaultAssumption == FaultSets \subseteq SUBSET FaultKind

VARIABLES
  faults,      \* the steps that may fail in this behaviour
  tidy,        \* cfg.cleanup_on_error
  compilable,  \* commit.is_compilable
  tests,       \* the exercise has test cases
  status,      \* commits.status
  local,       \* commit.status of the attempt's Commit object
  results,     \* attempts whose rows are in commits_exercise_cases
  output,      \* attempt whose output archive is stored, 0 for none
  dir,         \* attempt that made the work directory, 0 when it is absent
  download,    \* the download thread of each attempt
  fetched, deleted,  \* the two queries gathered with it
  attempt,     \* number of the current or last attempt
  pc           \* what that attempt is awaiting

config == <<faults, tidy, compilable, tests>>
stored == <<results, output>>
queries == <<fetched, deleted>>
vars == <<config, status, local, stored, dir, download, queries, attempt, pc>>

Attempts == 1..MaxAttempts
Final == {"COMPLETED", "INCOMPLETE", "ERROR", "INTERNAL_ERROR"}
Status ==
  {"IN_QUEUE", "PROCESSING", "COMPILING", "COMPILED", "RUNNING"} \cup Final
Outcome == {"pending", "ok", "failed"}

\* open: about to set up; prefetch: awaiting the two queries; settleFetch,
\* settleDelete: awaiting the download after one of them failed; mark: the
\* PROCESSING update; prepare: the download, then the other files; compile,
\* compiled, run: in the container; score, store, upload, cleanup: after it;
\* report, reportOnly: the update of an error handler that does (does not) go
\* on to tidy; return, raise: process_commit is about to; release: release_commit;
\* idle: no attempt
PC == {"idle", "open", "prefetch", "settleFetch", "settleDelete", "mark",
       "prepare", "compile", "compiled", "run", "score", "store", "upload",
       "cleanup", "report", "reportOnly", "tidy", "return", "raise", "release"}

Init ==
  /\ faults \in FaultSets
  /\ tidy \in BOOLEAN /\ compilable \in BOOLEAN /\ tests \in BOOLEAN
  /\ status = "IN_QUEUE" /\ local = "IN_QUEUE"
  /\ results = {} /\ output = 0 /\ dir = 0
  /\ download = [a \in Attempts |-> "none"]
  /\ fetched = "pending" /\ deleted = "pending"
  /\ attempt = 0
  /\ pc = "idle"

MayFail(f) == f \in faults
Downloading(a) == download[a] = "running"
Go(next) == pc' = next

\* update_commit writes the status of the object, whatever the row says.
Write == status' = local'
\* A failing update was applied or it was not.
WriteFails == status' \in {status, local'}

-----------------------------------------------------------------------------
(* Between attempts *)

Claim ==
  /\ pc = "idle" /\ status = "IN_QUEUE" /\ attempt < MaxAttempts
  /\ status' = "PROCESSING"
  /\ local' = "IN_QUEUE"
  /\ attempt' = attempt + 1
  /\ fetched' = "pending" /\ deleted' = "pending"
  /\ Go("open")
  /\ UNCHANGED <<config, stored, dir, download>>

Requeue ==
  /\ MayFail("requeue")
  /\ pc = "idle" /\ status # "IN_QUEUE"
  /\ status' = "IN_QUEUE"
  /\ UNCHANGED <<config, local, stored, dir, download, queries, attempt, pc>>

-----------------------------------------------------------------------------
(* Setting up *)

\* The directory is emptied and made again, the download task and the two
\* queries start.
Open ==
  /\ pc = "open"
  /\ dir' = attempt
  /\ download' = [download EXCEPT ![attempt] = "running"]
  /\ Go("prefetch")
  /\ UNCHANGED <<config, status, local, stored, queries, attempt>>

\* No storage provider: the error is written, nothing is tidied.
OpenFails ==
  /\ pc = "open"
  /\ local' = "INTERNAL_ERROR"
  /\ \/ MayFail("storage") /\ Go("reportOnly") /\ UNCHANGED dir
     \/ MayFail("workdir") /\ Go("report") /\ dir' \in {0, dir}
  /\ UNCHANGED <<config, status, stored, download, queries, attempt>>

\* A download thread ends, whoever is waiting for it.
DownloadEnds(a) ==
  /\ Downloading(a)
  /\ \E end \in {"ok"} \cup (IF MayFail("download") THEN {"failed"} ELSE {}) :
       download' = [download EXCEPT ![a] = end]
  /\ UNCHANGED <<config, status, local, stored, dir, queries, attempt, pc>>

FetchEnds ==
  /\ pc = "prefetch" /\ fetched = "pending"
  /\ fetched' \in {"ok"} \cup (IF MayFail("fetch") THEN {"failed"} ELSE {})
  /\ UNCHANGED <<config, status, local, stored, dir, download, deleted, attempt, pc>>

\* A failing DELETE was applied or it was not.
DeleteEnds ==
  /\ pc = "prefetch" /\ deleted = "pending"
  /\ \/ deleted' = "ok" /\ results' = {}
     \/ MayFail("delete") /\ deleted' = "failed" /\ results' \in {results, {}}
  /\ UNCHANGED <<config, status, local, output, dir, download, fetched, attempt, pc>>

\* Mutant: the error of the DELETE is ignored.
AfterQueries_IgnoresDelete == IF fetched = "failed" THEN "settleFetch" ELSE "mark"

\* gather() returns both outcomes; a failed fetch goes first.
AfterQueries ==
  IF fetched = "failed" THEN "settleFetch"
  ELSE IF deleted = "failed" THEN "settleDelete"
  ELSE "mark"

\* Mutant: gather() without return_exceptions raises the first failure at once.
Gather_FirstFailure ==
  /\ pc = "prefetch"
  /\ \/ "failed" \in {fetched, deleted}
     \/ fetched = "ok" /\ deleted = "ok"
  /\ Go(AfterQueries)
  /\ UNCHANGED <<config, status, local, stored, dir, download, queries, attempt>>

Gather ==
  /\ pc = "prefetch" /\ fetched # "pending" /\ deleted # "pending"
  /\ Go(AfterQueries)
  /\ UNCHANGED <<config, status, local, stored, dir, download, queries, attempt>>

\* Mutant: the handler does not wait for the download.
SettleFetch_NoWait ==
  /\ pc = "settleFetch"
  /\ local' = "INTERNAL_ERROR"
  /\ Go("report")
  /\ UNCHANGED <<config, status, stored, dir, download, queries, attempt>>

SettleFetch ==
  /\ pc = "settleFetch" /\ ~Downloading(attempt)
  /\ local' = "INTERNAL_ERROR"
  /\ Go("report")
  /\ UNCHANGED <<config, status, stored, dir, download, queries, attempt>>

\* The error of the DELETE is raised: run_commit releases the commit.
SettleDelete ==
  /\ pc = "settleDelete" /\ ~Downloading(attempt)
  /\ Go("release")
  /\ UNCHANGED <<config, status, local, stored, dir, download, queries, attempt>>

\* reset() and the PROCESSING update.
Mark ==
  /\ pc = "mark"
  /\ local' = "PROCESSING"
  /\ \/ Write /\ Go("prepare")
     \/ MayFail("mark") /\ WriteFails /\ Go("release")
  /\ UNCHANGED <<config, stored, dir, download, queries, attempt>>

Prepare ==
  /\ pc = "prepare" /\ download[attempt] = "ok"
  /\ Go(IF compilable THEN "compile" ELSE "compiled")
  /\ UNCHANGED <<config, status, local, stored, dir, download, queries, attempt>>

PrepareFails ==
  /\ pc = "prepare"
  /\ \/ download[attempt] = "failed"
     \/ download[attempt] = "ok" /\ MayFail("prepare")
  /\ local' = "INTERNAL_ERROR"
  /\ Go("report")
  /\ UNCHANGED <<config, status, stored, dir, download, queries, attempt>>

-----------------------------------------------------------------------------
(* In the container *)

Compile ==
  /\ pc = "compile"
  /\ local' = "COMPILING" /\ Write
  /\ Go("compiled")
  /\ UNCHANGED <<config, stored, dir, download, queries, attempt>>

\* Mutant: the program is run whatever the compiler said.
Compiled_RunsAnyway ==
  /\ pc = "compiled"
  /\ local' \in IF compilable THEN {"ERROR", "COMPILED"} ELSE {local}
  /\ Write
  /\ Go("run")
  /\ UNCHANGED <<config, stored, dir, download, queries, attempt>>

\* The outcome of the compilation (without one, the row is written unchanged).
Compiled ==
  /\ pc = "compiled"
  /\ local' \in IF compilable THEN {"ERROR", "COMPILED"} ELSE {local}
  /\ Write
  /\ Go(IF local' = "ERROR" THEN "score" ELSE "run")
  /\ UNCHANGED <<config, stored, dir, download, queries, attempt>>

Run ==
  /\ pc = "run"
  /\ local' = "RUNNING" /\ Write
  /\ Go("score")
  /\ UNCHANGED <<config, stored, dir, download, queries, attempt>>

\* Any step of run_tests raises, its updates included: the row may already have
\* the status being written.
RunFails ==
  /\ MayFail("run")
  /\ \/ /\ pc = "compile" /\ status' \in {status, "COMPILING"}
     \/ /\ pc = "compiled"
        /\ status' \in {status} \cup (IF compilable THEN {"ERROR", "COMPILED"} ELSE {})
     \/ /\ pc = "run" /\ status' \in {status, "RUNNING"}
     \/ /\ pc = "score" /\ UNCHANGED status
  /\ local' = "INTERNAL_ERROR"
  /\ Go("report")
  /\ UNCHANGED <<config, stored, dir, download, queries, attempt>>

-----------------------------------------------------------------------------
(* After the container *)

\* compute_score keeps ERROR; without test cases the commit is COMPLETED.
Scores ==
  IF local = "ERROR" THEN {"ERROR"}
  ELSE IF tests THEN {"COMPLETED", "INCOMPLETE"} ELSE {"COMPLETED"}

Score ==
  /\ pc = "score"
  /\ local' \in Scores /\ Write
  /\ Go("store")
  /\ UNCHANGED <<config, stored, dir, download, queries, attempt>>

ScoreFails ==
  /\ pc = "score" /\ MayFail("score")
  /\ \E s \in Scores : status' \in {status, s}
  /\ local' = "INTERNAL_ERROR"
  /\ Go("report")
  /\ UNCHANGED <<config, stored, dir, download, queries, attempt>>

HasResults == tests /\ local # "ERROR"

\* The rows are inserted in one transaction; there may be none.
Store ==
  /\ pc = "store"
  /\ results' = IF HasResults THEN results \cup {attempt} ELSE results
  /\ Go(IF HasResults THEN "upload" ELSE "cleanup")
  /\ UNCHANGED <<config, status, local, output, dir, download, queries, attempt>>

Upload ==
  /\ pc = "upload"
  /\ output' = attempt
  /\ Go("cleanup")
  /\ UNCHANGED <<config, status, local, results, dir, download, queries, attempt>>

Cleanup ==
  /\ pc = "cleanup"
  /\ dir' = 0
  /\ Go("idle")
  /\ UNCHANGED <<config, status, local, stored, download, queries, attempt>>

\* Mutant: a failure to store is logged only.
StoringFails_LogsOnly ==
  /\ pc \in {"store", "upload", "cleanup"} /\ MayFail(pc)
  /\ Go("idle")
  /\ UNCHANGED <<config, status, local, stored, dir, download, queries, attempt>>

\* Storing, uploading or cleaning up fails: the row gets INTERNAL_ERROR.
StoringFails ==
  /\ pc \in {"store", "upload", "cleanup"} /\ MayFail(pc)
  /\ results' \in {results} \cup
       (IF pc = "store" /\ HasResults THEN {results \cup {attempt}} ELSE {})
  /\ output' \in {output} \cup (IF pc = "upload" THEN {attempt} ELSE {})
  /\ local' = "INTERNAL_ERROR"
  /\ Go("report")
  /\ UNCHANGED <<config, status, dir, download, queries, attempt>>

-----------------------------------------------------------------------------
(* Error handlers and run_commit *)

Report ==
  /\ pc \in {"report", "reportOnly"}
  /\ status' = local
  /\ Go(IF pc = "report" /\ tidy THEN "tidy" ELSE "return")
  /\ UNCHANGED <<config, local, stored, dir, download, queries, attempt>>

\* The handler's own update raises: run_commit sees a retryable failure.
ReportFails ==
  /\ pc \in {"report", "reportOnly"} /\ MayFail("report")
  /\ status' \in {status, local}
  /\ Go("raise")
  /\ UNCHANGED <<config, local, stored, dir, download, queries, attempt>>

Return ==
  /\ pc = "return"
  /\ Go("idle")
  /\ UNCHANGED <<config, status, local, stored, dir, download, queries, attempt>>

Raise ==
  /\ pc = "raise"
  /\ Go("release")
  /\ UNCHANGED <<config, status, local, stored, dir, download, queries, attempt>>

\* cleanup_tests in the handler; its OSError stops the worker, which leaves the
\* row as it is.
Tidy ==
  /\ pc = "tidy"
  /\ \/ dir' = 0
     \/ MayFail("cleanup") /\ UNCHANGED dir
  /\ Go("idle")
  /\ UNCHANGED <<config, status, local, stored, download, queries, attempt>>

\* Mutant: release without its guard on the status.
Release_Unguarded ==
  /\ pc = "release"
  /\ status' = "IN_QUEUE"
  /\ Go("idle")
  /\ UNCHANGED <<config, local, stored, dir, download, queries, attempt>>

Release ==
  /\ pc = "release"
  /\ \/ status' = IF status = "PROCESSING" THEN "IN_QUEUE" ELSE status
     \/ MayFail("release") /\ UNCHANGED status
  /\ Go("idle")
  /\ UNCHANGED <<config, local, stored, dir, download, queries, attempt>>

\* The worker is killed: its download thread dies with it.
Crash ==
  /\ MayFail("crash")
  /\ pc # "idle"
  /\ download' = [download EXCEPT ![attempt] = "none"]
  /\ Go("idle")
  /\ UNCHANGED <<config, status, local, stored, dir, queries, attempt>>

-----------------------------------------------------------------------------
Prefetch == Open \/ OpenFails \/ FetchEnds \/ DeleteEnds \/ Gather
              \/ SettleFetch \/ SettleDelete \/ Mark
RunTests == Prepare \/ PrepareFails \/ Compile \/ Compiled \/ Run \/ RunFails
StoreResults == Score \/ ScoreFails \/ Store \/ Upload \/ Cleanup \/ StoringFails
Handlers == Report \/ ReportFails \/ Return \/ Raise \/ Tidy \/ Release

Next ==
  \/ Claim \/ Requeue \/ Crash
  \/ Prefetch \/ RunTests \/ StoreResults \/ Handlers
  \/ \E a \in Attempts : DownloadEnds(a)

Spec == Init /\ [][Next]_vars

-----------------------------------------------------------------------------
(* Properties *)

\* The types; an attempt that is past the two queries has the answers of both.
TypeOK ==
  /\ faults \in FaultSets
  /\ tidy \in BOOLEAN /\ compilable \in BOOLEAN /\ tests \in BOOLEAN
  /\ status \in Status /\ local \in Status
  /\ results \subseteq Attempts
  /\ output \in 0..MaxAttempts /\ dir \in 0..MaxAttempts
  /\ download \in [Attempts -> {"none", "running", "ok", "failed"}]
  /\ fetched \in Outcome /\ deleted \in Outcome
  /\ attempt \in 0..MaxAttempts
  /\ pc \in PC
  /\ pc # "idle" => attempt # 0
  /\ pc \in {"settleFetch", "settleDelete", "mark", "prepare", "run", "store"} =>
       "pending" \notin {fetched, deleted}

\* "Every path below awaits (or cancels) this task": a download thread only
\* runs inside the attempt that started it and never while the work directory
\* is removed.
DownloadJoined ==
  \A a \in Attempts :
    Downloading(a) => a = attempt /\ pc \notin {"idle", "tidy", "cleanup"}

\* So it is, as long as the PROCESSING update does not fail: no other path, not
\* even with both queries and the download failing, leaves the thread behind.
DownloadOwned == "mark" \notin faults => DownloadJoined

\* From the PROCESSING update on, result rows of earlier attempts are gone, and
\* the only rows that can appear are this attempt's, after its final status.
NoStaleResults ==
  /\ pc \in {"prepare", "compile", "compiled", "run", "score", "store"} => results = {}
  /\ pc \in {"upload", "cleanup"} => results \subseteq {attempt}

\* A commit with a score has what the score is about: the rows and the output
\* of the attempt that wrote it, and no work directory is left, unless a crash
\* or a failing error handler intervened.
GradedIsStored ==
  faults \cap {"crash", "report"} = {} /\ pc = "idle" /\ status \in {"COMPLETED", "INCOMPLETE"} =>
    /\ results = IF tests THEN {attempt} ELSE {}
    /\ tests => output = attempt
    /\ dir = 0

Row ==
  IF status \in Final THEN "FINAL"
  ELSE IF status \in {"COMPILING", "COMPILED", "RUNNING"} THEN "RUNNING"
  ELSE status

At ==
  IF pc \in {"idle", "release"} THEN pc
  ELSE IF Row = "PROCESSING" THEN "prepare"
  ELSE IF Row = "RUNNING" THEN "tests"
  ELSE "store"

Steps == INSTANCE Attempt WITH row <- Row, at <- At

\* process_commit writes the row in the order the dispatch pipeline relies on,
\* whatever fails.
ImplementsAttempt == Steps!Spec

Phase == INSTANCE RunContract
  WITH row <- status, at <- IF pc \in {"compile", "compiled", "run", "score"} THEN pc ELSE "outside"

\* The steps in the container are those module Container shows a run to take,
\* and a run is entered with a PROCESSING row, whatever came before.
UsesContract == Phase!Spec

\* process_commits, "a claim is released back to IN_QUEUE after a retryable
\* failure": a release that is answered leaves the commit in the queue, unless it
\* has a final status, which release_commit is meant to keep.
ReleasedToQueue ==
  [][pc = "release" /\ pc' = "idle" => status' \in {"IN_QUEUE"} \cup Final]_vars
=============================================================================
