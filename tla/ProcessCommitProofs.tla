------------------------ MODULE ProcessCommitProofs ------------------------
(***************************************************************************)
(* Proofs about ProcessCommit for any number of attempts and any faults.   *)
(***************************************************************************)
EXTENDS ProcessCommit, TLAPS

\* What the row and the Commit object say while the attempt awaits pc.
RowFollows ==
  /\ pc # "idle" => status # "IN_QUEUE"
  /\ pc \in {"open", "prefetch", "settleFetch", "settleDelete", "mark",
             "prepare", "compile"} => status = "PROCESSING"
  /\ pc \in {"prepare", "compile"} => local = "PROCESSING"
  /\ pc \in {"compiled", "run", "score", "store", "upload", "cleanup"} => status = local
  /\ pc = "compile" => compilable
  /\ pc = "compiled" => local = IF compilable THEN "COMPILING" ELSE "PROCESSING"
  /\ pc = "run" => local \in {"PROCESSING", "COMPILED"}
  /\ pc = "score" => local \in {"ERROR", "RUNNING"}
  /\ pc \in {"store", "upload", "cleanup"} =>
       local \in {"ERROR", "COMPLETED", "INCOMPLETE"}
  /\ pc \in {"report", "reportOnly"} => local = "INTERNAL_ERROR"
  /\ pc \in {"tidy", "return"} => status = "INTERNAL_ERROR"

AfterMark == {"mark", "prepare", "compile", "compiled", "run", "score", "store"}
AfterGather == {"settleFetch", "settleDelete"} \cup AfterMark

\* The queries are answered before the attempt goes on; without an error of the
\* DELETE the rows of earlier attempts are gone, and what the attempt stores is
\* complete before it cleans up.
ResultsFollow ==
  /\ pc = "open" => deleted = "pending"
  /\ pc \in AfterGather => "pending" \notin {fetched, deleted}
  /\ pc \in AfterMark => deleted = "ok"
  /\ pc \in {"prefetch"} \cup AfterGather /\ deleted = "ok" => results = {}
  /\ pc = "upload" => HasResults /\ results = {attempt}
  /\ pc = "cleanup" => results = IF HasResults THEN {attempt} ELSE {}
  /\ pc = "cleanup" /\ HasResults => output = attempt

\* A download runs between the start of its task and the step that awaits it.
DownloadFollows ==
  "mark" \notin faults =>
    \A a \in Attempts : Downloading(a) =>
      /\ a = attempt
      /\ pc \in {"prefetch", "settleFetch", "settleDelete", "mark", "prepare"}

\* Without a failing handler, only an attempt that wrote no status is released.
ReleaseFollows ==
  "report" \notin faults =>
    /\ pc # "raise"
    /\ pc = "release" => status = "PROCESSING"

\* The inductive invariant.
IInv ==
  /\ TypeOK /\ RowFollows /\ ResultsFollow /\ DownloadFollows /\ ReleaseFollows
  /\ GradedIsStored

-----------------------------------------------------------------------------
LEMMA InitIInv == Init => IInv
  BY AttemptsAssumption
  DEF Init, IInv, TypeOK, RowFollows, ResultsFollow, DownloadFollows,
      ReleaseFollows, GradedIsStored, AfterGather, AfterMark, Downloading,
      Attempts, Status, Final, Outcome, PC

\* A step outside every attempt.
LEMMA BetweenStep ==
  ASSUME IInv, Claim \/ Requeue \/ Crash \/ \E a \in Attempts : DownloadEnds(a)
  PROVE  IInv'
  <1> USE DEF IInv, TypeOK, RowFollows, ResultsFollow, DownloadFollows,
              ReleaseFollows, GradedIsStored, AfterGather, AfterMark, HasResults,
              Downloading, Attempts, Status, Final, Outcome, PC, config, stored,
              queries, Go
  <1>1. CASE Claim
    BY <1>1, AttemptsAssumption DEF Claim
  <1>2. CASE Requeue
    BY <1>2 DEF Requeue
  <1>3. CASE Crash
    BY <1>3 DEF Crash, MayFail
  <1>4. ASSUME NEW a \in Attempts, DownloadEnds(a) PROVE IInv'
    BY <1>4 DEF DownloadEnds
  <1> QED
    BY <1>1, <1>2, <1>3, <1>4

LEMMA PrefetchStep ==
  ASSUME IInv, Prefetch
  PROVE  IInv'
  <1> USE DEF IInv, TypeOK, RowFollows, ResultsFollow, DownloadFollows,
              ReleaseFollows, GradedIsStored, AfterGather, AfterMark, HasResults,
              Downloading, Attempts, Status, Final, Outcome, PC, config, stored,
              queries, Go, MayFail
  <1>1. CASE Open
    <2>1. TypeOK'
      BY <1>1, AttemptsAssumption DEF Open
    <2>2. RowFollows'
      BY <1>1 DEF Open
    <2>3. ResultsFollow'
      BY <1>1 DEF Open
    <2>4. DownloadFollows'
      BY <1>1 DEF Open
    <2>5. ReleaseFollows' /\ GradedIsStored'
      BY <1>1 DEF Open
    <2> QED
      BY <2>1, <2>2, <2>3, <2>4, <2>5
  <1>2. CASE OpenFails
    <2>1. TypeOK'
      BY <1>2, AttemptsAssumption DEF OpenFails
    <2>2. RowFollows'
      BY <1>2 DEF OpenFails
    <2>3. ResultsFollow'
      BY <1>2 DEF OpenFails
    <2>4. DownloadFollows'
      BY <1>2 DEF OpenFails
    <2>5. ReleaseFollows' /\ GradedIsStored'
      BY <1>2 DEF OpenFails
    <2> QED
      BY <2>1, <2>2, <2>3, <2>4, <2>5
  <1>3. CASE FetchEnds
    BY <1>3 DEF FetchEnds
  <1>4. CASE DeleteEnds
    <2>1. TypeOK'
      <3>1. results' \subseteq Attempts /\ deleted' \in Outcome
        BY <1>4 DEF DeleteEnds
      <3>2. UNCHANGED <<faults, tidy, compilable, tests, status, local, output, dir,
                        download, fetched, attempt, pc>>
        BY <1>4 DEF DeleteEnds
      <3>3. pc = "prefetch"
        BY <1>4 DEF DeleteEnds
      <3> QED
        BY <3>1, <3>2, <3>3
    <2>2. RowFollows'
      BY <1>4 DEF DeleteEnds
    <2>3. ResultsFollow'
      BY <1>4 DEF DeleteEnds
    <2>4. DownloadFollows'
      BY <1>4 DEF DeleteEnds
    <2>5. ReleaseFollows' /\ GradedIsStored'
      BY <1>4 DEF DeleteEnds
    <2> QED
      BY <2>1, <2>2, <2>3, <2>4, <2>5
  <1>5. CASE Gather
    BY <1>5 DEF Gather, AfterQueries
  <1>6. CASE SettleFetch \/ SettleDelete
    <2>1. TypeOK'
      <3>1. CASE SettleFetch
        BY <3>1 DEF SettleFetch
      <3>2. CASE SettleDelete
        BY <3>2 DEF SettleDelete
      <3> QED
        BY <1>6, <3>1, <3>2
    <2>2. RowFollows'
      BY <1>6 DEF SettleFetch, SettleDelete
    <2>3. ResultsFollow'
      BY <1>6 DEF SettleFetch, SettleDelete
    <2>4. DownloadFollows'
      BY <1>6 DEF SettleFetch, SettleDelete
    <2>5. ReleaseFollows' /\ GradedIsStored'
      BY <1>6 DEF SettleFetch, SettleDelete
    <2> QED
      BY <2>1, <2>2, <2>3, <2>4, <2>5
  <1>7. CASE Mark
    BY <1>7 DEF Mark, Write, WriteFails
  <1> QED
    BY <1>1, <1>2, <1>3, <1>4, <1>5, <1>6, <1>7 DEF Prefetch

LEMMA RunTestsStep ==
  ASSUME IInv, RunTests
  PROVE  IInv'
  <1> USE DEF IInv, TypeOK, RowFollows, ResultsFollow, DownloadFollows,
              ReleaseFollows, GradedIsStored, AfterGather, AfterMark, HasResults,
              Downloading, Attempts, Status, Final, Outcome, PC, config, stored,
              queries, Go, Write
  <1>1. CASE Prepare
    BY <1>1 DEF Prepare
  <1>2. CASE PrepareFails
    BY <1>2 DEF PrepareFails
  <1>3. CASE Compile
    <2>1. TypeOK'
      BY <1>3 DEF Compile
    <2>2. RowFollows'
      BY <1>3 DEF Compile
    <2>3. ResultsFollow'
      BY <1>3 DEF Compile
    <2>4. DownloadFollows'
      BY <1>3 DEF Compile
    <2>5. ReleaseFollows' /\ GradedIsStored'
      BY <1>3 DEF Compile
    <2> QED
      BY <2>1, <2>2, <2>3, <2>4, <2>5
  <1>4. CASE Compiled
    BY <1>4 DEF Compiled
  <1>5. CASE Run
    BY <1>5 DEF Run
  <1>6. CASE RunFails
    BY <1>6 DEF RunFails
  <1> QED
    BY <1>1, <1>2, <1>3, <1>4, <1>5, <1>6 DEF RunTests

LEMMA StoreResultsStep ==
  ASSUME IInv, StoreResults
  PROVE  IInv'
  <1> USE DEF IInv, TypeOK, RowFollows, ResultsFollow, DownloadFollows,
              ReleaseFollows, GradedIsStored, AfterGather, AfterMark, HasResults,
              Downloading, Attempts, Status, Final, Outcome, PC, config, stored,
              queries, Go, Write
  <1>1. CASE Score
    BY <1>1 DEF Score, Scores
  <1>2. CASE ScoreFails
    BY <1>2 DEF ScoreFails, Scores
  <1>3. CASE Store
    <2>1. TypeOK'
      BY <1>3 DEF Store
    <2>2. RowFollows'
      BY <1>3 DEF Store
    <2>3. ResultsFollow'
      BY <1>3 DEF Store
    <2>4. DownloadFollows'
      BY <1>3 DEF Store
    <2>5. ReleaseFollows' /\ GradedIsStored'
      BY <1>3 DEF Store
    <2> QED
      BY <2>1, <2>2, <2>3, <2>4, <2>5
  <1>4. CASE Upload
    BY <1>4 DEF Upload
  <1>5. CASE Cleanup
    <2>1. TypeOK'
      BY <1>5, AttemptsAssumption DEF Cleanup
    <2>2. RowFollows'
      BY <1>5 DEF Cleanup
    <2>3. ResultsFollow'
      BY <1>5 DEF Cleanup
    <2>4. DownloadFollows'
      BY <1>5 DEF Cleanup
    <2>5. ReleaseFollows' /\ GradedIsStored'
      BY <1>5 DEF Cleanup
    <2> QED
      BY <2>1, <2>2, <2>3, <2>4, <2>5
  <1>6. CASE StoringFails
    BY <1>6 DEF StoringFails
  <1> QED
    BY <1>1, <1>2, <1>3, <1>4, <1>5, <1>6 DEF StoreResults

LEMMA HandlersStep ==
  ASSUME IInv, Handlers
  PROVE  IInv'
  <1> USE DEF IInv, TypeOK, RowFollows, ResultsFollow, DownloadFollows,
              ReleaseFollows, GradedIsStored, AfterGather, AfterMark, HasResults,
              Downloading, Attempts, Status, Final, Outcome, PC, config, stored,
              queries, Go, MayFail
  <1>1. CASE Report
    BY <1>1 DEF Report
  <1>2. CASE ReportFails
    BY <1>2 DEF ReportFails
  <1>3. CASE Return
    BY <1>3 DEF Return
  <1>6. CASE Raise
    BY <1>6 DEF Raise
  <1>4. CASE Tidy
    <2>1. TypeOK'
      BY <1>4, AttemptsAssumption DEF Tidy
    <2>2. RowFollows'
      BY <1>4 DEF Tidy
    <2>3. ResultsFollow'
      BY <1>4 DEF Tidy
    <2>4. DownloadFollows'
      BY <1>4 DEF Tidy
    <2>5. ReleaseFollows' /\ GradedIsStored'
      BY <1>4 DEF Tidy
    <2> QED
      BY <2>1, <2>2, <2>3, <2>4, <2>5
  <1>5. CASE Release
    BY <1>5 DEF Release
  <1> QED
    BY <1>1, <1>2, <1>3, <1>4, <1>5, <1>6 DEF Handlers

LEMMA NextIInv == IInv /\ [Next]_vars => IInv'
  <1> SUFFICES ASSUME IInv, [Next]_vars PROVE IInv'
    OBVIOUS
  <1>1. CASE UNCHANGED vars
    BY <1>1
    DEF IInv, TypeOK, RowFollows, ResultsFollow, DownloadFollows, ReleaseFollows,
        GradedIsStored, AfterGather, AfterMark, HasResults, Downloading, vars,
        config, stored, queries
  <1>2. CASE Next
    BY <1>2, BetweenStep, PrefetchStep, RunTestsStep, StoreResultsStep,
       HandlersStep DEF Next
  <1> QED
    BY <1>1, <1>2

\* Every behaviour of the module satisfies the invariant.
THEOREM AttemptInvariance == Spec => []IInv
  BY InitIInv, NextIInv, PTL DEF Spec

\* Types, and an attempt past the two queries has the answers of both.
THEOREM AttemptTypeCorrect == Spec => []TypeOK
  <1>1. IInv => TypeOK
    BY DEF IInv
  <1> QED
    BY <1>1, AttemptInvariance, PTL

\* Unless the PROCESSING update fails, no path of process_commit leaves its
\* download thread behind or removes the directory under it.
THEOREM DownloadsOwned == Spec => []DownloadOwned
  <1>1. IInv => DownloadOwned
    BY DEF IInv, DownloadFollows, DownloadOwned, DownloadJoined
  <1> QED
    BY <1>1, AttemptInvariance, PTL

\* The result rows an attempt grades and keeps are its own.
THEOREM ResultsNotStale == Spec => []NoStaleResults
  <1>1. IInv => NoStaleResults
    BY DEF IInv, ResultsFollow, AfterGather, AfterMark, NoStaleResults
  <1> QED
    BY <1>1, AttemptInvariance, PTL

\* A grade comes with the rows and the output it is about.
THEOREM GradesStored == Spec => []GradedIsStored
  <1>1. IInv => GradedIsStored
    BY DEF IInv
  <1> QED
    BY <1>1, AttemptInvariance, PTL

-----------------------------------------------------------------------------
(* process_commit implements Attempt *)

\* A step that moves pc inside the attempt and leaves the row alone, or that
\* writes a row, seen from the abstract attempt.
LEMMA PrefetchRefines ==
  ASSUME IInv, Prefetch
  PROVE  Steps!Next \/ UNCHANGED Steps!vars
  <1> USE DEF IInv, RowFollows, Row, At, Final, Go, Steps!Next, Steps!Move, Steps!vars,
              Steps!Fail, Steps!End
  <1>1. CASE Open \/ OpenFails
    BY <1>1 DEF Open, OpenFails
  <1>2. CASE FetchEnds \/ DeleteEnds
    BY <1>2 DEF FetchEnds, DeleteEnds
  <1>3. CASE Gather \/ SettleFetch
    BY <1>3 DEF Gather, AfterQueries, SettleFetch
  <1>4. CASE SettleDelete
    BY <1>4 DEF SettleDelete
  <1>5. CASE Mark
    BY <1>5 DEF Mark, Write, WriteFails
  <1> QED
    BY <1>1, <1>2, <1>3, <1>4, <1>5 DEF Prefetch

LEMMA RunTestsRefines ==
  ASSUME IInv, RunTests
  PROVE  Steps!Next \/ UNCHANGED Steps!vars
  <1> USE DEF IInv, RowFollows, Row, At, Final, Go, Write, Steps!Next, Steps!Move, Steps!vars,
              Steps!StartTests, Steps!Settle
  <1>1. CASE Prepare \/ PrepareFails
    BY <1>1 DEF Prepare, PrepareFails
  <1>2. CASE Compile
    BY <1>2 DEF Compile
  <1>3. CASE Compiled
    BY <1>3 DEF Compiled
  <1>4. CASE Run
    BY <1>4 DEF Run
  <1>5. CASE RunFails
    BY <1>5 DEF RunFails
  <1> QED
    BY <1>1, <1>2, <1>3, <1>4, <1>5 DEF RunTests

LEMMA StoreResultsRefines ==
  ASSUME IInv, StoreResults
  PROVE  Steps!Next \/ UNCHANGED Steps!vars
  <1> USE DEF IInv, RowFollows, Row, At, Final, Go, Write, Scores, Steps!Next, Steps!Move,
              Steps!vars, Steps!Settle, Steps!End
  <1>1. CASE Score
    BY <1>1 DEF Score
  <1>2. CASE ScoreFails
    BY <1>2 DEF ScoreFails
  <1>3. CASE Store \/ Upload \/ Cleanup
    BY <1>3 DEF Store, Upload, Cleanup
  <1>4. CASE StoringFails
    BY <1>4 DEF StoringFails
  <1> QED
    BY <1>1, <1>2, <1>3, <1>4 DEF StoreResults

LEMMA HandlersRefine ==
  ASSUME IInv, Handlers
  PROVE  Steps!Next \/ UNCHANGED Steps!vars
  <1> USE DEF IInv, TypeOK, Status, RowFollows, Row, At, Final, Go, Steps!Next, Steps!Move,
              Steps!vars, Steps!Settle, Steps!Fail, Steps!Release, Steps!End
  <1>1. CASE Report \/ ReportFails
    BY <1>1 DEF Report, ReportFails
  <1>2. CASE Return \/ Tidy
    BY <1>2 DEF Return, Tidy
  <1>3. CASE Raise
    BY <1>3 DEF Raise
  <1>4. CASE Release
    BY <1>4 DEF Release
  <1> QED
    BY <1>1, <1>2, <1>3, <1>4 DEF Handlers

LEMMA NextRefines ==
  ASSUME IInv, [Next]_vars
  PROVE  [Steps!Next]_(Steps!vars)
  <1>1. CASE Claim
    BY <1>1 DEF Claim, Row, At, Final, Go, Steps!Next, Steps!Move, Steps!Claim
  <1>2. CASE Requeue
    BY <1>2 DEF Requeue, Row, At, Final, Steps!Next, Steps!Requeue
  <1>3. CASE Crash
    BY <1>3 DEF Crash, Row, At, Final, Go, Steps!Next, Steps!Move, Steps!End
  <1>4. CASE (\E a \in Attempts : DownloadEnds(a)) \/ UNCHANGED vars
    BY <1>4 DEF DownloadEnds, vars, Row, At, Steps!vars
  <1> QED
    BY <1>1, <1>2, <1>3, <1>4, PrefetchRefines, RunTestsRefines,
       StoreResultsRefines, HandlersRefine DEF Next

\* Every behaviour of process_commit, whatever fails, is one the dispatch
\* pipeline is specified with.
THEOREM ProcessCommitImplementsAttempt == Spec => ImplementsAttempt
  <1>1. Init => Steps!Init
    BY DEF Init, Row, At, Final, Steps!Init
  <1>2. IInv /\ [Next]_vars => [Steps!Next]_(Steps!vars)
    BY NextRefines
  <1> QED
    BY <1>1, <1>2, AttemptInvariance, PTL DEF Spec, ImplementsAttempt, Steps!Spec

-----------------------------------------------------------------------------
(* process_commit keeps its side of the contract with the container run *)

LEMMA PrefetchContract ==
  ASSUME IInv, Prefetch
  PROVE  [Phase!Next]_(Phase!vars)
  <1> USE DEF config, Go, Phase!Next, Phase!vars, Phase!Outside
  <1>1. CASE Open \/ OpenFails
    BY <1>1 DEF Open, OpenFails
  <1>2. CASE FetchEnds \/ DeleteEnds
    BY <1>2 DEF FetchEnds, DeleteEnds
  <1>3. CASE Gather \/ SettleFetch
    BY <1>3 DEF Gather, AfterQueries, SettleFetch
  <1>4. CASE SettleDelete
    BY <1>4 DEF SettleDelete
  <1>5. CASE Mark
    BY <1>5 DEF Mark
  <1> QED
    BY <1>1, <1>2, <1>3, <1>4, <1>5 DEF Prefetch

LEMMA RunTestsContract ==
  ASSUME IInv, RunTests
  PROVE  [Phase!Next]_(Phase!vars)
  <1> USE DEF IInv, TypeOK, RowFollows, config, Go, Write, Phase!Next, Phase!vars
  <1>1. CASE Prepare
    BY <1>1 DEF Prepare, Phase!Enter
  <1>2. CASE PrepareFails
    BY <1>2 DEF PrepareFails, Phase!Outside
  <1>3. CASE Compile
    BY <1>3 DEF Compile, Phase!Advance, Phase!Written
  <1>4. CASE Compiled
    BY <1>4 DEF Compiled, Phase!Advance, Phase!Written
  <1>5. CASE Run
    BY <1>5 DEF Run, Phase!Advance, Phase!Written
  <1>6. CASE RunFails
    BY <1>6 DEF RunFails, Phase!Raise, Phase!Written
  <1> QED
    BY <1>1, <1>2, <1>3, <1>4, <1>5, <1>6 DEF RunTests

LEMMA StoreResultsContract ==
  ASSUME IInv, StoreResults
  PROVE  [Phase!Next]_(Phase!vars)
  <1> USE DEF config, Go, Write, Phase!Next, Phase!vars
  <1>1. CASE Score \/ ScoreFails
    BY <1>1 DEF Score, ScoreFails, Phase!Leave
  <1>2. CASE Store \/ Upload \/ Cleanup
    BY <1>2 DEF Store, Upload, Cleanup, Phase!Outside
  <1>3. CASE StoringFails
    BY <1>3 DEF StoringFails, Phase!Outside
  <1> QED
    BY <1>1, <1>2, <1>3 DEF StoreResults

LEMMA StepContract ==
  ASSUME IInv, [Next]_vars
  PROVE  [Phase!Next]_(Phase!vars)
  <1>1. CASE Claim \/ Requeue
    BY <1>1 DEF Claim, Requeue, Go, config, Phase!Next, Phase!Outside
  <1>2. CASE Crash
    BY <1>2 DEF Crash, Go, config, Phase!Next, Phase!Raise, Phase!Outside
  <1>3. CASE Handlers
    BY <1>3 DEF Handlers, Report, ReportFails, Return, Raise, Tidy, Release, Go, config,
                Phase!Next, Phase!Outside
  <1>4. CASE (\E a \in Attempts : DownloadEnds(a)) \/ UNCHANGED vars
    BY <1>4 DEF DownloadEnds, vars, config, Phase!vars
  <1> QED
    BY <1>1, <1>2, <1>3, <1>4, PrefetchContract, RunTestsContract, StoreResultsContract
    DEF Next

\* Whatever fails in process_commit, a run of the container is entered with a
\* PROCESSING row and moves the row as module Container shows of every run
\* (ContainerProofs.RunsKeepContract): the two sides of run_tests fit together.
THEOREM ProcessCommitUsesContract == Spec => UsesContract
  <1>1. Init => Phase!Init
    BY DEF Init, Phase!Init
  <1>2. IInv /\ [Next]_vars => [Phase!Next]_(Phase!vars)
    BY StepContract
  <1> QED
    BY <1>1, <1>2, AttemptInvariance, PTL DEF Spec, UsesContract, Phase!Spec
=============================================================================
