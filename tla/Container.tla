----------------------------- MODULE Container -----------------------------
(***************************************************************************)
(* The container runs of one worker: run, ContainerLogReader and           *)
(* expect_message (src/rcc/engine.py).  Each run starts a container, reads *)
(* its log through a reader thread and an asyncio queue, waits for the     *)
(* lines of the protocol under a deadline, writes the status of its commit *)
(* between them, and in the end waits for, kills and removes the           *)
(* container.  The runs share the worker's event loop, which stop() blocks *)
(* while it joins the reader thread.  The container itself is external: it *)
(* may say any part of its script, something else, nothing, and exit or    *)
(* hang at any time.                                                       *)
(***************************************************************************)
EXTENDS Naturals, Sequences, FiniteSets

CONSTANTS
  Runs,         \* the runs of a behaviour, one commit each
  Concurrency,  \* slots of the worker
  Programs,     \* the kinds of program each run may be given
  FaultSets     \* which calls of each run may fail together

FaultKind ==
  { "docker",  \* from_env, containers.run, logs, wait, kill
    "remove",  \* container.remove
    "stream",  \* the log stream drops
    "noise",   \* the container says a line that is not in the protocol
    "errors",  \* reading the compiler's error file
    "update" } \* update_commit

ASSUME RunsAssumption == IsFiniteSet(Runs)
ASSUME ConcurrencyAssumption == Concurrency \in Nat \ {0}
ASSUME ProgramAssumption ==
  Programs \in [Runs -> SUBSET {"interpreted", "correct", "broken"}]
ASSUME FaultAssumption == FaultSets \in [Runs -> SUBSET SUBSET FaultKind]

VARIABLES
  faults,      \* the calls of a run that may fail in this behaviour
  program,     \* not compilable, or compiled without or with errors, per run
  step,        \* what the coroutine awaits
  outcome,     \* "ok", or how it came to raise, see Outcome
  row,         \* commits.status
  local,       \* status of the Commit object
  box,         \* the container
  output,      \* lines it wrote or will write, not yet read by the thread
  reader,      \* the reader thread
  log,         \* the asyncio queue
  clock        \* the deadline of the current expect_message

config == <<faults, program>>
status == <<row, local>>
stream == <<output, reader, log>>
vars == <<config, step, outcome, status, box, stream, clock>>

END == "END"
Status == {"PROCESSING", "COMPILING", "COMPILED", "ERROR", "RUNNING"}
\* cut: raised before the container was waited for; late: after that.
Outcome == {"ok", "cut", "late"}
\* arrived: the deadline passed with the line already in the queue; missed: it
\* passed with the queue empty.
Clock == {"ahead", "missed", "arrived"}
Step == {"idle", "launch", "attach", "compileStart", "compiling", "compileDone",
         "errors", "compiled", "runStart", "running", "runDone",
         "wait", "kill", "remove", "stop", "returned", "raised"}

Ended(r) == step[r] \in {"returned", "raised"}
Active == {r \in Runs : step[r] # "idle" /\ ~Ended(r)}

\* Mutant: the thread is joined in a thread of its own.
LoopFree_Threaded == TRUE

\* stop() joins the reader thread on the event loop, which runs nothing else.
LoopFree == \A r \in Runs : step[r] # "stop"
MayFail(r, f) == f \in faults[r]
Compilable(r) == program[r] # "interpreted"
Broken(r) == program[r] = "broken"

\* The line each wait is for.
Expected ==
  [compileStart |-> "compilation.start", compileDone |-> "compilation.done",
   runStart |-> "run.start", runDone |-> "run.done"]
Line == {Expected[s] : s \in DOMAIN Expected} \cup {"noise", END}
Waiting(r) == step[r] \in DOMAIN Expected

\* The script of the container, which may break off or go astray anywhere.
Script(r) ==
  (IF Compilable(r) THEN <<"compilation.start", "compilation.done">> ELSE <<>>) \o
  (IF Broken(r) THEN <<>> ELSE <<"run.start", "run.done">>)
Outputs(r) ==
  LET parts == {SubSeq(Script(r), 1, n) : n \in 0..Len(Script(r))}
  IN  IF MayFail(r, "noise") THEN {Append(p, "noise") : p \in parts} ELSE parts

Pick(choices) ==
  {f \in [Runs -> UNION {choices[r] : r \in Runs}] : \A r \in Runs : f[r] \in choices[r]}

Init ==
  /\ faults \in Pick(FaultSets)
  /\ program \in Pick(Programs)
  /\ step = [r \in Runs |-> "idle"]
  /\ outcome = [r \in Runs |-> "ok"]
  /\ row = [r \in Runs |-> "PROCESSING"]
  /\ local = [r \in Runs |-> "PROCESSING"]
  /\ box = [r \in Runs |-> "none"]
  /\ output = [r \in Runs |-> <<>>]
  /\ reader = [r \in Runs |-> "none"]
  /\ log = [r \in Runs |-> <<>>]
  /\ clock = [r \in Runs |-> "ahead"]

Go(r, next) == step' = [step EXCEPT ![r] = next]
\* An exception on the way to the container's end leaves through the outer
\* finally: stop(), and nothing is waited for, killed or removed.
Cut(r) ==
  /\ outcome' = [outcome EXCEPT ![r] = "cut"]
  /\ Go(r, "stop")
\* A coroutine takes a step when it awaits "at" and the loop is free.
At(r, s) == step[r] = s /\ LoopFree

-----------------------------------------------------------------------------
(* Starting the container *)

Start(r) ==
  /\ At(r, "idle") /\ Cardinality(Active) < Concurrency
  /\ Go(r, "launch")
  /\ UNCHANGED <<config, outcome, status, box, stream, clock>>

Launch(r) ==
  /\ At(r, "launch")
  /\ box' = [box EXCEPT ![r] = "up"]
  /\ output' \in {[output EXCEPT ![r] = o] : o \in Outputs(r)}
  /\ Go(r, "attach")
  /\ UNCHANGED <<config, outcome, status, reader, log, clock>>

\* No client, no language, no image, or an answer that is lost when the
\* container already runs: run() raises, the reader does not exist yet.
LaunchFails(r) ==
  /\ At(r, "launch") /\ MayFail(r, "docker")
  /\ box' \in {box, [box EXCEPT ![r] = "up"]}
  /\ outcome' = [outcome EXCEPT ![r] = "cut"]
  /\ Go(r, "raised")
  /\ UNCHANGED <<config, status, stream, clock>>

Attach(r) ==
  /\ At(r, "attach")
  /\ reader' = [reader EXCEPT ![r] = "reading"]
  /\ Go(r, IF Compilable(r) THEN "compileStart" ELSE "compiled")
  /\ UNCHANGED <<config, outcome, status, box, output, log, clock>>

AttachFails(r) ==
  /\ At(r, "attach") /\ MayFail(r, "docker")
  /\ outcome' = [outcome EXCEPT ![r] = "cut"]
  /\ Go(r, "raised")
  /\ UNCHANGED <<config, status, box, stream, clock>>

-----------------------------------------------------------------------------
(* The container and the reader thread *)

Exit(r) ==
  /\ box[r] = "up"
  /\ box' = [box EXCEPT ![r] = "exited"]
  /\ UNCHANGED <<config, step, outcome, status, stream, clock>>

ReadLine(r) ==
  /\ reader[r] = "reading" /\ output[r] # <<>>
  /\ log' = [log EXCEPT ![r] = Append(@, Head(output[r]))]
  /\ output' = [output EXCEPT ![r] = Tail(@)]
  /\ UNCHANGED <<config, step, outcome, status, box, reader, clock>>

\* The generator is exhausted or raises; what it had not delivered is lost.
ReadEnd(r) ==
  /\ reader[r] = "reading"
  /\ \/ box[r] = "exited" /\ output[r] = <<>>
     \/ box[r] = "removed"
     \/ MayFail(r, "stream")
  /\ reader' = [reader EXCEPT ![r] = "ended"]
  /\ log' = [log EXCEPT ![r] = Append(@, END)]
  /\ UNCHANGED <<config, step, outcome, status, box, output, clock>>

-----------------------------------------------------------------------------
(* expect_message *)

\* The deadline passes.  Deadlines are seconds away: a line in the queue is
\* taken long before, unless the loop is blocked.
Deadline(r) ==
  /\ Waiting(r) /\ clock[r] = "ahead"
  /\ log[r] = <<>> \/ ~LoopFree
  /\ clock' = [clock EXCEPT ![r] = IF log[r] = <<>> THEN "missed" ELSE "arrived"]
  /\ UNCHANGED <<config, step, outcome, status, box, stream>>

\* wait_for cancels get() once its deadline has passed, even when the line came
\* before: the timer is due when the loop goes on, ahead of the woken getter.
TimesOut(r) ==
  /\ Waiting(r) /\ LoopFree /\ clock[r] # "ahead"
  /\ Cut(r)
  /\ clock' = [clock EXCEPT ![r] = "ahead"]
  /\ UNCHANGED <<config, status, box, stream>>

\* END or a line that is not the expected one.
TakeWrong(r) ==
  /\ Waiting(r) /\ LoopFree /\ clock[r] = "ahead" /\ log[r] # <<>>
  /\ Head(log[r]) # Expected[step[r]]
  /\ log' = [log EXCEPT ![r] = Tail(@)]
  /\ Cut(r)
  /\ UNCHANGED <<config, status, box, output, reader, clock>>

\* The expected line, and the status it stands for.
TakeExpected(r) ==
  /\ Waiting(r) /\ LoopFree /\ clock[r] = "ahead" /\ log[r] # <<>>
  /\ Head(log[r]) = Expected[step[r]]
  /\ log' = [log EXCEPT ![r] = Tail(@)]
  /\ \/ /\ step[r] = "compileStart" /\ Go(r, "compiling")
        /\ local' = [local EXCEPT ![r] = "COMPILING"]
     \/ step[r] = "compileDone" /\ Go(r, "errors") /\ UNCHANGED local
     \/ /\ step[r] = "runStart" /\ Go(r, "running")
        /\ local' = [local EXCEPT ![r] = "RUNNING"]
     \/ step[r] = "runDone" /\ Go(r, "wait") /\ UNCHANGED local
  /\ UNCHANGED <<config, outcome, row, box, output, reader, clock>>

-----------------------------------------------------------------------------
(* Between the lines *)

ReadErrors(r) ==
  /\ At(r, "errors")
  /\ local' = [local EXCEPT ![r] = IF Broken(r) THEN "ERROR" ELSE "COMPILED"]
  /\ Go(r, "compiled")
  /\ UNCHANGED <<config, outcome, row, box, stream, clock>>

ReadErrorsFails(r) ==
  /\ At(r, "errors") /\ MayFail(r, "errors")
  /\ Cut(r)
  /\ UNCHANGED <<config, status, box, stream, clock>>

\* Mutant: the outcome of the compilation is not looked at.
AfterUpdate_RunsAnyway(r) ==
  CASE step[r] = "compiling" -> "compileDone"
    [] step[r] = "compiled" -> "runStart"
    [] step[r] = "running" -> "runDone"

\* update_commit; a program that did not compile is not run.
AfterUpdate(r) ==
  CASE step[r] = "compiling" -> "compileDone"
    [] step[r] = "compiled" -> IF local[r] = "ERROR" THEN "wait" ELSE "runStart"
    [] step[r] = "running" -> "runDone"

Update(r) ==
  /\ step[r] \in {"compiling", "compiled", "running"} /\ LoopFree
  /\ row' = [row EXCEPT ![r] = local[r]]
  /\ Go(r, AfterUpdate(r))
  /\ UNCHANGED <<config, outcome, local, box, stream, clock>>

\* Mutant: a failing update is only logged.
UpdateFails_Logged(r) ==
  /\ step[r] \in {"compiling", "compiled", "running"} /\ LoopFree /\ MayFail(r, "update")
  /\ row' \in {row, [row EXCEPT ![r] = local[r]]}
  /\ Go(r, AfterUpdate(r))
  /\ UNCHANGED <<config, outcome, local, box, stream, clock>>

\* It raises, before or after the row was written.
UpdateFails(r) ==
  /\ step[r] \in {"compiling", "compiled", "running"} /\ LoopFree /\ MayFail(r, "update")
  /\ row' \in {row, [row EXCEPT ![r] = local[r]]}
  /\ Cut(r)
  /\ UNCHANGED <<config, local, box, stream, clock>>

-----------------------------------------------------------------------------
(* Ending the container *)

\* container.wait answers.
WaitEnds(r) ==
  /\ At(r, "wait") /\ box[r] # "up"
  /\ Go(r, "remove")
  /\ UNCHANGED <<config, outcome, status, box, stream, clock>>

\* Mutant: a container that does not answer is removed without being killed.
WaitTimesOut_NoKill(r) ==
  /\ At(r, "wait")
  /\ Go(r, "remove")
  /\ UNCHANGED <<config, outcome, status, box, stream, clock>>

\* ReadTimeout, be it that the container exits just now.
WaitTimesOut(r) ==
  /\ At(r, "wait")
  /\ Go(r, "kill")
  /\ UNCHANGED <<config, outcome, status, box, stream, clock>>

\* Mutant: the removal is not in a finally.
EndingFails_NoFinally(r) ==
  /\ \/ At(r, "wait") /\ MayFail(r, "docker")
     \/ At(r, "kill") /\ (box[r] # "up" \/ MayFail(r, "docker"))
  /\ outcome' = [outcome EXCEPT ![r] = "late"]
  /\ Go(r, "stop")
  /\ UNCHANGED <<config, status, box, stream, clock>>

\* Any other exception of wait, or one of kill: a container that is not running
\* cannot be killed.
EndingFails(r) ==
  /\ \/ At(r, "wait") /\ MayFail(r, "docker")
     \/ At(r, "kill") /\ (box[r] # "up" \/ MayFail(r, "docker"))
  /\ outcome' = [outcome EXCEPT ![r] = "late"]
  /\ Go(r, "remove")
  /\ UNCHANGED <<config, status, box, stream, clock>>

Kill(r) ==
  /\ At(r, "kill") /\ box[r] = "up"
  /\ box' = [box EXCEPT ![r] = "exited"]
  /\ Go(r, "remove")
  /\ UNCHANGED <<config, outcome, status, stream, clock>>

Remove(r) ==
  /\ At(r, "remove")
  /\ box' = [box EXCEPT ![r] = "removed"]
  /\ Go(r, "stop")
  /\ UNCHANGED <<config, outcome, status, stream, clock>>

\* It is logged and changes nothing.
RemoveFails(r) ==
  /\ At(r, "remove") /\ MayFail(r, "remove")
  /\ Go(r, "stop")
  /\ UNCHANGED <<config, outcome, status, box, stream, clock>>

\* Mutant: join() without a timeout.
Stop_Unbounded(r) ==
  /\ step[r] = "stop" /\ reader[r] # "reading"
  /\ Go(r, IF outcome[r] = "ok" THEN "returned" ELSE "raised")
  /\ UNCHANGED <<config, outcome, status, box, stream, clock>>

\* stop() returns when the thread has ended or after five seconds, whichever
\* comes first.
Stop(r) ==
  /\ step[r] = "stop"
  /\ Go(r, IF outcome[r] = "ok" THEN "returned" ELSE "raised")
  /\ UNCHANGED <<config, outcome, status, box, stream, clock>>

-----------------------------------------------------------------------------
Coroutine(r) ==
  \/ Launch(r) \/ LaunchFails(r) \/ Attach(r) \/ AttachFails(r)
  \/ TimesOut(r) \/ TakeWrong(r) \/ TakeExpected(r)
  \/ ReadErrors(r) \/ ReadErrorsFails(r) \/ Update(r) \/ UpdateFails(r)
  \/ WaitEnds(r) \/ WaitTimesOut(r) \/ EndingFails(r) \/ Kill(r)
  \/ Remove(r) \/ RemoveFails(r) \/ Stop(r)
Thread(r) == ReadLine(r) \/ ReadEnd(r)

Next ==
  \E r \in Runs :
    Start(r) \/ Coroutine(r) \/ Thread(r) \/ Deadline(r) \/ Exit(r)

\* The loop does not idle while a coroutine is ready, nor do the threads and the
\* clock stop; nothing is assumed of the containers.
Fairness ==
  /\ WF_vars(\E r \in Runs : Coroutine(r))
  /\ WF_vars(\E r \in Runs : Thread(r))
  /\ WF_vars(\E r \in Runs : Deadline(r))

Spec == Init /\ [][Next]_vars /\ Fairness

-----------------------------------------------------------------------------
(* Properties *)

Typed ==
  /\ faults \in Pick(FaultSets) /\ program \in Pick(Programs)
  /\ step \in [Runs -> Step]
  /\ outcome \in [Runs -> Outcome]
  /\ row \in [Runs -> Status] /\ local \in [Runs -> Status]
  /\ box \in [Runs -> {"none", "up", "exited", "removed"}]
  /\ output \in [Runs -> Seq(Line)]
  /\ reader \in [Runs -> {"none", "reading", "ended"}]
  /\ log \in [Runs -> Seq(Line)]
  /\ clock \in [Runs -> Clock]

\* Types; no more runs than slots; and the loop is blocked by one run at a time.
TypeOK ==
  /\ Typed
  /\ Cardinality(Active) <= Concurrency
  /\ \A q, r \in Runs : step[q] = "stop" /\ step[r] = "stop" => q = r

\* run_tests reads the output files of a run that returned: its container can
\* no longer write them, whatever timed out, was killed or could not be removed.
OutputSettled ==
  \A r \in Runs : step[r] = "returned" => box[r] \in {"exited", "removed"}

\* "Ensure container is removed": of a run that got to the end of the protocol
\* no container is left, and what any other one leaves behind runs unwatched
\* because run() raised before it waited for the container.
OnlyCutRunsLeak ==
  \A r \in Runs :
    Ended(r) /\ box[r] \in {"up", "exited"} => outcome[r] = "cut" \/ MayFail(r, "remove")

\* A program runs under a commit that says so: when the run returns, the row is
\* the last status, and it is RUNNING only for a program whose compiler, if it
\* needed one, reported no error.
ReturnedRow ==
  \A r \in Runs :
    step[r] = "returned" =>
      /\ row[r] = local[r]
      /\ row[r] = IF Broken(r) THEN "ERROR" ELSE "RUNNING"

ContractAt(r) ==
  IF step[r] \in {"idle", "raised"} \/ outcome[r] = "cut" THEN "outside"
  ELSE IF step[r] \in {"launch", "attach", "compileStart", "compiling"} /\ Compilable(r) THEN "compile"
  ELSE IF step[r] \in {"launch", "attach", "compileDone", "errors", "compiled"} THEN "compiled"
  ELSE IF step[r] \in {"runStart", "running"} THEN "run"
  ELSE "score"

Phase(r) == INSTANCE RunContract
  WITH compilable <- Compilable(r), row <- row[r], at <- ContractAt(r)

\* A run moves its commit's row as process_commit relies on.
KeepsContract ==
  /\ \A r \in Runs : Phase(r)!Init
  /\ [][\A r \in Runs : [Phase(r)!Next]_(Phase(r)!vars)]_vars

\* Runs end, returning or raising, whatever their containers do or do not: a
\* container that hangs cannot keep a slot of the worker.
RunsEnd == (Active # {}) ~> (Active = {})

\* The reader thread of a run that was not cut short ends, also when stop() gave
\* up on it: only a cut run, or one whose container could be neither killed nor
\* removed, may keep a thread of the worker for ever.
ReadersEnd ==
  LET outliving ==
        {r \in Runs : /\ Ended(r) /\ reader[r] = "reading"
                      /\ outcome[r] # "cut"
                      /\ outcome[r] = "late" => ~MayFail(r, "remove")}
  IN  (outliving # {}) ~> (outliving = {})

\* expect_message, "Raises TimeoutError when nothing arrives within timeout
\* seconds": a run does not time out on a line that arrived in time.
TimeoutMeansNothingArrived ==
  [][\A r \in Runs : clock[r] = "arrived" => ~TimesOut(r)]_vars
=============================================================================
