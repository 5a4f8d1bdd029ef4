-------------------------- MODULE ContainerProofs --------------------------
(***************************************************************************)
(* Proofs about Container for any number of runs, any programs, faults and *)
(* behaviour of the containers.                                            *)
(***************************************************************************)
EXTENDS Container, FiniteSetTheorems, TLAPS

\* What an exception has done to a run by the time it awaits step.
OutcomeFollows(r) ==
  /\ step[r] \notin {"remove", "stop", "returned", "raised"} => outcome[r] = "ok"
  /\ step[r] = "remove" => outcome[r] # "cut"
  /\ step[r] = "returned" => outcome[r] = "ok"
  /\ step[r] = "raised" => outcome[r] # "ok"

\* The container is up, or no longer, or gone.
BoxFollows(r) ==
  /\ step[r] \notin {"idle", "launch", "raised"} => box[r] # "none"
  /\ step[r] \in {"remove", "stop", "returned"} /\ outcome[r] = "ok" => box[r] # "up"
  /\ step[r] \in {"stop", "returned", "raised"} /\ outcome[r] # "cut" =>
       box[r] = "removed" \/ MayFail(r, "remove")

Compiled(r) == IF Broken(r) THEN "ERROR" ELSE "COMPILED"
Last(r) == IF Broken(r) THEN "ERROR" ELSE "RUNNING"

\* What the row and the Commit object say.
RowFollows(r) ==
  /\ step[r] \in {"idle", "launch", "attach", "compileStart"} =>
       row[r] = "PROCESSING" /\ local[r] = "PROCESSING"
  /\ step[r] = "compileStart" => Compilable(r)
  /\ step[r] = "compiling" =>
       Compilable(r) /\ row[r] = "PROCESSING" /\ local[r] = "COMPILING"
  /\ step[r] \in {"compileDone", "errors"} =>
       Compilable(r) /\ row[r] = "COMPILING" /\ local[r] = "COMPILING"
  /\ step[r] = "compiled" =>
       IF Compilable(r) THEN row[r] = "COMPILING" /\ local[r] = Compiled(r)
       ELSE row[r] = "PROCESSING" /\ local[r] = "PROCESSING"
  /\ step[r] \in {"runStart", "running"} =>
       ~Broken(r) /\ row[r] = IF Compilable(r) THEN "COMPILED" ELSE "PROCESSING"
  /\ step[r] = "running" => local[r] = "RUNNING"
  /\ step[r] = "runDone" => ~Broken(r) /\ row[r] = "RUNNING" /\ local[r] = "RUNNING"
  /\ \/ step[r] \in {"wait", "kill", "remove", "returned"}
     \/ step[r] = "stop" /\ outcome[r] # "cut"
     => row[r] = Last(r) /\ local[r] = Last(r)

OneJoin == \A q, r \in Runs : step[q] = "stop" /\ step[r] = "stop" => q = r
WithinSlots == Cardinality(Active) <= Concurrency
Follows == \A r \in Runs : OutcomeFollows(r) /\ BoxFollows(r) /\ RowFollows(r)

\* The inductive invariant.
IInv == Typed /\ OneJoin /\ WithinSlots /\ Follows

-----------------------------------------------------------------------------
(* Types *)

LEMMA OutputsTyped ==
  ASSUME NEW r \in Runs
  PROVE  Outputs(r) \subseteq Seq(Line)
<1>1. {"compilation.start", "compilation.done", "run.start", "run.done", "noise"} \subseteq Line
  BY DEF Line, Expected
<1>2. Script(r) \in Seq(Line)
  <2>1. <<"compilation.start", "compilation.done">> \in Seq(Line)
    BY <1>1
  <2>2. <<"run.start", "run.done">> \in Seq(Line)
    BY <1>1
  <2>3. << >> \in Seq(Line)
    OBVIOUS
  <2> QED BY <2>1, <2>2, <2>3 DEF Script
<1>3. \A n \in 0..Len(Script(r)) : SubSeq(Script(r), 1, n) \in Seq(Line)
  BY <1>2
<1>4. \A p \in Seq(Line) : Append(p, "noise") \in Seq(Line)
  BY <1>1
<1> QED BY <1>3, <1>4 DEF Outputs

LEMMA InitTyped == Init => Typed
<1> SUFFICES ASSUME Init PROVE Typed
  OBVIOUS
<1>1. << >> \in Seq(Line)
  OBVIOUS
<1> QED BY <1>1 DEF Init, Typed, Step, Outcome, Status, Clock

LEMMA StepTyped ==
  ASSUME Typed, [Next]_vars
  PROVE  Typed'
<1> USE DEF Typed, Step, Outcome, Status, Clock, config, status, stream, Go, Cut, At
<1>1. CASE UNCHANGED vars
  BY <1>1 DEF vars
<1>2. ASSUME NEW r \in Runs, Start(r) PROVE Typed'
  BY <1>2 DEF Start
<1>3. ASSUME NEW r \in Runs, Launch(r) PROVE Typed'
  BY <1>3, OutputsTyped DEF Launch
<1>4. ASSUME NEW r \in Runs, LaunchFails(r) PROVE Typed'
  BY <1>4 DEF LaunchFails
<1>5. ASSUME NEW r \in Runs, Attach(r) PROVE Typed'
  BY <1>5 DEF Attach
<1>6. ASSUME NEW r \in Runs, AttachFails(r) PROVE Typed'
  BY <1>6 DEF AttachFails
<1>7. ASSUME NEW r \in Runs, Exit(r) PROVE Typed'
  BY <1>7 DEF Exit
<1>8. ASSUME NEW r \in Runs, Deadline(r) PROVE Typed'
  BY <1>8 DEF Deadline
<1>9. ASSUME NEW r \in Runs, TimesOut(r) PROVE Typed'
  BY <1>9 DEF TimesOut
<1>10. ASSUME NEW r \in Runs, ReadLine(r) PROVE Typed'
  <2>1. Head(output[r]) \in Line /\ Tail(output[r]) \in Seq(Line)
    BY <1>10 DEF ReadLine
  <2> QED BY <1>10, <2>1 DEF ReadLine
<1>11. ASSUME NEW r \in Runs, ReadEnd(r) PROVE Typed'
  <2>1. Append(log[r], END) \in Seq(Line)
    BY DEF Line
  <2> QED BY <1>11, <2>1 DEF ReadEnd
<1>12. ASSUME NEW r \in Runs, TakeWrong(r) PROVE Typed'
  <2>1. Tail(log[r]) \in Seq(Line)
    BY <1>12 DEF TakeWrong
  <2> QED BY <1>12, <2>1 DEF TakeWrong
<1>13. ASSUME NEW r \in Runs, TakeExpected(r) PROVE Typed'
  <2>1. Tail(log[r]) \in Seq(Line)
    BY <1>13 DEF TakeExpected
  <2>2. log' \in [Runs -> Seq(Line)]
    BY <1>13, <2>1 DEF TakeExpected
  <2>3. step' \in [Runs -> Step]
    <3>1. \E s \in {"compiling", "errors", "running", "wait"} : Go(r, s)
      BY <1>13 DEF TakeExpected
    <3> QED BY <3>1
  <2>4. local' \in [Runs -> Status]
    <3>1. \/ UNCHANGED local
          \/ \E s \in {"COMPILING", "RUNNING"} : local' = [local EXCEPT ![r] = s]
      BY <1>13 DEF TakeExpected
    <3> QED BY <3>1
  <2>5. UNCHANGED <<faults, program, outcome, row, box, output, reader, clock>>
    BY <1>13 DEF TakeExpected
  <2> QED BY <2>2, <2>3, <2>4, <2>5
<1>14. ASSUME NEW r \in Runs, ReadErrors(r) PROVE Typed'
  BY <1>14 DEF ReadErrors
<1>15. ASSUME NEW r \in Runs, ReadErrorsFails(r) PROVE Typed'
  BY <1>15 DEF ReadErrorsFails
<1>16. ASSUME NEW r \in Runs, Update(r) PROVE Typed'
  <2>1. AfterUpdate(r) \in Step
    BY <1>16 DEF Update, AfterUpdate
  <2> QED BY <1>16, <2>1 DEF Update
<1>17. ASSUME NEW r \in Runs, UpdateFails(r) PROVE Typed'
  BY <1>17 DEF UpdateFails
<1>18. ASSUME NEW r \in Runs, WaitEnds(r) PROVE Typed'
  BY <1>18 DEF WaitEnds
<1>19. ASSUME NEW r \in Runs, WaitTimesOut(r) PROVE Typed'
  BY <1>19 DEF WaitTimesOut
<1>20. ASSUME NEW r \in Runs, EndingFails(r) PROVE Typed'
  BY <1>20 DEF EndingFails
<1>21. ASSUME NEW r \in Runs, Kill(r) PROVE Typed'
  BY <1>21 DEF Kill
<1>22. ASSUME NEW r \in Runs, Remove(r) PROVE Typed'
  BY <1>22 DEF Remove
<1>23. ASSUME NEW r \in Runs, RemoveFails(r) PROVE Typed'
  BY <1>23 DEF RemoveFails
<1>24. ASSUME NEW r \in Runs, Stop(r) PROVE Typed'
  BY <1>24 DEF Stop
<1> QED
  BY <1>1, <1>2, <1>3, <1>4, <1>5, <1>6, <1>7, <1>8, <1>9, <1>10, <1>11, <1>12, <1>13, <1>14, <1>15, <1>16, <1>17, <1>18, <1>19, <1>20, <1>21, <1>22, <1>23, <1>24
  DEF Next, Coroutine, Thread

-----------------------------------------------------------------------------
(* The event loop and the slots *)

LEMMA StepOneJoin ==
  ASSUME Typed, OneJoin, [Next]_vars
  PROVE  OneJoin'
<1> USE DEF Typed, OneJoin, LoopFree, Go, Cut, At
<1>1. CASE UNCHANGED vars
  BY <1>1 DEF vars
<1>2. ASSUME NEW r \in Runs, Start(r) PROVE OneJoin'
  BY <1>2 DEF Start
<1>3. ASSUME NEW r \in Runs, Launch(r) PROVE OneJoin'
  BY <1>3 DEF Launch
<1>4. ASSUME NEW r \in Runs, LaunchFails(r) PROVE OneJoin'
  BY <1>4 DEF LaunchFails
<1>5. ASSUME NEW r \in Runs, Attach(r) PROVE OneJoin'
  BY <1>5 DEF Attach
<1>6. ASSUME NEW r \in Runs, AttachFails(r) PROVE OneJoin'
  BY <1>6 DEF AttachFails
<1>7. ASSUME NEW r \in Runs, Exit(r) PROVE OneJoin'
  BY <1>7 DEF Exit
<1>8. ASSUME NEW r \in Runs, Deadline(r) PROVE OneJoin'
  BY <1>8 DEF Deadline
<1>9. ASSUME NEW r \in Runs, TimesOut(r) PROVE OneJoin'
  BY <1>9 DEF TimesOut
<1>10. ASSUME NEW r \in Runs, ReadLine(r) PROVE OneJoin'
  BY <1>10 DEF ReadLine
<1>11. ASSUME NEW r \in Runs, ReadEnd(r) PROVE OneJoin'
  BY <1>11 DEF ReadEnd
<1>12. ASSUME NEW r \in Runs, TakeWrong(r) PROVE OneJoin'
  BY <1>12 DEF TakeWrong
<1>13. ASSUME NEW r \in Runs, TakeExpected(r) PROVE OneJoin'
  BY <1>13 DEF TakeExpected
<1>14. ASSUME NEW r \in Runs, ReadErrors(r) PROVE OneJoin'
  BY <1>14 DEF ReadErrors
<1>15. ASSUME NEW r \in Runs, ReadErrorsFails(r) PROVE OneJoin'
  BY <1>15 DEF ReadErrorsFails
<1>16. ASSUME NEW r \in Runs, Update(r) PROVE OneJoin'
  BY <1>16 DEF Update, AfterUpdate
<1>17. ASSUME NEW r \in Runs, UpdateFails(r) PROVE OneJoin'
  BY <1>17 DEF UpdateFails
<1>18. ASSUME NEW r \in Runs, WaitEnds(r) PROVE OneJoin'
  BY <1>18 DEF WaitEnds
<1>19. ASSUME NEW r \in Runs, WaitTimesOut(r) PROVE OneJoin'
  BY <1>19 DEF WaitTimesOut
<1>20. ASSUME NEW r \in Runs, EndingFails(r) PROVE OneJoin'
  BY <1>20 DEF EndingFails
<1>21. ASSUME NEW r \in Runs, Kill(r) PROVE OneJoin'
  BY <1>21 DEF Kill
<1>22. ASSUME NEW r \in Runs, Remove(r) PROVE OneJoin'
  BY <1>22 DEF Remove
<1>23. ASSUME NEW r \in Runs, RemoveFails(r) PROVE OneJoin'
  BY <1>23 DEF RemoveFails
<1>24. ASSUME NEW r \in Runs, Stop(r) PROVE OneJoin'
  BY <1>24 DEF Stop
<1> QED
  BY <1>1, <1>2, <1>3, <1>4, <1>5, <1>6, <1>7, <1>8, <1>9, <1>10, <1>11, <1>12, <1>13, <1>14, <1>15, <1>16, <1>17, <1>18, <1>19, <1>20, <1>21, <1>22, <1>23, <1>24
  DEF Next, Coroutine, Thread

\* No step but Start makes a run active.
LEMMA StepActive ==
  ASSUME Typed, [Next]_vars, ~\E r \in Runs : Start(r)
  PROVE  Active' \subseteq Active
<1> USE DEF Typed, Active, Ended, Go, Cut, At, Waiting, Expected
<1>1. CASE UNCHANGED vars
  BY <1>1 DEF vars
<1>2. ASSUME NEW r \in Runs, Launch(r) PROVE Active' \subseteq Active
  BY <1>2 DEF Launch
<1>3. ASSUME NEW r \in Runs, LaunchFails(r) PROVE Active' \subseteq Active
  BY <1>3 DEF LaunchFails
<1>4. ASSUME NEW r \in Runs, Attach(r) PROVE Active' \subseteq Active
  BY <1>4 DEF Attach
<1>5. ASSUME NEW r \in Runs, AttachFails(r) PROVE Active' \subseteq Active
  BY <1>5 DEF AttachFails
<1>6. ASSUME NEW r \in Runs, Exit(r) PROVE Active' \subseteq Active
  BY <1>6 DEF Exit
<1>7. ASSUME NEW r \in Runs, Deadline(r) PROVE Active' \subseteq Active
  BY <1>7 DEF Deadline
<1>8. ASSUME NEW r \in Runs, TimesOut(r) PROVE Active' \subseteq Active
  BY <1>8 DEF TimesOut
<1>9. ASSUME NEW r \in Runs, ReadLine(r) PROVE Active' \subseteq Active
  BY <1>9 DEF ReadLine
<1>10. ASSUME NEW r \in Runs, ReadEnd(r) PROVE Active' \subseteq Active
  BY <1>10 DEF ReadEnd
<1>11. ASSUME NEW r \in Runs, TakeWrong(r) PROVE Active' \subseteq Active
  BY <1>11 DEF TakeWrong
<1>12. ASSUME NEW r \in Runs, TakeExpected(r) PROVE Active' \subseteq Active
  BY <1>12 DEF TakeExpected
<1>13. ASSUME NEW r \in Runs, ReadErrors(r) PROVE Active' \subseteq Active
  BY <1>13 DEF ReadErrors
<1>14. ASSUME NEW r \in Runs, ReadErrorsFails(r) PROVE Active' \subseteq Active
  BY <1>14 DEF ReadErrorsFails
<1>15. ASSUME NEW r \in Runs, Update(r) PROVE Active' \subseteq Active
  BY <1>15 DEF Update, AfterUpdate
<1>16. ASSUME NEW r \in Runs, UpdateFails(r) PROVE Active' \subseteq Active
  BY <1>16 DEF UpdateFails
<1>17. ASSUME NEW r \in Runs, WaitEnds(r) PROVE Active' \subseteq Active
  BY <1>17 DEF WaitEnds
<1>18. ASSUME NEW r \in Runs, WaitTimesOut(r) PROVE Active' \subseteq Active
  BY <1>18 DEF WaitTimesOut
<1>19. ASSUME NEW r \in Runs, EndingFails(r) PROVE Active' \subseteq Active
  BY <1>19 DEF EndingFails
<1>20. ASSUME NEW r \in Runs, Kill(r) PROVE Active' \subseteq Active
  BY <1>20 DEF Kill
<1>21. ASSUME NEW r \in Runs, Remove(r) PROVE Active' \subseteq Active
  BY <1>21 DEF Remove
<1>22. ASSUME NEW r \in Runs, RemoveFails(r) PROVE Active' \subseteq Active
  BY <1>22 DEF RemoveFails
<1>23. ASSUME NEW r \in Runs, Stop(r) PROVE Active' \subseteq Active
  BY <1>23 DEF Stop
<1> QED
  BY <1>1, <1>2, <1>3, <1>4, <1>5, <1>6, <1>7, <1>8, <1>9, <1>10, <1>11, <1>12, <1>13, <1>14, <1>15, <1>16, <1>17, <1>18, <1>19, <1>20, <1>21, <1>22, <1>23
  DEF Next, Coroutine, Thread

LEMMA StepWithinSlots ==
  ASSUME Typed, WithinSlots, [Next]_vars
  PROVE  WithinSlots'
<1>1. IsFiniteSet(Active)
  BY RunsAssumption, FS_Subset DEF Active
<1>2. CASE \E r \in Runs : Start(r)
  <2>1. PICK r \in Runs : Start(r)
    BY <1>2
  <2>2. Active' = Active \cup {r} /\ r \notin Active
    BY <2>1 DEF Start, Go, At, Typed, Active, Ended
  <2>3. Cardinality(Active') = Cardinality(Active) + 1
    BY <1>1, <2>2, FS_AddElement
  <2>4. Cardinality(Active) \in Nat
    BY <1>1, FS_CardinalityType
  <2> QED BY <2>1, <2>3, <2>4, ConcurrencyAssumption DEF Start, WithinSlots
<1>3. CASE ~\E r \in Runs : Start(r)
  <2>1. Active' \subseteq Active
    BY <1>3, StepActive
  <2>2. Cardinality(Active') <= Cardinality(Active) /\ Cardinality(Active') \in Nat
    BY <1>1, <2>1, FS_Subset, FS_CardinalityType
  <2> QED BY <1>1, <2>2, FS_CardinalityType, ConcurrencyAssumption DEF WithinSlots
<1> QED BY <1>2, <1>3

-----------------------------------------------------------------------------
(* The outcome, the container and the row of a run *)

LEMMA StepOutcomeFollows ==
  ASSUME Typed, Follows, [Next]_vars
  PROVE  \A q \in Runs : OutcomeFollows(q)'
<1> SUFFICES ASSUME NEW q \in Runs PROVE OutcomeFollows(q)'
  OBVIOUS
<1> USE DEF Typed, Go, Cut, At, config, status, stream
<1>1. CASE UNCHANGED vars
  BY <1>1 DEF vars, Follows, OutcomeFollows
<1>2. ASSUME NEW r \in Runs, Start(r) PROVE OutcomeFollows(q)'
  BY <1>2 DEF Start, Follows, OutcomeFollows
<1>3. ASSUME NEW r \in Runs, Launch(r) PROVE OutcomeFollows(q)'
  BY <1>3 DEF Launch, Follows, OutcomeFollows
<1>4. ASSUME NEW r \in Runs, LaunchFails(r) PROVE OutcomeFollows(q)'
  BY <1>4 DEF LaunchFails, Follows, OutcomeFollows
<1>5. ASSUME NEW r \in Runs, Attach(r) PROVE OutcomeFollows(q)'
  BY <1>5 DEF Attach, Follows, OutcomeFollows
<1>6. ASSUME NEW r \in Runs, AttachFails(r) PROVE OutcomeFollows(q)'
  BY <1>6 DEF AttachFails, Follows, OutcomeFollows
<1>7. ASSUME NEW r \in Runs, Exit(r) PROVE OutcomeFollows(q)'
  BY <1>7 DEF Exit, Follows, OutcomeFollows
<1>8. ASSUME NEW r \in Runs, Deadline(r) PROVE OutcomeFollows(q)'
  BY <1>8 DEF Deadline, Follows, OutcomeFollows
<1>9. ASSUME NEW r \in Runs, TimesOut(r) PROVE OutcomeFollows(q)'
  BY <1>9 DEF TimesOut, Follows, OutcomeFollows, Waiting, Expected
<1>10. ASSUME NEW r \in Runs, ReadLine(r) PROVE OutcomeFollows(q)'
  BY <1>10 DEF ReadLine, Follows, OutcomeFollows
<1>11. ASSUME NEW r \in Runs, ReadEnd(r) PROVE OutcomeFollows(q)'
  BY <1>11 DEF ReadEnd, Follows, OutcomeFollows
<1>12. ASSUME NEW r \in Runs, TakeWrong(r) PROVE OutcomeFollows(q)'
  BY <1>12 DEF TakeWrong, Follows, OutcomeFollows, Waiting, Expected
<1>13. ASSUME NEW r \in Runs, TakeExpected(r) PROVE OutcomeFollows(q)'
  BY <1>13 DEF TakeExpected, Follows, OutcomeFollows, Waiting, Expected
<1>14. ASSUME NEW r \in Runs, ReadErrors(r) PROVE OutcomeFollows(q)'
  BY <1>14 DEF ReadErrors, Follows, OutcomeFollows
<1>15. ASSUME NEW r \in Runs, ReadErrorsFails(r) PROVE OutcomeFollows(q)'
  BY <1>15 DEF ReadErrorsFails, Follows, OutcomeFollows
<1>16. ASSUME NEW r \in Runs, Update(r) PROVE OutcomeFollows(q)'
  BY <1>16 DEF Update, Follows, OutcomeFollows, AfterUpdate
<1>17. ASSUME NEW r \in Runs, UpdateFails(r) PROVE OutcomeFollows(q)'
  BY <1>17 DEF UpdateFails, Follows, OutcomeFollows
<1>18. ASSUME NEW r \in Runs, WaitEnds(r) PROVE OutcomeFollows(q)'
  BY <1>18 DEF WaitEnds, Follows, OutcomeFollows
<1>19. ASSUME NEW r \in Runs, WaitTimesOut(r) PROVE OutcomeFollows(q)'
  BY <1>19 DEF WaitTimesOut, Follows, OutcomeFollows
<1>20. ASSUME NEW r \in Runs, EndingFails(r) PROVE OutcomeFollows(q)'
  BY <1>20 DEF EndingFails, Follows, OutcomeFollows
<1>21. ASSUME NEW r \in Runs, Kill(r) PROVE OutcomeFollows(q)'
  BY <1>21 DEF Kill, Follows, OutcomeFollows
<1>22. ASSUME NEW r \in Runs, Remove(r) PROVE OutcomeFollows(q)'
  BY <1>22 DEF Remove, Follows, OutcomeFollows
<1>23. ASSUME NEW r \in Runs, RemoveFails(r) PROVE OutcomeFollows(q)'
  BY <1>23 DEF RemoveFails, Follows, OutcomeFollows
<1>24. ASSUME NEW r \in Runs, Stop(r) PROVE OutcomeFollows(q)'
  BY <1>24 DEF Stop, Follows, OutcomeFollows
<1> QED
  BY <1>1, <1>2, <1>3, <1>4, <1>5, <1>6, <1>7, <1>8, <1>9, <1>10, <1>11, <1>12, <1>13, <1>14, <1>15, <1>16, <1>17, <1>18, <1>19, <1>20, <1>21, <1>22, <1>23, <1>24
  DEF Next, Coroutine, Thread

LEMMA StepBoxFollows ==
  ASSUME Typed, Follows, [Next]_vars
  PROVE  \A q \in Runs : BoxFollows(q)'
<1> SUFFICES ASSUME NEW q \in Runs PROVE BoxFollows(q)'
  OBVIOUS
<1> USE DEF Typed, Go, Cut, At, config, status, stream
<1>1. CASE UNCHANGED vars
  BY <1>1 DEF vars, Follows, OutcomeFollows, BoxFollows, MayFail
<1>2. ASSUME NEW r \in Runs, Start(r) PROVE BoxFollows(q)'
  BY <1>2 DEF Start, Follows, OutcomeFollows, BoxFollows, MayFail
<1>3. ASSUME NEW r \in Runs, Launch(r) PROVE BoxFollows(q)'
  BY <1>3 DEF Launch, Follows, OutcomeFollows, BoxFollows, MayFail
<1>4. ASSUME NEW r \in Runs, LaunchFails(r) PROVE BoxFollows(q)'
  BY <1>4 DEF LaunchFails, Follows, OutcomeFollows, BoxFollows, MayFail
<1>5. ASSUME NEW r \in Runs, Attach(r) PROVE BoxFollows(q)'
  BY <1>5 DEF Attach, Follows, OutcomeFollows, BoxFollows, MayFail
<1>6. ASSUME NEW r \in Runs, AttachFails(r) PROVE BoxFollows(q)'
  BY <1>6 DEF AttachFails, Follows, OutcomeFollows, BoxFollows, MayFail
<1>7. ASSUME NEW r \in Runs, Exit(r) PROVE BoxFollows(q)'
  BY <1>7 DEF Exit, Follows, OutcomeFollows, BoxFollows, MayFail
<1>8. ASSUME NEW r \in Runs, Deadline(r) PROVE BoxFollows(q)'
  BY <1>8 DEF Deadline, Follows, OutcomeFollows, BoxFollows, MayFail
<1>9. ASSUME NEW r \in Runs, TimesOut(r) PROVE BoxFollows(q)'
  BY <1>9 DEF TimesOut, Follows, OutcomeFollows, BoxFollows, MayFail, Waiting, Expected
<1>10. ASSUME NEW r \in Runs, ReadLine(r) PROVE BoxFollows(q)'
  BY <1>10 DEF ReadLine, Follows, OutcomeFollows, BoxFollows, MayFail
<1>11. ASSUME NEW r \in Runs, ReadEnd(r) PROVE BoxFollows(q)'
  BY <1>11 DEF ReadEnd, Follows, OutcomeFollows, BoxFollows, MayFail
<1>12. ASSUME NEW r \in Runs, TakeWrong(r) PROVE BoxFollows(q)'
  BY <1>12 DEF TakeWrong, Follows, OutcomeFollows, BoxFollows, MayFail, Waiting, Expected
<1>13. ASSUME NEW r \in Runs, TakeExpected(r) PROVE BoxFollows(q)'
  BY <1>13 DEF TakeExpected, Follows, OutcomeFollows, BoxFollows, MayFail, Waiting, Expected
<1>14. ASSUME NEW r \in Runs, ReadErrors(r) PROVE BoxFollows(q)'
  BY <1>14 DEF ReadErrors, Follows, OutcomeFollows, BoxFollows, MayFail
<1>15. ASSUME NEW r \in Runs, ReadErrorsFails(r) PROVE BoxFollows(q)'
  BY <1>15 DEF ReadErrorsFails, Follows, OutcomeFollows, BoxFollows, MayFail
<1>16. ASSUME NEW r \in Runs, Update(r) PROVE BoxFollows(q)'
  BY <1>16 DEF Update, Follows, OutcomeFollows, BoxFollows, MayFail, AfterUpdate
<1>17. ASSUME NEW r \in Runs, UpdateFails(r) PROVE BoxFollows(q)'
  BY <1>17 DEF UpdateFails, Follows, OutcomeFollows, BoxFollows, MayFail
<1>18. ASSUME NEW r \in Runs, WaitEnds(r) PROVE BoxFollows(q)'
  BY <1>18 DEF WaitEnds, Follows, OutcomeFollows, BoxFollows, MayFail
<1>19. ASSUME NEW r \in Runs, WaitTimesOut(r) PROVE BoxFollows(q)'
  BY <1>19 DEF WaitTimesOut, Follows, OutcomeFollows, BoxFollows, MayFail
<1>20. ASSUME NEW r \in Runs, EndingFails(r) PROVE BoxFollows(q)'
  BY <1>20 DEF EndingFails, Follows, OutcomeFollows, BoxFollows, MayFail
<1>21. ASSUME NEW r \in Runs, Kill(r) PROVE BoxFollows(q)'
  BY <1>21 DEF Kill, Follows, OutcomeFollows, BoxFollows, MayFail
<1>22. ASSUME NEW r \in Runs, Remove(r) PROVE BoxFollows(q)'
  BY <1>22 DEF Remove, Follows, OutcomeFollows, BoxFollows, MayFail
<1>23. ASSUME NEW r \in Runs, RemoveFails(r) PROVE BoxFollows(q)'
  BY <1>23 DEF RemoveFails, Follows, OutcomeFollows, BoxFollows, MayFail
<1>24. ASSUME NEW r \in Runs, Stop(r) PROVE BoxFollows(q)'
  BY <1>24 DEF Stop, Follows, OutcomeFollows, BoxFollows, MayFail
<1> QED
  BY <1>1, <1>2, <1>3, <1>4, <1>5, <1>6, <1>7, <1>8, <1>9, <1>10, <1>11, <1>12, <1>13, <1>14, <1>15, <1>16, <1>17, <1>18, <1>19, <1>20, <1>21, <1>22, <1>23, <1>24
  DEF Next, Coroutine, Thread

LEMMA StepRowFollows ==
  ASSUME Typed, Follows, [Next]_vars
  PROVE  \A q \in Runs : RowFollows(q)'
<1> SUFFICES ASSUME NEW q \in Runs PROVE RowFollows(q)'
  OBVIOUS
<1> USE DEF Typed, Go, Cut, At, config, status, stream
<1>1. CASE UNCHANGED vars
  BY <1>1 DEF vars, Follows, OutcomeFollows, RowFollows, Compiled, Last, Broken, Compilable
<1>2. ASSUME NEW r \in Runs, Start(r) PROVE RowFollows(q)'
  BY <1>2 DEF Start, Follows, OutcomeFollows, RowFollows, Compiled, Last, Broken, Compilable
<1>3. ASSUME NEW r \in Runs, Launch(r) PROVE RowFollows(q)'
  BY <1>3 DEF Launch, Follows, OutcomeFollows, RowFollows, Compiled, Last, Broken, Compilable
<1>4. ASSUME NEW r \in Runs, LaunchFails(r) PROVE RowFollows(q)'
  BY <1>4 DEF LaunchFails, Follows, OutcomeFollows, RowFollows, Compiled, Last, Broken, Compilable
<1>5. ASSUME NEW r \in Runs, Attach(r) PROVE RowFollows(q)'
  BY <1>5 DEF Attach, Follows, OutcomeFollows, RowFollows, Compiled, Last, Broken, Compilable
<1>6. ASSUME NEW r \in Runs, AttachFails(r) PROVE RowFollows(q)'
  BY <1>6 DEF AttachFails, Follows, OutcomeFollows, RowFollows, Compiled, Last, Broken, Compilable
<1>7. ASSUME NEW r \in Runs, Exit(r) PROVE RowFollows(q)'
  BY <1>7 DEF Exit, Follows, OutcomeFollows, RowFollows, Compiled, Last, Broken, Compilable
<1>8. ASSUME NEW r \in Runs, Deadline(r) PROVE RowFollows(q)'
  BY <1>8 DEF Deadline, Follows, OutcomeFollows, RowFollows, Compiled, Last, Broken, Compilable
<1>9. ASSUME NEW r \in Runs, TimesOut(r) PROVE RowFollows(q)'
  BY <1>9 DEF TimesOut, Follows, OutcomeFollows, RowFollows, Compiled, Last, Broken, Compilable, Waiting, Expected
<1>10. ASSUME NEW r \in Runs, ReadLine(r) PROVE RowFollows(q)'
  BY <1>10 DEF ReadLine, Follows, OutcomeFollows, RowFollows, Compiled, Last, Broken, Compilable
<1>11. ASSUME NEW r \in Runs, ReadEnd(r) PROVE RowFollows(q)'
  BY <1>11 DEF ReadEnd, Follows, OutcomeFollows, RowFollows, Compiled, Last, Broken, Compilable
<1>12. ASSUME NEW r \in Runs, TakeWrong(r) PROVE RowFollows(q)'
  BY <1>12 DEF TakeWrong, Follows, OutcomeFollows, RowFollows, Compiled, Last, Broken, Compilable, Waiting, Expected
<1>13. ASSUME NEW r \in Runs, TakeExpected(r) PROVE RowFollows(q)'
  BY <1>13 DEF TakeExpected, Follows, OutcomeFollows, RowFollows, Compiled, Last, Broken, Compilable, Waiting, Expected
<1>14. ASSUME NEW r \in Runs, ReadErrors(r) PROVE RowFollows(q)'
  BY <1>14 DEF ReadErrors, Follows, OutcomeFollows, RowFollows, Compiled, Last, Broken, Compilable
<1>15. ASSUME NEW r \in Runs, ReadErrorsFails(r) PROVE RowFollows(q)'
  BY <1>15 DEF ReadErrorsFails, Follows, OutcomeFollows, RowFollows, Compiled, Last, Broken, Compilable
<1>16. ASSUME NEW r \in Runs, Update(r) PROVE RowFollows(q)'
  BY <1>16 DEF Update, Follows, OutcomeFollows, RowFollows, Compiled, Last, Broken, Compilable, AfterUpdate
<1>17. ASSUME NEW r \in Runs, UpdateFails(r) PROVE RowFollows(q)'
  BY <1>17 DEF UpdateFails, Follows, OutcomeFollows, RowFollows, Compiled, Last, Broken, Compilable
<1>18. ASSUME NEW r \in Runs, WaitEnds(r) PROVE RowFollows(q)'
  BY <1>18 DEF WaitEnds, Follows, OutcomeFollows, RowFollows, Compiled, Last, Broken, Compilable
<1>19. ASSUME NEW r \in Runs, WaitTimesOut(r) PROVE RowFollows(q)'
  BY <1>19 DEF WaitTimesOut, Follows, OutcomeFollows, RowFollows, Compiled, Last, Broken, Compilable
<1>20. ASSUME NEW r \in Runs, EndingFails(r) PROVE RowFollows(q)'
  BY <1>20 DEF EndingFails, Follows, OutcomeFollows, RowFollows, Compiled, Last, Broken, Compilable
<1>21. ASSUME NEW r \in Runs, Kill(r) PROVE RowFollows(q)'
  BY <1>21 DEF Kill, Follows, OutcomeFollows, RowFollows, Compiled, Last, Broken, Compilable
<1>22. ASSUME NEW r \in Runs, Remove(r) PROVE RowFollows(q)'
  BY <1>22 DEF Remove, Follows, OutcomeFollows, RowFollows, Compiled, Last, Broken, Compilable
<1>23. ASSUME NEW r \in Runs, RemoveFails(r) PROVE RowFollows(q)'
  BY <1>23 DEF RemoveFails, Follows, OutcomeFollows, RowFollows, Compiled, Last, Broken, Compilable
<1>24. ASSUME NEW r \in Runs, Stop(r) PROVE RowFollows(q)'
  BY <1>24 DEF Stop, Follows, OutcomeFollows, RowFollows, Compiled, Last, Broken, Compilable
<1> QED
  BY <1>1, <1>2, <1>3, <1>4, <1>5, <1>6, <1>7, <1>8, <1>9, <1>10, <1>11, <1>12, <1>13, <1>14, <1>15, <1>16, <1>17, <1>18, <1>19, <1>20, <1>21, <1>22, <1>23, <1>24
  DEF Next, Coroutine, Thread

-----------------------------------------------------------------------------
(* Invariance, and what it implies *)

LEMMA InitIInv == Init => IInv
<1> SUFFICES ASSUME Init PROVE IInv
  OBVIOUS
<1>1. Typed
  BY InitTyped
<1>2. OneJoin
  BY DEF Init, OneJoin
<1>3. Active = {}
  BY DEF Init, Active
<1>4. WithinSlots
  BY <1>3, FS_EmptySet, ConcurrencyAssumption DEF WithinSlots
<1>5. Follows
  BY DEF Init, Follows, OutcomeFollows, BoxFollows, RowFollows
<1> QED BY <1>1, <1>2, <1>4, <1>5 DEF IInv

LEMMA StepIInv == IInv /\ [Next]_vars => IInv'
<1> SUFFICES ASSUME IInv, [Next]_vars PROVE IInv'
  OBVIOUS
<1>1. Follows'
  BY StepOutcomeFollows, StepBoxFollows, StepRowFollows DEF IInv, Follows
<1> QED BY <1>1, StepTyped, StepOneJoin, StepWithinSlots DEF IInv

\* The invariant of the container runs, on which the results below rest.
THEOREM Invariance == Spec => []IInv
  BY InitIInv, StepIInv, PTL DEF Spec

\* Types, the slots of the worker and the event loop, which one run at a time
\* blocks: for any number of runs and slots.
THEOREM TypeCorrect == Spec => []TypeOK
<1>1. IInv => TypeOK
  BY DEF IInv, TypeOK, OneJoin, WithinSlots
<1> QED BY <1>1, Invariance, PTL

\* The container of a run that returned no longer writes output files.
THEOREM OutputSettles == Spec => []OutputSettled
<1>1. IInv => OutputSettled
  <2> SUFFICES ASSUME IInv, NEW r \in Runs, step[r] = "returned"
               PROVE  box[r] \in {"exited", "removed"}
    BY DEF OutputSettled
  <2>1. OutcomeFollows(r) /\ BoxFollows(r)
    BY DEF IInv, Follows
  <2> QED BY <2>1 DEF IInv, Typed, OutcomeFollows, BoxFollows
<1> QED BY <1>1, Invariance, PTL

\* A container is left behind only by a run that raised before it waited for the
\* container, or whose removal failed.
THEOREM NoOtherLeak == Spec => []OnlyCutRunsLeak
<1>1. IInv => OnlyCutRunsLeak
  <2> SUFFICES ASSUME IInv, NEW r \in Runs, Ended(r), box[r] \in {"up", "exited"}
               PROVE  outcome[r] = "cut" \/ MayFail(r, "remove")
    BY DEF OnlyCutRunsLeak
  <2>1. BoxFollows(r)
    BY DEF IInv, Follows
  <2> QED BY <2>1 DEF BoxFollows, Ended
<1> QED BY <1>1, Invariance, PTL

\* A run returns with its row at ERROR for a program with compiler errors and at
\* RUNNING for any other.
THEOREM RowReturns == Spec => []ReturnedRow
<1>1. IInv => ReturnedRow
  <2> SUFFICES ASSUME IInv, NEW r \in Runs, step[r] = "returned"
               PROVE  row[r] = local[r] /\ row[r] = Last(r)
    BY DEF ReturnedRow, Last
  <2>1. RowFollows(r)
    BY DEF IInv, Follows
  <2> QED BY <2>1 DEF RowFollows
<1> QED BY <1>1, Invariance, PTL

-----------------------------------------------------------------------------
(* The contract with process_commit *)

LEMMA StepContract ==
  ASSUME IInv, [Next]_vars, NEW q \in Runs
  PROVE  [Phase(q)!Next]_(Phase(q)!vars)
<1>0. Typed /\ OutcomeFollows(q) /\ RowFollows(q)
  BY DEF IInv, Follows
<1> USE <1>0 DEF Typed, Go, Cut, At, config, status, stream, ContractAt, Compilable
<1>1. CASE UNCHANGED vars
  BY <1>1 DEF vars, Phase!vars
<1>2. ASSUME NEW r \in Runs, Start(r) PROVE [Phase(q)!Next]_(Phase(q)!vars)
  BY <1>2 DEF Start, OutcomeFollows, RowFollows, Phase!vars, Phase!Next, Phase!Enter, Phase!Advance, Phase!Raise, Phase!Leave, Phase!Outside, Phase!Written
<1>3. ASSUME NEW r \in Runs, Launch(r) PROVE [Phase(q)!Next]_(Phase(q)!vars)
  BY <1>3 DEF Launch, OutcomeFollows, RowFollows, Phase!vars, Phase!Next, Phase!Enter, Phase!Advance, Phase!Raise, Phase!Leave, Phase!Outside, Phase!Written
<1>4. ASSUME NEW r \in Runs, LaunchFails(r) PROVE [Phase(q)!Next]_(Phase(q)!vars)
  BY <1>4 DEF LaunchFails, OutcomeFollows, RowFollows, Phase!vars, Phase!Next, Phase!Enter, Phase!Advance, Phase!Raise, Phase!Leave, Phase!Outside, Phase!Written
<1>5. ASSUME NEW r \in Runs, Attach(r) PROVE [Phase(q)!Next]_(Phase(q)!vars)
  BY <1>5 DEF Attach, OutcomeFollows, RowFollows, Phase!vars, Phase!Next, Phase!Enter, Phase!Advance, Phase!Raise, Phase!Leave, Phase!Outside, Phase!Written
<1>6. ASSUME NEW r \in Runs, AttachFails(r) PROVE [Phase(q)!Next]_(Phase(q)!vars)
  BY <1>6 DEF AttachFails, OutcomeFollows, RowFollows, Phase!vars, Phase!Next, Phase!Enter, Phase!Advance, Phase!Raise, Phase!Leave, Phase!Outside, Phase!Written
<1>7. ASSUME NEW r \in Runs, Exit(r) PROVE [Phase(q)!Next]_(Phase(q)!vars)
  BY <1>7 DEF Exit, OutcomeFollows, RowFollows, Phase!vars, Phase!Next, Phase!Enter, Phase!Advance, Phase!Raise, Phase!Leave, Phase!Outside, Phase!Written
<1>8. ASSUME NEW r \in Runs, Deadline(r) PROVE [Phase(q)!Next]_(Phase(q)!vars)
  BY <1>8 DEF Deadline, OutcomeFollows, RowFollows, Phase!vars, Phase!Next, Phase!Enter, Phase!Advance, Phase!Raise, Phase!Leave, Phase!Outside, Phase!Written
<1>9. ASSUME NEW r \in Runs, TimesOut(r) PROVE [Phase(q)!Next]_(Phase(q)!vars)
  BY <1>9 DEF TimesOut, Waiting, Expected, OutcomeFollows, RowFollows, Phase!vars, Phase!Next, Phase!Enter, Phase!Advance, Phase!Raise, Phase!Leave, Phase!Outside, Phase!Written
<1>10. ASSUME NEW r \in Runs, ReadLine(r) PROVE [Phase(q)!Next]_(Phase(q)!vars)
  BY <1>10 DEF ReadLine, OutcomeFollows, RowFollows, Phase!vars, Phase!Next, Phase!Enter, Phase!Advance, Phase!Raise, Phase!Leave, Phase!Outside, Phase!Written
<1>11. ASSUME NEW r \in Runs, ReadEnd(r) PROVE [Phase(q)!Next]_(Phase(q)!vars)
  BY <1>11 DEF ReadEnd, OutcomeFollows, RowFollows, Phase!vars, Phase!Next, Phase!Enter, Phase!Advance, Phase!Raise, Phase!Leave, Phase!Outside, Phase!Written
<1>12. ASSUME NEW r \in Runs, TakeWrong(r) PROVE [Phase(q)!Next]_(Phase(q)!vars)
  BY <1>12 DEF TakeWrong, Waiting, Expected, OutcomeFollows, RowFollows, Phase!vars, Phase!Next, Phase!Enter, Phase!Advance, Phase!Raise, Phase!Leave, Phase!Outside, Phase!Written
<1>13. ASSUME NEW r \in Runs, TakeExpected(r) PROVE [Phase(q)!Next]_(Phase(q)!vars)
  BY <1>13 DEF TakeExpected, Waiting, Expected, OutcomeFollows, RowFollows, Phase!vars, Phase!Next, Phase!Enter, Phase!Advance, Phase!Raise, Phase!Leave, Phase!Outside, Phase!Written
<1>14. ASSUME NEW r \in Runs, ReadErrors(r) PROVE [Phase(q)!Next]_(Phase(q)!vars)
  BY <1>14 DEF ReadErrors, OutcomeFollows, RowFollows, Phase!vars, Phase!Next, Phase!Enter, Phase!Advance, Phase!Raise, Phase!Leave, Phase!Outside, Phase!Written
<1>15. ASSUME NEW r \in Runs, ReadErrorsFails(r) PROVE [Phase(q)!Next]_(Phase(q)!vars)
  BY <1>15 DEF ReadErrorsFails, OutcomeFollows, RowFollows, Phase!vars, Phase!Next, Phase!Enter, Phase!Advance, Phase!Raise, Phase!Leave, Phase!Outside, Phase!Written
<1>16. ASSUME NEW r \in Runs, Update(r) PROVE [Phase(q)!Next]_(Phase(q)!vars)
  <2>1. CASE q # r
    BY <1>16, <2>1 DEF Update, Phase!vars
  <2>2. CASE q = r /\ step[r] = "compiling"
    BY <1>16, <2>2 DEF Update, AfterUpdate, OutcomeFollows, RowFollows,
       Phase!Next, Phase!Advance, Phase!Written
  <2>3. CASE q = r /\ step[r] = "compiled"
    BY <1>16, <2>3 DEF Update, AfterUpdate, OutcomeFollows, RowFollows, Compiled, Broken,
       Phase!Next, Phase!Advance, Phase!Written
  <2>4. CASE q = r /\ step[r] = "running"
    BY <1>16, <2>4 DEF Update, AfterUpdate, OutcomeFollows, RowFollows,
       Phase!Next, Phase!Advance, Phase!Written
  <2> QED BY <1>16, <2>1, <2>2, <2>3, <2>4 DEF Update
<1>17. ASSUME NEW r \in Runs, UpdateFails(r) PROVE [Phase(q)!Next]_(Phase(q)!vars)
  <2>1. CASE q # r
    BY <1>17, <2>1 DEF UpdateFails, Phase!vars
  <2>2. CASE q = r
    <3>1. ContractAt(q) # "outside" /\ ContractAt(q)' = "outside" /\ UNCHANGED program
      BY <1>17, <2>2 DEF UpdateFails, OutcomeFollows
    <3>2. local[q] \in {row[q]} \cup Phase(q)!Written
      BY <1>17, <2>2 DEF UpdateFails, OutcomeFollows, RowFollows, Compiled, Broken, Phase!Written
    <3>3. row'[q] \in {row[q]} \cup Phase(q)!Written
      BY <1>17, <2>2, <3>2 DEF UpdateFails
    <3> QED BY <3>1, <3>3 DEF Phase!Next, Phase!Raise
  <2> QED BY <2>1, <2>2
<1>18. ASSUME NEW r \in Runs, WaitEnds(r) PROVE [Phase(q)!Next]_(Phase(q)!vars)
  BY <1>18 DEF WaitEnds, OutcomeFollows, RowFollows, Phase!vars, Phase!Next, Phase!Enter, Phase!Advance, Phase!Raise, Phase!Leave, Phase!Outside, Phase!Written
<1>19. ASSUME NEW r \in Runs, WaitTimesOut(r) PROVE [Phase(q)!Next]_(Phase(q)!vars)
  BY <1>19 DEF WaitTimesOut, OutcomeFollows, RowFollows, Phase!vars, Phase!Next, Phase!Enter, Phase!Advance, Phase!Raise, Phase!Leave, Phase!Outside, Phase!Written
<1>20. ASSUME NEW r \in Runs, EndingFails(r) PROVE [Phase(q)!Next]_(Phase(q)!vars)
  BY <1>20 DEF EndingFails, OutcomeFollows, RowFollows, Phase!vars, Phase!Next, Phase!Enter, Phase!Advance, Phase!Raise, Phase!Leave, Phase!Outside, Phase!Written
<1>21. ASSUME NEW r \in Runs, Kill(r) PROVE [Phase(q)!Next]_(Phase(q)!vars)
  BY <1>21 DEF Kill, OutcomeFollows, RowFollows, Phase!vars, Phase!Next, Phase!Enter, Phase!Advance, Phase!Raise, Phase!Leave, Phase!Outside, Phase!Written
<1>22. ASSUME NEW r \in Runs, Remove(r) PROVE [Phase(q)!Next]_(Phase(q)!vars)
  BY <1>22 DEF Remove, OutcomeFollows, RowFollows, Phase!vars, Phase!Next, Phase!Enter, Phase!Advance, Phase!Raise, Phase!Leave, Phase!Outside, Phase!Written
<1>23. ASSUME NEW r \in Runs, RemoveFails(r) PROVE [Phase(q)!Next]_(Phase(q)!vars)
  BY <1>23 DEF RemoveFails, OutcomeFollows, RowFollows, Phase!vars, Phase!Next, Phase!Enter, Phase!Advance, Phase!Raise, Phase!Leave, Phase!Outside, Phase!Written
<1>24. ASSUME NEW r \in Runs, Stop(r) PROVE [Phase(q)!Next]_(Phase(q)!vars)
  BY <1>24 DEF Stop, OutcomeFollows, RowFollows, Phase!vars, Phase!Next, Phase!Enter, Phase!Advance, Phase!Raise, Phase!Leave, Phase!Outside, Phase!Written
<1> QED
  BY <1>1, <1>2, <1>3, <1>4, <1>5, <1>6, <1>7, <1>8, <1>9, <1>10, <1>11, <1>12, <1>13, <1>14, <1>15, <1>16, <1>17, <1>18, <1>19, <1>20, <1>21, <1>22, <1>23, <1>24
  DEF Next, Coroutine, Thread

\* Every run moves the row of its commit as process_commit relies on: RUNNING only
\* after a compilation without errors, ERROR never followed by a run, nothing
\* written after an exception, whatever fails at whichever step.
THEOREM RunsKeepContract == Spec => KeepsContract
<1>1. Init => \A r \in Runs : Phase(r)!Init
  BY DEF Init, ContractAt, Phase!Init
<1>2. IInv /\ [Next]_vars => [\A r \in Runs : [Phase(r)!Next]_(Phase(r)!vars)]_vars
  BY StepContract
<1> QED BY <1>1, <1>2, Invariance, PTL DEF Spec, KeepsContract
=============================================================================
