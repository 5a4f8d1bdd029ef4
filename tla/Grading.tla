------------------------------ MODULE Grading ------------------------------
(***************************************************************************)
(* What process_commit (src/rcc/engine.py) computes from a submission, for *)
(* one commit: its language, from the name the poller read and again from  *)
(* the name or the archive when the source is copied, the status of every  *)
(* test case and the score.  The container in between is external: it      *)
(* reports compilation errors or leaves the outputs the test cases name.   *)
(***************************************************************************)
EXTENDS Comparison, Languages

CONSTANT Submissions  \* [name, files, tests], see below

\* tests is a finite sequence; its files are finite, its tolerances numbers.
ASSUME SubmissionsAssumption ==
  \A s \in Submissions :
    /\ FiniteSeq(s.tests)
    /\ \A i \in DOMAIN s.tests :
         /\ IsFile(s.tests[i].user)
         /\ s.tests[i].expected # None => IsFile(s.tests[i].expected)
         /\ s.tests[i].error # None => s.tests[i].error \in Int

VARIABLES
  submission,  \* name: the file's; files: the names in it if it is an archive;
               \* tests: the test cases with the files they end up with
  language,    \* commit.language
  extension,   \* commit.extension
  compilable,  \* commit.is_compilable
  status,      \* commit.status
  results,     \* status of the test cases graded so far
  corrects,    \* commit.corrects
  score,       \* commit.score, a fraction
  step

vars == <<submission, language, extension, compilable, status, results, corrects, score, step>>

tests == submission.tests
Verdict == {"correct", "malformed", "incorrect"}

Init ==
  /\ submission \in Submissions
  /\ language = language_from_extension(submission.name)
  /\ extension = None /\ compilable = FALSE
  /\ status = "PROCESSING"
  /\ results = <<>>
  /\ corrects = 0 /\ score = <<0, 1>>
  /\ step = "copy"

\* Mutant: the failure is logged only.
Raise_Silent ==
  /\ step' = "failed"
  /\ UNCHANGED status

Raise ==
  /\ status' = "INTERNAL_ERROR"
  /\ step' = "failed"

-----------------------------------------------------------------------------
Archive == standardize_extension(Extension(submission.name)) = "zip"

\* Mutant: the protocol is chosen by the name, also for an archive.
Copy_CompilableByName ==
  /\ step = "copy"
  /\ LET own == standardize_extension(Extension(submission.name))
         used == IF Archive THEN deduce_language(submission.files) ELSE own
     IN  /\ extension' = used
         /\ language' = IF used = None THEN language
                        ELSE language_from_extension(<<used>>)
         /\ compilable' = is_compilable(own)
         /\ IF Archive /\ used = None THEN Raise
            ELSE step' = "container" /\ UNCHANGED status
  /\ UNCHANGED <<submission, results, corrects, score>>

\* Mutant: a name that is not a known one has no language.
Copy_ForgetsUnknown ==
  /\ step = "copy"
  /\ LET own == standardize_extension(Extension(submission.name))
         used == IF Archive THEN deduce_language(submission.files) ELSE own
     IN  /\ extension' = used
         /\ language' = language_from_extension(<<used>>)
         /\ compilable' = is_compilable(used)
         /\ IF Archive /\ used = None THEN Raise
            ELSE step' = "container" /\ UNCHANGED status
  /\ UNCHANGED <<submission, results, corrects, score>>

\* An unknown name leaves the language as it is; an archive without a known
\* file raises.
Copy ==
  /\ step = "copy"
  /\ LET own == standardize_extension(Extension(submission.name))
         used == IF Archive THEN deduce_language(submission.files) ELSE own
     IN  /\ IF Archive /\ used = None
            THEN Raise /\ extension' = own /\ UNCHANGED <<language, compilable>>
            ELSE /\ extension' = used
                 /\ language' = IF used = None THEN language
                                ELSE language_from_extension(<<used>>)
                 /\ compilable' = is_compilable(used)
                 /\ step' = "container" /\ UNCHANGED status
  /\ UNCHANGED <<submission, results, corrects, score>>

\* Without a language there is no image.
NoContainer ==
  /\ step = "container" /\ language = None
  /\ Raise
  /\ UNCHANGED <<submission, language, extension, compilable, results, corrects, score>>

Contain ==
  /\ step = "container" /\ language # None
  /\ \/ compilable /\ status' = "ERROR" /\ step' = "score"
     \/ status' = "RUNNING" /\ step' = "grade"
  /\ UNCHANGED <<submission, language, extension, compilable, results, corrects, score>>

-----------------------------------------------------------------------------
\* A test case is [type, error, expected, user, monitor, stderr]: what monitor
\* says of the run ("ok", "signal", or "missing" without a report) and whether
\* anything was written to stderr.  expected is None if it cannot be fetched.
Tolerance(test) == IF test.error = None THEN 0 ELSE test.error

process_test_results(test) ==
  IF test.monitor = "missing" THEN "raises"
  ELSE IF test.monitor = "signal" \/ test.stderr THEN "incorrect"
  ELSE IF test.expected = None THEN "raises"
  ELSE diff(test.user, test.expected, test.type, Tolerance(test))

\* The test cases are graded in their order; one that raises spoils the batch.
GradeTest ==
  /\ step = "grade" /\ Len(results) < Len(tests)
  /\ LET verdict == process_test_results(tests[Len(results) + 1])
     IN  IF verdict = "raises" THEN Raise /\ UNCHANGED results
         ELSE results' = Append(results, verdict) /\ UNCHANGED <<status, step>>
  /\ UNCHANGED <<submission, language, extension, compilable, corrects, score>>

Graded ==
  /\ step = "grade" /\ Len(results) = Len(tests)
  /\ step' = "score"
  /\ UNCHANGED <<submission, language, extension, compilable, status, results, corrects, score>>

Corrects == Cardinality({i \in DOMAIN results : results[i] = "correct"})

\* Mutant: the score is taken over the results there are.
compute_score_OfResults ==
  /\ step = "score"
  /\ corrects' = Corrects
  /\ score' = IF results = <<>> THEN <<10, 1>> ELSE <<10 * Corrects, Len(results)>>
  /\ status' = IF Corrects = Len(results) THEN "COMPLETED" ELSE "INCOMPLETE"
  /\ step' = "done"
  /\ UNCHANGED <<submission, language, extension, compilable, results>>

\* The score is ten times the share of correct test cases, or ten without any.
compute_score ==
  /\ step = "score"
  /\ IF status = "ERROR"
     THEN corrects' = 0 /\ score' = <<0, 1>> /\ UNCHANGED status
     ELSE /\ corrects' = Corrects
          /\ score' = IF tests = <<>> THEN <<10, 1>> ELSE <<10 * Corrects, Len(tests)>>
          /\ status' = IF Corrects = Len(tests) THEN "COMPLETED" ELSE "INCOMPLETE"
  /\ step' = "done"
  /\ UNCHANGED <<submission, language, extension, compilable, results>>

Next == Copy \/ NoContainer \/ Contain \/ GradeTest \/ Graded \/ compute_score

Spec == Init /\ [][Next]_vars

-----------------------------------------------------------------------------
(* Properties *)

TypeOK ==
  /\ language \in KnownLanguages \cup {None}
  /\ compilable \in BOOLEAN
  /\ status \in {"PROCESSING", "RUNNING", "ERROR", "COMPLETED", "INCOMPLETE", "INTERNAL_ERROR"}
  /\ results \in Seq(Verdict) /\ Len(results) <= Len(tests)
  /\ corrects \in 0..Len(tests)
  /\ score \in Nat \X (Nat \ {0}) /\ score[1] <= 10 * score[2]
  /\ step \in {"copy", "container", "grade", "score", "done", "failed"}
  /\ status = "INTERNAL_ERROR" <=> step = "failed"

\* The commit is COMPLETED, and its score full, exactly if the program was run
\* and every test case of the exercise is correct: not if it was not compiled, a
\* result is missing, or a test case is malformed.  An exercise without test
\* cases is completed by any program that compiles.
ScoreIsDeserved ==
  step = "done" =>
    LET deserved == /\ status # "ERROR" /\ Len(results) = Len(tests)
                    /\ \A i \in DOMAIN results : results[i] = "correct"
    IN  /\ (status = "COMPLETED") <=> deserved
        /\ (score[1] = 10 * score[2]) <=> deserved
        /\ status = "ERROR" => score[1] = 0

\* Pairs of files graded by comparison.
Compared ==
  {i \in DOMAIN results : tests[i].monitor = "ok" /\ ~tests[i].stderr}
Text(i) == tests[i].type = "text"

\* What "malformed" means: the same words line by line, up to case, spacing and
\* blank lines, in files that are not strictly equal; but a file that ends with
\* a blank line is never found malformed, it is incorrect.
MalformedMeans ==
  \A i \in Compared :
    LET a == tests[i].user  b == tests[i].expected
    IN  Text(i) =>
          (results[i] = "malformed" <=>
             /\ Decodable(a, b) /\ SameWords(a, b)
             /\ ~EndsBlank(a) /\ ~EndsBlank(b)
             /\ results[i] # "correct")

\* "With varying strictness": what is strictly equal as text is equal as
\* numbers whatever the tolerance, a wider tolerance accepts no less, and files
\* that are the same to the byte are equal as text unless they are not text.
StrictnessOrder ==
  \A i \in Compared :
    LET a == tests[i].user  b == tests[i].expected
    IN  /\ text_cmp(a, b) => number_cmp(a, b, 0)
        /\ \A e \in 0..2 : number_cmp(a, b, e) => number_cmp(a, b, e + 1)
        /\ a = b /\ a.decodable => text_cmp(a, b)

\* Neither file is privileged: the student's output and the expected one could be
\* exchanged.
VerdictSymmetric ==
  \A i \in Compared :
    results[i] = diff(tests[i].expected, tests[i].user, tests[i].type, Tolerance(tests[i]))

\* run() expects the lines of the compilation exactly if the image compiles.
\* Only a name without an extension ("c", ".c") gets an image, from the name
\* itself, under the protocol of an interpreted language.
ProtocolFitsImage ==
  step \in {"grade", "score", "done"} =>
    \/ compilable = language.compilable
    \/ extension = None /\ Extension(submission.name) = ""

\* Copying the source does not change the language the poller found in the name,
\* but for an archive, and for a parallel program: the image of "p.omp.c" is
\* replaced by the one for plain C.
Parallel == Len(submission.name) = 3 /\ Lower(submission.name[2]) \in {"omp", "mpi"}
LanguageKept ==
  [][step = "copy" /\ ~Archive /\ ~Parallel => language' = language]_vars
=============================================================================
