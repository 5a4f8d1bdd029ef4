--------------------------- MODULE GradingProofs ---------------------------
(***************************************************************************)
(* Proofs about Grading for any submissions: any names, archives, files,   *)
(* and any number of test cases of any type and outcome.                   *)
(***************************************************************************)
EXTENDS Grading, ComparisonProofs

AllCorrect == \A i \in DOMAIN results : results[i] = "correct"
Steps == {"copy", "container", "grade", "score", "done", "failed"}
Statuses == {"PROCESSING", "RUNNING", "ERROR", "COMPLETED", "INCOMPLETE", "INTERNAL_ERROR"}

Typed ==
  /\ submission \in Submissions
  /\ language \in KnownLanguages \cup {None}
  /\ compilable \in BOOLEAN
  /\ status \in Statuses
  /\ results \in Seq(Verdict) /\ Len(results) <= Len(tests)
  /\ corrects \in 0..Len(tests)
  /\ score \in Nat \X (Nat \ {0}) /\ score[1] <= 10 * score[2]
  /\ step \in Steps

\* What is known of the status and of the results at each step: the score is
\* computed from ERROR and no results, or from a result of every test case.
StatusFollows ==
  /\ status = "INTERNAL_ERROR" <=> step = "failed"
  /\ step \in {"copy", "container"} => results = <<>>
  /\ step = "grade" => status = "RUNNING"
  /\ step = "score" => \/ status = "ERROR"
                       \/ status = "RUNNING" /\ Len(results) = Len(tests)

Scored == Typed /\ StatusFollows /\ ScoreIsDeserved

\* The results are the verdicts on the test cases they stand for.
ResultsFollow == \A i \in DOMAIN results : results[i] = process_test_results(tests[i])

\* Until the source is copied the language is the one the poller found; a run
\* needs a language, and then the protocol fits.
Protocol ==
  \/ compilable = language.compilable
  \/ extension = None /\ Extension(submission.name) = ""
LanguageFollows ==
  /\ step = "copy" => language = language_from_extension(submission.name)
  /\ step \in {"container", "grade", "score", "done"} => language = None \/ Protocol
  /\ step \in {"grade", "score", "done"} => language # None

\* The inductive invariant.
IInv == Scored /\ ResultsFollow /\ LanguageFollows

-----------------------------------------------------------------------------
(* The operators *)

LEMMA TestsTyped ==
  ASSUME submission \in Submissions
  PROVE  Len(tests) \in Nat /\ DOMAIN tests = 1..Len(tests) /\ (tests = <<>> <=> Len(tests) = 0)
  BY SubmissionsAssumption DEF tests, FiniteSeq

LEMMA LanguageTyped ==
  ASSUME NEW extension0
  PROVE  LanguageWith(extension0) \in KnownLanguages \cup {None}
<1> DEFINE listing == {l \in KnownLanguages :
                         \E i \in DOMAIN l.extensions : l.extensions[i] = extension0}
<1>1. CASE Cardinality(listing) = 1
  <2>1. listing # {}
    BY <1>1, FS_EmptySet
  <2>2. (CHOOSE l \in listing : TRUE) \in listing
    BY <2>1
  <2> QED BY <1>1, <2>2 DEF LanguageWith
<1>2. CASE Cardinality(listing) # 1
  BY <1>2 DEF LanguageWith
<1> QED BY <1>1, <1>2

LEMMA CompilableTyped ==
  ASSUME NEW extension0
  PROVE  is_compilable(extension0) \in BOOLEAN
  BY Zenon DEF is_compilable

LEMMA VerdictTyped ==
  ASSUME NEW test, process_test_results(test) # "raises"
  PROVE  process_test_results(test) \in Verdict
<1> DEFINE d == diff(test.user, test.expected, test.type, Tolerance(test))
<1>1. d \in Verdict \cup {"raises"}
  <2>1. CASE test.type = "text"
    BY <2>1 DEF diff, Verdict
  <2>2. CASE test.type = "numeric"
    BY <2>2 DEF diff, Verdict
  <2>3. CASE test.type = "binary"
    BY <2>3 DEF diff, Verdict
  <2>4. CASE test.type \notin {"text", "numeric", "binary"}
    BY <2>4 DEF diff, Verdict
  <2> QED BY <2>1, <2>2, <2>3, <2>4
<1> QED BY <1>1 DEF process_test_results, Verdict

\* The number of correct results is that of all results only if all are correct.
LEMMA CorrectsCount ==
  ASSUME results \in Seq(Verdict)
  PROVE  /\ Corrects \in 0..Len(results)
         /\ Corrects = Len(results) <=> AllCorrect
<1> DEFINE good == {i \in DOMAIN results : results[i] = "correct"}
<1>1. DOMAIN results = 1..Len(results) /\ Len(results) \in Nat
  OBVIOUS
<1>2. IsFiniteSet(DOMAIN results) /\ Cardinality(DOMAIN results) = Len(results)
  BY <1>1, FS_Interval
<1>3. good \subseteq DOMAIN results
  OBVIOUS
<1>4. /\ IsFiniteSet(good) /\ Cardinality(good) <= Len(results)
      /\ Cardinality(good) = Len(results) => good = DOMAIN results
  BY <1>2, <1>3, FS_Subset
<1>5. Cardinality(good) \in Nat
  BY <1>4, FS_CardinalityType
<1>6. good = DOMAIN results <=> AllCorrect
  BY DEF AllCorrect
<1>7. good = DOMAIN results => Cardinality(good) = Len(results)
  BY <1>2
<1>8. Corrects = Cardinality(good)
  BY DEF Corrects
<1> QED BY <1>1, <1>4, <1>5, <1>6, <1>7, <1>8

-----------------------------------------------------------------------------
(* The languages *)

Listing(parts) ==
  {l \in KnownLanguages : \E i \in DOMAIN l.extensions : l.extensions[i] = parts}

\* An extension of one part is listed by its languages, and by no parallel one.
LEMMA ListingOf ==
  ASSUME NEW part
  PROVE  /\ PlainC \in Listing(<<part>>) <=> part \in {"c", "h"}
         /\ PlainCpp \in Listing(<<part>>) <=> part \in {"cpp", "cc", "h"}
         /\ Python \in Listing(<<part>>) <=> part \in {"py", "py3"}
         /\ ParallelC \notin Listing(<<part>>)
         /\ ParallelCpp \notin Listing(<<part>>)
<1>1. \A l : l \in Listing(<<part>>) <=>
               l \in KnownLanguages /\ \E i \in DOMAIN l.extensions : l.extensions[i] = <<part>>
  BY DEF Listing
<1>2. (\E i \in DOMAIN PlainC.extensions : PlainC.extensions[i] = <<part>>)
        <=> part \in {"c", "h"}
  BY DEF PlainC, Language
<1>3. (\E i \in DOMAIN PlainCpp.extensions : PlainCpp.extensions[i] = <<part>>)
        <=> part \in {"cpp", "cc", "h"}
  BY DEF PlainCpp, Language
<1>4. (\E i \in DOMAIN Python.extensions : Python.extensions[i] = <<part>>)
        <=> part \in {"py", "py3"}
  BY DEF Python, Language
<1>5. \A i \in DOMAIN ParallelC.extensions : ParallelC.extensions[i] # <<part>>
  BY DEF ParallelC, Language
<1>6. \A i \in DOMAIN ParallelCpp.extensions : ParallelCpp.extensions[i] # <<part>>
  BY DEF ParallelCpp, Language
<1> QED BY <1>1, <1>2, <1>3, <1>4, <1>5, <1>6 DEF KnownLanguages

\* The headers of parallel programs are nobody's.
LEMMA ListingOfHeader ==
  ASSUME NEW pre \in {"omp", "mpi"}
  PROVE  \/ Listing(<<pre, "h">>) = {}
         \/ {ParallelC, ParallelCpp} \subseteq Listing(<<pre, "h">>)
<1>1. CASE pre = "omp"
  <2>1. ParallelC.extensions[2] = <<"omp", "h">> /\ 2 \in DOMAIN ParallelC.extensions
    BY DEF ParallelC, Language
  <2>2. ParallelCpp.extensions[3] = <<"omp", "h">> /\ 3 \in DOMAIN ParallelCpp.extensions
    BY DEF ParallelCpp, Language
  <2> QED BY <1>1, <2>1, <2>2 DEF Listing, KnownLanguages
<1>2. CASE pre = "mpi"
  <2> SUFFICES ASSUME NEW l \in KnownLanguages, NEW i \in DOMAIN l.extensions
               PROVE  l.extensions[i] # <<"mpi", "h">>
    BY <1>2 DEF Listing
  <2>1. CASE l = PlainC
    BY <2>1 DEF PlainC, Language
  <2>2. CASE l = PlainCpp
    BY <2>2 DEF PlainCpp, Language
  <2>3. CASE l = Python
    BY <2>3 DEF Python, Language
  <2>4. CASE l = ParallelC
    <3>1. l.extensions = << <<"omp", "c">>, <<"omp", "h">> >>
      BY <2>4 DEF ParallelC, Language
    <3>2. \A k \in 1..2 : l.extensions[k][1] = "omp"
      BY <3>1
    <3>3. i \in 1..2
      BY <3>1
    <3> QED BY <3>2, <3>3
  <2>5. CASE l = ParallelCpp
    <3>1. l.extensions = << <<"omp", "cpp">>, <<"omp", "cc">>, <<"omp", "h">> >>
      BY <2>5 DEF ParallelCpp, Language
    <3>2. \A k \in 1..3 : l.extensions[k][1] = "omp"
      BY <3>1
    <3>3. i \in 1..3
      BY <3>1
    <3> QED BY <3>2, <3>3
  <2> QED BY <2>1, <2>2, <2>3, <2>4, <2>5 DEF KnownLanguages
<1> QED BY <1>1, <1>2

LEMMA Distinct ==
  /\ PlainC # PlainCpp
  /\ ParallelC # ParallelCpp
<1>1. PlainC.name # PlainCpp.name
  BY DEF PlainC, PlainCpp, Language
<1>2. ParallelC.name # ParallelCpp.name
  BY DEF ParallelC, ParallelCpp, Language
<1> QED BY <1>1, <1>2

\* An extension is a language's if it is listed by that one only.
LEMMA ListedOnce ==
  ASSUME NEW parts
  PROVE  /\ \A l : Listing(parts) = {l} => LanguageWith(parts) = l
         /\ (\A l : Listing(parts) # {l}) => LanguageWith(parts) = None
<1>1. LanguageWith(parts) = IF Cardinality(Listing(parts)) = 1
                            THEN CHOOSE l \in Listing(parts) : TRUE ELSE None
  BY DEF LanguageWith, Listing
<1>2. ASSUME NEW l, Listing(parts) = {l} PROVE LanguageWith(parts) = l
  <2>1. Cardinality(Listing(parts)) = 1
    BY <1>2, FS_Singleton
  <2> QED BY <1>1, <1>2, <2>1
<1>3. ASSUME \A l : Listing(parts) # {l} PROVE LanguageWith(parts) = None
  <2>1. IsFiniteSet(KnownLanguages)
    <3>1. IsFiniteSet({})
      BY FS_EmptySet
    <3> HIDE DEF KnownLanguages
    <3>2. KnownLanguages = (((({} \cup {PlainC}) \cup {PlainCpp}) \cup {Python})
                               \cup {ParallelC}) \cup {ParallelCpp}
      BY DEF KnownLanguages
    <3> QED BY <3>1, <3>2, FS_AddElement
  <2>2. IsFiniteSet(Listing(parts))
    BY <2>1, FS_Subset DEF Listing
  <2>3. Cardinality(Listing(parts)) # 1
    BY <1>3, <2>2, FS_Singleton
  <2> QED BY <1>1, <2>3
<1> QED BY <1>2, <1>3

\* The language of an extension of one part.
LEMMA LanguageOf ==
  ASSUME NEW part
  PROVE  LanguageWith(<<part>>) =
           IF part = "c" THEN PlainC
           ELSE IF part \in {"cpp", "cc"} THEN PlainCpp
           ELSE IF part \in {"py", "py3"} THEN Python
           ELSE None
<1> DEFINE L == Listing(<<part>>)
<1>1. /\ L \subseteq {PlainC, PlainCpp, Python}
      /\ PlainC \in L <=> part \in {"c", "h"}
      /\ PlainCpp \in L <=> part \in {"cpp", "cc", "h"}
      /\ Python \in L <=> part \in {"py", "py3"}
  <2>1. L \subseteq KnownLanguages
    BY DEF Listing
  <2> HIDE DEF L
  <2>2. /\ PlainC \in L <=> part \in {"c", "h"}
        /\ PlainCpp \in L <=> part \in {"cpp", "cc", "h"}
        /\ Python \in L <=> part \in {"py", "py3"}
        /\ ParallelC \notin L
        /\ ParallelCpp \notin L
    BY ListingOf DEF L
  <2> QED BY <2>1, <2>2 DEF KnownLanguages
<1> HIDE DEF L
<1>2. CASE part = "c"
  <2>1. L = {PlainC}
    BY <1>1, <1>2
  <2> QED BY <1>2, <2>1, ListedOnce DEF L
<1>3. CASE part \in {"cpp", "cc"}
  <2>1. L = {PlainCpp}
    BY <1>1, <1>3
  <2> QED BY <1>3, <2>1, ListedOnce DEF L
<1>4. CASE part \in {"py", "py3"}
  <2>1. L = {Python}
    BY <1>1, <1>4
  <2> QED BY <1>4, <2>1, ListedOnce DEF L
<1>5. CASE part \notin {"c", "cpp", "cc", "py", "py3"}
  <2>1. \A l : L # {l}
    <3>1. CASE part = "h"
      BY <1>1, <3>1, Distinct
    <3>2. CASE part # "h"
      BY <1>1, <1>5, <3>2
    <3> QED BY <3>1, <3>2
  <2> QED BY <1>5, <2>1, ListedOnce DEF L
<1> QED BY <1>2, <1>3, <1>4, <1>5

-----------------------------------------------------------------------------
(* The invariant: the score *)

LEMMA InitScored == Init => Scored
<1> SUFFICES ASSUME Init PROVE Scored
  OBVIOUS
<1>1. submission \in Submissions
  BY DEF Init
<1>2. Len(tests) \in Nat
  BY <1>1, TestsTyped
<1>3. language \in KnownLanguages \cup {None}
  BY LanguageTyped DEF Init, language_from_extension
<1>4. results \in Seq(Verdict) /\ Len(results) = 0
  BY DEF Init
<1>5. score \in Nat \X (Nat \ {0}) /\ score[1] <= 10 * score[2]
  BY DEF Init
<1>6. Typed
  <2>1. corrects \in 0..Len(tests) /\ Len(results) <= Len(tests)
    BY <1>2, <1>4 DEF Init
  <2>2. compilable \in BOOLEAN /\ status \in Statuses /\ step \in Steps
    BY DEF Init, Statuses, Steps
  <2> QED BY <1>1, <1>3, <1>4, <1>5, <2>1, <2>2 DEF Typed
<1>7. StatusFollows /\ ScoreIsDeserved
  BY DEF Init, StatusFollows, ScoreIsDeserved
<1> QED BY <1>6, <1>7 DEF Scored

LEMMA StepScored ==
  ASSUME Scored, [Next]_vars
  PROVE  Scored'
<1> USE DEF Scored, Typed, StatusFollows, Statuses, Steps
<1>0. /\ Len(tests) \in Nat /\ (tests = <<>> <=> Len(tests) = 0)
      /\ \A f : language_from_extension(f) \in KnownLanguages \cup {None}
      /\ \A x : is_compilable(x) \in BOOLEAN
  BY TestsTyped, LanguageTyped, CompilableTyped DEF language_from_extension
<1>1. CASE UNCHANGED vars
  BY <1>1 DEF vars, tests, ScoreIsDeserved
<1>2. CASE Copy
  BY <1>0, <1>2 DEF Copy, Raise, tests, ScoreIsDeserved
<1>3. CASE NoContainer
  BY <1>3 DEF NoContainer, Raise, tests, ScoreIsDeserved
<1>4. CASE Contain
  BY <1>4 DEF Contain, tests, ScoreIsDeserved
<1>5. CASE GradeTest
  <2> DEFINE verdict == process_test_results(tests[Len(results) + 1])
  <2>1. CASE verdict = "raises"
    BY <1>5, <2>1 DEF GradeTest, Raise, tests, ScoreIsDeserved
  <2>2. CASE verdict # "raises"
    <3>1. verdict \in Verdict
      BY <2>2, VerdictTyped
    <3>2. results' = Append(results, verdict)
      BY <1>5, <2>2 DEF GradeTest
    <3>3. Append(results, verdict) \in Seq(Verdict) /\ Len(Append(results, verdict)) = Len(results) + 1
      <4> HIDE DEF verdict
      <4> QED BY <3>1
    <3> QED BY <1>0, <1>5, <2>2, <3>2, <3>3 DEF GradeTest, tests, ScoreIsDeserved
  <2> QED BY <2>1, <2>2
<1>6. CASE Graded
  BY <1>0, <1>6 DEF Graded, tests, ScoreIsDeserved
<1>7. CASE compute_score
  <2>1. /\ Corrects \in 0..Len(results)
        /\ Corrects = Len(results) <=> AllCorrect
    BY CorrectsCount
  <2>2. tests' = tests /\ AllCorrect' <=> AllCorrect
    BY <1>7 DEF compute_score, tests, AllCorrect
  <2>3. CASE status = "ERROR"
    BY <1>0, <1>7, <2>3 DEF compute_score, tests, ScoreIsDeserved
  <2>4. CASE status # "ERROR"
    <3>1. Len(results) = Len(tests) /\ Len(results) \in Nat
      BY <1>7, <2>4 DEF compute_score
    <3>2. CASE tests = <<>>
      <4>1. Corrects = 0 /\ AllCorrect
        BY <1>0, <2>1, <3>1, <3>2
      <4> QED BY <1>0, <1>7, <2>2, <2>4, <3>1, <3>2, <4>1
              DEF compute_score, tests, ScoreIsDeserved, AllCorrect
    <3>3. CASE tests # <<>>
      <4>1. score' = <<10 * Corrects, Len(tests)>>
        BY <1>7, <2>4, <3>3 DEF compute_score
      <4>2. Typed'
        <5>1. /\ Len(tests) \in Nat \ {0} /\ Corrects \in 0..Len(tests)
              /\ 10 * Corrects \in Nat /\ 10 * Corrects <= 10 * Len(tests)
          BY <1>0, <2>1, <3>1, <3>3
        <5>2. score' \in Nat \X (Nat \ {0}) /\ score'[1] <= 10 * score'[2]
          BY <4>1, <5>1
        <5>3. corrects' \in 0..Len(tests)'
          BY <1>7, <2>4, <5>1 DEF compute_score, tests
        <5> QED BY <1>7, <2>4, <5>2, <5>3 DEF compute_score, tests
      <4>3. StatusFollows'
        BY <1>7, <2>4 DEF compute_score
      <4>4. score'[1] = 10 * score'[2] <=> AllCorrect
        BY <1>0, <2>1, <3>1, <4>1
      <4> QED BY <1>7, <2>1, <2>2, <2>4, <3>1, <4>2, <4>3, <4>4
              DEF compute_score, ScoreIsDeserved, AllCorrect
    <3> QED BY <3>2, <3>3
  <2> QED BY <2>3, <2>4
<1> QED
  BY <1>1, <1>2, <1>3, <1>4, <1>5, <1>6, <1>7 DEF Next

-----------------------------------------------------------------------------
(* The invariant: the verdicts and the language *)

LEMMA StepResults ==
  ASSUME Scored, ResultsFollow, [Next]_vars
  PROVE  ResultsFollow'
<1>1. tests' = tests
  BY DEF Next, vars, tests, Copy, NoContainer, Contain, GradeTest, Graded, compute_score
<1>2. CASE UNCHANGED results
  BY <1>1, <1>2 DEF ResultsFollow
<1>3. CASE GradeTest /\ results' # results
  <2> DEFINE verdict == process_test_results(tests[Len(results) + 1])
  <2>1. results' = Append(results, verdict)
    BY <1>3 DEF GradeTest, Raise
  <2>2. results \in Seq(Verdict)
    BY DEF Scored, Typed
  <2>3. /\ DOMAIN results' = 1..Len(results) + 1
        /\ \A i \in 1..Len(results) : results'[i] = results[i]
        /\ results'[Len(results) + 1] = verdict
    <3> HIDE DEF verdict
    <3> QED BY <2>1, <2>2
  <2>4. ASSUME NEW i \in DOMAIN results' PROVE results'[i] = process_test_results(tests[i])
    <3>1. i \in 1..Len(results) \/ i = Len(results) + 1
      BY <2>2, <2>3, <2>4
    <3>2. DOMAIN results = 1..Len(results)
      BY <2>2
    <3> QED BY <2>3, <3>1, <3>2 DEF ResultsFollow
  <2>5. \A i \in DOMAIN results' : process_test_results(tests[i])' = process_test_results(tests'[i])
    BY DEF process_test_results, Tolerance
  <2> QED BY <1>1, <2>4, <2>5 DEF ResultsFollow
<1> QED
  BY <1>2, <1>3 DEF Next, vars, Copy, NoContainer, Contain, Raise, Graded, compute_score

LEMMA CompilableOf ==
  ASSUME NEW extension0
  PROVE  LET l == language_from_extension(<<extension0>>)
         IN  l # None /\ extension0 # None => is_compilable(extension0) = l.compilable
<1> DEFINE l == language_from_extension(<<extension0>>)
<1> SUFFICES ASSUME l # None, extension0 # None PROVE is_compilable(extension0) = l.compilable
  BY Zenon
<1>1. l \in KnownLanguages
  BY LanguageTyped DEF language_from_extension
<1>2. l.compilable \in BOOLEAN
  <2>1. \A n, x : \A c \in BOOLEAN : Language(n, x, c).compilable \in BOOLEAN
    BY DEF Language
  <2> QED BY <1>1, <2>1 DEF KnownLanguages, PlainC, PlainCpp, Python, ParallelC, ParallelCpp
<1>3. is_compilable(extension0) <=> l.compilable
  BY DEF is_compilable
<1>4. ASSUME NEW x \in BOOLEAN, NEW y \in BOOLEAN, x <=> y PROVE x = y
  BY <1>4
<1> HIDE DEF l
<1> QED BY <1>2, <1>3, <1>4, CompilableTyped

\* The language that is found in one part.
LEMMA OnePart ==
  ASSUME NEW part
  PROVE  language_from_extension(<<part>>) = LanguageWith(<<Lower(part)>>)
<1>1. Len(<<part>>) # 3 /\ Last(<<part>>) = part
  BY DEF Last
<1> QED BY <1>1 DEF language_from_extension

LEMMA StandardOnes ==
  /\ Standard(PlainC) = "c"
  /\ Standard(PlainCpp) = "cpp"
  /\ Standard(Python) = "py"
<1>1. Last(<<"c">>) = "c" /\ Last(<<"cpp">>) = "cpp" /\ Last(<<"py">>) = "py"
  BY DEF Last
<1>2. PlainC.extensions[1] = <<"c">>
  BY DEF PlainC, Language
<1>3. PlainCpp.extensions[1] = <<"cpp">>
  BY DEF PlainCpp, Language
<1>4. Python.extensions[1] = <<"py">>
  BY DEF Python, Language
<1> QED BY <1>1, <1>2, <1>3, <1>4 DEF Standard

LEMMA NoneIsNone ==
  /\ None \notin KnownLanguages
  /\ None \notin {"zip", "c", "cpp", "py"}
  /\ \A l \in KnownLanguages : Standard(l) # None
  BY NoneAssumption, StandardOnes DEF KnownLanguages

\* An extension that is no language's, in a name, is no parallel program's
\* either.
LEMMA UnknownName ==
  ASSUME NEW name, Extension(name) # "",
         standardize_extension(Extension(name)) = None
  PROVE  language_from_extension(name) = None
<1> DEFINE part == Last(name)
           pre == Lower(name[2])
<1>1. Extension(name) = part
  BY DEF Extension
<1> HIDE DEF part
<1>2. part # "zip" /\ language_from_extension(<<part>>) = None
  <2>1. CASE part = "zip"
    BY <1>1, <2>1, NoneIsNone DEF standardize_extension
  <2>2. CASE part # "zip" /\ language_from_extension(<<part>>) # None
    <3>1. language_from_extension(<<part>>) \in KnownLanguages
      BY <2>2, LanguageTyped DEF language_from_extension
    <3>2. Standard(language_from_extension(<<part>>)) = None
      BY <1>1, <2>2 DEF standardize_extension
    <3> QED BY <3>1, <3>2, NoneIsNone
  <2> QED BY <2>1, <2>2
<1>3. LanguageWith(<<Lower(part)>>) = None
  BY <1>2, OnePart
<1>4. CASE language_from_extension(name) = LanguageWith(<<Lower(part)>>)
  BY <1>3, <1>4
<1>5. CASE /\ language_from_extension(name) = LanguageWith(<<pre, Lower(part)>>)
           /\ Lower(part) \in {"c", "h", "cpp", "cc"} /\ pre \in {"omp", "mpi"}
  <2>1. CASE Lower(part) = "h"
    BY <1>5, <2>1, ListingOfHeader, Distinct, ListedOnce
  <2>2. CASE Lower(part) = "c"
    BY <1>3, <2>2, LanguageOf, NoneIsNone DEF KnownLanguages
  <2>3. CASE Lower(part) \in {"cpp", "cc"}
    BY <1>3, <2>3, LanguageOf, NoneIsNone DEF KnownLanguages
  <2> QED BY <1>5, <2>1, <2>2, <2>3
<1> QED BY <1>4, <1>5 DEF language_from_extension, part

LEMMA StepLanguage ==
  ASSUME Scored, LanguageFollows, [Next]_vars
  PROVE  LanguageFollows'
<1>1. CASE UNCHANGED vars
  BY <1>1 DEF vars, LanguageFollows, Protocol
<1>2. CASE Copy
  <2> DEFINE own == standardize_extension(Extension(submission.name))
             used == IF Archive THEN deduce_language(submission.files) ELSE own
  <2>1. CASE Archive /\ used = None
    BY <1>2, <2>1 DEF Copy, Raise, LanguageFollows
  <2>2. CASE ~Archive /\ used = None
    <3>1. /\ step' = "container" /\ language' = language /\ extension' = None
          /\ submission' = submission /\ compilable' = is_compilable(None)
          /\ language = language_from_extension(submission.name)
      BY <1>2, <2>2 DEF Copy, LanguageFollows
    <3>2. CASE Extension(submission.name) = ""
      BY <3>1, <3>2 DEF LanguageFollows, Protocol
    <3>3. CASE Extension(submission.name) # ""
      <4>1. language = None
        BY <2>2, <3>1, <3>3, UnknownName
      <4> QED BY <3>1, <4>1 DEF LanguageFollows
    <3> QED BY <3>2, <3>3
  <2>3. CASE used # None
    <3>1. /\ step' = "container" /\ language' = language_from_extension(<<used>>)
          /\ compilable' = is_compilable(used)
      BY <1>2, <2>3 DEF Copy
    <3>2. language' # None => compilable' = language'.compilable
      <4> HIDE DEF used
      <4> QED BY <2>3, <3>1, CompilableOf
    <3> QED BY <3>1, <3>2 DEF LanguageFollows, Protocol
  <2> QED BY <2>1, <2>2, <2>3
<1>3. CASE NoContainer
  BY <1>3 DEF NoContainer, Raise, LanguageFollows
<1>4. CASE Contain \/ GradeTest \/ Graded \/ compute_score
  <2>1. UNCHANGED <<submission, language, extension, compilable>>
    BY <1>4 DEF Contain, GradeTest, Graded, compute_score
  <2>2. /\ step \in {"container", "grade", "score", "done"} /\ language # None
        /\ step' \in {"grade", "score", "done", "failed"}
    BY <1>4 DEF Contain, GradeTest, Graded, compute_score, Raise, LanguageFollows
  <2> QED BY <2>1, <2>2 DEF LanguageFollows, Protocol
<1> QED
  BY <1>1, <1>2, <1>3, <1>4 DEF Next

LEMMA InitIInv == Init => IInv
  BY InitScored DEF Init, IInv, ResultsFollow, LanguageFollows

LEMMA StepIInv ==
  ASSUME IInv, [Next]_vars
  PROVE  IInv'
  BY StepScored, StepResults, StepLanguage DEF IInv

THEOREM Invariance == Spec => []IInv
<1>1. IInv /\ [Next]_vars => IInv'
  BY StepIInv
<1> QED BY <1>1, InitIInv, PTL DEF Spec

\* The types of what is computed for a commit, with a score between zero and ten
\* and an internal error exactly when a step raised.
THEOREM TypeCorrect == Spec => []TypeOK
<1>1. IInv => TypeOK
  BY DEF IInv, Scored, Typed, StatusFollows, TypeOK, Statuses, Steps
<1> QED BY <1>1, Invariance, PTL

\* COMPLETED and a full score exactly if the program ran and every test case of
\* the exercise is correct, for any number of test cases.
THEOREM ScoresAreDeserved == Spec => []ScoreIsDeserved
<1>1. IInv => ScoreIsDeserved
  BY DEF IInv, Scored
<1> QED BY <1>1, Invariance, PTL

\* The protocol run() speaks fits the image, for any name and any archive.
THEOREM ProtocolFits == Spec => []ProtocolFitsImage
<1>1. IInv => ProtocolFitsImage
  BY DEF IInv, LanguageFollows, Protocol, ProtocolFitsImage
<1> QED BY <1>1, Invariance, PTL

-----------------------------------------------------------------------------
(* What the verdicts mean *)

\* A test case graded by comparison has both files, and the verdict of diff.
LEMMA ComparedVerdict ==
  ASSUME IInv, NEW i \in Compared
  PROVE  /\ IsFile(tests[i].user) /\ IsFile(tests[i].expected)
         /\ results[i] = diff(tests[i].user, tests[i].expected, tests[i].type, Tolerance(tests[i]))
         /\ Tolerance(tests[i]) \in Int
         /\ results[i] \in Verdict
<1>1. /\ i \in DOMAIN results /\ tests[i].monitor = "ok" /\ ~tests[i].stderr
      /\ results[i] = process_test_results(tests[i])
  BY DEF Compared, IInv, ResultsFollow
<1>2. results[i] \in Verdict
  BY <1>1 DEF IInv, Scored, Typed
<1>3. /\ tests[i].expected # None
      /\ results[i] = diff(tests[i].user, tests[i].expected, tests[i].type, Tolerance(tests[i]))
  BY <1>1, <1>2 DEF process_test_results, Verdict
<1>4. submission \in Submissions /\ i \in DOMAIN tests
  BY <1>1, TestsTyped DEF IInv, Scored, Typed
<1>5. /\ IsFile(tests[i].user) /\ IsFile(tests[i].expected)
      /\ tests[i].error # None => tests[i].error \in Int
  BY <1>3, <1>4, SubmissionsAssumption DEF tests
<1> QED BY <1>2, <1>3, <1>5 DEF Tolerance

\* "malformed" means the same words line by line in files that are not strictly
\* equal and of which none ends with a blank line, for any files.
THEOREM MalformedIsExact == Spec => []MalformedMeans
<1>1. ASSUME IInv, NEW i \in Compared, Text(i)
      PROVE  LET a == tests[i].user  b == tests[i].expected
             IN  results[i] = "malformed" <=>
                   /\ Decodable(a, b) /\ SameWords(a, b)
                   /\ ~EndsBlank(a) /\ ~EndsBlank(b)
                   /\ results[i] # "correct"
  <2> DEFINE a == tests[i].user
             b == tests[i].expected
  <2>1. IsFile(a) /\ IsFile(b) /\ results[i] = diff(a, b, "text", Tolerance(tests[i]))
    BY <1>1, ComparedVerdict DEF Text
  <2>2. results[i] = IF text_cmp(a, b) THEN "correct"
                     ELSE IF text_cmp2(a, b) THEN "malformed" ELSE "incorrect"
    BY <2>1 DEF diff
  <2> QED BY <2>1, <2>2, LenientMeans
<1>2. IInv => MalformedMeans
  BY <1>1 DEF MalformedMeans
<1> QED BY <1>2, Invariance, PTL

\* The comparisons that grade a test case are of varying strictness.
THEOREM StrictnessOrdered == Spec => []StrictnessOrder
<1>1. ASSUME IInv, NEW i \in Compared
      PROVE  LET a == tests[i].user  b == tests[i].expected
             IN  /\ text_cmp(a, b) => number_cmp(a, b, 0)
                 /\ \A e \in 0..2 : number_cmp(a, b, e) => number_cmp(a, b, e + 1)
                 /\ a = b /\ a.decodable => text_cmp(a, b)
  <2> DEFINE a == tests[i].user
             b == tests[i].expected
  <2>1. IsFile(a) /\ IsFile(b)
    BY <1>1, ComparedVerdict
  <2>2. \A e \in 0..2 : e \in Int /\ e + 1 \in Int /\ e <= e + 1
    OBVIOUS
  <2> HIDE DEF a, b
  <2>3. /\ text_cmp(a, b) => number_cmp(a, b, 0)
        /\ \A e \in 0..2 : number_cmp(a, b, e) => number_cmp(a, b, e + 1)
        /\ a.decodable => text_cmp(a, a)
    BY <2>1, <2>2, StrictestFirst
  <2> QED BY <2>3 DEF a, b
<1>2. IInv => StrictnessOrder
  BY <1>1 DEF StrictnessOrder
<1> QED BY <1>2, Invariance, PTL

\* No verdict depends on which file is the student's.
THEOREM VerdictsSymmetric == Spec => []VerdictSymmetric
<1>1. ASSUME IInv, NEW i \in Compared
      PROVE  results[i] =
               diff(tests[i].expected, tests[i].user, tests[i].type, Tolerance(tests[i]))
  <2> DEFINE a == tests[i].user
             b == tests[i].expected
             e == Tolerance(tests[i])
  <2>1. IsFile(a) /\ IsFile(b) /\ e \in Int /\ results[i] = diff(a, b, tests[i].type, e)
    BY <1>1, ComparedVerdict
  <2> HIDE DEF a, b, e
  <2>2. /\ text_cmp(a, b) <=> text_cmp(b, a)
        /\ text_cmp2(a, b) <=> text_cmp2(b, a)
        /\ number_cmp(a, b, e) <=> number_cmp(b, a, e)
    BY <2>1, ComparatorsSymmetric
  <2>3. diff(a, b, tests[i].type, e) = diff(b, a, tests[i].type, e)
    BY <2>2 DEF diff
  <2> QED BY <2>1, <2>3 DEF a, b, e
<1>2. IInv => VerdictSymmetric
  BY <1>1 DEF VerdictSymmetric
<1> QED BY <1>2, Invariance, PTL

-----------------------------------------------------------------------------
(* The language of a name *)

\* The standard extension of a language found in one part leads back to it.
LEMMA StandardLeadsBack ==
  ASSUME NEW part, language_from_extension(<<part>>) # None
  PROVE  LET l == language_from_extension(<<part>>)
         IN  language_from_extension(<<Standard(l)>>) = l
<1> DEFINE l == language_from_extension(<<part>>)
<1>1. l \in {PlainC, PlainCpp, Python}
  BY OnePart, LanguageOf
<1>2. Lower("c") = "c" /\ Lower("cpp") = "cpp" /\ Lower("py") = "py"
  BY DEF Lower
<1>3. /\ language_from_extension(<<"c">>) = PlainC
      /\ language_from_extension(<<"cpp">>) = PlainCpp
      /\ language_from_extension(<<"py">>) = Python
  BY <1>2, OnePart, LanguageOf
<1> QED BY <1>1, <1>3, StandardOnes

\* Copying the source keeps the language of any name, but for the cases named.
THEOREM LanguageIsKept == Spec => LanguageKept
<1>1. ASSUME IInv, [Next]_vars, step = "copy", ~Archive, ~Parallel
      PROVE  language' = language
  <2> DEFINE ext == Extension(submission.name)
             own == standardize_extension(ext)
  <2>1. CASE Copy /\ own # None
    <3>1. own # "zip" /\ language' = language_from_extension(<<own>>)
      BY <1>1, <2>1 DEF Copy, Archive
    <3>2. language_from_extension(<<ext>>) # None /\ own = Standard(language_from_extension(<<ext>>))
      BY <2>1, <3>1 DEF standardize_extension
    <3>3. language' = language_from_extension(<<ext>>)
      BY <3>1, <3>2, StandardLeadsBack
    <3>4. ext # ""
      <4>1. ASSUME ext = "" PROVE FALSE
        <5>1. Lower("") = ""
          BY DEF Lower
        <5>2. language_from_extension(<<"">>) = None
          BY <5>1, OnePart, LanguageOf
        <5> QED BY <3>2, <4>1, <5>2
      <4> QED BY <4>1
    <3>5. ext = Last(submission.name)
      BY <3>4 DEF Extension
    <3>6. language_from_extension(submission.name) = LanguageWith(<<Lower(ext)>>)
      <4> HIDE DEF ext
      <4> QED BY <1>1, <3>5 DEF Parallel, language_from_extension
    <3>7. language = language_from_extension(submission.name)
      BY <1>1 DEF IInv, LanguageFollows
    <3> QED BY <3>3, <3>6, <3>7, OnePart
  <2>2. CASE Copy /\ own = None
    BY <1>1, <2>2 DEF Copy, Archive
  <2>3. CASE ~Copy
    BY <1>1, <2>3 DEF Next, vars, NoContainer, Contain, GradeTest, Graded, compute_score
  <2> QED BY <2>1, <2>2, <2>3
<1>2. IInv /\ [Next]_vars => [step = "copy" /\ ~Archive /\ ~Parallel => language' = language]_vars
  BY <1>1
<1> QED BY <1>2, Invariance, PTL DEF Spec, LanguageKept
=============================================================================
