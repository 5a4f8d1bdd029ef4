----------------------------- MODULE Languages -----------------------------
(***************************************************************************)
(* Languages by file name (src/rcc/languages.py, util.py and set_extension *)
(* of engine.py).  A file name is the sequence of its parts between dots,  *)
(* so "prog.omp.c" is <<"prog", "omp", "c">>, "c" is <<"c">> and ".c" is   *)
(* <<"", "c">>.  An extension of a language is such a sequence too.        *)
(***************************************************************************)
EXTENDS Integers, Sequences, FiniteSets

CONSTANT None

Language(name, extensions, compilable) ==
  [name |-> name, extensions |-> extensions, compilable |-> compilable]

\* One compiled and one interpreted language, two that share an extension, and
\* their parallel variants stand for KNOWN_LANGUAGES.
PlainC == Language("C", << <<"c">>, <<"h">> >>, TRUE)
PlainCpp == Language("C++", << <<"cpp">>, <<"cc">>, <<"h">> >>, TRUE)
Python == Language("Python", << <<"py">>, <<"py3">> >>, FALSE)
ParallelC == Language("C (OpenMP)", << <<"omp", "c">>, <<"omp", "h">> >>, TRUE)
ParallelCpp ==
  Language("C++ (OpenMP)", << <<"omp", "cpp">>, <<"omp", "cc">>, <<"omp", "h">> >>, TRUE)
KnownLanguages == {PlainC, PlainCpp, Python, ParallelC, ParallelCpp}

Lower(part) == CASE part = "C" -> "c" [] part = "ZIP" -> "zip" [] OTHER -> part
Last(parts) == parts[Len(parts)]

\* The first extension of a language is the standard one.  It is looked up by a
\* bare extension, so never for a parallel language, of which only the last part
\* would be given here.
Standard(language) == Last(language.extensions[1])

\* None is no language and no extension.
ASSUME NoneAssumption ==
  /\ None \notin KnownLanguages
  /\ None \notin {Standard(l) : l \in KnownLanguages} \cup {"zip"}

\* An extension that two languages list is nobody's.
LanguageWith(extension) ==
  LET listing == {l \in KnownLanguages :
                    \E i \in DOMAIN l.extensions : l.extensions[i] = extension}
  IN  IF Cardinality(listing) = 1 THEN CHOOSE l \in listing : TRUE ELSE None

language_from_extension(parts) ==
  LET extension == Lower(Last(parts))
      parallel == /\ extension \in {"c", "h", "cpp", "cc"} /\ Len(parts) = 3
                  /\ Lower(parts[2]) \in {"omp", "mpi"}
  IN  LanguageWith(IF parallel THEN <<Lower(parts[2]), extension>> ELSE <<extension>>)

\* os.path.splitext: a name that only has leading dots has no extension.
Extension(parts) ==
  IF Len(parts) > 1 /\ \E i \in 1..Len(parts) - 1 : parts[i] # ""
  THEN Last(parts) ELSE ""

standardize_extension(extension) ==
  LET language == language_from_extension(<<extension>>)
  IN  IF extension = "zip" THEN "zip"
      ELSE IF language = None THEN None
      ELSE Standard(language)

\* The standard extension most files of the archive have, the first to occur
\* among equals; None for an archive without one, where the code raises.
deduce_language(files) ==
  LET extension(i) == standardize_extension(Extension(files[i]))
      known == {i \in DOMAIN files : extension(i) # None}
      count(i) == Cardinality({j \in known : extension(j) = extension(i)})
      first == CHOOSE i \in known :
                 \A j \in known : count(j) < count(i) \/ (count(j) = count(i) /\ i <= j)
  IN  IF known = {} THEN None ELSE extension(first)

is_compilable(extension) ==
  LET language == language_from_extension(<<extension>>)
  IN  extension # None /\ language # None /\ language.compilable
=============================================================================
