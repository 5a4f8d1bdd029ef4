----------------------------- MODULE MCGrading -----------------------------
(* Instances of Grading for TLC. *)
EXTENDS Grading

Word(t, f) == [text |-> t, folded |-> f, number |-> "no", value |-> 0]
Number(t, kind, v) == [text |-> t, folded |-> t, number |-> kind, value |-> v]
a == Word("a", "a")
A == Word("A", "a")
b == Word("b", "b")

Line(words, lead, trail) == [words |-> words, lead |-> lead, trail |-> trail]
Plain(words) == Line(words, 0, 0)
File(lines) == [decodable |-> TRUE, lines |-> lines]
FilesOf(lines, n) == {File(f) : f \in UNION {[1..k -> lines] : k \in 0..n}}
Binary == [decodable |-> FALSE, lines |-> <<>>]

\* Every pair of files of up to three lines, blank or of a word, and of up to
\* two lines with other spacing.
Texts ==
  LET short == FilesOf({Plain(<<>>), Plain(<<a>>), Plain(<<b>>)}, 3)
      spaced == FilesOf({Plain(<<a>>), Plain(<<A>>), Line(<<a>>, 1, 0),
                         Line(<<a>>, 0, 1), Line(<<>>, 1, 0)}, 2)
  IN  (short \X short) \cup (spaced \X spaced) \cup {<<Binary, Binary>>}

Numbers ==
  LET words == {Number("1", "finite", 10), Number("1.0", "finite", 10),
                Number("1.2", "finite", 12), Number("1.4", "finite", 14),
                Number("nan", "nan", 0), Number("inf", "inf", 1),
                Number("-inf", "inf", -1), a}
      lines == {Plain(w) : w \in UNION {[1..k -> words] : k \in 0..2}}
  IN  {<<File(<<l>>), File(<<m>>)>> : l, m \in lines}

Test(type, error, user, expected, monitor, stderr) ==
  [type |-> type, error |-> error, user |-> user, expected |-> expected,
   monitor |-> monitor, stderr |-> stderr]

One == File(<<Plain(<<a>>)>>)
Other == File(<<Plain(<<b>>)>>)
Upper == File(<<Plain(<<A>>)>>)

\* The ways a test case can go.
Ways ==
  { Test("text", None, One, One, "ok", FALSE), Test("text", None, Upper, One, "ok", FALSE),
    Test("text", None, Other, One, "ok", FALSE), Test("text", None, One, One, "signal", FALSE),
    Test("text", None, One, One, "ok", TRUE), Test("text", None, One, One, "missing", FALSE),
    Test("text", None, One, None, "ok", FALSE), Test("numeric", -1, One, One, "ok", FALSE),
    Test("unknown", None, One, One, "ok", FALSE) }

Parts == {"", "c", "C", "h", "cc", "py", "zip", "ZIP", "omp", "p"}
Names == {<<x>> : x \in Parts} \cup {<<x, y>> : x, y \in Parts}
           \cup {<<x, y, z>> : x \in {"", "p"}, y \in {"", "omp", "c"}, z \in Parts}
Member == { <<"p", x>> : x \in {"c", "h", "py", "zip", "txt"} } \cup {<<"p">>}

Submission(name, files, suite) == [name |-> name, files |-> files, tests |-> suite]
C == <<"p", "c">>

\* All names, all archives of up to three files, all pairs of files to compare,
\* and all sequences of up to three test cases.
All ==
  {Submission(n, << <<"p", "py">> >>, <<>>) : n \in Names}
  \cup {Submission(<<"p", "zip">>, f, <<>>) : f \in UNION {[1..k -> Member] : k \in 0..3}}
  \cup {Submission(C, <<>>, <<Test(t, None, p[1], p[2], "ok", FALSE)>>) :
          t \in {"text", "binary"}, p \in Texts}
  \cup {Submission(C, <<>>, <<Test("numeric", e, p[1], p[2], "ok", FALSE)>>) :
          e \in {None, 2}, p \in Numbers}
  \cup {Submission(C, <<>>, s) : s \in UNION {[1..k -> Ways] : k \in 0..3}}
=============================================================================
