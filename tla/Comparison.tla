---------------------------- MODULE Comparison -----------------------------
(***************************************************************************)
(* The file comparators (src/rcc/cmp.py) and diff (src/rcc/engine.py).     *)
(*                                                                         *)
(* A file is [decodable, lines].  A line is [words, lead, trail]: its      *)
(* tokens, the spacing in front of and between them, the blanks and the    *)
(* line end after them.  A token is [text, folded, number, value]: itself, *)
(* in lower case, what float() makes of it ("no", "finite", "inf", "nan")  *)
(* and the number if it is finite.                                         *)
(***************************************************************************)
EXTENDS Integers, Sequences

\* A file is finite, its lines too, and a finite number is a number.
FiniteSeq(s) == s \in Seq({s[i] : i \in DOMAIN s})
IsFile(f) ==
  /\ FiniteSeq(f.lines)
  /\ \A i \in DOMAIN f.lines :
       LET words == f.lines[i].words
       IN  /\ FiniteSeq(words)
           /\ \A k \in DOMAIN words : words[k].number = "finite" => words[k].value \in Int

Blank(line) == line.words = <<>>

\* line.rstrip()
Stripped(line) ==
  IF Blank(line) THEN <<>> ELSE <<line.words, line.lead>>

\* line.lower().split()
Folded(line) == [k \in DOMAIN line.words |-> line.words[k].folded]

Decodable(a, b) == a.decodable /\ b.decodable

\* The strict comparison: line by line, whatever blanks end a line.
text_cmp(a, b) ==
  /\ Decodable(a, b)
  /\ Len(a.lines) = Len(b.lines)
  /\ \A i \in DOMAIN a.lines : Stripped(a.lines[i]) = Stripped(b.lines[i])

\* The first line at or after i that is not blank, or the end of the file.
NextFilled(lines, i) ==
  CHOOSE k \in i..Len(lines) + 1 :
    /\ k <= Len(lines) => ~Blank(lines[k])
    /\ \A h \in i..k - 1 : Blank(lines[h])

\* Mutant: blank lines are skipped in the first file only.
text_cmp2_OneSided(a, b) ==
  LET from[i \in 1..Len(a.lines) + 1, j \in 1..Len(b.lines) + 1] ==
        IF i > Len(a.lines) \/ j > Len(b.lines)
        THEN i > Len(a.lines) /\ j > Len(b.lines)
        ELSE LET p == NextFilled(a.lines, i)
             IN  /\ p <= Len(a.lines)
                 /\ Folded(a.lines[p]) = Folded(b.lines[j])
                 /\ from[p + 1, j + 1]
  IN  Decodable(a, b) /\ from[1, 1]

\* Mutant: a file that ends while its blank lines are skipped has just ended.
text_cmp2_EndsBlank(a, b) ==
  LET from[i \in 1..Len(a.lines) + 1, j \in 1..Len(b.lines) + 1] ==
        LET p == NextFilled(a.lines, i)
            q == NextFilled(b.lines, j)
        IN  IF p > Len(a.lines) \/ q > Len(b.lines)
            THEN p > Len(a.lines) /\ q > Len(b.lines)
            ELSE /\ Folded(a.lines[p]) = Folded(b.lines[q])
                 /\ from[p + 1, q + 1]
  IN  Decodable(a, b) /\ from[1, 1]

\* Whether the files agree from lines i and j on.  Lines are taken in pairs
\* while both files have one; in a pair blank lines are skipped, and a file that
\* ends meanwhile differs.
Agreement(a, b) ==
  LET from[i \in 1..Len(a.lines) + 1] ==
        [j \in 1..Len(b.lines) + 1 |->
           IF i > Len(a.lines) \/ j > Len(b.lines)
           THEN i > Len(a.lines) /\ j > Len(b.lines)
           ELSE LET p == NextFilled(a.lines, i)
                    q == NextFilled(b.lines, j)
                IN  /\ p <= Len(a.lines) /\ q <= Len(b.lines)
                    /\ Folded(a.lines[p]) = Folded(b.lines[q])
                    /\ from[p + 1][q + 1]]
  IN  from

\* The lenient comparison.
text_cmp2(a, b) == Decodable(a, b) /\ Agreement(a, b)[1][1]

\* What the lenient comparison is to accept, without recursion: the lines in S
\* of file a and in T of file b correspond in their order and have the same
\* words.
Aligned(a, b, S, T) ==
  \E match \in [S -> T] :
    /\ \A k \in T : \E h \in S : match[h] = k
    /\ \A g, h \in S : g < h => match[g] < match[h]
    /\ \A h \in S : Folded(a.lines[h]) = Folded(b.lines[match[h]])

FilledFrom(f, i) == {k \in i..Len(f.lines) : ~Blank(f.lines[k])}
SameWords(a, b) == Aligned(a, b, FilledFrom(a, 1), FilledFrom(b, 1))
EndsBlank(f) == f.lines # <<>> /\ Blank(f.lines[Len(f.lines)])

Distance(x, y) == IF x < y THEN y - x ELSE x - y

\* Mutant: a difference of exactly the tolerance is too much.
Near_Strict(s, t, error) ==
  CASE "no" \in {s.number, t.number} -> s.text = t.text
    [] "nan" \in {s.number, t.number} -> TRUE
    [] s.number = "finite" /\ t.number = "finite" -> Distance(s.value, t.value) < error
    [] OTHER -> s.number = t.number /\ s.value = t.value

\* ~(abs(x - y) > error): false only if the difference is a number or infinite.
Near(s, t, error) ==
  CASE "no" \in {s.number, t.number} -> s.text = t.text
    [] "nan" \in {s.number, t.number} -> TRUE
    [] s.number = "finite" /\ t.number = "finite" -> Distance(s.value, t.value) <= error
    [] OTHER -> s.number = t.number /\ s.value = t.value

number_cmp(a, b, error) ==
  /\ Decodable(a, b)
  /\ Len(a.lines) = Len(b.lines)
  /\ \A i \in DOMAIN a.lines :
       LET s == a.lines[i].words  t == b.lines[i].words
       IN  Len(s) = Len(t) /\ \A k \in DOMAIN s : Near(s[k], t[k], error)

\* "raises": an unknown type, or a negative tolerance.
diff(user, expected, type, tolerance) ==
  CASE type = "text" ->
         IF text_cmp(user, expected) THEN "correct"
         ELSE IF text_cmp2(user, expected) THEN "malformed"
         ELSE "incorrect"
    [] type = "numeric" ->
         IF tolerance < 0 THEN "raises"
         ELSE IF number_cmp(user, expected, tolerance) THEN "correct"
         ELSE "incorrect"
    [] type = "binary" -> IF user = expected THEN "correct" ELSE "incorrect"
    [] OTHER -> "raises"
=============================================================================
