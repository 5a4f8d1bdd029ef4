-------------------------- MODULE ComparisonProofs --------------------------
(***************************************************************************)
(* Proofs about the comparators, for any two files.  What the recursion of *)
(* the lenient comparison computes is proved by induction on the number of *)
(* lines left; Least is that induction.                                    *)
(***************************************************************************)
EXTENDS Comparison, FiniteSetTheorems, TLAPS

\* A set of numbers that is not empty has a least one.
LEMMA Least ==
  ASSUME NEW S \in SUBSET Nat, S # {}
  PROVE  \E m \in S : \A n \in S : m <= n
<1>1. PICK m \in S : \A n \in S : <<n, m>> \notin OpToRel(<, Nat)
  BY NatLessThanWellFounded, WFMin
<1>2. \A n \in S : ~(n < m)
  BY <1>1 DEF OpToRel
<1> QED BY <1>2

LEMMA LinesOf ==
  ASSUME NEW f, IsFile(f)
  PROVE  Len(f.lines) \in Nat /\ DOMAIN f.lines = 1..Len(f.lines)
  BY DEF IsFile, FiniteSeq

-----------------------------------------------------------------------------
(* Lines in correspondence *)

\* Two sets of lines correspond if their first lines do and what is left does.
LEMMA AlignedStep ==
  ASSUME NEW a, NEW b, NEW S \in SUBSET Nat, NEW T \in SUBSET Nat,
         NEW p \in S, \A h \in S : p <= h,
         NEW q \in T, \A k \in T : q <= k
  PROVE  Aligned(a, b, S, T) <=>
           /\ Folded(a.lines[p]) = Folded(b.lines[q])
           /\ Aligned(a, b, S \ {p}, T \ {q})
<1>1. ASSUME Aligned(a, b, S, T)
      PROVE  /\ Folded(a.lines[p]) = Folded(b.lines[q])
             /\ Aligned(a, b, S \ {p}, T \ {q})
  <2>1. PICK m \in [S -> T] :
          /\ \A k \in T : \E h \in S : m[h] = k
          /\ \A g, h \in S : g < h => m[g] < m[h]
          /\ \A h \in S : Folded(a.lines[h]) = Folded(b.lines[m[h]])
    BY <1>1 DEF Aligned
  <2>2. m[p] = q
    <3>1. PICK h \in S : m[h] = q
      BY <2>1
    <3>2. h # p => m[p] < q
      BY <2>1, <3>1
    <3>3. q <= m[p] /\ m[p] \in Nat /\ q \in Nat
      OBVIOUS
    <3> QED BY <3>1, <3>2, <3>3
  <2> DEFINE n == [h \in S \ {p} |-> m[h]]
  <2>3. ASSUME NEW h \in S \ {p} PROVE m[h] \in T \ {q}
    <3>1. p < h /\ m[p] < m[h]
      BY <2>1
    <3>2. m[h] \in Nat /\ m[h] \in T
      OBVIOUS
    <3> QED BY <2>2, <3>1, <3>2
  <2>4. n \in [S \ {p} -> T \ {q}]
    BY <2>3
  <2>5. \A k \in T \ {q} : \E h \in S \ {p} : n[h] = k
    BY <2>1, <2>2
  <2>6. \A g, h \in S \ {p} : g < h => n[g] < n[h]
    BY <2>1
  <2>7. \A h \in S \ {p} : Folded(a.lines[h]) = Folded(b.lines[n[h]])
    BY <2>1
  <2> HIDE DEF n
  <2> QED BY <2>1, <2>2, <2>4, <2>5, <2>6, <2>7 DEF Aligned
<1>2. ASSUME Folded(a.lines[p]) = Folded(b.lines[q]),
             Aligned(a, b, S \ {p}, T \ {q})
      PROVE  Aligned(a, b, S, T)
  <2>1. PICK m \in [S \ {p} -> T \ {q}] :
          /\ \A k \in T \ {q} : \E h \in S \ {p} : m[h] = k
          /\ \A g, h \in S \ {p} : g < h => m[g] < m[h]
          /\ \A h \in S \ {p} : Folded(a.lines[h]) = Folded(b.lines[m[h]])
    BY <1>2 DEF Aligned
  <2> DEFINE n == [h \in S |-> IF h = p THEN q ELSE m[h]]
  <2>2. n \in [S -> T]
    BY <2>1
  <2>3. \A k \in T : \E h \in S : n[h] = k
    BY <2>1
  <2>4. \A g, h \in S : g < h => n[g] < n[h]
    <3> SUFFICES ASSUME NEW g \in S, NEW h \in S, g < h PROVE n[g] < n[h]
      OBVIOUS
    <3>1. h # p /\ m[h] \in T \ {q}
      BY <2>1
    <3>2. q < m[h]
      <4>1. m[h] \in Nat /\ q \in Nat /\ q <= m[h] /\ m[h] # q
        BY <3>1
      <4> QED BY <4>1
    <3> QED BY <2>1, <3>1, <3>2
  <2>5. \A h \in S : Folded(a.lines[h]) = Folded(b.lines[n[h]])
    BY <1>2, <2>1
  <2> HIDE DEF n
  <2> QED BY <2>2, <2>3, <2>4, <2>5 DEF Aligned
<1> QED BY <1>1, <1>2

\* The correspondence can be read in either direction.
LEMMA AlignedSymmetric ==
  ASSUME NEW a, NEW b, NEW S \in SUBSET Nat, NEW T \in SUBSET Nat,
         Aligned(a, b, S, T)
  PROVE  Aligned(b, a, T, S)
<1>1. PICK m \in [S -> T] :
        /\ \A k \in T : \E h \in S : m[h] = k
        /\ \A g, h \in S : g < h => m[g] < m[h]
        /\ \A h \in S : Folded(a.lines[h]) = Folded(b.lines[m[h]])
  BY DEF Aligned
<1> DEFINE n == [k \in T |-> CHOOSE h \in S : m[h] = k]
<1>2. \A k \in T : n[k] \in S /\ m[n[k]] = k
  BY <1>1
<1>3. n \in [T -> S]
  BY <1>2
<1> HIDE DEF n
<1>4. \A g, h \in S : m[g] = m[h] => g = h
  <2> SUFFICES ASSUME NEW g \in S, NEW h \in S, m[g] = m[h] PROVE g = h
    OBVIOUS
  <2>1. m[g] \in Nat
    BY <1>1
  <2>2. ~(g < h) /\ ~(h < g)
    BY <1>1, <2>1
  <2> QED BY <2>2
<1>5. \A h \in S : \E k \in T : n[k] = h
  BY <1>1, <1>2, <1>4
<1>6. \A j, k \in T : j < k => n[j] < n[k]
  <2> SUFFICES ASSUME NEW j \in T, NEW k \in T, j < k PROVE n[j] < n[k]
    OBVIOUS
  <2>t. j \in Nat /\ k \in Nat /\ j # k
    OBVIOUS
  <2>1. n[j] \in S /\ n[k] \in S /\ n[j] # n[k]
    BY <1>2, <2>t
  <2>2. ~(n[k] < n[j])
    <3>1. ASSUME n[k] < n[j] PROVE m[n[k]] < m[n[j]]
      BY <1>1, <2>1, <3>1
    <3>2. m[n[k]] = k /\ m[n[j]] = j
      BY <1>2
    <3> QED BY <2>t, <3>1, <3>2
  <2>3. n[j] \in Nat /\ n[k] \in Nat
    BY <2>1
  <2> QED BY <2>1, <2>2, <2>3
<1>7. \A k \in T : Folded(b.lines[k]) = Folded(a.lines[n[k]])
  BY <1>1, <1>2
<1> QED BY <1>3, <1>5, <1>6, <1>7 DEF Aligned

-----------------------------------------------------------------------------
(* The lenient comparison *)

\* The next line that is not blank, or the end of the file.
LEMMA NextFilledFinds ==
  ASSUME NEW f, IsFile(f), NEW i \in 1..Len(f.lines) + 1
  PROVE  LET p == NextFilled(f.lines, i)
         IN  /\ p \in i..Len(f.lines) + 1
             /\ p <= Len(f.lines) =>
                  /\ p \in FilledFrom(f, i)
                  /\ \A k \in FilledFrom(f, i) : p <= k
                  /\ FilledFrom(f, p + 1) = FilledFrom(f, i) \ {p}
             /\ p > Len(f.lines) => FilledFrom(f, i) = {}
<1> DEFINE n == Len(f.lines)
           Found(k) == /\ k <= n => ~Blank(f.lines[k])
                       /\ \A h \in i..k - 1 : Blank(f.lines[h])
           S == {k \in i..n + 1 : k <= n => ~Blank(f.lines[k])}
           p == NextFilled(f.lines, i)
<1>1. n \in Nat /\ i \in Nat
  BY LinesOf
<1> HIDE DEF n
<1>2. \E k \in i..n + 1 : Found(k)
  <2>1. S \in SUBSET Nat /\ S # {}
    <3>1. \A k \in i..n + 1 : k \in Nat
      BY <1>1
    <3>2. n + 1 \in i..n + 1 /\ ~(n + 1 <= n)
      BY <1>1 DEF n
    <3> QED BY <3>1, <3>2
  <2>2. PICK k \in S : \A h \in S : k <= h
    <3> HIDE DEF S
    <3> QED BY <2>1, Least
  <2>3. \A h \in i..k - 1 : Blank(f.lines[h])
    <3> SUFFICES ASSUME NEW h \in i..k - 1, ~Blank(f.lines[h]) PROVE FALSE
      OBVIOUS
    <3>1. h \in S /\ h < k
      BY <1>1
    <3> QED BY <1>1, <2>2, <3>1
  <2> QED BY <2>2, <2>3
<1>3. p = CHOOSE k \in i..n + 1 : Found(k)
  BY DEF NextFilled, n
<1>4. p \in i..n + 1 /\ Found(p)
  <2> HIDE DEF Found, p
  <2> QED BY <1>2, <1>3
<1> HIDE DEF p
<1>5. ASSUME p <= n
      PROVE  /\ p \in FilledFrom(f, i)
             /\ \A k \in FilledFrom(f, i) : p <= k
             /\ FilledFrom(f, p + 1) = FilledFrom(f, i) \ {p}
  BY <1>1, <1>4, <1>5 DEF FilledFrom, n
<1>6. ASSUME p > n PROVE FilledFrom(f, i) = {}
  BY <1>1, <1>4, <1>6 DEF FilledFrom, n
<1> QED BY <1>4, <1>5, <1>6 DEF p, n

\* What is left of the files from lines i and j on is to be accepted.
Accepts(a, b, i, j) ==
  /\ Aligned(a, b, FilledFrom(a, i), FilledFrom(b, j))
  /\ i <= Len(a.lines) => ~EndsBlank(a)
  /\ j <= Len(b.lines) => ~EndsBlank(b)

\* One turn of the loop, where rest says what comes of the next turns.
Turn(rest, a, b, i, j) ==
  IF i > Len(a.lines) \/ j > Len(b.lines)
  THEN i > Len(a.lines) /\ j > Len(b.lines)
  ELSE LET p == NextFilled(a.lines, i)
           q == NextFilled(b.lines, j)
       IN  /\ p <= Len(a.lines) /\ q <= Len(b.lines)
           /\ Folded(a.lines[p]) = Folded(b.lines[q])
           /\ rest[p + 1][q + 1]

Starts(f) == 1..Len(f.lines) + 1
Accepted(a, b) == [i \in Starts(a) |-> [j \in Starts(b) |-> Accepts(a, b, i, j)]]

\* A file that does not end with a blank line has a filled line to come.
LEMMA FilledToCome ==
  ASSUME NEW f, IsFile(f), NEW i \in 1..Len(f.lines)
  PROVE  /\ ~EndsBlank(f) => NextFilled(f.lines, i) <= Len(f.lines)
         /\ ~EndsBlank(f) => FilledFrom(f, i) # {}
<1>1. Len(f.lines) \in Nat /\ i \in Nat /\ f.lines # <<>>
  BY LinesOf DEF IsFile, FiniteSeq
<1>2. ~EndsBlank(f) => Len(f.lines) \in FilledFrom(f, i)
  BY <1>1 DEF EndsBlank, FilledFrom
<1>3. NextFilled(f.lines, i) \in i..Len(f.lines) + 1
      /\ (NextFilled(f.lines, i) > Len(f.lines) => FilledFrom(f, i) = {})
  BY NextFilledFinds, <1>1
<1> QED BY <1>1, <1>2, <1>3

\* What is to be accepted is what a turn accepts if the next turns do.
LEMMA AcceptsTurn ==
  ASSUME NEW a, NEW b, IsFile(a), IsFile(b), NEW i \in Starts(a), NEW j \in Starts(b)
  PROVE  Accepts(a, b, i, j) <=> Turn(Accepted(a, b), a, b, i, j)
<1> DEFINE la == Len(a.lines)
           lb == Len(b.lines)
           p == NextFilled(a.lines, i)
           q == NextFilled(b.lines, j)
<1>1. la \in Nat /\ lb \in Nat /\ i \in 1..la + 1 /\ j \in 1..lb + 1
  BY LinesOf DEF Starts
<1>2. FilledFrom(a, i) \in SUBSET Nat /\ FilledFrom(b, j) \in SUBSET Nat
  BY <1>1 DEF FilledFrom
<1>3. CASE i > la \/ j > lb
  <2>1. i > la => FilledFrom(a, i) = {}
    BY <1>1 DEF FilledFrom
  <2>2. j > lb => FilledFrom(b, j) = {}
    BY <1>1 DEF FilledFrom
  <2>3. CASE i > la /\ j > lb
    <3>1. Aligned(a, b, {}, {})
      <4> DEFINE none == [h \in {} |-> h]
      <4>1. none \in [{} -> {}]
        OBVIOUS
      <4> QED BY <4>1 DEF Aligned
    <3>2. Accepts(a, b, i, j)
      <4>1. Aligned(a, b, FilledFrom(a, i), FilledFrom(b, j))
        BY <2>1, <2>2, <2>3, <3>1
      <4>2. ~(i <= la) /\ ~(j <= lb)
        BY <1>1, <2>3
      <4> QED BY <4>1, <4>2 DEF Accepts
    <3>3. Turn(Accepted(a, b), a, b, i, j)
      BY <2>3 DEF Turn
    <3> QED BY <3>2, <3>3
  <2>4. CASE i > la /\ j <= lb
    <3>1. ~EndsBlank(b) => FilledFrom(b, j) # {}
      BY <1>1, <2>4, FilledToCome
    <3>2. Aligned(a, b, {}, FilledFrom(b, j)) => FilledFrom(b, j) = {}
      BY DEF Aligned
    <3>3. ~Accepts(a, b, i, j)
      BY <2>1, <2>4, <3>1, <3>2 DEF Accepts
    <3>4. ~Turn(Accepted(a, b), a, b, i, j)
      BY <1>1, <2>4 DEF Turn
    <3> QED BY <3>3, <3>4
  <2>5. CASE i <= la /\ j > lb
    <3>1. ~EndsBlank(a) => FilledFrom(a, i) # {}
      BY <1>1, <2>5, FilledToCome
    <3>2. Aligned(a, b, FilledFrom(a, i), {}) => FilledFrom(a, i) = {}
      BY DEF Aligned
    <3>3. ~Accepts(a, b, i, j)
      BY <2>2, <2>5, <3>1, <3>2 DEF Accepts
    <3>4. ~Turn(Accepted(a, b), a, b, i, j)
      BY <1>1, <2>5 DEF Turn
    <3> QED BY <3>3, <3>4
  <2> QED BY <1>1, <1>3, <2>3, <2>4, <2>5
<1>4. CASE i <= la /\ j <= lb
  <2>1. p \in i..la + 1 /\ q \in j..lb + 1
    BY NextFilledFinds DEF Starts
  <2>2. CASE p > la
    <3>1. EndsBlank(a)
      BY <1>1, <1>4, <2>1, <2>2, FilledToCome
    <3> QED BY <1>1, <1>4, <2>1, <2>2, <3>1 DEF Accepts, Turn
  <2>3. CASE q > lb
    <3>1. EndsBlank(b)
      BY <1>1, <1>4, <2>1, <2>3, FilledToCome
    <3> QED BY <1>1, <1>4, <2>1, <2>3, <3>1 DEF Accepts, Turn
  <2>4. CASE p <= la /\ q <= lb
    <3>1. /\ p \in FilledFrom(a, i) /\ \A k \in FilledFrom(a, i) : p <= k
          /\ FilledFrom(a, p + 1) = FilledFrom(a, i) \ {p}
      BY <2>4, NextFilledFinds DEF Starts
    <3>2. /\ q \in FilledFrom(b, j) /\ \A k \in FilledFrom(b, j) : q <= k
          /\ FilledFrom(b, q + 1) = FilledFrom(b, j) \ {q}
      BY <2>4, NextFilledFinds DEF Starts
    <3>3. Aligned(a, b, FilledFrom(a, i), FilledFrom(b, j)) <=>
            /\ Folded(a.lines[p]) = Folded(b.lines[q])
            /\ Aligned(a, b, FilledFrom(a, p + 1), FilledFrom(b, q + 1))
      <4> HIDE DEF p, q
      <4> QED BY <1>2, <3>1, <3>2, AlignedStep
    <3>4. EndsBlank(a) => p + 1 <= la
      BY <1>1, <2>1, <2>4, <3>1 DEF EndsBlank, FilledFrom
    <3>5. EndsBlank(b) => q + 1 <= lb
      BY <1>1, <2>1, <2>4, <3>2 DEF EndsBlank, FilledFrom
    <3>6. Accepts(a, b, i, j) <=>
            /\ Folded(a.lines[p]) = Folded(b.lines[q])
            /\ Accepts(a, b, p + 1, q + 1)
      BY <1>4, <3>3, <3>4, <3>5 DEF Accepts
    <3>7. p + 1 \in Starts(a) /\ q + 1 \in Starts(b)
      BY <1>1, <2>1, <2>4 DEF Starts
    <3>8. Accepted(a, b)[p + 1][q + 1] = Accepts(a, b, p + 1, q + 1)
      BY <3>7 DEF Accepted
    <3> QED BY <1>1, <1>4, <2>4, <3>6, <3>8 DEF Turn
  <2> QED BY <1>1, <2>1, <2>2, <2>3, <2>4
<1> QED BY <1>1, <1>3, <1>4

-----------------------------------------------------------------------------
(* What the comparators mean *)

\* The loop accepts exactly what is to be accepted.  Accepted solves the
\* recursion, so there is a solution; and a solution that differed from it would
\* differ at lines closer to the end.
LEMMA AgreementIs ==
  ASSUME NEW a, NEW b, IsFile(a), IsFile(b)
  PROVE  Agreement(a, b) = Accepted(a, b)
<1> DEFINE Loop(rest) == [i \in Starts(a) |-> [j \in Starts(b) |-> Turn(rest, a, b, i, j)]]
           f == Agreement(a, b)
           g == Accepted(a, b)
<1>1. f = CHOOSE rest : rest = Loop(rest)
  BY DEF Agreement, Turn, Starts
<1>2. g = Loop(g)
  <2>1. \A i \in Starts(a), j \in Starts(b) : Accepts(a, b, i, j) = Turn(g, a, b, i, j)
    <3> SUFFICES ASSUME NEW i \in Starts(a), NEW j \in Starts(b)
                 PROVE  Accepts(a, b, i, j) = Turn(g, a, b, i, j)
      OBVIOUS
    <3>1. Accepts(a, b, i, j) \in BOOLEAN
      BY Zenon DEF Accepts
    <3>2. Turn(g, a, b, i, j) \in BOOLEAN
      <4> DEFINE p == NextFilled(a.lines, i)
                 q == NextFilled(b.lines, j)
      <4>1. (IF i > Len(a.lines) \/ j > Len(b.lines)
             THEN i > Len(a.lines) /\ j > Len(b.lines)
             ELSE /\ p <= Len(a.lines) /\ q <= Len(b.lines)
                  /\ Folded(a.lines[p]) = Folded(b.lines[q])
                  /\ g[p + 1][q + 1]) \in BOOLEAN
        <5> HIDE DEF g, p, q
        <5> QED BY Zenon
      <4> QED BY <4>1, Zenon DEF Turn
    <3>3. Accepts(a, b, i, j) <=> Turn(g, a, b, i, j)
      BY AcceptsTurn
    <3>4. ASSUME NEW x \in BOOLEAN, NEW y \in BOOLEAN, x <=> y PROVE x = y
      BY <3>4
    <3> HIDE DEF g
    <3> QED BY <3>1, <3>2, <3>3, <3>4
  <2>2. g = [i \in Starts(a) |-> [j \in Starts(b) |-> Accepts(a, b, i, j)]]
    BY DEF Accepted
  <2> HIDE DEF g
  <2> QED BY <2>1, <2>2, Zenon
<1>3. f = Loop(f)
  <2> HIDE DEF Loop, f
  <2> QED BY <1>1, <1>2
<1>4. \A i \in Starts(a), j \in Starts(b) : f[i][j] = g[i][j]
  <2> DEFINE Wrong(i) == \E j \in Starts(b) : f[i][j] # g[i][j]
             left == {n \in Nat : \E i \in Starts(a) : Wrong(i) /\ n = Len(a.lines) + 1 - i}
  <2> SUFFICES ASSUME NEW e \in Starts(a), Wrong(e) PROVE FALSE
    OBVIOUS
  <2>1. \A i \in Starts(a) : i \in 1..Len(a.lines) + 1 /\ Len(a.lines) \in Nat
    BY LinesOf DEF Starts
  <2>2. Len(a.lines) + 1 - e \in left
    BY <2>1
  <2>3. PICK n \in left : \A m \in left : n <= m
    <3>1. left \in SUBSET Nat
      OBVIOUS
    <3> HIDE DEF left
    <3> QED BY <2>2, <3>1, Least
  <2>4. PICK i \in Starts(a) : Wrong(i) /\ n = Len(a.lines) + 1 - i
    BY <2>3
  <2>5. \A h \in Starts(a) : h > i => ~Wrong(h)
    <3> SUFFICES ASSUME NEW h \in Starts(a), h > i, Wrong(h) PROVE FALSE
      OBVIOUS
    <3>1. Len(a.lines) + 1 - h \in left
      BY <2>1
    <3> HIDE DEF left
    <3> QED BY <2>1, <2>3, <2>4, <3>1
  <2>6. PICK j \in Starts(b) : f[i][j] # g[i][j]
    BY <2>4
  <2> DEFINE p == NextFilled(a.lines, i)
             q == NextFilled(b.lines, j)
  <2>7. p \in i..Len(a.lines) + 1 /\ q \in j..Len(b.lines) + 1
    BY NextFilledFinds DEF Starts
  <2>8. p <= Len(a.lines) /\ q <= Len(b.lines) => f[p + 1][q + 1] = g[p + 1][q + 1]
    <3> SUFFICES ASSUME p <= Len(a.lines), q <= Len(b.lines)
                 PROVE  f[p + 1][q + 1] = g[p + 1][q + 1]
      OBVIOUS
    <3>1. Len(b.lines) \in Nat /\ j \in 1..Len(b.lines) + 1
      BY LinesOf DEF Starts
    <3>2. p + 1 \in Starts(a) /\ p + 1 > i /\ q + 1 \in Starts(b)
      <4> HIDE DEF p, q
      <4> QED BY <2>1, <2>7, <3>1 DEF Starts
    <3> HIDE DEF p, q, f, g
    <3> QED BY <2>5, <3>2
  <2>9. f[i][j] = Turn(f, a, b, i, j) /\ g[i][j] = Turn(g, a, b, i, j)
    <3> HIDE DEF f, g
    <3>1. Loop(f)[i][j] = Turn(f, a, b, i, j) /\ Loop(g)[i][j] = Turn(g, a, b, i, j)
      OBVIOUS
    <3> HIDE DEF Loop
    <3> QED BY <1>2, <1>3, <3>1
  <2>10. Turn(f, a, b, i, j) = Turn(g, a, b, i, j)
    <3> HIDE DEF f, g
    <3> QED BY <2>8 DEF Turn
  <2> QED BY <2>6, <2>9, <2>10
<1>5. \A i \in Starts(a) : f[i] = g[i]
  <2> SUFFICES ASSUME NEW i \in Starts(a) PROVE f[i] = g[i]
    OBVIOUS
  <2>1. f[i] = [j \in Starts(b) |-> f[i][j]] /\ g[i] = [j \in Starts(b) |-> g[i][j]]
    <3> HIDE DEF f, g
    <3>1. Loop(f)[i] = [j \in Starts(b) |-> Turn(f, a, b, i, j)]
      OBVIOUS
    <3>2. Loop(g)[i] = [j \in Starts(b) |-> Turn(g, a, b, i, j)]
      OBVIOUS
    <3> HIDE DEF Loop
    <3> QED BY <1>2, <1>3, <3>1, <3>2
  <2> HIDE DEF f, g
  <2> QED BY <1>4, <2>1
<1>6. f = [i \in Starts(a) |-> f[i]] /\ g = [i \in Starts(a) |-> g[i]]
  <2> HIDE DEF f, g
  <2>1. Loop(f) = [i \in Starts(a) |-> Loop(f)[i]] /\ Loop(g) = [i \in Starts(a) |-> Loop(g)[i]]
    OBVIOUS
  <2> HIDE DEF Loop
  <2> QED BY <1>2, <1>3, <2>1
<1> QED
  <2> HIDE DEF f, g
  <2> SUFFICES f = g
    BY DEF f, g
  <2> QED BY <1>5, <1>6

\* What the lenient comparison (text_cmp2) accepts, for any two files: files of
\* the same words line by line, of which none ends with a blank line.
THEOREM LenientMeans ==
  ASSUME NEW a, NEW b, IsFile(a), IsFile(b)
  PROVE  text_cmp2(a, b) <=>
           Decodable(a, b) /\ SameWords(a, b) /\ ~EndsBlank(a) /\ ~EndsBlank(b)
<1>1. 1 \in Starts(a) /\ 1 \in Starts(b)
  BY LinesOf DEF Starts
<1>2. Agreement(a, b)[1][1] = Accepts(a, b, 1, 1)
  BY <1>1, AgreementIs DEF Accepted
<1>3. /\ Len(a.lines) \in Nat /\ (a.lines # <<>> <=> 1 <= Len(a.lines))
      /\ Len(b.lines) \in Nat /\ (b.lines # <<>> <=> 1 <= Len(b.lines))
  BY DEF IsFile, FiniteSeq
<1> QED BY <1>2, <1>3 DEF text_cmp2, Accepts, SameWords, EndsBlank

LEMMA SameWordsSymmetric ==
  ASSUME NEW a, NEW b, IsFile(a), IsFile(b), SameWords(a, b)
  PROVE  SameWords(b, a)
<1>1. FilledFrom(a, 1) \in SUBSET Nat /\ FilledFrom(b, 1) \in SUBSET Nat
  BY LinesOf DEF FilledFrom
<1> QED BY <1>1, AlignedSymmetric DEF SameWords

\* No comparison tells the student's file from the expected one: whichever is
\* given first, the result is the same.
THEOREM ComparatorsSymmetric ==
  ASSUME NEW a, NEW b, IsFile(a), IsFile(b), NEW e \in Int
  PROVE  /\ text_cmp(a, b) <=> text_cmp(b, a)
         /\ text_cmp2(a, b) <=> text_cmp2(b, a)
         /\ number_cmp(a, b, e) <=> number_cmp(b, a, e)
<1>1. text_cmp(a, b) <=> text_cmp(b, a)
  BY LinesOf DEF text_cmp, Decodable
<1>2. text_cmp2(a, b) <=> text_cmp2(b, a)
  BY LenientMeans, SameWordsSymmetric DEF Decodable
<1>3. ASSUME NEW f, NEW g, IsFile(f), IsFile(g), number_cmp(f, g, e)
      PROVE  number_cmp(g, f, e)
  <2>1. Decodable(g, f) /\ Len(g.lines) = Len(f.lines) /\ DOMAIN g.lines = DOMAIN f.lines
    BY <1>3, LinesOf DEF number_cmp, Decodable
  <2>2. ASSUME NEW i \in DOMAIN f.lines
        PROVE  LET s == g.lines[i].words  t == f.lines[i].words
               IN  Len(s) = Len(t) /\ \A k \in DOMAIN s : Near(s[k], t[k], e)
    <3> DEFINE s == g.lines[i].words
               t == f.lines[i].words
    <3>1. Len(t) = Len(s) /\ \A k \in DOMAIN t : Near(t[k], s[k], e)
      BY <1>3 DEF number_cmp
    <3>2. FiniteSeq(s) /\ FiniteSeq(t)
      BY <1>3, <2>1 DEF IsFile
    <3>3. DOMAIN s = DOMAIN t
      <4> HIDE DEF s, t
      <4> QED BY <3>1, <3>2 DEF FiniteSeq
    <3>4. /\ \A k \in DOMAIN s : s[k].number = "finite" => s[k].value \in Int
          /\ \A k \in DOMAIN t : t[k].number = "finite" => t[k].value \in Int
      BY <1>3, <2>1 DEF IsFile
    <3>5. ASSUME NEW k \in DOMAIN s PROVE Near(s[k], t[k], e)
      <4> HIDE DEF s, t
      <4> QED BY <3>1, <3>3, <3>4 DEF Near, Distance
    <3> QED BY <3>1, <3>5
  <2> QED BY <2>1, <2>2 DEF number_cmp
<1> QED BY <1>1, <1>2, <1>3

\* The comparisons are of varying strictness: strictly equal text is equal as
\* numbers without any tolerance, a wider tolerance accepts no less, and a text
\* is equal to itself.
THEOREM StrictestFirst ==
  ASSUME NEW a, NEW b, IsFile(a), IsFile(b)
  PROVE  /\ text_cmp(a, b) => number_cmp(a, b, 0)
         /\ \A d, e \in Int : d <= e /\ number_cmp(a, b, d) => number_cmp(a, b, e)
         /\ a.decodable => text_cmp(a, a)
<1>1. ASSUME text_cmp(a, b) PROVE number_cmp(a, b, 0)
  <2>1. Decodable(a, b) /\ Len(a.lines) = Len(b.lines) /\ DOMAIN a.lines = DOMAIN b.lines
    BY <1>1, LinesOf DEF text_cmp
  <2>2. \A i \in DOMAIN a.lines : a.lines[i].words = b.lines[i].words
    BY <1>1 DEF text_cmp, Stripped, Blank
  <2>3. ASSUME NEW i \in DOMAIN a.lines, NEW k \in DOMAIN a.lines[i].words
        PROVE  Near(a.lines[i].words[k], a.lines[i].words[k], 0)
    <3>1. a.lines[i].words[k].number = "finite" => a.lines[i].words[k].value \in Int
      BY DEF IsFile
    <3> QED BY <3>1 DEF Near, Distance
  <2> QED BY <2>1, <2>2, <2>3 DEF number_cmp
<1>2. ASSUME NEW d \in Int, NEW e \in Int, d <= e, number_cmp(a, b, d)
      PROVE  number_cmp(a, b, e)
  <2>1. Decodable(a, b) /\ Len(a.lines) = Len(b.lines) /\ DOMAIN a.lines = DOMAIN b.lines
    BY <1>2, LinesOf DEF number_cmp
  <2>2. ASSUME NEW i \in DOMAIN a.lines
        PROVE  LET s == a.lines[i].words  t == b.lines[i].words
               IN  Len(s) = Len(t) /\ \A k \in DOMAIN s : Near(s[k], t[k], e)
    <3> DEFINE s == a.lines[i].words
               t == b.lines[i].words
    <3>1. Len(s) = Len(t) /\ \A k \in DOMAIN s : Near(s[k], t[k], d)
      BY <1>2 DEF number_cmp
    <3>2. FiniteSeq(s) /\ FiniteSeq(t)
      BY <2>1 DEF IsFile
    <3>3. DOMAIN s = DOMAIN t
      <4> HIDE DEF s, t
      <4> QED BY <3>1, <3>2 DEF FiniteSeq
    <3>4. /\ \A k \in DOMAIN s : s[k].number = "finite" => s[k].value \in Int
          /\ \A k \in DOMAIN t : t[k].number = "finite" => t[k].value \in Int
      BY <2>1 DEF IsFile
    <3>5. ASSUME NEW k \in DOMAIN s PROVE Near(s[k], t[k], e)
      <4> HIDE DEF s, t
      <4> QED BY <1>2, <3>1, <3>3, <3>4 DEF Near, Distance
    <3> QED BY <3>1, <3>5
  <2> QED BY <2>1, <2>2 DEF number_cmp
<1>3. a.decodable => text_cmp(a, a)
  BY DEF text_cmp, Decodable
<1> QED BY <1>1, <1>2, <1>3
=============================================================================
