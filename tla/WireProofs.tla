----------------------------- MODULE WireProofs -----------------------------
(***************************************************************************)
(* Proofs about push/pull requests, the change of keys and what packets    *)
(* carry, for every number of nodes, keys, connections and messages, every *)
(* length of messages that two bytes can hold, every number of values of a *)
(* byte and every limit.  The loops of packCompoundMsg, unpackCompoundMsg  *)
(* and splitToCompoundMsgs run over sequences; what they do is shown by    *)
(* induction over numbers, in the form "every k in 0..n is in this set".   *)
(***************************************************************************)
EXTENDS Wire, FiniteSetTheorems, TLAPS

-----------------------------------------------------------------------------
(* Induction over numbers.                                                 *)

\* A set of natural numbers that is not empty has a least element.
LEMMA LeastNumber ==
  ASSUME NEW T, T \subseteq Nat, T # {}
  PROVE  \E x \in T : \A y \in T : x <= y
<1> DEFINE R == OpToRel(<, Nat)
<1>1. \A x, y \in Nat : x < y => <<x, y>> \in R
  BY Zenon DEF OpToRel
<1>2. IsWellFoundedOn(R, Nat)
  BY NatLessThanWellFounded, Zenon
<1> HIDE DEF R
<1>3. PICK x \in T : \A y \in T : ~ (<<y, x>> \in R)
  BY <1>2, WFMin, Zenon
<1>4. ASSUME NEW y \in T PROVE x <= y
  <2>1. ~ (y < x)
    BY <1>1, <1>3, Zenon
  <2> QED BY <2>1
<1> QED BY <1>4, Zenon

\* What holds before a loop and is kept by each of its turns holds after every turn.
LEMMA LoopInduction ==
  ASSUME NEW n \in Nat, NEW S, 0 \in S,
         \A k \in 0..(n - 1) : k \in S => k + 1 \in S
  PROVE  \A k \in 0..n : k \in S
<1> SUFFICES ASSUME NEW m \in 0..n, m \notin S PROVE FALSE
  BY Zenon
<1> DEFINE T == {k \in 0..n : k \notin S}
<1>1. T \subseteq Nat /\ T # {}
  OBVIOUS
<1> HIDE DEF T
<1>2. PICK x \in T : \A y \in T : x <= y
  BY <1>1, LeastNumber, Zenon
<1>3. x \in 1..n /\ x \notin S
  BY DEF T
<1>4. x - 1 \in 0..(n - 1) /\ x - 1 \notin T
  BY <1>2, <1>3
<1>5. (x - 1) + 1 \in S
  BY <1>4 DEF T
<1> QED BY <1>3, <1>5

-----------------------------------------------------------------------------
(* Sequences.                                                              *)

\* \o, unexpanded where it does not matter what it does.
Join(s, t) == s \o t

\* The first elements of a joined sequence.
LEMMA JoinIs ==
  ASSUME NEW S, NEW s \in Seq(S), NEW t \in Seq(S)
  PROVE  /\ Join(s, t) \in Seq(S) /\ Len(Join(s, t)) = Len(s) + Len(t)
         /\ \A j \in 1..Len(s) : Join(s, t)[j] = s[j]
BY DEF Join

\* Its last elements.
LEMMA JoinEnd ==
  ASSUME NEW S, NEW s \in Seq(S), NEW t \in Seq(S)
  PROVE  \A j \in 1..Len(t) : Join(s, t)[Len(s) + j] = t[j]
BY DEF Join

\* Its last two, where two are joined on.
LEMMA JoinPair ==
  ASSUME NEW S, NEW s \in Seq(S), NEW t \in Seq(S)
  PROVE  Len(t) = 2 => \A i \in Nat : i = Len(s) => /\ Join(s, t)[i + 1] = t[1]
                                                    /\ Join(s, t)[i + 2] = t[2]
<1>1. \A j \in 1..Len(t) : Join(s, t)[Len(s) + j] = t[j]
  BY JoinEnd, Zenon
<1>2. Len(t) = 2 => 1 \in 1..Len(t) /\ 2 \in 1..Len(t)
  OBVIOUS
<1> QED BY <1>1, <1>2, Zenon

\* What the buffer holds after each of the first m writes.
IsWritten(g, parts, m) ==
  g = [i \in 0..m |-> IF i = 0 THEN <<>> ELSE Join(g[i - 1], parts[i])]

\* The loop of written runs to its end.
LEMMA WrittenRuns ==
  ASSUME NEW parts, NEW n \in Nat, n = Len(parts)
  PROVE  \E g : IsWritten(g, parts, n) /\ written(parts) = g[n]
<1> DEFINE T == {m \in 0..n : \E g : IsWritten(g, parts, m)}
<1>1. 0 \in T
  <2>1. IsWritten([i \in 0..0 |-> <<>>], parts, 0)
    BY DEF IsWritten
  <2> QED BY <2>1
<1>2. ASSUME NEW m \in 0..(n - 1), m \in T PROVE m + 1 \in T
  <2>1. PICK f : IsWritten(f, parts, m)
    BY <1>2, Zenon
  <2> DEFINE g == [i \in 0..(m + 1) |-> IF i = m + 1 THEN Join(f[m], parts[i]) ELSE f[i]]
  <2>2. ASSUME NEW i \in 0..(m + 1)
        PROVE  g[i] = IF i = 0 THEN <<>> ELSE Join(g[i - 1], parts[i])
    <3>1. CASE i = m + 1
      BY <3>1
    <3>2. CASE i # m + 1
      BY <2>1, <3>2 DEF IsWritten
    <3> QED BY <3>1, <3>2, Zenon
  <2>3. IsWritten(g, parts, m + 1)
    BY <2>2, Zenon DEF IsWritten
  <2> HIDE DEF g
  <2> QED BY <2>3
<1> HIDE DEF T
<1>3. \A k \in 0..n : k \in T
  BY <1>1, <1>2, LoopInduction, Zenon
<1>4. n \in T
  BY <1>3
<1>5. \E g : IsWritten(g, parts, n)
  BY <1>4, Zenon DEF T
<1> DEFINE g == CHOOSE g : IsWritten(g, parts, n)
<1>6. IsWritten(g, parts, n)
  BY <1>5, Zenon
<1>7. written(parts) = g[n]
  BY Zenon DEF written, IsWritten, Join
<1> HIDE DEF g
<1> QED BY <1>6, <1>7, Zenon

\* g[k] is what the first k sequences make.
Joins(g, seqs) ==
  /\ g[0] = <<>>
  /\ \A k \in 0..(Len(seqs) - 1) : g[k + 1] = Join(g[k], seqs[k + 1])

\* written joins the sequences one after the other.
LEMMA WrittenJoins ==
  ASSUME NEW S, NEW seqs \in Seq(Seq(S))
  PROVE  \E g \in [0..Len(seqs) -> Seq(S)] : Joins(g, seqs) /\ written(seqs) = g[Len(seqs)]
<1> DEFINE n == Len(seqs)
<1>1. n \in Nat /\ seqs \in [1..n -> Seq(S)]
  OBVIOUS
<1> HIDE DEF n
<1>2. PICK g : IsWritten(g, seqs, n) /\ written(seqs) = g[n]
  BY <1>1, WrittenRuns, Zenon DEF n
<1>3. g[0] = <<>> /\ g = [k \in 0..n |-> g[k]]
  BY <1>1, <1>2 DEF IsWritten
<1>4. ASSUME NEW k \in 0..(n - 1) PROVE g[k + 1] = Join(g[k], seqs[k + 1])
  BY <1>1, <1>2 DEF IsWritten
<1> DEFINE T == {k \in 0..n : g[k] \in Seq(S)}
<1>5. 0 \in T
  <2>1. <<>> \in Seq(S) /\ 0 \in 0..n
    BY <1>1
  <2>2. g[0] \in Seq(S)
    BY <1>3, <2>1, Zenon
  <2> QED BY <2>1, <2>2, Zenon
<1>6. ASSUME NEW k \in 0..(n - 1), k \in T PROVE k + 1 \in T
  <2>1. k + 1 \in 1..n
    BY <1>1
  <2>2. g[k + 1] = Join(g[k], seqs[k + 1]) /\ seqs[k + 1] \in Seq(S) /\ g[k] \in Seq(S)
    BY <1>1, <1>4, <1>6, <2>1, Zenon
  <2>3. g[k + 1] \in Seq(S)
    BY <2>2, JoinIs, Zenon
  <2> QED BY <1>1, <2>3
<1> HIDE DEF T
<1>7. \A k \in 0..n : k \in T
  BY <1>1, <1>5, <1>6, LoopInduction, Zenon
<1>8. g \in [0..n -> Seq(S)]
  <2>1. \A k \in 0..n : g[k] \in Seq(S)
    BY <1>7, Zenon DEF T
  <2> QED BY <1>3, <2>1, Zenon
<1>9. Joins(g, seqs)
  BY <1>3, <1>4, Zenon DEF Joins, n
<1> QED BY <1>2, <1>8, <1>9, Zenon DEF n

\* What the first k sequences make is the beginning of what they all make.
LEMMA JoinedPrefix ==
  ASSUME NEW S, NEW seqs \in Seq(Seq(S)), NEW g \in [0..Len(seqs) -> Seq(S)], Joins(g, seqs),
         NEW k \in 0..Len(seqs)
  PROVE  /\ Len(g[k]) <= Len(g[Len(seqs)])
         /\ \A j \in 1..Len(g[k]) : g[Len(seqs)][j] = g[k][j]
<1> DEFINE n == Len(seqs)
           Begins(m) == Len(g[k]) <= Len(g[m]) /\ \A j \in 1..Len(g[k]) : g[m][j] = g[k][j]
           T == {m \in 0..n : k <= m => Begins(m)}
<1>1. n \in Nat /\ seqs \in [1..n -> Seq(S)] /\ g \in [0..n -> Seq(S)] /\ k \in 0..n
  OBVIOUS
<1>2. \A m \in 0..(n - 1) : g[m + 1] = Join(g[m], seqs[m + 1])
  BY Zenon DEF Joins
<1> HIDE DEF n
<1>3. 0 \in T
  BY <1>1
<1>4. ASSUME NEW m \in 0..(n - 1), m \in T PROVE m + 1 \in T
  <2>1. m + 1 \in 1..n /\ m + 1 \in 0..n /\ m \in 0..n
    BY <1>1
  <2>2. g[m + 1] = Join(g[m], seqs[m + 1]) /\ g[m] \in Seq(S) /\ seqs[m + 1] \in Seq(S)
        /\ g[k] \in Seq(S) /\ g[m + 1] \in Seq(S)
    BY <1>1, <1>2, <2>1, Zenon
  <2>3. Len(g[m + 1]) = Len(g[m]) + Len(seqs[m + 1])
        /\ \A j \in 1..Len(g[m]) : g[m + 1][j] = g[m][j]
    <3> DEFINE a == g[m]
               b == seqs[m + 1]
               c == g[m + 1]
    <3>1. a \in Seq(S) /\ b \in Seq(S) /\ c = Join(a, b)
      BY <2>2, Zenon
    <3> HIDE DEF a, b, c
    <3>2. Len(c) = Len(a) + Len(b) /\ \A j \in 1..Len(a) : c[j] = a[j]
      BY <3>1, JoinIs, Zenon
    <3> QED BY <3>2, Zenon DEF a, b, c
  <2>4. CASE k = m + 1
    BY <2>1, <2>2, <2>4
  <2>5. CASE k <= m
    <3>1. Begins(m)
      BY <1>4, <2>5, Zenon
    <3>2. Len(g[k]) \in Nat /\ Len(g[m]) \in Nat /\ Len(seqs[m + 1]) \in Nat
      BY <2>2
    <3>3. Len(g[k]) <= Len(g[m + 1])
      <4>1. \A a, b, c \in Nat : a <= b => a <= b + c
        OBVIOUS
      <4> QED BY <2>3, <3>1, <3>2, <4>1, Zenon
    <3>4. ASSUME NEW j \in 1..Len(g[k]) PROVE g[m + 1][j] = g[k][j]
      <4>1. j \in 1..Len(g[m])
        BY <3>1, <3>2
      <4> QED BY <2>3, <3>1, <4>1, Zenon
    <3>5. Begins(m + 1)
      BY <3>3, <3>4, Zenon
    <3> HIDE DEF Begins
    <3> QED BY <2>1, <3>5, Zenon
  <2>6. CASE k > m + 1
    BY <1>1, <2>1, <2>6
  <2> QED BY <1>1, <2>1, <2>4, <2>5, <2>6
<1> HIDE DEF T
<1>5. \A m \in 0..n : m \in T
  BY <1>1, <1>3, <1>4, LoopInduction, Zenon
<1>6. n \in 0..n /\ k <= n
  BY <1>1
<1>7. Begins(n)
  BY <1>5, <1>6, Zenon DEF T
<1> QED BY <1>7, Zenon DEF n

\* A part of a sequence that agrees with t is t.
LEMMA Slice ==
  ASSUME NEW S, NEW s \in Seq(S), NEW t \in Seq(S), NEW a \in Nat, a + Len(t) <= Len(s),
         \A j \in 1..Len(t) : s[a + j] = t[j]
  PROVE  SubSeq(s, a + 1, a + Len(t)) = t
<1> DEFINE m == Len(t)
           u == SubSeq(s, a + 1, a + m)
<1>1. m \in Nat /\ Len(s) \in Nat /\ t = [j \in 1..m |-> t[j]]
  OBVIOUS
<1>2. \A j \in 1..m : s[a + j] = t[j]
  BY Zenon
<1>3. a + m <= Len(s)
  BY Zenon
<1> HIDE DEF m
<1>4. u = [j \in 1..m |-> s[(a + 1) + j - 1]]
  BY <1>1, <1>3
<1>5. \A j \in 1..m : s[(a + 1) + j - 1] = t[j]
  <2>1. \A j \in 1..m : (a + 1) + j - 1 = a + j
    BY <1>1
  <2> QED BY <1>2, <2>1, Zenon
<1>6. [j \in 1..m |-> s[(a + 1) + j - 1]] = [j \in 1..m |-> t[j]]
  BY <1>5, Zenon
<1> QED BY <1>1, <1>4, <1>6, Zenon DEF m

\* A part of two elements.
LEMMA SliceOfTwo ==
  ASSUME NEW S, NEW s \in Seq(S), NEW a \in 1..Len(s), a + 1 <= Len(s)
  PROVE  SubSeq(s, a, a + 1) = <<s[a], s[a + 1]>>
<1>1. SubSeq(s, a, a + 1) = [j \in 1..2 |-> s[a + j - 1]]
  OBVIOUS
<1>2. \A j \in 1..2 : s[a + j - 1] = <<s[a], s[a + 1]>>[j]
  OBVIOUS
<1>3. <<s[a], s[a + 1]>> = [j \in 1..2 |-> <<s[a], s[a + 1]>>[j]]
  OBVIOUS
<1> QED BY <1>1, <1>2, <1>3, Zenon

\* A function on 1..m is a sequence.
LEMMA FunctionIsSeq ==
  ASSUME NEW S, NEW m \in Nat, NEW f \in [1..m -> S]
  PROVE  f \in Seq(S) /\ Len(f) = m
OBVIOUS

\* Sequences with the same elements are equal.
LEMMA SameSeq ==
  ASSUME NEW S, NEW s \in Seq(S), NEW t \in Seq(S), Len(t) = Len(s),
         \A j \in 1..Len(s) : t[j] = s[j]
  PROVE  t = s
<1> DEFINE m == Len(s)
<1>1. t = [j \in 1..m |-> t[j]] /\ s = [j \in 1..m |-> s[j]]
  OBVIOUS
<1>2. \A j \in 1..m : t[j] = s[j]
  BY Zenon
<1> HIDE DEF m
<1> QED BY <1>1, <1>2, Zenon

\* A part of a sequence.
LEMMA Piece ==
  ASSUME NEW S, NEW s \in Seq(S), NEW a \in Nat, NEW b \in Nat, a <= b, b <= Len(s)
  PROVE  /\ SubSeq(s, a + 1, b) \in Seq(S) /\ Len(SubSeq(s, a + 1, b)) = b - a
         /\ \A j \in 1..(b - a) : SubSeq(s, a + 1, b)[j] = s[a + j]
<1>1. SubSeq(s, a + 1, b) = [j \in 1..(b - a) |-> s[(a + 1) + j - 1]]
  OBVIOUS
<1>2. \A j \in 1..(b - a) : (a + 1) + j - 1 = a + j /\ a + j \in 1..Len(s)
  OBVIOUS
<1>3. \A j \in 1..(b - a) : s[(a + 1) + j - 1] = s[a + j] /\ s[a + j] \in S
  BY <1>2
<1> QED BY <1>1, <1>3

\* cut[k] of the m elements of a sequence are in its first k parts, of p.
IsCut(cut, p, m) ==
  /\ cut \in [0..p -> 0..m] /\ cut[0] = 0 /\ cut[p] = m
  /\ \A k \in 0..(p - 1) : cut[k] <= cut[k + 1]

Parts(s, cut, p) == [i \in 1..p |-> SubSeq(s, cut[i - 1] + 1, cut[i])]

\* The parts of a sequence between one cut and the next, put together, are the
\* sequence.
LEMMA CutJoins ==
  ASSUME NEW S, NEW s \in Seq(S), NEW p \in Nat, NEW cut, IsCut(cut, p, Len(s))
  PROVE  written(Parts(s, cut, p)) = s
<1> DEFINE parts == Parts(s, cut, p)
<1>1. /\ \A k \in 0..p : cut[k] \in Nat /\ cut[k] <= Len(s)
      /\ \A k \in 0..(p - 1) : cut[k] <= cut[k + 1]
      /\ cut[0] = 0 /\ cut[p] = Len(s)
  BY DEF IsCut
<1>2. ASSUME NEW k \in 0..(p - 1)
      PROVE  /\ parts[k + 1] \in Seq(S) /\ Len(parts[k + 1]) = cut[k + 1] - cut[k]
             /\ \A j \in 1..(cut[k + 1] - cut[k]) : parts[k + 1][j] = s[cut[k] + j]
  <2> DEFINE a == cut[k]
             b == cut[k + 1]
  <2>1. a \in Nat /\ b \in Nat /\ a <= b /\ b <= Len(s)
    BY <1>1
  <2>2. parts[k + 1] = SubSeq(s, a + 1, b)
    <3>1. k + 1 \in 1..p /\ (k + 1) - 1 = k
      OBVIOUS
    <3> QED BY <3>1, Zenon DEF Parts
  <2> HIDE DEF a, b
  <2>3. /\ SubSeq(s, a + 1, b) \in Seq(S) /\ Len(SubSeq(s, a + 1, b)) = b - a
        /\ \A j \in 1..(b - a) : SubSeq(s, a + 1, b)[j] = s[a + j]
    BY <2>1, Piece, Zenon
  <2> QED BY <2>2, <2>3, Zenon DEF a, b
<1>3. parts \in Seq(Seq(S)) /\ Len(parts) = p
  <2>1. ASSUME NEW i \in 1..p PROVE SubSeq(s, cut[i - 1] + 1, cut[i]) \in Seq(S)
    <3>1. i - 1 \in 0..(p - 1) /\ (i - 1) + 1 = i
      OBVIOUS
    <3>2. parts[i] \in Seq(S)
      BY <1>2, <3>1, Zenon
    <3> QED BY <3>2, Zenon DEF Parts
  <2>2. parts \in [1..p -> Seq(S)]
    BY <2>1, Zenon DEF Parts
  <2> DEFINE Q == Seq(S)
  <2>3. parts \in [1..p -> Q] /\ p \in Nat
    BY <2>2, Zenon
  <2> HIDE DEF Q
  <2>4. parts \in Seq(Q) /\ Len(parts) = p
    BY <2>3, FunctionIsSeq, Zenon
  <2> QED BY <2>4, Zenon DEF Q
<1> HIDE DEF parts
<1>4. PICK g \in [0..p -> Seq(S)] : Joins(g, parts) /\ written(parts) = g[p]
  BY <1>3, WrittenJoins, Zenon
<1> DEFINE Done(k) == Len(g[k]) = cut[k] /\ \A j \in 1..cut[k] : g[k][j] = s[j]
           T == {k \in 0..p : Done(k)}
<1>5. 0 \in T
  <2>1. Len(g[0]) = 0
    BY <1>4 DEF Joins
  <2> QED BY <1>1, <2>1
<1>6. ASSUME NEW k \in 0..(p - 1), k \in T PROVE k + 1 \in T
  <2> DEFINE t == g[k]
             u == parts[k + 1]
             a == cut[k]
             b == cut[k + 1]
  <2>1. k \in 0..p /\ k + 1 \in 0..p
    OBVIOUS
  <2>2. g[k + 1] = Join(t, u) /\ t \in Seq(S) /\ u \in Seq(S)
    <3>1. k \in 0..(Len(parts) - 1)
      BY <1>3, Zenon
    <3>2. u \in Seq(S)
      BY <1>2, Zenon
    <3> QED BY <1>4, <2>1, <3>1, <3>2, Zenon DEF Joins
  <2>3. a \in Nat /\ b \in Nat /\ a <= b
    BY <1>1, <2>1, Zenon
  <2>4. Len(t) = a /\ \A j \in 1..a : t[j] = s[j]
    BY <1>6, Zenon
  <2>5. Len(u) = b - a /\ \A j \in 1..(b - a) : u[j] = s[a + j]
    BY <1>2, Zenon
  <2> HIDE DEF t, u, a, b
  <2>6. /\ Len(g[k + 1]) = Len(t) + Len(u)
        /\ \A j \in 1..Len(t) : g[k + 1][j] = t[j]
    <3>1. t \in Seq(S) /\ u \in Seq(S)
      BY <2>2, Zenon
    <3>2. /\ Len(Join(t, u)) = Len(t) + Len(u)
          /\ \A j \in 1..Len(t) : Join(t, u)[j] = t[j]
      BY <3>1, JoinIs, Zenon
    <3> QED BY <2>2, <3>2, Zenon
  <2>7. \A j \in 1..Len(u) : g[k + 1][Len(t) + j] = u[j]
    <3>1. t \in Seq(S) /\ u \in Seq(S)
      BY <2>2, Zenon
    <3>2. \A j \in 1..Len(u) : Join(t, u)[Len(t) + j] = u[j]
      BY <3>1, JoinEnd, Zenon
    <3> QED BY <2>2, <3>2, Zenon
  <2>8. Len(g[k + 1]) = b
    BY <2>3, <2>4, <2>5, <2>6
  <2>9. ASSUME NEW j \in 1..b PROVE g[k + 1][j] = s[j]
    <3>1. CASE j <= a
      <4>1. j \in 1..a
        BY <2>3, <3>1
      <4> QED BY <2>4, <2>6, <4>1, Zenon
    <3>2. CASE a < j
      <4>1. j - a \in 1..(b - a) /\ a + (j - a) = j
        BY <2>3, <3>2
      <4>2. g[k + 1][a + (j - a)] = u[j - a] /\ u[j - a] = s[a + (j - a)]
        BY <2>4, <2>5, <2>7, <4>1, Zenon
      <4> QED BY <4>1, <4>2, Zenon
    <3> QED BY <2>3, <3>1, <3>2
  <2>10. Done(k + 1)
    BY <2>8, <2>9, Zenon DEF b
  <2> HIDE DEF Done
  <2> QED BY <2>1, <2>10, Zenon
<1> HIDE DEF T
<1>7. \A k \in 0..p : k \in T
  BY <1>5, <1>6, LoopInduction, Zenon
<1>8. Done(p) /\ g[p] \in Seq(S)
  BY <1>4, <1>7 DEF T
<1> DEFINE t == g[p]
<1>9. t \in Seq(S) /\ Len(t) = Len(s) /\ \A j \in 1..Len(s) : t[j] = s[j]
  BY <1>1, <1>8, Zenon
<1> HIDE DEF t
<1>10. t = s
  BY <1>9, SameSeq, Zenon
<1> QED BY <1>4, <1>10, Zenon DEF t, parts

\* An empty buffer.
LEMMA WrittenNone == written(<<>>) = <<>>
<1>1. 0 \in Nat /\ 0 = Len(<<>>)
  BY Zenon
<1>2. PICK g : IsWritten(g, <<>>, 0) /\ written(<<>>) = g[0]
  BY <1>1, WrittenRuns, Zenon
<1> QED BY <1>2 DEF IsWritten

\* One sequence, put together, is that sequence.
LEMMA WrittenOne ==
  ASSUME NEW S, NEW s \in Seq(S)
  PROVE  written([i \in 1..1 |-> s]) = s
<1> DEFINE one == [i \in 1..1 |-> s]
<1>1. 1 \in Nat /\ 1 = Len(one) /\ 1 # 0 /\ one[1] = s
  OBVIOUS
<1> HIDE DEF one
<1>2. PICK g : IsWritten(g, one, 1) /\ written(one) = g[1]
  BY <1>1, WrittenRuns, Zenon
<1>3. g[0] = <<>> /\ g[1] = Join(g[0], one[1])
  BY <1>2 DEF IsWritten
<1>4. g[1] = s
  BY <1>1, <1>3 DEF Join
<1> QED BY <1>2, <1>4, Zenon DEF one

-----------------------------------------------------------------------------
(* Compound messages.                                                      *)

\* A length below ByteValues squared survives its two bytes.
LEMMA LengthSurvives ==
  ASSUME NEW n \in Nat, n < ByteValues * ByteValues
  PROVE  /\ uint8(n \div ByteValues) \in Nat /\ uint8(n) \in Nat
         /\ uint8(n \div ByteValues) * ByteValues + uint8(n) = n
<1> DEFINE B == ByteValues
           q == n \div B
           r == n % B
<1>1. B \in Nat /\ B > 1
  BY ByteAssumption, Zenon
<1> HIDE DEF B
<1>2. q \in Nat /\ r \in 0..(B - 1)
  BY <1>1
<1>3. r = n - B * q
  BY <1>1
<1>4. n < B * B
  BY Zenon DEF B
<1> HIDE DEF q, r
<1>5. B * q + r = n
  BY <1>1, <1>2, <1>3
<1>6. q < B
  BY <1>1, <1>2, <1>4, <1>5
<1>7. q % B = q
  BY <1>1, <1>2, <1>6
<1>8. q * B + r = n
  BY <1>1, <1>2, <1>5
<1>9. uint8(n \div ByteValues) = q /\ uint8(n) = r
  BY <1>7, Zenon DEF uint8, q, r, B
<1> QED BY <1>2, <1>8, <1>9 DEF B

lengthBytes(msgs) == [i \in 1..Len(msgs) |-> uint16(Len(msgs[i]))]

\* The lengths are found where unpackCompoundMsg looks for them.
LEMMA LengthsInHeader ==
  ASSUME NEW msgs \in Seq(Seq(Nat)),
         \A i \in 1..Len(msgs) : Len(msgs[i]) < ByteValues * ByteValues
  PROVE  LET head == written(lengthBytes(msgs))
         IN  /\ head \in Seq(Nat) /\ Len(head) = 2 * Len(msgs)
             /\ \A i \in 1..Len(msgs) :
                  head[2 * i - 1] * ByteValues + head[2 * i] = Len(msgs[i])
<1> DEFINE n == Len(msgs)
           bytes == lengthBytes(msgs)
           Value(h, i) == h[2 * i - 1] * ByteValues + h[2 * i]
<1>1. n \in Nat /\ \A i \in 1..n : msgs[i] \in Seq(Nat) /\ Len(msgs[i]) \in Nat
  OBVIOUS
<1>2. bytes \in [1..n -> Seq(Nat)]
      /\ \A i \in 1..n : /\ Len(bytes[i]) = 2 /\ bytes[i][1] \in Nat /\ bytes[i][2] \in Nat
                         /\ bytes[i][1] * ByteValues + bytes[i][2] = Len(msgs[i])
  <2>1. ASSUME NEW i \in 1..n
        PROVE  /\ uint16(Len(msgs[i])) \in Seq(Nat) /\ Len(uint16(Len(msgs[i]))) = 2
               /\ uint16(Len(msgs[i]))[1] \in Nat /\ uint16(Len(msgs[i]))[2] \in Nat
               /\ uint16(Len(msgs[i]))[1] * ByteValues + uint16(Len(msgs[i]))[2] = Len(msgs[i])
    BY <1>1, LengthSurvives DEF uint16
  <2> QED BY <2>1, Zenon DEF lengthBytes
<1> HIDE DEF n, bytes
<1>3. bytes \in Seq(Seq(Nat)) /\ Len(bytes) = n
  BY <1>1, <1>2
<1>4. PICK g \in [0..n -> Seq(Nat)] : Joins(g, bytes) /\ written(bytes) = g[n]
  BY <1>3, WrittenJoins, Zenon
<1>5. g[0] = <<>> /\ \A k \in 0..(n - 1) : g[k + 1] = Join(g[k], bytes[k + 1])
  BY <1>3, <1>4, Zenon DEF Joins
<1> DEFINE T == {k \in 0..n : Len(g[k]) = 2 * k /\ \A i \in 1..k : Value(g[k], i) = Len(msgs[i])}
<1>6. 0 \in T
  BY <1>1, <1>5
<1>7. ASSUME NEW k \in 0..(n - 1), k \in T PROVE k + 1 \in T
  <2>1. k + 1 \in 1..n /\ k + 1 \in 0..n /\ (k + 1) - 1 = k /\ k \in 0..n
    BY <1>1
  <2>2. g[k + 1] = Join(g[k], bytes[k + 1]) /\ g[k] \in Seq(Nat) /\ bytes[k + 1] \in Seq(Nat)
        /\ Len(g[k]) = 2 * k /\ Len(bytes[k + 1]) = 2
    BY <1>2, <1>4, <1>5, <1>7, <2>1, Zenon
  <2>3. /\ Len(g[k + 1]) = 2 * (k + 1)
        /\ \A j \in 1..(2 * k) : g[k + 1][j] = g[k][j]
        /\ g[k + 1][2 * k + 1] = bytes[k + 1][1] /\ g[k + 1][2 * k + 2] = bytes[k + 1][2]
    <3> DEFINE a == g[k]
               b == bytes[k + 1]
               c == g[k + 1]
    <3>1. a \in Seq(Nat) /\ b \in Seq(Nat) /\ c = Join(a, b) /\ Len(a) = 2 * k /\ Len(b) = 2
      BY <2>2, Zenon
    <3> HIDE DEF a, b, c
    <3>2. Len(c) = Len(a) + Len(b) /\ \A j \in 1..Len(a) : c[j] = a[j]
      BY <3>1, JoinIs, Zenon
    <3>4. c[2 * k + 1] = b[1] /\ c[2 * k + 2] = b[2]
      <4>1. 2 * k \in Nat
        BY <2>1
      <4> QED BY <3>1, <4>1, JoinPair, Zenon
    <3>3. /\ Len(c) = 2 * (k + 1)
          /\ \A j \in 1..(2 * k) : c[j] = a[j]
          /\ c[2 * k + 1] = b[1] /\ c[2 * k + 2] = b[2]
      BY <2>1, <3>1, <3>2, <3>4
    <3> QED BY <3>3, Zenon DEF a, b, c
  <2>4. ASSUME NEW i \in 1..(k + 1) PROVE Value(g[k + 1], i) = Len(msgs[i])
    <3>1. CASE i = k + 1
      <4>1. 2 * i - 1 = 2 * k + 1 /\ 2 * i = 2 * k + 2
        BY <2>1, <3>1
      <4> QED BY <1>2, <2>1, <2>3, <3>1, <4>1
    <3>2. CASE i # k + 1
      <4>1. i \in 1..k /\ 2 * i - 1 \in 1..(2 * k) /\ 2 * i \in 1..(2 * k)
        BY <2>1, <3>2
      <4>2. Value(g[k], i) = Len(msgs[i])
        BY <1>7, <4>1, Zenon
      <4> QED BY <2>3, <4>1, <4>2, Zenon
    <3> QED BY <3>1, <3>2, Zenon
  <2> HIDE DEF Value
  <2> QED BY <2>1, <2>3, <2>4, Zenon
<1> HIDE DEF T
<1>8. \A k \in 0..n : k \in T
  BY <1>1, <1>6, <1>7, LoopInduction, Zenon
<1>9. n \in T /\ n \in 0..n
  BY <1>1, <1>8
<1>10. Len(g[n]) = 2 * n /\ \A i \in 1..n : Value(g[n], i) = Len(msgs[i])
  BY <1>9, Zenon DEF T
<1>11. g[n] \in Seq(Nat)
  BY <1>4, <1>9, Zenon
<1> QED BY <1>4, <1>10, <1>11, Zenon DEF n, bytes

lengthAt(msg, i) == Uint16(SubSeq(msg, 2 * i, 2 * i + 1))

\* Where the first n messages end.
IsEnd(e, msg, m) ==
  e = [i \in 0..m |-> IF i = 0 THEN 1 + 2 * msg[1] ELSE e[i - 1] + lengthAt(msg, i)]

\* unpackCompoundMsg is well defined.
LEMMA UnpackRuns ==
  ASSUME NEW msg, NEW n \in Nat, msg[1] = n
  PROVE  \E e : /\ IsEnd(e, msg, n)
                /\ unpackCompoundMsg(msg) =
                     IF Len(msg) < 1 + 2 * n THEN <<>>
                     ELSE [i \in 1..Max({0} \cup {j \in 1..n : e[j] <= Len(msg)})
                             |-> SubSeq(msg, e[i - 1] + 1, e[i])]
<1> DEFINE T == {m \in 0..n : \E e : IsEnd(e, msg, m)}
<1>1. n \in Nat
  BY Zenon
<1>2. 0 \in T
  <2>1. IsEnd([i \in 0..0 |-> 1 + 2 * msg[1]], msg, 0)
    BY DEF IsEnd
  <2>2. \E e : IsEnd(e, msg, 0)
    BY <2>1, Zenon
  <2> QED BY <1>1, <2>2
<1>3. ASSUME NEW m \in 0..(n - 1), m \in T PROVE m + 1 \in T
  <2>1. PICK e : IsEnd(e, msg, m)
    BY <1>3, Zenon
  <2> DEFINE f == [i \in 0..(m + 1) |-> IF i = m + 1 THEN e[m] + lengthAt(msg, i) ELSE e[i]]
  <2>2. ASSUME NEW i \in 0..(m + 1)
        PROVE  f[i] = IF i = 0 THEN 1 + 2 * msg[1] ELSE f[i - 1] + lengthAt(msg, i)
    <3>1. CASE i = m + 1
      BY <3>1
    <3>2. CASE i # m + 1
      BY <2>1, <3>2 DEF IsEnd
    <3> QED BY <3>1, <3>2, Zenon
  <2>3. IsEnd(f, msg, m + 1)
    BY <2>2, Zenon DEF IsEnd
  <2> HIDE DEF f
  <2>4. m + 1 \in 0..n
    BY <1>1
  <2> QED BY <2>3, <2>4, Zenon
<1> HIDE DEF T
<1>4. \A k \in 0..n : k \in T
  BY <1>1, <1>2, <1>3, LoopInduction, Zenon
<1>5. n \in T
  BY <1>1, <1>4
<1>6. \E e : IsEnd(e, msg, n)
  BY <1>5, Zenon DEF T
<1> DEFINE e == CHOOSE e : IsEnd(e, msg, n)
<1>7. IsEnd(e, msg, n)
  BY <1>6, Zenon
<1>9. unpackCompoundMsg(msg) =
         IF Len(msg) < 1 + 2 * n THEN <<>>
         ELSE [i \in 1..Max({0} \cup {j \in 1..n : e[j] <= Len(msg)})
                 |-> SubSeq(msg, e[i - 1] + 1, e[i])]
  BY DEF unpackCompoundMsg, lengthAt, IsEnd
<1> HIDE DEF e
<1> QED BY <1>7, <1>9, Zenon

\* A compound message: its type, the count, the lengths, the messages.
Whole(t, b, head, body) == <<t, b>> \o head \o body

\* msg consists of the count b, the lengths and the messages.
LaidOut(msg, b, head, body) ==
  /\ msg \in Seq(Nat) /\ Len(msg) = 1 + Len(head) + Len(body) /\ msg[1] = b
  /\ \A i \in 1..Len(head) : msg[1 + i] = head[i]
  /\ \A i \in 1..Len(body) : msg[1 + Len(head) + i] = body[i]

\* Without the type, that is what handleUdpMsg gives to unpackCompoundMsg.
LEMMA Layout ==
  ASSUME NEW t \in Nat, NEW b \in Nat, NEW head \in Seq(Nat), NEW body \in Seq(Nat)
  PROVE  /\ Whole(t, b, head, body)[1] = t
         /\ LaidOut(Tail(Whole(t, b, head, body)), b, head, body)
<1> DEFINE two == <<t, b>>
           first == Join(two, head)
           all == Join(first, body)
           msg == Tail(all)
<1>1. two \in Seq(Nat) /\ Len(two) = 2 /\ two[1] = t /\ two[2] = b
  OBVIOUS
<1> HIDE DEF two
<1>2. /\ first \in Seq(Nat) /\ Len(first) = 2 + Len(head) /\ first[1] = t /\ first[2] = b
      /\ \A i \in 1..Len(head) : first[2 + i] = head[i]
  <2>1. first \in Seq(Nat) /\ Len(first) = Len(two) + Len(head)
        /\ \A i \in 1..Len(two) : first[i] = two[i]
    BY <1>1, JoinIs, Zenon
  <2>2. \A i \in 1..Len(head) : first[Len(two) + i] = head[i]
    <3>1. two \in Seq(Nat)
      BY <1>1, Zenon
    <3> QED BY <3>1, JoinEnd, Zenon
  <2> HIDE DEF first
  <2>3. first[1] = t /\ first[2] = b
    BY <1>1, <2>1
  <2> QED BY <1>1, <2>1, <2>2, <2>3, Zenon
<1> HIDE DEF first
<1>3. all \in Seq(Nat) /\ Len(all) = 2 + Len(head) + Len(body)
      /\ all[1] = t /\ all[2] = b
      /\ \A i \in 1..Len(head) : all[2 + i] = head[i]
  <2>1. all \in Seq(Nat) /\ Len(all) = Len(first) + Len(body)
        /\ \A i \in 1..Len(first) : all[i] = first[i]
    <3>1. first \in Seq(Nat)
      BY <1>2, Zenon
    <3> QED BY <3>1, JoinIs, Zenon
  <2> HIDE DEF all
  <2>2. ASSUME NEW i \in 1..Len(head) PROVE all[2 + i] = head[i]
    <3>1. 2 + i \in 1..Len(first)
      BY <1>2
    <3> QED BY <1>2, <2>1, <3>1, Zenon
  <2>3. all[1] = t /\ all[2] = b
    <3>1. 1 \in 1..Len(first) /\ 2 \in 1..Len(first)
      BY <1>2
    <3> QED BY <1>2, <2>1, <3>1, Zenon
  <2> QED BY <1>2, <2>1, <2>2, <2>3, Zenon
<1>4. \A i \in 1..Len(body) : all[(2 + Len(head)) + i] = body[i]
  <2>1. \A i \in 1..Len(body) : all[Len(first) + i] = body[i]
    <3>1. first \in Seq(Nat)
      BY <1>2, Zenon
    <3> QED BY <3>1, JoinEnd, Zenon
  <2> HIDE DEF all
  <2> QED BY <1>2, <2>1, Zenon
<1> HIDE DEF all
<1>5. msg \in Seq(Nat) /\ Len(msg) = 1 + Len(head) + Len(body)
      /\ \A i \in 1..Len(msg) : msg[i] = all[i + 1]
  <2>1. all \in Seq(Nat) /\ Len(all) >= 1
    BY <1>3
  <2>2. msg \in Seq(Nat) /\ Len(msg) = Len(all) - 1 /\ \A i \in 1..Len(msg) : msg[i] = all[i + 1]
    BY <2>1
  <2> HIDE DEF msg
  <2> QED BY <1>3, <2>2
<1> HIDE DEF msg
<1>6. msg[1] = b
  BY <1>3, <1>5
<1>7. ASSUME NEW i \in 1..Len(head) PROVE msg[1 + i] = head[i]
  <2>1. 1 + i \in 1..Len(msg) /\ (1 + i) + 1 = 2 + i
    BY <1>5
  <2> QED BY <1>3, <1>5, <2>1, Zenon
<1>8. ASSUME NEW i \in 1..Len(body) PROVE msg[1 + Len(head) + i] = body[i]
  <2>1. 1 + Len(head) + i \in 1..Len(msg)
        /\ (1 + Len(head) + i) + 1 = (2 + Len(head)) + i
    BY <1>5
  <2> QED BY <1>4, <1>5, <2>1, Zenon
<1>9. msg = Tail(Whole(t, b, head, body)) /\ all = Whole(t, b, head, body)
  BY Zenon DEF msg, all, first, two, Join, Whole
<1>10. LaidOut(msg, b, head, body)
  BY <1>5, <1>6, <1>7, <1>8, Zenon DEF LaidOut
<1> QED BY <1>3, <1>9, <1>10, Zenon

\* A compound message of at most maxMsgs messages comes apart into these messages.
LEMMA CompoundIntact ==
  ASSUME NEW msgs \in Seq(Seq(Nat)), Len(msgs) <= maxMsgs,
         \A i \in 1..Len(msgs) : Len(msgs[i]) < ByteValues * ByteValues
  PROVE  handleUdpMsg(packCompoundMsg(msgs)) = msgs
<1> DEFINE n == Len(msgs)
           B == ByteValues
           head == written(lengthBytes(msgs))
           body == written(msgs)
           all == Whole(compoundMsg, uint8(n), head, body)
<1>1. n \in Nat /\ n <= B - 1 /\ B \in Nat /\ \A i \in 1..n : msgs[i] \in Seq(Nat)
  BY ByteAssumption DEF maxMsgs
<1>2. uint8(n) = n
  <2>1. ASSUME NEW a \in Nat, NEW b \in Nat, a <= b - 1 PROVE a % b = a
    BY <2>1
  <2>2. n % B = n
    BY <1>1, <2>1, Zenon
  <2> QED BY <2>2, Zenon DEF uint8
<1>3. head \in Seq(Nat) /\ Len(head) = 2 * n
      /\ \A i \in 1..n : head[2 * i - 1] * B + head[2 * i] = Len(msgs[i])
  BY LengthsInHeader, Zenon
<1>4. PICK g \in [0..n -> Seq(Nat)] : Joins(g, msgs) /\ body = g[n]
  BY WrittenJoins, Zenon
<1>5. body \in Seq(Nat) /\ n \in 0..n
  BY <1>1, <1>4
<1>6. packCompoundMsg(msgs) = all
  BY Zenon DEF packCompoundMsg, lengthBytes, Whole
<1>7. /\ all[1] = compoundMsg
      /\ LaidOut(Tail(all), uint8(n), head, body)
  <2>1. compoundMsg \in Nat /\ uint8(n) \in Nat
    BY <1>1, <1>2, Zenon DEF compoundMsg
  <2>2. head \in Seq(Nat) /\ body \in Seq(Nat)
    BY <1>3, <1>5, Zenon
  <2> HIDE DEF head, body, n
  <2> QED BY <2>1, <2>2, Layout, Zenon
<1>8. handleUdpMsg(packCompoundMsg(msgs)) = unpackCompoundMsg(Tail(all))
  BY <1>6, <1>7, Zenon DEF handleUdpMsg
<1> HIDE DEF n, B, head, body, all
<1>9. PICK msg \in Seq(Nat) :
        /\ msg = Tail(all)
        /\ Len(msg) = 1 + 2 * n + Len(body) /\ msg[1] = n
        /\ \A i \in 1..(2 * n) : msg[1 + i] = head[i]
        /\ \A i \in 1..Len(body) : msg[1 + 2 * n + i] = body[i]
  BY <1>2, <1>3, <1>7, Zenon DEF LaidOut
<1>10. PICK e : /\ IsEnd(e, msg, n)
                /\ unpackCompoundMsg(msg) =
                     IF Len(msg) < 1 + 2 * n THEN <<>>
                     ELSE [i \in 1..Max({0} \cup {j \in 1..n : e[j] <= Len(msg)})
                             |-> SubSeq(msg, e[i - 1] + 1, e[i])]
  <2>1. n \in Nat /\ msg[1] = n
    BY <1>1, <1>9, Zenon
  <2> QED BY <2>1, UnpackRuns, ZenonT(30)
<1>11. ASSUME NEW i \in 1..n PROVE lengthAt(msg, i) = Len(msgs[i])
  <2>1. 2 * i \in 1..Len(msg) /\ 2 * i + 1 \in 1..Len(msg)
    <3>1. ASSUME NEW x \in Nat
          PROVE  2 * i \in 1..(1 + 2 * n + x) /\ 2 * i + 1 \in 1..(1 + 2 * n + x)
      BY <1>1
    <3>2. Len(body) \in Nat
      BY <1>5
    <3> QED BY <1>9, <3>1, <3>2, Zenon
  <2>2. SubSeq(msg, 2 * i, 2 * i + 1) = <<msg[2 * i], msg[2 * i + 1]>>
    <3> DEFINE a == 2 * i
    <3>1. a \in 1..Len(msg) /\ a + 1 <= Len(msg) /\ msg \in Seq(Nat)
      BY <1>9, <2>1
    <3> HIDE DEF a
    <3>2. SubSeq(msg, a, a + 1) = <<msg[a], msg[a + 1]>>
      BY <3>1, SliceOfTwo, Zenon
    <3> QED BY <3>2, Zenon DEF a
  <2>3. msg[2 * i] = head[2 * i - 1] /\ msg[2 * i + 1] = head[2 * i]
    <3>1. 2 * i - 1 \in 1..(2 * n) /\ 2 * i \in 1..(2 * n) /\ 1 + (2 * i - 1) = 2 * i /\ 1 + 2 * i = 2 * i + 1
      BY <1>1
    <3> QED BY <1>9, <3>1, Zenon
  <2>4. Uint16(<<msg[2 * i], msg[2 * i + 1]>>) = msg[2 * i] * B + msg[2 * i + 1]
    BY Zenon DEF Uint16, B
  <2> QED BY <1>3, <2>2, <2>3, <2>4, Zenon DEF lengthAt
<1>12. \A k \in 0..n : e[k] = 1 + 2 * n + Len(g[k])
  <2> DEFINE T == {k \in 0..n : e[k] = 1 + 2 * n + Len(g[k])}
  <2>1. 0 \in T
    <3>1. e[0] = 1 + 2 * n
      BY <1>1, <1>9, <1>10 DEF IsEnd
    <3>2. Len(g[0]) = 0
      BY <1>4 DEF Joins
    <3>3. 1 + 2 * n = 1 + 2 * n + 0 /\ 0 \in 0..n
      BY <1>1
    <3>4. e[0] = 1 + 2 * n + Len(g[0])
      BY <3>1, <3>2, <3>3, Zenon
    <3> QED BY <3>3, <3>4, Zenon
  <2>2. ASSUME NEW k \in 0..(n - 1), k \in T PROVE k + 1 \in T
    <3>1. k + 1 \in 0..n /\ k + 1 \in 1..n /\ k \in 0..n
      BY <1>1
    <3>2. e[k + 1] = e[k] + lengthAt(msg, k + 1)
      BY <1>10, <3>1 DEF IsEnd
    <3> DEFINE s == g[k]
               t == msgs[k + 1]
    <3>3. g[k + 1] = Join(s, t) /\ s \in Seq(Nat) /\ t \in Seq(Nat)
      BY <1>1, <1>4, <3>1, Zenon DEF Joins, n
    <3>4. e[k] = 1 + 2 * n + Len(s) /\ lengthAt(msg, k + 1) = Len(t)
      BY <1>11, <2>2, <3>1, Zenon
    <3> HIDE DEF s, t
    <3>5. Len(g[k + 1]) = Len(s) + Len(t)
      BY <3>3, JoinIs, Zenon
    <3>6. Len(s) \in Nat /\ Len(t) \in Nat
      BY <3>3
    <3>7. ASSUME NEW x \in Nat, NEW y \in Nat PROVE (1 + 2 * n + x) + y = 1 + 2 * n + (x + y)
      BY <1>1
    <3>8. e[k + 1] = 1 + 2 * n + Len(g[k + 1])
      <4>1. (1 + 2 * n + Len(s)) + Len(t) = 1 + 2 * n + (Len(s) + Len(t))
        BY <3>6, <3>7, Zenon
      <4> QED BY <3>2, <3>4, <3>5, <4>1, Zenon
    <3> QED BY <3>1, <3>8, Zenon
  <2> HIDE DEF T
  <2>3. \A k \in 0..n : k \in T
    BY <1>1, <2>1, <2>2, LoopInduction, Zenon
  <2> QED BY <2>3, Zenon DEF T
<1>13. \A k \in 0..n : /\ Len(g[k]) \in Nat /\ Len(g[k]) <= Len(body)
                       /\ \A j \in 1..Len(g[k]) : body[j] = g[k][j]
  <2> SUFFICES ASSUME NEW k \in 0..n
               PROVE  /\ Len(g[k]) \in Nat /\ Len(g[k]) <= Len(body)
                      /\ \A j \in 1..Len(g[k]) : body[j] = g[k][j]
    BY Zenon
  <2>1. Len(g[k]) <= Len(g[n]) /\ \A j \in 1..Len(g[k]) : g[n][j] = g[k][j]
    BY <1>4, JoinedPrefix, ZenonT(30) DEF n
  <2>2. g[k] \in Seq(Nat)
    BY <1>4, Zenon
  <2> QED BY <1>4, <2>1, <2>2
<1>14. Max({0} \cup {i \in 1..n : e[i] <= Len(msg)}) = n
  <2>1. {0} \cup {i \in 1..n : e[i] <= Len(msg)} = 0..n
    <3>1. ASSUME NEW i \in 1..n PROVE e[i] <= Len(msg)
      <4>1. i \in 0..n
        BY <1>1
      <4>2. e[i] = 1 + 2 * n + Len(g[i]) /\ Len(g[i]) \in Nat /\ Len(g[i]) <= Len(body)
        BY <1>12, <1>13, <4>1, Zenon
      <4>3. ASSUME NEW x \in Nat, NEW y \in Nat, x <= y PROVE 1 + 2 * n + x <= 1 + 2 * n + y
        BY <1>1, <4>3
      <4>4. Len(body) \in Nat
        BY <1>5
      <4>5. 1 + 2 * n + Len(g[i]) <= 1 + 2 * n + Len(body)
        BY <4>2, <4>3, <4>4, Zenon
      <4> QED BY <1>9, <4>2, <4>5, Zenon
    <3>2. {i \in 1..n : e[i] <= Len(msg)} = 1..n
      BY <3>1, Zenon
    <3>3. {0} \cup 1..n = 0..n
      BY <1>1
    <3> QED BY <3>2, <3>3, Zenon
  <2>2. n \in 0..n /\ \A y \in 0..n : n >= y
    BY <1>1
  <2>3. \A x \in 0..n : (\A y \in 0..n : x >= y) => x = n
    <3> SUFFICES ASSUME NEW x \in 0..n, x >= n PROVE x = n
      BY <2>2, Zenon
    <3> QED BY <1>1
  <2>4. Max(0..n) = n
    BY <2>2, <2>3, Zenon DEF Max
  <2> QED BY <2>1, <2>4, Zenon
<1>15. unpackCompoundMsg(msg) = [i \in 1..n |-> SubSeq(msg, e[i - 1] + 1, e[i])]
  <2>1. ASSUME NEW x \in Nat PROVE ~ (1 + 2 * n + x < 1 + 2 * n)
    BY <1>1
  <2>2. Len(body) \in Nat
    BY <1>5
  <2>3. ~ (Len(msg) < 1 + 2 * n)
    BY <1>9, <2>1, <2>2, Zenon
  <2> QED BY <1>10, <1>14, <2>3, Zenon
<1>16. ASSUME NEW i \in 1..n PROVE SubSeq(msg, e[i - 1] + 1, e[i]) = msgs[i]
  <2>1. PICK k \in 0..(n - 1) : i = k + 1
    <3>1. i - 1 \in 0..(n - 1) /\ i = (i - 1) + 1
      BY <1>1
    <3> QED BY <3>1, Zenon
  <2>2. k + 1 \in 0..n /\ k \in 0..n /\ k + 1 \in 1..n /\ i - 1 = k
    BY <1>1, <2>1
  <2> DEFINE s == g[k]
             t == msgs[k + 1]
  <2>3. g[k + 1] = Join(s, t) /\ s \in Seq(Nat) /\ t \in Seq(Nat)
    BY <1>1, <1>4, <2>2, Zenon DEF Joins, n
  <2> HIDE DEF s, t
  <2>4. Len(g[k + 1]) = Len(s) + Len(t) /\ \A j \in 1..Len(t) : g[k + 1][Len(s) + j] = t[j]
    BY <2>3, JoinIs, JoinEnd
  <2>5. Len(s) \in Nat /\ Len(t) \in Nat /\ Len(body) \in Nat
    BY <1>5, <2>3
  <2>6. e[k] = 1 + 2 * n + Len(s) /\ e[k + 1] = 1 + 2 * n + Len(s) + Len(t)
    <3>1. e[k] = 1 + 2 * n + Len(s)
      BY <1>12, <2>2, Zenon DEF s
    <3>2. e[k + 1] = 1 + 2 * n + (Len(s) + Len(t))
      BY <1>12, <2>2, <2>4, Zenon
    <3> QED BY <1>1, <2>5, <3>1, <3>2
  <2>7. Len(s) + Len(t) <= Len(body) /\ \A j \in 1..(Len(s) + Len(t)) : body[j] = g[k + 1][j]
    BY <1>13, <2>2, <2>4, Zenon
  <2>8. ASSUME NEW j \in 1..Len(t) PROVE msg[1 + 2 * n + Len(s) + j] = t[j]
    <3>1. Len(s) + j \in 1..Len(body) /\ Len(s) + j \in 1..(Len(s) + Len(t))
      BY <2>5, <2>7
    <3>2. 1 + 2 * n + (Len(s) + j) = 1 + 2 * n + Len(s) + j
      BY <1>1, <2>5
    <3>3. msg[1 + 2 * n + (Len(s) + j)] = body[Len(s) + j]
      BY <1>9, <3>1, Zenon
    <3> QED BY <2>4, <2>7, <3>1, <3>2, <3>3, Zenon
  <2> DEFINE a == 1 + 2 * n + Len(s)
  <2>9. a \in Nat /\ a + Len(t) <= Len(msg)
    <3>1. ASSUME NEW x \in Nat, NEW y \in Nat, NEW z \in Nat, x + y <= z
          PROVE  1 + 2 * n + x \in Nat /\ (1 + 2 * n + x) + y <= 1 + 2 * n + z
      BY <1>1, <3>1
    <3>2. a \in Nat /\ a + Len(t) <= 1 + 2 * n + Len(body)
      BY <2>5, <2>7, <3>1, Zenon
    <3> QED BY <1>9, <3>2, Zenon
  <2>10. e[i - 1] + 1 = a + 1 /\ e[i] = a + Len(t)
    BY <2>1, <2>2, <2>6, Zenon
  <2>11. \A j \in 1..Len(t) : msg[a + j] = t[j]
    BY <2>8, Zenon
  <2> HIDE DEF a
  <2>12. SubSeq(msg, a + 1, a + Len(t)) = t
    BY <1>9, <2>3, <2>9, <2>11, Slice, Zenon
  <2> QED BY <2>1, <2>10, <2>12, Zenon DEF t
<1>17. [i \in 1..n |-> SubSeq(msg, e[i - 1] + 1, e[i])] = [i \in 1..n |-> msgs[i]]
  BY <1>16, Zenon
<1>18. msgs = [i \in 1..n |-> msgs[i]]
  BY DEF n
<1> QED BY <1>8, <1>9, <1>15, <1>17, <1>18, Zenon

\* The parts of splitToCompoundMsgs are of at most size messages, and end with the
\* last message.
LEMMA PartsCount ==
  ASSUME NEW n \in Nat, NEW size \in Nat \ {0}, NEW p, p = (n + size - 1) \div size
  PROVE  p \in Nat /\ p * size >= n /\ (p - 1) * size < n
OBVIOUS


\* The messages of a batch come out of its compound messages, in order and none
\* missing.
LEMMA SplitIntact ==
  ASSUME NEW msgs \in Seq(Seq(Nat)), NEW split, split = splitToCompoundMsgs(msgs),
         \A i \in 1..Len(msgs) : Len(msgs[i]) < ByteValues * ByteValues
  PROVE  written([i \in DOMAIN split |-> handleUdpMsg(split[i])]) = msgs
<1> DEFINE n == Len(msgs)
           M == maxMsgs
           p == (n + M - 1) \div M
           cut == [k \in 0..p |-> IF k * M < n THEN k * M ELSE n]
           parts == Parts(msgs, cut, p)
<1>1. n \in Nat /\ M \in Nat \ {0}
  BY ByteAssumption DEF maxMsgs
<1>2. split = [i \in 1..p |-> packCompoundMsg(SubSeq(msgs, (i - 1) * M + 1,
                                                     IF i * M < n THEN i * M ELSE n))]
  BY Zenon DEF splitToCompoundMsgs
<1> HIDE DEF n, M
<1>3. p \in Nat /\ p * M >= n /\ (p - 1) * M < n
  BY <1>1, PartsCount, Zenon
<1> HIDE DEF p
<1>4. ASSUME NEW k \in 0..(p - 1)
      PROVE  /\ cut[k] = k * M /\ cut[k] <= cut[k + 1] /\ cut[k + 1] - cut[k] <= M
             /\ cut[k + 1] = IF (k + 1) * M < n THEN (k + 1) * M ELSE n
  <2>1. k * M \in Nat /\ (k + 1) * M = k * M + M
    BY <1>1
  <2>2. k * M <= (p - 1) * M
    <3>1. ASSUME NEW a \in Nat, NEW b \in Nat, NEW c \in Nat, a <= b PROVE a * c <= b * c
      BY <3>1
    <3>2. k \in Nat /\ p - 1 \in Nat /\ k <= p - 1
      BY <1>3
    <3> QED BY <1>1, <3>1, <3>2, Zenon
  <2>3. (p - 1) * M \in Int
    BY <1>1, <1>3
  <2>4. k * M < n
    <3>1. ASSUME NEW a \in Int, NEW b \in Int, a <= b, b < n PROVE a < n
      BY <1>1, <3>1
    <3>2. k * M \in Int
      BY <2>1
    <3> QED BY <1>3, <2>2, <2>3, <3>1, <3>2, Zenon
  <2>5. cut[k] = k * M /\ cut[k + 1] = IF (k + 1) * M < n THEN (k + 1) * M ELSE n
    <3>1. k \in 0..p /\ k + 1 \in 0..p
      BY <1>3
    <3> QED BY <2>4, <3>1, Zenon
  <2> HIDE DEF cut
  <2> QED BY <1>1, <2>1, <2>4, <2>5
<1>5. cut \in [0..p -> 0..n] /\ cut[0] = 0 /\ cut[p] = n
  <2>1. ASSUME NEW k \in 0..p PROVE (IF k * M < n THEN k * M ELSE n) \in 0..n
    BY <1>1
  <2>2. cut \in [0..p -> 0..n]
    BY <2>1, Zenon
  <2>3. 0 \in 0..p /\ p \in 0..p /\ 0 * M = 0 /\ p * M \in Int
    BY <1>1, <1>3
  <2>4. cut[0] = 0
    BY <1>1, <2>3
  <2>5. cut[p] = n
    BY <1>1, <1>3, <2>3
  <2> QED BY <2>2, <2>4, <2>5, Zenon
<1>6. \A k \in 0..p : cut[k] \in Nat /\ cut[k] <= n
  BY <1>1, <1>5
<1> HIDE DEF cut
<1>7. ASSUME NEW i \in 1..p PROVE handleUdpMsg(split[i]) = parts[i]
  <2> DEFINE a == cut[i - 1]
             b == cut[i]
             t == SubSeq(msgs, a + 1, b)
  <2>1. PICK k \in 0..(p - 1) : i = k + 1 /\ i - 1 = k
    <3>1. i - 1 \in 0..(p - 1) /\ i = (i - 1) + 1
      BY <1>3
    <3> QED BY <3>1, Zenon
  <2>2. i - 1 \in 0..p /\ i \in 0..p
    BY <1>3
  <2>3. /\ a = (i - 1) * M /\ b = IF i * M < n THEN i * M ELSE n
        /\ a \in Nat /\ b \in Nat /\ a <= b /\ b - a <= M /\ b <= n
    BY <1>4, <1>6, <2>1, <2>2, Zenon
  <2>4. split[i] = packCompoundMsg(t)
    BY <1>2, <2>3, Zenon
  <2> HIDE DEF a, b
  <2>5. /\ t \in Seq(Seq(Nat)) /\ Len(t) = b - a
        /\ \A j \in 1..(b - a) : t[j] = msgs[a + j]
    <3>1. a \in Nat /\ b \in Nat /\ a <= b /\ b <= Len(msgs)
      BY <2>3, Zenon DEF n
    <3> QED BY <3>1, Piece, Zenon
  <2> HIDE DEF t
  <2>6. ASSUME NEW j \in 1..Len(t) PROVE Len(t[j]) < ByteValues * ByteValues
    <3>1. j \in 1..(b - a) /\ a + j \in 1..n
      <4>1. a \in Nat /\ b \in Nat /\ b <= n /\ n \in Nat /\ Len(t) = b - a
        BY <1>1, <2>3, <2>5, Zenon
      <4> QED BY <4>1
    <3>2. Len(msgs[a + j]) < ByteValues * ByteValues
      BY <3>1, Zenon DEF n
    <3> QED BY <2>5, <3>1, <3>2, Zenon
  <2>7. Len(t) <= maxMsgs
    BY <2>3, <2>5, Zenon DEF M
  <2>8. handleUdpMsg(packCompoundMsg(t)) = t
    BY <2>5, <2>6, <2>7, CompoundIntact, Zenon
  <2> QED BY <2>4, <2>8, Zenon DEF t, a, b, Parts
<1>8. [i \in DOMAIN split |-> handleUdpMsg(split[i])] = parts
  <2>1. DOMAIN split = 1..p
    BY <1>2, Zenon
  <2>2. parts = [i \in 1..p |-> parts[i]]
    BY Zenon DEF Parts
  <2> HIDE DEF parts
  <2> QED BY <1>7, <2>1, <2>2, Zenon
<1>9. written(parts) = msgs
  <2>1. p \in Nat /\ IsCut(cut, p, Len(msgs))
    BY <1>3, <1>4, <1>5, Zenon DEF n, IsCut
  <2> DEFINE Q == Seq(Nat)
  <2>2. msgs \in Seq(Q)
    BY Zenon
  <2> HIDE DEF Q
  <2> QED BY <2>1, <2>2, CutJoins, Zenon
<1> QED BY <1>8, <1>9, Zenon

-----------------------------------------------------------------------------
(* Push/pull requests.                                                     *)

Inside == {c \in Conn : at[c] \in InHandler}
Served == {c \in Conn : at[c] \in Exchanging}

\* A goroutine that exchanges states has been counted when fewer than
\* MaxPushPulls were inside, and those that exchange are inside.
IInv == TypeOK /\ CounterExact /\ ExchangesBounded

\* The sets of goroutines inside the handler are finite and smaller than a word.
LEMMA InsideFinite ==
  /\ IsFiniteSet(Inside) /\ Cardinality(Inside) \in Nat /\ Cardinality(Inside) <= Cardinality(Conn)
  /\ IsFiniteSet(Served) /\ Cardinality(Served) \in Nat /\ Cardinality(Served) <= Cardinality(Inside)
  /\ Cardinality(Conn) \in Nat
<1>1. Inside \subseteq Conn /\ Served \subseteq Inside
  BY Zenon DEF Inside, Served, InHandler, Exchanging
<1>2. IsFiniteSet(Inside) /\ Cardinality(Inside) <= Cardinality(Conn) /\ Cardinality(Conn) \in Nat
  BY <1>1, FS_Subset, FS_CardinalityType, ServerAssumption, Zenon
<1>3. IsFiniteSet(Served) /\ Cardinality(Served) <= Cardinality(Inside)
  BY <1>1, <1>2, FS_Subset, Zenon
<1> QED BY <1>2, <1>3, FS_CardinalityType, Zenon

\* A step that leaves the counter alone and moves c between places of the same
\* kind, or ends an exchange, keeps the invariant.
LEMMA MoveKeeps ==
  ASSUME IInv, NEW c \in Conn, NEW place \in Place,
         goes(c, place), UNCHANGED numPushPull,
         at[c] \in InHandler <=> place \in InHandler,
         place \in Exchanging => at[c] \in Exchanging
  PROVE  IInv'
<1>1. TypeOK'
  BY Zenon DEF IInv, TypeOK, goes
<1>2. Inside' = Inside
  BY Zenon DEF IInv, TypeOK, goes, Inside
<1>3. CounterExact'
  BY <1>2, Zenon DEF IInv, CounterExact, Inside
<1>4. Served' \subseteq Served
  BY Zenon DEF IInv, TypeOK, goes, Served
<1>5. Cardinality(Served') <= Cardinality(Served) /\ Cardinality(Served') \in Nat
  BY <1>4, InsideFinite, FS_Subset, FS_CardinalityType, Zenon
<1>6. ExchangesBounded'
  BY <1>5, InsideFinite, ServerAssumption DEF IInv, ExchangesBounded, Served
<1> QED BY <1>1, <1>3, <1>6, Zenon DEF IInv

\* A goroutine that enters HandlePushPull is counted in, also when it is refused.
LEMMA CountInKeeps ==
  ASSUME IInv, NEW c \in Conn, countIn(c)
  PROVE  IInv'
<1>1. at \in [Conn -> Place] /\ at[c] = "unpack" /\ c \notin Inside
  BY Zenon DEF IInv, TypeOK, countIn, Inside, InHandler
<1>2. PICK place \in {"refuse", "read"} :
        goes(c, place) /\ (place = "read" => ~(numPushPull' >= MaxPushPulls))
  BY Zenon DEF countIn
<1>3. at' = [at EXCEPT ![c] = place]
  BY <1>2, Zenon DEF goes
<1>4. Inside' = Inside \cup {c}
  BY <1>1, <1>3, Zenon DEF Inside, InHandler
<1>5. Cardinality(Inside') = Cardinality(Inside) + 1 /\ IsFiniteSet(Inside')
  BY <1>1, <1>4, InsideFinite, FS_AddElement, Zenon
<1>6. Inside' \subseteq Conn
  BY <1>3, Zenon DEF Inside
<1>7. Cardinality(Inside') <= Cardinality(Conn)
  BY <1>6, FS_Subset, ServerAssumption, Zenon
<1>8. numPushPull = Cardinality(Inside) /\ numPushPull' = (numPushPull + 1) % Word
  BY Zenon DEF IInv, CounterExact, Inside, countIn
<1>9. numPushPull' = Cardinality(Inside') /\ numPushPull' \in 0..(Word - 1)
  BY <1>5, <1>7, <1>8, InsideFinite, ServerAssumption
<1>10. TypeOK' /\ CounterExact'
  BY <1>1, <1>3, <1>9, Zenon DEF TypeOK, Place, CounterExact, Inside
<1>11. ExchangesBounded'
  <2>1. CASE place = "refuse"
    <3>1. Served' = Served
      BY <1>1, <1>3, <2>1, Zenon DEF Served, Exchanging
    <3> QED BY <3>1, Zenon DEF IInv, ExchangesBounded, Served
  <2>2. CASE place = "read"
    <3>1. Served' \subseteq Inside'
      BY Zenon DEF Served, Inside, Exchanging, InHandler
    <3>2. Cardinality(Served') <= Cardinality(Inside') /\ Cardinality(Served') \in Nat
      BY <3>1, <1>5, FS_Subset, FS_CardinalityType, Zenon
    <3>3. numPushPull' < MaxPushPulls
      BY <1>2, <1>9, <2>2, ServerAssumption
    <3> QED BY <3>2, <3>3, <1>5, <1>9, InsideFinite, ServerAssumption DEF ExchangesBounded, Served
  <2> QED BY <1>2, <2>1, <2>2, Zenon
<1> QED BY <1>10, <1>11, Zenon DEF IInv

\* A goroutine that leaves HandlePushPull is counted out once.
LEMMA CountOutKeeps ==
  ASSUME IInv, NEW c \in Conn, countOut(c)
  PROVE  IInv'
<1>1. at \in [Conn -> Place] /\ at[c] \in {"refuse", "return"} /\ c \in Inside
  BY Zenon DEF IInv, TypeOK, countOut, Inside, InHandler
<1>2. at' = [at EXCEPT ![c] = "none"]
  BY Zenon DEF countOut, goes
<1>3. Inside' = Inside \ {c} /\ Served' = Served
  BY <1>1, <1>2, Zenon DEF Inside, InHandler, Served, Exchanging
<1>4. Cardinality(Inside') = Cardinality(Inside) - 1 /\ Cardinality(Inside') \in Nat
  BY <1>1, <1>3, InsideFinite, FS_RemoveElement, FS_CardinalityType, Zenon
<1>5. numPushPull = Cardinality(Inside) /\ numPushPull' = (numPushPull + Word - 1) % Word
  BY Zenon DEF IInv, CounterExact, Inside, countOut
<1>6. numPushPull' = Cardinality(Inside') /\ numPushPull' \in 0..(Word - 1)
  BY <1>4, <1>5, InsideFinite, ServerAssumption
<1>7. TypeOK' /\ CounterExact'
  BY <1>1, <1>2, <1>6, Zenon DEF TypeOK, Place, CounterExact, Inside
<1>8. ExchangesBounded'
  BY <1>3, Zenon DEF IInv, ExchangesBounded, Served
<1> QED BY <1>7, <1>8, Zenon DEF IInv

\* The inductive invariant of the push/pull server.
LEMMA ServerInvariant == Spec => []IInv
<1>1. Init => IInv
  <2> SUFFICES ASSUME Init PROVE IInv
    BY Zenon
  <2>1. Inside = {} /\ Served = {}
    BY Zenon DEF Init, Inside, Served, InHandler, Exchanging
  <2>2. TypeOK
    BY InsideFinite, ServerAssumption DEF Init, TypeOK, Place
  <2>3. CounterExact /\ ExchangesBounded
    BY <2>1, FS_EmptySet, ServerAssumption
       DEF Init, CounterExact, ExchangesBounded, Inside, Served
  <2> QED BY <2>2, <2>3, Zenon DEF IInv
<1>2. IInv /\ [Next]_vars => IInv'
  <2> SUFFICES ASSUME IInv, [Next]_vars PROVE IInv'
    BY Zenon
  <2>1. ASSUME NEW c \in Conn, receiveTcpConn(c) PROVE IInv'
    BY <2>1, MoveKeeps, Zenon DEF receiveTcpConn, Place, InHandler, Exchanging
  <2>2. ASSUME NEW c \in Conn, otherConn(c) PROVE IInv'
    BY <2>2, MoveKeeps, Zenon DEF otherConn, Place, InHandler, Exchanging
  <2>3. ASSUME NEW c \in Conn, readRemoteState(c) PROVE IInv'
    BY <2>3, MoveKeeps, Zenon DEF readRemoteState, Place, InHandler, Exchanging
  <2>4. ASSUME NEW c \in Conn, sendLocalState(c) PROVE IInv'
    BY <2>4, MoveKeeps, Zenon DEF sendLocalState, Place, InHandler, Exchanging
  <2>5. ASSUME NEW c \in Conn, mergeState(c) PROVE IInv'
    BY <2>5, MoveKeeps, Zenon DEF mergeState, Place, InHandler, Exchanging
  <2>6. CASE UNCHANGED vars
    BY <2>6, Zenon DEF IInv, vars, TypeOK, CounterExact, ExchangesBounded
  <2> QED BY <2>1, <2>2, <2>3, <2>4, <2>5, <2>6, CountInKeeps, CountOutKeeps, Zenon DEF Next, Handler
<1> QED BY <1>1, <1>2, PTL DEF Spec

\* The counter is exact: it is the number of goroutines between its increment and
\* its decrement, however those of any number of connections interleave and fail.
THEOREM PushPullsCounted == Spec => []CounterExact
<1>1. IInv => CounterExact
  BY Zenon DEF IInv
<1> QED BY ServerInvariant, <1>1, PTL

\* Never more than MaxPushPulls exchanges are under way, for any limit and any number
\* of connections: every goroutine increments the counter before it compares it with
\* the limit.
THEOREM ExchangesStayBounded == Spec => []ExchangesBounded
<1>1. IInv => ExchangesBounded
  BY Zenon DEF IInv
<1> QED BY ServerInvariant, <1>1, PTL

-----------------------------------------------------------------------------
\* Every step of the two nodes is a step of the server or leaves it alone: what
\* is proved of PushPullServer holds with clients that fail and keys that change.
THEOREM WireImplementsServer == WireSpec => ServerImplemented
<1>1. WireInit => Init
  BY Zenon DEF WireInit
<1>2. WireNext => [Next]_vars
  <2> SUFFICES ASSUME WireNext PROVE Next \/ UNCHANGED vars
    BY Zenon
  <2>1. ASSUME NEW c \in Conn, ServerSteps(c) PROVE Next
    BY <2>1, Zenon DEF ServerSteps, acceptFails, unpackFails, handlePingTcp, handlePushPull,
         receivesState, sendsState, mergesState, returns, Next, Handler
  <2>2. ASSUME NEW c \in Conn, accept(c) PROVE Next
    BY <2>2, Zenon DEF accept, Next
  <2>3. ASSUME NEW c \in Conn, clientReads(c) \/ clientFails(c) PROVE UNCHANGED vars
    BY <2>3, Zenon DEF clientReads, clientFails
  <2>4. ASSUME NEW c \in Conn, NEW n \in others(Server), NEW wants \in {"pushPull", "ping"},
               connect(c, n, wants)
        PROVE  UNCHANGED vars
    BY <2>4, Zenon DEF connect
  <2>5. ASSUME NEW n \in Node, NEW k \in Key, addKey(n, k) \/ useKey(n, k) \/ removeKey(n, k)
        PROVE  UNCHANGED vars
    BY <2>5, Zenon DEF addKey, useKey, removeKey
  <2>6. ASSUME NEW from, NEW to, NEW msgs, gossip(from, to, msgs) \/ sendMsgPiggyback(from, to, msgs)
        PROVE  UNCHANGED vars
    BY <2>6, Zenon DEF gossip, sendMsgPiggyback, sendUdp
  <2>7. CASE arrive
    BY <2>7, Zenon DEF arrive
  <2> QED BY <2>1, <2>2, <2>3, <2>4, <2>5, <2>6, <2>7, Zenon DEF WireNext
<1>3. UNCHANGED wireVars => UNCHANGED vars
  BY Zenon DEF wireVars
<1> QED BY <1>1, <1>2, <1>3, PTL DEF WireSpec, ServerImplemented, Spec

\* So with real clients and changing keys, too, the counter of exchanges is exact and
\* handlePushPull never serves more of them than MaxPushPulls - 1.
THEOREM WireServesBounded == WireSpec => [](CounterExact /\ ExchangesBounded)
BY WireImplementsServer, PushPullsCounted, ExchangesStayBounded, PTL DEF ServerImplemented

-----------------------------------------------------------------------------
Ring == [primaryKey : Key \cup {NoKey}, keys : SUBSET Key]

\* Encryption is off everywhere, or every node has every node's primary key
\* installed.  GetKeys alone does not say that it is: it lists the primary key
\* also when it has been taken out of the keyring.
KeysInv ==
  /\ rings \in [Node -> Ring]
  /\ \/ \A n \in Node : rings[n] = NoKeyring
     \/ \A n, m \in Node : rings[n].primaryKey \in rings[m].keys

\* Where the invariant holds, every node reads what every node sends.
LEMMA KeysReadable == KeysInv => RotationReadable
<1> SUFFICES ASSUME KeysInv, NEW n \in Node, NEW m \in Node
             PROVE  /\ unpackPacket(rings[m], packUdp(rings[n], "any"))
                    /\ unpackStream(rings[m], packTcp(rings[n], "any"))
  BY Zenon DEF RotationReadable
<1>1. CASE \A i \in Node : rings[i] = NoKeyring
  BY <1>1 DEF NoKeyring, unpackPacket, packUdp, unpackStream, packTcp, encryptTcp, encrypt,
       EncryptionEnabled, GetKeys
<1>2. CASE \A i, j \in Node : rings[i].primaryKey \in rings[j].keys
  <2>1. rings[n].primaryKey \in Key /\ rings[m].primaryKey \in Key
    BY <1>2, Zenon DEF KeysInv, Ring
  <2>2. rings[n].primaryKey # NoKey /\ rings[m].primaryKey # NoKey
    BY <2>1, KeyAssumption, Zenon
  <2>3. EncryptionEnabled(rings[n]) /\ EncryptionEnabled(rings[m])
    BY <2>2, Zenon DEF EncryptionEnabled, GetKeys
  <2>4. rings[n].primaryKey \in GetKeys(rings[m])
    BY <1>2, <2>2, Zenon DEF GetKeys
  <2> QED BY <2>2, <2>3, <2>4, Zenon
          DEF unpackPacket, packUdp, unpackStream, packTcp, encryptTcp, encrypt, decryptTcp,
              decryptWithKeys, GetPrimaryKey
<1> QED BY <1>1, <1>2, Zenon DEF KeysInv

\* In whatever order keys are added, used and removed on any number of nodes, every
\* node can read what any node sends, as long as the others are looked at first.
THEOREM KeysCanBeRotated == WireSpec => []RotationReadable
<1>1. WireInit => KeysInv
  <2> SUFFICES ASSUME WireInit PROVE KeysInv
    BY Zenon
  <2>1. PICK r \in {NoKeyring} \cup {NewKeyring({}, k) : k \in Key} : rings = [n \in Node |-> r]
    BY Zenon DEF WireInit
  <2>2. CASE r = NoKeyring
    BY <2>1, <2>2, Zenon DEF KeysInv, Ring, NoKeyring
  <2>3. ASSUME NEW k \in Key, r = NewKeyring({}, k) PROVE KeysInv
    <3>1. r = [primaryKey |-> k, keys |-> {k}]
      BY <2>3, Zenon DEF NewKeyring, UseKey, AddKey, NoKeyring
    <3> QED BY <2>1, <3>1, Zenon DEF KeysInv, Ring
  <2> QED BY <2>1, <2>2, <2>3, Zenon
<1>2. KeysInv /\ [WireNext]_wireVars => KeysInv'
  <2> SUFFICES ASSUME KeysInv, [WireNext]_wireVars PROVE KeysInv'
    BY Zenon
  <2>1. ASSUME NEW n \in Node, NEW k \in Key, addKey(n, k) PROVE KeysInv'
    BY <2>1, Zenon DEF KeysInv, Ring, addKey, AddKey
  <2>2. ASSUME NEW n \in Node, NEW k \in Key, useKey(n, k) PROVE KeysInv'
    <3>1. \A i, j \in Node : rings[i].primaryKey \in rings[j].keys
      BY <2>2, Zenon DEF KeysInv, useKey
    <3>2. \A o \in others(n) : k \in rings[o].keys
      BY <2>2, <3>1, Zenon DEF useKey, GetKeys, others
    <3> QED BY <2>2, <3>1, <3>2, Zenon DEF KeysInv, Ring, useKey, UseKey, others
  <2>3. ASSUME NEW n \in Node, NEW k \in Key, removeKey(n, k) PROVE KeysInv'
    <3>1. \A i, j \in Node : rings[i].primaryKey \in rings[j].keys
      BY <2>3, Zenon DEF KeysInv, removeKey
    <3>2. k # rings[n].primaryKey => \A i \in Node : rings[i].primaryKey # k
      BY <2>3, Zenon DEF removeKey, GetPrimaryKey, others
    <3> QED BY <2>3, <3>1, <3>2, Zenon DEF KeysInv, Ring, removeKey, RemoveKey
  <2>4. CASE UNCHANGED rings
    BY <2>4, Zenon DEF KeysInv
  <2>5. ASSUME NEW c \in Conn, accept(c) \/ clientReads(c) \/ clientFails(c) \/ ServerSteps(c)
        PROVE  UNCHANGED rings
    BY <2>5, Zenon DEF accept, clientReads, clientFails, ServerSteps, acceptFails, unpackFails,
         handlePingTcp, handlePushPull, receivesState, sendsState, mergesState, returns
  <2>6. ASSUME NEW c, NEW n, NEW wants, connect(c, n, wants) PROVE UNCHANGED rings
    BY <2>6, Zenon DEF connect
  <2>7. ASSUME NEW from, NEW to, NEW msgs, gossip(from, to, msgs) \/ sendMsgPiggyback(from, to, msgs)
        PROVE  UNCHANGED rings
    BY <2>7, Zenon DEF gossip, sendMsgPiggyback, sendUdp
  <2> QED BY <2>1, <2>2, <2>3, <2>4, <2>5, <2>6, <2>7, Zenon DEF WireNext, wireVars, arrive
<1> QED BY <1>1, <1>2, KeysReadable, PTL DEF WireSpec

-----------------------------------------------------------------------------
\* The answer "pushPull" is on its way only from the moment the server is bound to
\* merge, and stays true until the connection is used again.
PullInv ==
  /\ at \in [Conn -> Place]
  /\ pulled \in [Conn -> BOOLEAN] /\ pushed \in [Conn -> BOOLEAN]
  /\ reply = [c \in Conn |-> reply[c]]
  /\ \A c \in Conn : pulled[c] \/ reply[c].msg = "pushPull" => pushed[c] \/ at[c] = "merge"

\* A step that only moves the server's goroutine of c, not away from its merge.
LEMMA MoveKeepsPull ==
  ASSUME PullInv, NEW c \in Conn, NEW place \in Place, goes(c, place),
         at[c] # "merge", UNCHANGED <<pulled, pushed, reply>>
  PROVE  PullInv'
BY Zenon DEF PullInv, goes

\* A step that also answers, with a state only when it goes on to merge.
LEMMA ReplyKeepsPull ==
  ASSUME PullInv, NEW c \in Conn, NEW place \in Place, NEW msg, goes(c, place),
         at[c] # "merge", replies(c, msg), msg = "pushPull" => place = "merge",
         UNCHANGED <<pulled, pushed>>
  PROVE  PullInv'
<1>1. CASE reply' = reply
  BY <1>1, Zenon DEF PullInv, goes
<1>2. CASE reply' = [reply EXCEPT ![c] = packTcp(rings[Server], msg)]
  <2>1. packTcp(rings[Server], msg).msg = msg
    BY Zenon DEF packTcp, encryptTcp, encrypt
  <2> QED BY <1>2, <2>1, Zenon DEF PullInv, goes
<1> QED BY <1>1, <1>2, Zenon DEF replies

\* An initiator that has merged the server's state is never the only one to merge.
THEOREM PullsArePushes == WireSpec => []PullImpliesPush
<1>1. WireInit => PullInv
  BY DEF WireInit, Init, PullInv, Place, Nothing
<1>2. PullInv /\ [WireNext]_wireVars => PullInv'
  <2> SUFFICES ASSUME PullInv, [WireNext]_wireVars PROVE PullInv'
    BY Zenon
  <2> USE DEF Place
  <2>1. ASSUME NEW c \in Conn, acceptFails(c) PROVE PullInv'
    BY <2>1, MoveKeepsPull, Zenon DEF acceptFails, otherConn
  <2>2. ASSUME NEW c \in Conn, unpackFails(c) PROVE PullInv'
    BY <2>2, ReplyKeepsPull, Zenon DEF unpackFails, otherConn
  <2>3. ASSUME NEW c \in Conn, handlePingTcp(c) PROVE PullInv'
    BY <2>3, ReplyKeepsPull, Zenon DEF handlePingTcp, otherConn
  <2>4. ASSUME NEW c \in Conn, handlePushPull(c) PROVE PullInv'
    BY <2>4, MoveKeepsPull, Zenon DEF handlePushPull, countIn
  <2>5. ASSUME NEW c \in Conn, receivesState(c) PROVE PullInv'
    BY <2>5, MoveKeepsPull, Zenon DEF receivesState, readRemoteState, ends
  <2>6. ASSUME NEW c \in Conn, sendsState(c) PROVE PullInv'
    <3>1. at[c] = "send" /\ (goes(c, "merge") \/ goes(c, "return")) /\ UNCHANGED <<pulled, pushed>>
      BY <2>6, Zenon DEF sendsState, sendLocalState
    <3>2. CASE goes(c, "merge")
      <4>1. at'[c] = "merge"
        BY <3>2, Zenon DEF goes, PullInv
      <4> QED BY <2>6, <3>1, <3>2, <4>1, ReplyKeepsPull, Zenon DEF sendsState
    <3>3. CASE goes(c, "return")
      <4>1. at'[c] # "merge"
        BY <3>3, Zenon DEF goes, PullInv
      <4> QED BY <2>6, <3>1, <3>3, <4>1, MoveKeepsPull, Zenon DEF sendsState
    <3> QED BY <3>1, <3>2, <3>3, Zenon
  <2>7. ASSUME NEW c \in Conn, mergesState(c) PROVE PullInv'
    BY <2>7, Zenon DEF mergesState, mergeState, goes, PullInv
  <2>8. ASSUME NEW c \in Conn, returns(c) PROVE PullInv'
    BY <2>8, MoveKeepsPull, Zenon DEF returns, countOut, ends
  <2>9. ASSUME NEW c \in Conn, accept(c) PROVE PullInv'
    BY <2>9, MoveKeepsPull, Zenon DEF accept, receiveTcpConn, ends
  <2>10. ASSUME NEW c \in Conn, clientReads(c) PROVE PullInv'
    <3>1. UNCHANGED <<at, pushed>> /\ reply' = [reply EXCEPT ![c] = Nothing]
      BY <2>10, Zenon DEF clientReads, vars
    <3>2. PICK b \in BOOLEAN : pulled' = [pulled EXCEPT ![c] = b] /\ (b => reply[c].msg = "pushPull")
      BY <2>10, Zenon DEF clientReads
    <3> QED BY <3>1, <3>2, Zenon DEF PullInv, Nothing
  <2>11. ASSUME NEW c \in Conn, clientFails(c) PROVE PullInv'
    BY <2>11, Zenon DEF clientFails, vars, PullInv, Nothing
  <2>12. ASSUME NEW c \in Conn, NEW n, NEW wants, connect(c, n, wants) PROVE PullInv'
    BY <2>12, Zenon DEF connect, vars, PullInv, Nothing
  <2>13. CASE UNCHANGED <<at, pulled, pushed, reply>>
    BY <2>13, Zenon DEF PullInv
  <2>14. ASSUME NEW n \in Node, NEW k \in Key, addKey(n, k) \/ useKey(n, k) \/ removeKey(n, k)
        PROVE  UNCHANGED <<at, pulled, pushed, reply>>
    BY <2>14, Zenon DEF addKey, useKey, removeKey, vars, ends
  <2>15. ASSUME NEW from, NEW to, NEW msgs, gossip(from, to, msgs) \/ sendMsgPiggyback(from, to, msgs)
        PROVE  UNCHANGED <<at, pulled, pushed, reply>>
    BY <2>15, Zenon DEF gossip, sendMsgPiggyback, sendUdp, vars, ends
  <2>16. CASE arrive \/ UNCHANGED wireVars
    BY <2>13, <2>16, Zenon DEF arrive, wireVars, vars, ends
  <2> QED BY <2>1, <2>2, <2>3, <2>4, <2>5, <2>6, <2>7, <2>8, <2>9, <2>10, <2>11, <2>12, <2>13,
             <2>14, <2>15, <2>16, Zenon DEF WireNext, ServerSteps
<1>3. PullInv => PullImpliesPush
  BY Zenon DEF PullInv, PullImpliesPush
<1> QED BY <1>1, <1>2, <1>3, PTL DEF WireSpec

-----------------------------------------------------------------------------
(* Batches.                                                                *)

\* What comes out of the packets with these bodies.
Received(bodies) == written([i \in DOMAIN bodies |-> handleUdpMsg(bodies[i])])

\* The packets under way carry the messages of the batch, whatever the keys are,
\* unless a ping has taken too many along.
BatchInv ==
  batch.gossip \/ Len(batch.msgs) <= maxMsgs
    => written([i \in DOMAIN packets |-> handleUdpMsg(packets[i].sealed.msg)]) = batch.msgs

\* The messages of a batch, of which each has a type and fits into uint16.
LEMMA MessagesFit ==
  ASSUME NEW m \in Nat, NEW k \in 1..m, NEW lengths \in [1..k -> Length]
  PROVE  /\ messages(lengths) \in Seq(Seq(Nat))
         /\ Len(messages(lengths)) \in 1..m
         /\ \A i \in 1..Len(messages(lengths)) :
              /\ Len(messages(lengths)[i]) < ByteValues * ByteValues
              /\ messages(lengths)[i][1] = aliveType
<1>1. ASSUME NEW i \in 1..k
      PROVE  /\ message(lengths[i], i) \in Seq(Nat)
             /\ Len(message(lengths[i], i)) < ByteValues * ByteValues
             /\ message(lengths[i], i)[1] = aliveType
  <2> DEFINE n == lengths[i]
  <2>1. n \in 1..(ByteValues * ByteValues - 1) /\ ByteValues * ByteValues \in Nat
    BY WireAssumption, ByteAssumption
  <2> HIDE DEF n
  <2>2. message(n, i) \in [1..n -> Nat] /\ message(n, i)[1] = aliveType
    BY <2>1 DEF message, aliveType
  <2>3. message(n, i) \in Seq(Nat) /\ Len(message(n, i)) = n
    BY <2>1, <2>2, FunctionIsSeq
  <2> QED BY <2>1, <2>2, <2>3 DEF n
<1>2. messages(lengths) = [i \in 1..k |-> message(lengths[i], i)]
  BY Zenon DEF messages
<1> DEFINE Q == Seq(Nat)
<1>3. messages(lengths) \in [1..k -> Q] /\ k \in Nat
  BY <1>1, <1>2
<1> HIDE DEF Q
<1>4. messages(lengths) \in Seq(Q) /\ Len(messages(lengths)) = k
  BY <1>3, FunctionIsSeq, Zenon
<1>5. \A i \in 1..k : messages(lengths)[i] = message(lengths[i], i)
  BY <1>2, Zenon
<1>6. \A i \in 1..k : /\ Len(messages(lengths)[i]) < ByteValues * ByteValues
                      /\ messages(lengths)[i][1] = aliveType
  BY <1>1, <1>5, Zenon
<1> QED BY <1>4, <1>6, Zenon DEF Q

\* A message that is sent alone.
LEMMA AloneIntact ==
  ASSUME NEW msgs \in Seq(Seq(Nat)), Len(msgs) = 1, msgs[1][1] = aliveType
  PROVE  Received(msgs) = msgs
<1>1. msgs = <<msgs[1]>> /\ DOMAIN msgs = 1..1
  <2> DEFINE Q == Seq(Nat)
             one == <<msgs[1]>>
  <2>1. msgs \in Seq(Q) /\ msgs[1] \in Q /\ DOMAIN msgs = 1..1
    OBVIOUS
  <2> HIDE DEF Q
  <2>2. one \in Seq(Q) /\ Len(one) = 1 /\ \A j \in 1..1 : msgs[j] = one[j]
    BY <2>1
  <2> HIDE DEF one
  <2>3. msgs = one
    BY <2>1, <2>2, SameSeq, Zenon
  <2> QED BY <2>1, <2>3, Zenon DEF one
<1>2. handleUdpMsg(msgs[1]) = <<msgs[1]>>
  BY DEF handleUdpMsg, aliveType, compoundMsg
<1>3. \A i \in 1..1 : handleUdpMsg(msgs[i]) = msgs
  <2>1. \A i \in 1..1 : i = 1
    OBVIOUS
  <2> QED BY <1>1, <1>2, <2>1, Zenon
<1>4. [i \in DOMAIN msgs |-> handleUdpMsg(msgs[i])] = [i \in 1..1 |-> msgs]
  BY <1>1, <1>3, Zenon
<1>5. written([i \in 1..1 |-> msgs]) = msgs
  BY WrittenOne, Zenon
<1> QED BY <1>4, <1>5, Zenon DEF Received

\* Messages that are sent in one compound message.
LEMMA TogetherIntact ==
  ASSUME NEW msgs \in Seq(Seq(Nat)), Len(msgs) <= maxMsgs,
         \A i \in 1..Len(msgs) : Len(msgs[i]) < ByteValues * ByteValues
  PROVE  Received(<<packCompoundMsg(msgs)>>) = msgs
<1> DEFINE b == <<packCompoundMsg(msgs)>>
<1>1. DOMAIN b = 1..1 /\ \A i \in 1..1 : b[i] = packCompoundMsg(msgs)
  OBVIOUS
<1>2. handleUdpMsg(packCompoundMsg(msgs)) = msgs
  BY CompoundIntact, Zenon
<1> HIDE DEF b
<1>3. \A i \in 1..1 : handleUdpMsg(b[i]) = msgs
  BY <1>1, <1>2, Zenon
<1>4. [i \in DOMAIN b |-> handleUdpMsg(b[i])] = [i \in 1..1 |-> msgs]
  BY <1>1, <1>3, Zenon
<1>5. written([i \in 1..1 |-> msgs]) = msgs
  BY WrittenOne, Zenon
<1> QED BY <1>4, <1>5, Zenon DEF Received, b

\* Sending messages from whose packets they come out again keeps the invariant.
LEMMA SendKeeps ==
  ASSUME NEW from, NEW to, NEW msgs, NEW bodies, NEW g, sendUdp(from, to, bodies),
         batch' = [msgs |-> msgs, gossip |-> g],
         g \/ Len(msgs) <= maxMsgs => Received(bodies) = msgs
  PROVE  BatchInv'
<1>1. packets' = [i \in DOMAIN bodies |-> [to |-> to, sealed |-> packUdp(rings[from], bodies[i])]]
      /\ batch'.msgs = msgs /\ batch'.gossip = g
  BY Zenon DEF sendUdp
<1>2. \A i \in DOMAIN bodies : packets'[i].sealed.msg = bodies[i]
  BY <1>1, Zenon DEF packUdp, encrypt
<1>3. DOMAIN packets' = DOMAIN bodies
  BY <1>1, Zenon
<1>4. [i \in DOMAIN packets' |-> handleUdpMsg(packets'[i].sealed.msg)]
        = [i \in DOMAIN bodies |-> handleUdpMsg(bodies[i])]
  BY <1>2, <1>3, Zenon
<1> QED BY <1>1, <1>4, Zenon DEF Received, BatchInv

\* No packets carry no messages.
LEMMA EmptyCarriesNone ==
  written([i \in DOMAIN <<>> |-> handleUdpMsg(<<>>[i].sealed.msg)]) = <<>>
<1>1. [i \in DOMAIN <<>> |-> handleUdpMsg(<<>>[i].sealed.msg)] = <<>>
  OBVIOUS
<1> QED BY <1>1, WrittenNone, Zenon

\* The messages of a round of gossip come out of their packets complete and in order,
\* for every byte size, every number of messages and every length that two bytes can
\* hold, as long as the receiver has the key: the fields of packCompoundMsg are wide
\* enough for what splitToCompoundMsgs puts into them.  Those of a ping and its
\* broadcasts do if they are no more than the count byte can tell.
THEOREM BatchesStayIntact == WireSpec => []BatchIntact
<1>1. WireInit => BatchInv
  <2> SUFFICES ASSUME WireInit PROVE BatchInv
    BY Zenon
  <2>1. packets = <<>> /\ batch.msgs = <<>>
    BY Zenon DEF WireInit, NoBatch
  <2> QED BY <2>1, EmptyCarriesNone, Zenon DEF BatchInv
<1>2. BatchInv /\ [WireNext]_wireVars => BatchInv'
  <2> SUFFICES ASSUME BatchInv, [WireNext]_wireVars PROVE BatchInv'
    BY Zenon
  <2>1. CASE UNCHANGED <<batch, packets>>
    BY <2>1, Zenon DEF BatchInv
  <2>2. ASSUME NEW n, NEW k, addKey(n, k) \/ useKey(n, k) \/ removeKey(n, k) PROVE BatchInv'
    BY <2>1, <2>2, Zenon DEF addKey, useKey, removeKey
  <2>3. ASSUME NEW c, ServerSteps(c) PROVE BatchInv'
    BY <2>1, <2>3, Zenon DEF ServerSteps, acceptFails, unpackFails, handlePingTcp, handlePushPull,
       receivesState, sendsState, mergesState, returns
  <2>4. ASSUME NEW c, accept(c) \/ clientReads(c) \/ clientFails(c) PROVE BatchInv'
    BY <2>1, <2>4, Zenon DEF accept, clientReads, clientFails
  <2>5. ASSUME NEW c, NEW n, NEW wants, connect(c, n, wants) PROVE BatchInv'
    BY <2>1, <2>5, Zenon DEF connect
  <2>6. ASSUME NEW from, NEW to, NEW k \in 1..MaxGossip, NEW lengths \in [1..k -> Length],
               gossip(from, to, messages(lengths))
        PROVE  BatchInv'
    <3> DEFINE msgs == messages(lengths)
    <3>1. /\ msgs \in Seq(Seq(Nat)) /\ Len(msgs) >= 1
          /\ \A i \in 1..Len(msgs) : Len(msgs[i]) < ByteValues * ByteValues
                                     /\ msgs[i][1] = aliveType
      <4>1. MaxGossip \in Nat
        BY WireAssumption, Zenon
      <4>2. /\ msgs \in Seq(Seq(Nat)) /\ Len(msgs) \in 1..MaxGossip
            /\ \A i \in 1..Len(msgs) : Len(msgs[i]) < ByteValues * ByteValues
                                       /\ msgs[i][1] = aliveType
        BY <4>1, MessagesFit, Zenon
      <4> HIDE DEF msgs
      <4> QED BY <4>1, <4>2
    <3> HIDE DEF msgs
    <3>2. Len(msgs) = 1 => Received(msgs) = msgs
      BY <3>1, AloneIntact
    <3>3. Received(splitToCompoundMsgs(msgs)) = msgs
      BY <3>1, SplitIntact, Zenon DEF Received
    <3> DEFINE bodies == IF Len(msgs) = 1 THEN msgs ELSE splitToCompoundMsgs(msgs)
    <3>4. sendUdp(from, to, bodies) /\ batch' = [msgs |-> msgs, gossip |-> TRUE]
      BY <2>6, Zenon DEF gossip, msgs
    <3>5. Received(bodies) = msgs
      BY <3>2, <3>3, Zenon
    <3> HIDE DEF bodies
    <3> QED BY <3>4, <3>5, SendKeeps, Zenon
  <2>7. ASSUME NEW from, NEW to, NEW k \in 1..(MaxPiggyback + 1),
               NEW lengths \in [1..k -> Length],
               sendMsgPiggyback(from, to, messages(lengths))
        PROVE  BatchInv'
    <3> DEFINE msgs == messages(lengths)
    <3>1. MaxPiggyback + 1 \in Nat
      BY WireAssumption
    <3>2. /\ msgs \in Seq(Seq(Nat)) /\ Len(msgs) \in 1..(MaxPiggyback + 1)
          /\ \A i \in 1..Len(msgs) : Len(msgs[i]) < ByteValues * ByteValues
                                     /\ msgs[i][1] = aliveType
      BY <3>1, MessagesFit, Zenon
    <3> HIDE DEF msgs
    <3>3. Len(msgs) = 1 => Received(msgs) = msgs
      BY <3>2, AloneIntact
    <3>4. Len(msgs) <= maxMsgs => Received(<<packCompoundMsg(msgs)>>) = msgs
      BY <3>2, TogetherIntact, Zenon
    <3> DEFINE bodies == IF Len(msgs) = 1 THEN msgs ELSE <<packCompoundMsg(msgs)>>
    <3>5. sendUdp(from, to, bodies) /\ batch' = [msgs |-> msgs, gossip |-> FALSE]
      BY <2>7, Zenon DEF sendMsgPiggyback, msgs
    <3>6. Len(msgs) <= maxMsgs => Received(bodies) = msgs
      BY <3>3, <3>4, Zenon
    <3> HIDE DEF bodies
    <3> QED BY <3>5, <3>6, SendKeeps, Zenon
  <2>8. CASE arrive
    <3>1. packets' = <<>> /\ batch'.msgs = <<>>
      BY <2>8, Zenon DEF arrive, NoBatch
    <3> QED BY <3>1, EmptyCarriesNone, Zenon DEF BatchInv
  <2>9. CASE UNCHANGED wireVars
    BY <2>1, <2>9, Zenon DEF wireVars
  <2> QED BY <2>2, <2>3, <2>4, <2>5, <2>6, <2>7, <2>8, <2>9, Zenon DEF WireNext
<1>3. BatchInv => BatchIntact
  <2> SUFFICES ASSUME BatchInv, batch.gossip \/ Len(batch.msgs) <= maxMsgs,
                      \A i \in DOMAIN packets : opens(packets[i])
               PROVE  written([i \in DOMAIN packets |-> handlePacket(packets[i])]) = batch.msgs
    BY Zenon DEF BatchIntact
  <2>1. \A i \in DOMAIN packets : handlePacket(packets[i]) = handleUdpMsg(packets[i].sealed.msg)
    BY Zenon DEF handlePacket
  <2>2. [i \in DOMAIN packets |-> handlePacket(packets[i])]
          = [i \in DOMAIN packets |-> handleUdpMsg(packets[i].sealed.msg)]
    BY <2>1, Zenon
  <2> QED BY <2>2, Zenon DEF BatchInv
<1> QED BY <1>1, <1>2, <1>3, PTL DEF WireSpec
=============================================================================
