---------------------------- MODULE GitLogProofs ----------------------------
(***************************************************************************)
(* What ScanCommits reports is what the log of the history says, whichever *)
(* form the log is read in, and at most two git logs are unfinished at     *)
(* once; whatever the histories, the size of the groups, the depth and the *)
(* capacities of the channels.  The parser is given by its promise,        *)
(* ParserIsRight.                                                          *)
(*                                                                         *)
(* The sections: sequences and induction on numbers; what a history says;  *)
(* what ScanCommits makes of diffs; a log and its diffs; where ScanCommits *)
(* is in them; then the inductive invariant Inv, Shape (types and control),*)
(* Flow (who holds which commits and diffs) and Result (what is reported), *)
(* each kept by every step; and last, with an invariant of its own, the    *)
(* number of logs.                                                         *)
(***************************************************************************)
EXTENDS GitLog, SequenceTheorems, FiniteSetTheorems, WellFoundedInduction, TLAPS

(* A set of natural numbers that is not empty has a least element.         *)
LEMMA LeastElement ==
    ASSUME NEW S, S \subseteq Nat, S # {}
    PROVE  \E m \in S : \A n \in S : m <= n
<1>1. PICK x \in S : \A y \in S : <<y, x>> \notin OpToRel(<, Nat)
  BY NatLessThanWellFounded, WFMin, Zenon
<1>2. \A y \in S : ~ (y < x)
  BY <1>1 DEF OpToRel
<1> QED BY <1>2

(* Concatenation is associative.                                           *)
LEMMA JoinIsAssociative ==
    ASSUME NEW A, NEW x \in Seq(A), NEW y \in Seq(A), NEW z \in Seq(A)
    PROVE  (x \o y) \o z = x \o (y \o z)
OBVIOUS

(* What holds of 0 and passes from k - 1 to k, up to n, holds up to n.     *)
LEMMA Counting ==
    ASSUME NEW n \in Nat, NEW T, 0 \in T, \A k \in 1..n : k - 1 \in T => k \in T
    PROVE  0..n \subseteq T
<1> DEFINE S == {k \in 0..n : k \notin T}
<1>1. SUFFICES ASSUME S # {} PROVE FALSE
  OBVIOUS
<1>2. PICK k \in S : \A m \in S : k <= m
  <2> S \subseteq Nat
    OBVIOUS
  <2> HIDE DEF S
  <2> QED BY <1>1, LeastElement
<1>3. k \in 1..n /\ k \notin T
  BY <1>2
<1>4. k - 1 \in T
  BY <1>2, <1>3
<1> QED BY <1>3, <1>4

(* The two facts of an induction up to n, under one name.                  *)
Inductive(T, n) == 0 \in T /\ \A k \in 1..n : k - 1 \in T => k \in T

(* The same, with the induction's two facts under one name.                *)
LEMMA Counted ==
    ASSUME NEW n \in Nat, NEW T, Inductive(T, n)
    PROVE  0..n \subseteq T
BY Counting DEF Inductive

(* A function defined by recursion on 0..n exists: the iterates of g.      *)
Iterated(S, a, g, n) ==
    \E f \in [0..n -> S] : \A k \in 0..n : f[k] = IF k = 0 THEN a ELSE g[f[k - 1]]

(* The iterates exist, of any length: by induction on it.                  *)
LEMMA Iterates ==
    ASSUME NEW S, NEW a \in S, NEW g \in [S -> S], NEW n \in Nat
    PROVE  Iterated(S, a, g, n)
<1> DEFINE Is(f, m) == \A k \in 0..m : f[k] = IF k = 0 THEN a ELSE g[f[k - 1]]
           T == {m \in Nat : \E f \in [0..m -> S] : Is(f, m)}
<1>1. 0 \in T
  <2> DEFINE f == [k \in 0..0 |-> a]
  <2>1. f \in [0..0 -> S] /\ Is(f, 0)
    OBVIOUS
  <2> HIDE DEF f, Is
  <2> QED BY <2>1
<1>2. ASSUME NEW m \in 1..n, m - 1 \in T PROVE m \in T
  <2>1. PICK f \in [0..m - 1 -> S] : Is(f, m - 1)
    BY <1>2
  <2> DEFINE more == [k \in 0..m |-> IF k = m THEN g[f[m - 1]] ELSE f[k]]
  <2>2. f[m - 1] \in S
    OBVIOUS
  <2>3. more \in [0..m -> S]
    BY <2>2
  <2>4. \A k \in 0..m - 1 : more[k] = f[k]
    OBVIOUS
  <2>5. more[m] = g[f[m - 1]]
    OBVIOUS
  <2> HIDE DEF more
  <2>6. Is(more, m)
    <3> SUFFICES ASSUME NEW k \in 0..m
                 PROVE  more[k] = IF k = 0 THEN a ELSE g[more[k - 1]]
      OBVIOUS
    <3>1. CASE k = m
      BY <3>1, <2>4, <2>5
    <3>2. CASE k # m
      BY <3>2, <2>1, <2>4
    <3> QED BY <3>1, <3>2
  <2> HIDE DEF Is
  <2> QED BY <2>3, <2>6
<1>3. n \in T
  <2> HIDE DEF T
  <2>1. 0..n \subseteq T
    BY <1>1, <1>2, Counting
  <2> QED BY <2>1
<1> QED BY <1>3 DEF Iterated

(* Parts of a sequence.                                                    *)
LEMMA Part ==
    ASSUME NEW A, NEW s \in Seq(A), NEW i \in Nat \ {0}, NEW j \in Nat, j <= Len(s)
    PROVE  /\ SubSeq(s, i, j) \in Seq(A)
           /\ Len(SubSeq(s, i, j)) = IF i <= j THEN j - i + 1 ELSE 0
           /\ \A k \in 1..j - i + 1 : SubSeq(s, i, j)[k] = s[i + k - 1]
<1>1. \A k \in i..j : s[k] \in A
  OBVIOUS
<1> QED BY <1>1, SubSeqProperties

(* Two adjoining parts of a sequence make one, and the next element makes  *)
(* a part longer.                                                          *)
LEMMA Stretch ==
    ASSUME NEW A, NEW s \in Seq(A), NEW a \in Nat, NEW b \in Nat, a <= b, b <= Len(s)
    PROVE  /\ SubSeq(s, a + 1, b) \in Seq(A) /\ Len(SubSeq(s, a + 1, b)) = b - a
           /\ \A k \in 1..b - a : SubSeq(s, a + 1, b)[k] = s[a + k]
<1>1. a + 1 \in Nat \ {0}
  OBVIOUS
<1>2. PICK t : t = SubSeq(s, a + 1, b)
  OBVIOUS
<1>3. /\ t \in Seq(A)
      /\ Len(t) = IF a + 1 <= b THEN b - (a + 1) + 1 ELSE 0
      /\ \A k \in 1..b - (a + 1) + 1 : t[k] = s[a + 1 + k - 1]
  BY <1>1, <1>2, Part
<1>4. Len(t) = b - a
  BY <1>3
<1>5. ASSUME NEW k \in 1..b - a PROVE t[k] = s[a + k]
  <2>1. k \in 1..b - (a + 1) + 1 /\ a + 1 + k - 1 = a + k
    OBVIOUS
  <2> QED BY <1>3, <2>1
<1> QED BY <1>2, <1>3, <1>4, <1>5

(* The part that ends one element later.                                   *)
LEMMA Longer ==
    ASSUME NEW A, NEW s \in Seq(A), NEW a \in Nat, NEW b \in Nat, a <= b, b < Len(s)
    PROVE  SubSeq(s, a + 1, b + 1) = Append(SubSeq(s, a + 1, b), s[b + 1])
<1>1. PICK t, u, x : t = SubSeq(s, a + 1, b) /\ u = SubSeq(s, a + 1, b + 1) /\ x = s[b + 1]
  OBVIOUS
<1>2. x \in A
  BY <1>1, ElementOfSeq
<1>3. t \in Seq(A) /\ Len(t) = b - a /\ \A k \in 1..b - a : t[k] = s[a + k]
  <2>1. b <= Len(s)
    OBVIOUS
  <2> QED BY <1>1, <2>1, Stretch
<1>4. /\ u \in Seq(A) /\ Len(u) = b + 1 - a
      /\ \A k \in 1..b + 1 - a : u[k] = s[a + k]
  <2>1. b + 1 \in Nat /\ a <= b + 1 /\ b + 1 <= Len(s)
    OBVIOUS
  <2> QED BY <1>1, <2>1, Stretch
<1>5. /\ Append(t, x) \in Seq(A) /\ Len(Append(t, x)) = b - a + 1
      /\ \A k \in 1..b - a : Append(t, x)[k] = t[k]
      /\ Append(t, x)[b - a + 1] = x
  BY <1>2, <1>3, AppendProperties
<1>6. ASSUME NEW k \in 1..Len(u) PROVE u[k] = Append(t, x)[k]
  <2>1. CASE k \in 1..b - a
    <3>1. k \in 1..b + 1 - a
      BY <2>1
    <3>2. u[k] = s[a + k] /\ t[k] = s[a + k] /\ Append(t, x)[k] = t[k]
      BY <1>3, <1>4, <1>5, <2>1, <3>1
    <3> QED BY <3>2, Zenon
  <2>2. CASE k = b - a + 1
    <3>1. a + k = b + 1 /\ k \in 1..b + 1 - a
      BY <2>2
    <3>2. u[k] = s[a + k]
      BY <1>4, <3>1
    <3>3. s[a + k] = x
      BY <1>1, <3>1, Zenon
    <3>4. Append(t, x)[k] = x
      BY <1>5, <2>2, Zenon
    <3> QED BY <3>2, <3>3, <3>4, Zenon
  <2>3. k \in 1..b - a \/ k = b - a + 1
    BY <1>4
  <2> QED BY <2>1, <2>2, <2>3, Zenon
<1>7. Len(u) = Len(Append(t, x))
  BY <1>4, <1>5
<1>8. u = Append(t, x)
  BY <1>4, <1>5, <1>6, <1>7, SeqEqual
<1> QED BY <1>1, <1>8

(* Sequences joined one after the other.                                   *)
Joins(A, n, p, F) ==
    /\ F \in [0..n -> Seq(A)] /\ F[0] = <<>>
    /\ \A k \in 1..n : F[k] = F[k - 1] \o p[k]

(* The pieces of a sequence of pieces can be joined: by induction on their *)
(* number.                                                                 *)
LEMMA CanJoin ==
    ASSUME NEW A, NEW n \in Nat, NEW p \in [1..n -> Seq(A)]
    PROVE  \E F : Joins(A, n, p, F)
<1> DEFINE S == Nat \X Seq(A)
           Next1(x) == <<x[1] + 1, IF x[1] + 1 \in 1..n THEN x[2] \o p[x[1] + 1] ELSE x[2]>>
           g == [x \in S |-> Next1(x)]
           a == <<0, <<>> >>
<1>1. a \in S
  <2>1. 0 \in Nat /\ <<>> \in Seq(A)
    BY EmptySeq
  <2> QED BY <2>1
<1>2. ASSUME NEW x \in S PROVE Next1(x) \in S
  <2>1. x[1] \in Nat /\ x[2] \in Seq(A)
    OBVIOUS
  <2>2. x[1] + 1 \in 1..n => x[2] \o p[x[1] + 1] \in Seq(A)
    BY <2>1, ConcatProperties
  <2>3. PICK i, q : i = x[1] + 1 /\ q = IF x[1] + 1 \in 1..n THEN x[2] \o p[x[1] + 1] ELSE x[2]
    OBVIOUS
  <2>4. i \in Nat /\ q \in Seq(A)
    BY <2>1, <2>2, <2>3
  <2>5. Next1(x) = <<i, q>>
    BY <2>3
  <2> QED BY <2>4, <2>5
<1>3. g \in [S -> S] /\ \A x \in S : g[x] = Next1(x)
  BY <1>2
<1>4. Iterated(S, a, g, n)
  <2> HIDE DEF S, a, g
  <2> QED BY <1>1, <1>3, Iterates
<1>5. PICK f \in [0..n -> S] : \A k \in 0..n : f[k] = IF k = 0 THEN a ELSE g[f[k - 1]]
  BY <1>4 DEF Iterated
<1>6. f[0] = a /\ \A k \in 1..n : f[k - 1] \in S /\ f[k] = Next1(f[k - 1])
  <2> HIDE DEF S, a, g, Next1
  <2>1. 0 \in 0..n /\ \A k \in 1..n : k \in 0..n /\ k - 1 \in 0..n /\ k # 0
    OBVIOUS
  <2> QED BY <1>3, <1>5, <2>1
<1> DEFINE T == {k \in 0..n : f[k][1] = k}
<1>7. 0 \in T
  BY <1>6
<1>8. ASSUME NEW k \in 1..n, k - 1 \in T PROVE k \in T
  BY <1>6, <1>8
<1>9. 0..n \subseteq T
  <2> HIDE DEF T
  <2> QED BY <1>7, <1>8, Counting
<1>10. PICK F : F = [k \in 0..n |-> f[k][2]]
  OBVIOUS
<1>11. F \in [0..n -> Seq(A)] /\ F[0] = <<>>
  BY <1>5, <1>6, <1>10
<1>12. ASSUME NEW k \in 1..n PROVE F[k] = F[k - 1] \o p[k]
  <2>1. k \in 0..n /\ k - 1 \in 0..n
    OBVIOUS
  <2>2. f[k - 1][1] = k - 1 /\ k - 1 + 1 = k
    BY <1>9, <2>1
  <2>3. f[k] = <<k, f[k - 1][2] \o p[k]>>
    BY <1>6, <2>2
  <2>4. f[k][2] = f[k - 1][2] \o p[k]
    <3>1. PICK q : q = f[k - 1][2] \o p[k]
      OBVIOUS
    <3>2. f[k] = <<k, q>>
      BY <2>3, <3>1
    <3>3. <<k, q>>[2] = q
      OBVIOUS
    <3> QED BY <3>1, <3>2, <3>3
  <2>5. F[k] = f[k][2] /\ F[k - 1] = f[k - 1][2]
    BY <1>10, <2>1
  <2> QED BY <2>4, <2>5
<1> QED BY <1>11, <1>12 DEF Joins

(* FlattenSeq joins the pieces.                                            *)
LEMMA FlatIs ==
    ASSUME NEW A, NEW p \in Seq(Seq(A))
    PROVE  \E F : Joins(A, Len(p), p, F) /\ FlattenSeq(p) = F[Len(p)]
<1>1. PICK n \in Nat : n = Len(p)
  OBVIOUS
<1>2. p \in [1..n -> Seq(A)]
  BY <1>1
<1>3. PICK F : Joins(A, n, p, F)
  BY <1>2, CanJoin
<1>4. CASE n = 0
  <2>1. p = <<>>
    BY <1>1, <1>4, EmptySeq
  <2>2. FlattenSeq(p) = p
    BY <1>1, <1>4 DEF FlattenSeq
  <2>3. F[n] = <<>>
    BY <1>3, <1>4 DEF Joins
  <2> QED BY <1>1, <1>3, <2>1, <2>2, <2>3
<1>5. CASE n # 0
  <2>2. PICK G : G = CHOOSE f : f = [i \in 1..n |-> IF i = 1 THEN p[i] ELSE f[i - 1] \o p[i]]
    OBVIOUS
  <2>3. FlattenSeq(p) = G[n]
    BY <1>1, <1>5, <2>2 DEF FlattenSeq
  <2>4. F[1] = p[1]
    <3>1. 1 \in 1..n /\ 1 - 1 = 0
      BY <1>5
    <3>2. F[1] = F[0] \o p[1] /\ F[0] = <<>>
      BY <1>3, <3>1 DEF Joins
    <3>3. p[1] \in Seq(A)
      BY <1>2, <3>1
    <3> QED BY <3>2, <3>3, ConcatEmptySeq
  <2>5. PICK H : H = [i \in 1..n |-> F[i]]
    OBVIOUS
  <2>6. H = [i \in 1..n |-> IF i = 1 THEN p[i] ELSE H[i - 1] \o p[i]]
    <3>1. ASSUME NEW i \in 1..n PROVE H[i] = IF i = 1 THEN p[i] ELSE H[i - 1] \o p[i]
      <4>1. CASE i = 1
        BY <2>4, <2>5, <4>1
      <4>2. CASE i # 1
        <5>1. i - 1 \in 1..n
          BY <4>2
        <5>2. F[i] = F[i - 1] \o p[i]
          BY <1>3 DEF Joins
        <5> QED BY <2>5, <4>2, <5>1, <5>2
      <4> QED BY <4>1, <4>2
    <3> QED BY <2>5, <3>1
  <2>7. \A i \in 1..n : G[i] = IF i = 1 THEN p[i] ELSE G[i - 1] \o p[i]
    <3>1. G = [i \in 1..n |-> IF i = 1 THEN p[i] ELSE G[i - 1] \o p[i]]
      BY <2>2, <2>6, Zenon
    <3> QED BY <3>1, Zenon
  <2> DEFINE T == {k \in 0..n : k = 0 \/ G[k] = F[k]}
  <2>8. 0 \in T
    OBVIOUS
  <2>9. ASSUME NEW k \in 1..n, k - 1 \in T PROVE k \in T
    <3>1. CASE k = 1
      BY <2>4, <2>7, <3>1
    <3>2. CASE k # 1
      <4>1. G[k - 1] = F[k - 1]
        BY <2>9, <3>2
      <4>2. F[k] = F[k - 1] \o p[k]
        BY <1>3 DEF Joins
      <4>3. G[k] = G[k - 1] \o p[k]
        <5>1. G[k] = IF k = 1 THEN p[k] ELSE G[k - 1] \o p[k]
          BY <2>7
        <5> QED BY <3>2, <5>1
      <4>4. G[k] = F[k] /\ k \in 0..n
        BY <4>1, <4>2, <4>3
      <4> QED BY <4>4
    <3> QED BY <3>1, <3>2
  <2>10. n \in T
    <3> HIDE DEF T
    <3>1. n \in 0..n
      OBVIOUS
    <3> QED BY <2>8, <2>9, <3>1, Counting
  <2>11. G[n] = F[n]
    BY <1>5, <2>10
  <2> QED BY <1>1, <1>3, <2>3, <2>11
<1> QED BY <1>4, <1>5

(* What is joined is a sequence, of nothing it is empty, and a piece more  *)
(* comes at its end.                                                       *)
LEMMA FlatEmpty == FlattenSeq(<<>>) = <<>>
<1>1. Len(<<>>) = 0
  BY EmptySeq
<1> QED BY <1>1 DEF FlattenSeq

(* Joined sequences make a sequence.                                       *)
LEMMA FlatSeq ==
    ASSUME NEW A, NEW p \in Seq(Seq(A))
    PROVE  FlattenSeq(p) \in Seq(A)
<1>1. PICK F : Joins(A, Len(p), p, F) /\ FlattenSeq(p) = F[Len(p)]
  BY FlatIs
<1>2. Len(p) \in 0..Len(p)
  OBVIOUS
<1> QED BY <1>1, <1>2 DEF Joins

(* One more sequence is joined at the end.                                 *)
LEMMA FlatAppend ==
    ASSUME NEW A, NEW p \in Seq(Seq(A)), NEW q \in Seq(A)
    PROVE  FlattenSeq(Append(p, q)) = FlattenSeq(p) \o q
<1>1. PICK r, n : r = Append(p, q) /\ n = Len(p)
  OBVIOUS
<1>2. /\ r \in Seq(Seq(A)) /\ n \in Nat /\ Len(r) = n + 1 /\ r[n + 1] = q
      /\ \A k \in 1..n : r[k] = p[k]
  BY <1>1, AppendProperties
<1>3. PICK F : Joins(A, n, p, F) /\ FlattenSeq(p) = F[n]
  BY <1>1, FlatIs
<1>4. PICK G : Joins(A, n + 1, r, G) /\ FlattenSeq(r) = G[n + 1]
  BY <1>2, FlatIs
<1> DEFINE T == {k \in 0..n : G[k] = F[k]}
<1>5. 0 \in T
  BY <1>2, <1>3, <1>4 DEF Joins
<1>6. ASSUME NEW k \in 1..n, k - 1 \in T PROVE k \in T
  <2>1. F[k] = F[k - 1] \o p[k]
    BY <1>3 DEF Joins
  <2>2. k \in 1..n + 1 /\ r[k] = p[k] /\ k \in 0..n
    BY <1>2
  <2>3. G[k] = G[k - 1] \o r[k]
    BY <1>4, <2>2 DEF Joins
  <2>4. G[k - 1] = F[k - 1]
    BY <1>6
  <2> QED BY <2>1, <2>2, <2>3, <2>4
<1>7. n \in T
  <2> HIDE DEF T
  <2>1. n \in 0..n
    BY <1>2
  <2> QED BY <1>2, <1>5, <1>6, <2>1, Counting
<1>8. G[n + 1] = G[n] \o q
  <2>1. PICK m : m = n + 1
    OBVIOUS
  <2>2. m \in 1..n + 1 /\ m - 1 = n
    BY <1>2, <2>1
  <2>3. \A k \in 1..n + 1 : G[k] = G[k - 1] \o r[k]
    BY <1>4 DEF Joins
  <2>4. G[m] = G[m - 1] \o r[m]
    BY <2>2, <2>3, Zenon
  <2> QED BY <1>2, <2>1, <2>2, <2>4, Zenon
<1> QED BY <1>1, <1>3, <1>4, <1>7, <1>8

(* What a commit adds to the telling of a history.                         *)
Tale(c) == IF c.shown THEN Says(c) ELSE <<>>

(* A history is a sequence, and its commits tell diffs.                    *)
LEMMA HistoryIs ==
    ASSUME ParserIsRight, NEW h \in Histories
    PROVE  /\ Len(h) \in Nat /\ DOMAIN h = 1..Len(h) /\ h \in Seq({h[i] : i \in DOMAIN h})
           /\ \A i \in 1..Len(h) : TellsRight(h[i]) /\ Tale(h[i]) \in Seq(DiffRecords)
<1>1. h \in Seq({h[i] : i \in DOMAIN h})
  BY HistoryAssumption
<1>2. PICK S : S = {h[i] : i \in DOMAIN h}
  OBVIOUS
<1>3. h \in Seq(S)
  BY <1>1, <1>2
<1>4. Len(h) \in Nat /\ DOMAIN h = 1..Len(h)
  BY <1>3, LenProperties
<1>5. ASSUME NEW i \in 1..Len(h) PROVE TellsRight(h[i]) /\ Tale(h[i]) \in Seq(DiffRecords)
  <2>1. TellsRight(h[i])
    BY <1>4 DEF ParserIsRight
  <2>2. Says(h[i]) \in Seq(DiffRecords)
    BY <2>1 DEF TellsRight
  <2>3. <<>> \in Seq(DiffRecords)
    BY EmptySeq
  <2> QED BY <2>1, <2>2, <2>3 DEF Tale
<1> QED BY <1>1, <1>4, <1>5

(* A commit more in a piece of a history adds what that commit tells.      *)
LEMMA ExpectedGrows ==
    ASSUME ParserIsRight, NEW h \in Histories, NEW a \in Nat, NEW b \in Nat,
           a <= b, b < Len(h)
    PROVE  /\ Expected(SubSeq(h, a + 1, b)) \in Seq(DiffRecords)
           /\ Expected(SubSeq(h, a + 1, b + 1))
                = Expected(SubSeq(h, a + 1, b)) \o Tale(h[b + 1])
<1>1. PICK S : h \in Seq(S)
  BY HistoryIs
<1>2. PICK g, e, c : g = SubSeq(h, a + 1, b) /\ e = SubSeq(h, a + 1, b + 1) /\ c = h[b + 1]
  OBVIOUS
<1>3. b <= Len(h)
  OBVIOUS
<1>4. g \in Seq(S) /\ Len(g) = b - a /\ \A k \in 1..b - a : g[k] = h[a + k]
  BY <1>1, <1>2, <1>3, Stretch
<1>5. e = Append(g, c)
  BY <1>1, <1>2, Longer
<1>6. PICK n \in Nat : n = b - a
  OBVIOUS
<1>7. Tale(c) \in Seq(DiffRecords)
  <2>1. b + 1 \in 1..Len(h)
    BY HistoryIs
  <2> QED BY <1>2, <2>1, HistoryIs
<1>8. ASSUME NEW k \in 1..n PROVE Tale(g[k]) \in Seq(DiffRecords)
  <2>1. a + k \in 1..Len(h) /\ k \in 1..b - a
    BY <1>6, HistoryIs
  <2> QED BY <1>4, <2>1, HistoryIs
<1>9. PICK p : p = [k \in 1..n |-> Tale(g[k])]
  OBVIOUS
<1>10. p \in Seq(Seq(DiffRecords)) /\ Len(p) = n
  BY <1>8, <1>9
<1>11. DOMAIN g = 1..n
  BY <1>4, <1>6, LenProperties
<1>12. Expected(g) = FlattenSeq(p)
  BY <1>9, <1>11 DEF Expected, Tale
<1>13. Expected(e) = FlattenSeq(Append(p, Tale(c)))
  <2>1. c \in S
    <3>1. b + 1 \in 1..Len(h)
      BY HistoryIs
    <3> QED BY <1>1, <1>2, <3>1, ElementOfSeq
  <2>2. /\ e \in Seq(S) /\ Len(e) = n + 1 /\ e[n + 1] = c
        /\ \A k \in 1..n : e[k] = g[k]
    <3>1. /\ Append(g, c) \in Seq(S) /\ Len(Append(g, c)) = Len(g) + 1
          /\ Append(g, c)[Len(g) + 1] = c
          /\ \A k \in 1..Len(g) : Append(g, c)[k] = g[k]
      BY <1>4, <2>1, AppendProperties
    <3>2. Len(g) = n
      BY <1>4, <1>6
    <3> QED BY <1>5, <3>1, <3>2, Zenon
  <2>3. DOMAIN e = 1..n + 1
    BY <2>2, LenProperties
  <2>4. PICK q : q = [k \in 1..n + 1 |-> Tale(e[k])]
    OBVIOUS
  <2>5. PICK r, t : r = Append(p, t) /\ t = Tale(c)
    OBVIOUS
  <2>6. r \in Seq(Seq(DiffRecords)) /\ Len(r) = n + 1 /\ r[n + 1] = t /\ \A k \in 1..n : r[k] = p[k]
    BY <1>7, <1>10, <2>5, AppendProperties
  <2>7. ASSUME NEW k \in 1..n + 1 PROVE r[k] = q[k]
    <3>1. CASE k \in 1..n
      <4>1. r[k] = p[k] /\ p[k] = Tale(g[k]) /\ g[k] = e[k]
        BY <1>9, <2>2, <2>6, <3>1
      <4>2. q[k] = Tale(e[k])
        BY <2>4
      <4> QED BY <4>1, <4>2, Zenon
    <3>2. CASE k = n + 1
      <4>1. q[k] = Tale(e[k])
        BY <2>4
      <4>2. e[k] = c /\ r[k] = t
        BY <2>2, <2>6, <3>2, Zenon
      <4> QED BY <2>5, <4>1, <4>2, Zenon
    <3> QED BY <3>1, <3>2
  <2>8. r = [k \in 1..n + 1 |-> r[k]]
    BY <2>6, LenProperties
  <2>9. q = r
    BY <2>4, <2>7, <2>8
  <2>10. Expected(e) = FlattenSeq(q)
    BY <2>3, <2>4 DEF Expected, Tale
  <2> QED BY <2>5, <2>9, <2>10, Zenon
<1>14. FlattenSeq(p) \in Seq(DiffRecords) /\ FlattenSeq(Append(p, Tale(c))) = FlattenSeq(p) \o Tale(c)
  BY <1>7, <1>10, FlatSeq, FlatAppend
<1> QED BY <1>2, <1>12, <1>13, <1>14

(* Nothing is told of no commit.                                           *)
LEMMA ExpectedEmpty ==
    ASSUME ParserIsRight, NEW h \in Histories, NEW a \in Nat
    PROVE  SubSeq(h, a + 1, a) = <<>> /\ Expected(<<>>) = <<>>
<1>1. DOMAIN <<>> = {} /\ [i \in {} |-> Tale(<<>>[i])] = <<>>
  OBVIOUS
<1>2. Expected(<<>>) = FlattenSeq(<<>>)
  BY <1>1 DEF Expected, Tale
<1>3. PICK S : h \in Seq(S)
  BY HistoryIs
<1>4. SubSeq(h, a + 1, a) = <<>>
  BY <1>3, SubSeqEmpty
<1> QED BY <1>2, <1>4, FlatEmpty

-----------------------------------------------------------------------------
(* What is told of the history up to each of its commits.                  *)
LEMMA ToldIs ==
    ASSUME NEW h \in Histories, NEW n \in 0..Len(h)
    PROVE  Told(h)[n] = Expected(SubSeq(h, 1, n))
<1> DEFINE telling(g) ==
        [history |-> g, told |-> [k \in 0..Len(g) |-> Expected(SubSeq(g, 1, k))]]
<1>1. Tellings = {telling(g) : g \in Histories}
  BY DEF Tellings
<1>2. telling(h) \in Tellings /\ telling(h).history = h
  BY <1>1
<1>3. PICK t : t = CHOOSE s \in Tellings : s.history = h
  OBVIOUS
<1>4. t \in Tellings /\ t.history = h
  <2> HIDE DEF telling
  <2> QED BY <1>2, <1>3
<1>5. PICK g \in Histories : t = telling(g)
  BY <1>1, <1>4
<1>6. g = h
  BY <1>4, <1>5
<1>7. Told(h) = [k \in 0..Len(h) |-> Expected(SubSeq(h, 1, k))]
  <2>1. t.told = [k \in 0..Len(g) |-> Expected(SubSeq(g, 1, k))]
    BY <1>5
  <2> HIDE DEF telling
  <2>2. Told(h) = t.told
    BY <1>3 DEF Told
  <2> QED BY <1>6, <2>1, <2>2
<1> QED BY <1>7

(* It begins with nothing and grows by what each commit tells.             *)
LEMMA ToldGrows ==
    ASSUME ParserIsRight, NEW h \in Histories
    PROVE  /\ Len(h) \in Nat /\ Told(h)[0] = <<>>
           /\ \A n \in 0..Len(h) : Told(h)[n] \in Seq(DiffRecords) /\ Len(Told(h)[n]) \in Nat
           /\ \A n \in 1..Len(h) : Told(h)[n] = Told(h)[n - 1] \o Tale(h[n])
<1>1. Len(h) \in Nat
  BY HistoryIs
<1>2. Told(h)[0] = <<>>
  <2>1. 0 \in 0..Len(h) /\ 0 \in Nat /\ 0 + 1 = 1
    BY <1>1
  <2>2. SubSeq(h, 0 + 1, 0) = <<>> /\ Expected(<<>>) = <<>>
    BY <2>1, ExpectedEmpty
  <2>3. SubSeq(h, 1, 0) = <<>>
    BY <2>1, <2>2
  <2>4. Told(h)[0] = Expected(SubSeq(h, 1, 0))
    BY <2>1, ToldIs
  <2> QED BY <2>2, <2>3, <2>4
<1>3. ASSUME NEW n \in 1..Len(h)
      PROVE  /\ Told(h)[n - 1] \in Seq(DiffRecords)
             /\ Told(h)[n] = Told(h)[n - 1] \o Tale(h[n])
  <2>1. PICK b \in Nat : b = n - 1
    BY <1>1
  <2>2. b < Len(h) /\ 0 <= b /\ b + 1 = n /\ 0 + 1 = 1 /\ 0 \in Nat /\ b \in 0..Len(h) /\ n \in 0..Len(h)
    BY <1>1, <2>1
  <2>3. /\ Expected(SubSeq(h, 0 + 1, b)) \in Seq(DiffRecords)
        /\ Expected(SubSeq(h, 0 + 1, b + 1))
             = Expected(SubSeq(h, 0 + 1, b)) \o Tale(h[b + 1])
    BY <2>2, ExpectedGrows
  <2>4. Told(h)[b] = Expected(SubSeq(h, 1, b)) /\ Told(h)[n] = Expected(SubSeq(h, 1, n))
    BY <2>2, ToldIs
  <2> QED BY <2>1, <2>2, <2>3, <2>4
<1>4. ASSUME NEW n \in 0..Len(h) PROVE Told(h)[n] \in Seq(DiffRecords) /\ Len(Told(h)[n]) \in Nat
  <2>1. CASE n = 0
    BY <1>2, <2>1, EmptySeq
  <2>2. CASE n # 0
    <3>1. n \in 1..Len(h)
      BY <1>1, <2>2
    <3>2. Told(h)[n - 1] \in Seq(DiffRecords) /\ Told(h)[n] = Told(h)[n - 1] \o Tale(h[n])
      BY <1>3, <3>1
    <3>3. Tale(h[n]) \in Seq(DiffRecords)
      BY <3>1, HistoryIs
    <3> QED BY <3>2, <3>3, ConcatProperties, LenProperties
  <2> QED BY <2>1, <2>2
<1> QED BY <1>1, <1>2, <1>3, <1>4

(* What is told up to a commit, and of the piece behind it.                *)
LEMMA ToldSplits ==
    ASSUME ParserIsRight, NEW h \in Histories,
           NEW a \in 0..Len(h), NEW b \in 0..Len(h), a <= b
    PROVE  /\ Expected(SubSeq(h, a + 1, b)) \in Seq(DiffRecords)
           /\ Told(h)[b] = Told(h)[a] \o Expected(SubSeq(h, a + 1, b))
<1> DEFINE E(k) == Expected(SubSeq(h, a + 1, a + k))
           T == {k \in 0..Len(h) - a : E(k) \in Seq(DiffRecords) /\ Told(h)[a + k] = Told(h)[a] \o E(k)}
<1>1. Len(h) \in Nat /\ a \in Nat /\ b \in Nat /\ Len(h) - a \in Nat
  BY ToldGrows
<1>2. 0 \in T
  <2>1. SubSeq(h, a + 1, a) = <<>> /\ Expected(<<>>) = <<>>
    BY <1>1, ExpectedEmpty
  <2>2. a + 0 = a
    BY <1>1
  <2>3. E(0) = <<>>
    BY <2>1, <2>2
  <2>4. Told(h)[a] \in Seq(DiffRecords)
    BY ToldGrows
  <2>5. Told(h)[a] \o <<>> = Told(h)[a] /\ <<>> \in Seq(DiffRecords)
    BY <2>4, ConcatEmptySeq, EmptySeq
  <2>6. 0 \in 0..Len(h) - a
    BY <1>1
  <2> HIDE DEF E
  <2> QED BY <2>2, <2>3, <2>5, <2>6
<1>3. ASSUME NEW k \in 1..Len(h) - a, k - 1 \in T PROVE k \in T
  <2>1. PICK c \in Nat : c = a + (k - 1)
    BY <1>1
  <2>2. c < Len(h) /\ a <= c /\ c + 1 = a + k /\ c + 1 \in 1..Len(h) /\ c + 1 - 1 = c /\ k \in 0..Len(h) - a
    BY <1>1, <2>1
  <2>3. E(k) = E(k - 1) \o Tale(h[c + 1])
    <3>1. Expected(SubSeq(h, a + 1, c + 1))
            = Expected(SubSeq(h, a + 1, c)) \o Tale(h[c + 1])
      BY <1>1, <2>2, ExpectedGrows
    <3> QED BY <2>1, <2>2, <3>1
  <2>4. Told(h)[c + 1] = Told(h)[c] \o Tale(h[c + 1])
    <3>1. PICK m : m = c + 1
      OBVIOUS
    <3>2. m \in 1..Len(h) /\ m - 1 = c
      BY <2>2, <3>1
    <3>3. \A n \in 1..Len(h) : Told(h)[n] = Told(h)[n - 1] \o Tale(h[n])
      BY ToldGrows
    <3>4. Told(h)[m] = Told(h)[m - 1] \o Tale(h[m])
      BY <3>2, <3>3, Zenon
    <3> QED BY <3>1, <3>2, <3>4, Zenon
  <2> HIDE DEF E
  <2>5. E(k - 1) \in Seq(DiffRecords) /\ Told(h)[c] = Told(h)[a] \o E(k - 1)
    BY <1>3, <2>1
  <2>6. Told(h)[a] \in Seq(DiffRecords)
    BY ToldGrows
  <2>7. Tale(h[c + 1]) \in Seq(DiffRecords)
    BY <1>1, <2>2, HistoryIs
  <2>8. E(k) \in Seq(DiffRecords)
    BY <2>3, <2>5, <2>7, ConcatProperties
  <2>9. (Told(h)[a] \o E(k - 1)) \o Tale(h[c + 1]) = Told(h)[a] \o (E(k - 1) \o Tale(h[c + 1]))
    <3>1. PICK D, x, y, z :
              D = DiffRecords /\ x = Told(h)[a] /\ y = E(k - 1) /\ z = Tale(h[c + 1])
      OBVIOUS
    <3>2. x \in Seq(D) /\ y \in Seq(D) /\ z \in Seq(D)
      BY <2>5, <2>6, <2>7, <3>1
    <3>3. (x \o y) \o z = x \o (y \o z)
      BY <3>2, JoinIsAssociative
    <3> QED BY <3>1, <3>3, Zenon
  <2>10. Told(h)[a + k] = Told(h)[a] \o E(k)
    BY <2>2, <2>3, <2>4, <2>5, <2>9
  <2> QED BY <2>2, <2>8, <2>10
<1>4. b - a \in T
  <2> HIDE DEF T
  <2>1. b - a \in 0..Len(h) - a
    BY <1>1
  <2>2. PICK n \in Nat : n = Len(h) - a
    BY <1>1
  <2>3. Inductive(T, n)
    BY <1>2, <1>3, <2>2 DEF Inductive
  <2> QED BY <2>1, <2>2, <2>3, Counted
<1>5. a + (b - a) = b
  BY <1>1
<1> QED BY <1>4, <1>5

(* A commit that is shown tells something, and nothing is taken back.      *)
LEMMA ToldOrder ==
    ASSUME ParserIsRight, NEW h \in Histories
    PROVE  /\ \A a, b \in 0..Len(h) : a <= b => Len(Told(h)[a]) <= Len(Told(h)[b])
           /\ \A n \in 1..Len(h) : h[n].shown => Len(Told(h)[n - 1]) < Len(Told(h)[n])
           /\ \A n \in 1..Len(h) : ~h[n].shown => Told(h)[n] = Told(h)[n - 1]
<1>1. ASSUME NEW a \in 0..Len(h), NEW b \in 0..Len(h), a <= b PROVE Len(Told(h)[a]) <= Len(Told(h)[b])
  <2>1. PICK e : e = Expected(SubSeq(h, a + 1, b))
    OBVIOUS
  <2>2. e \in Seq(DiffRecords) /\ Told(h)[b] = Told(h)[a] \o e
    BY <1>1, <2>1, ToldSplits
  <2>3. Told(h)[a] \in Seq(DiffRecords)
    BY ToldGrows
  <2>4. Len(Told(h)[b]) = Len(Told(h)[a]) + Len(e) /\ Len(e) \in Nat /\ Len(Told(h)[a]) \in Nat
    BY <2>2, <2>3, ConcatProperties, LenProperties
  <2> QED BY <2>4
<1>2. ASSUME NEW n \in 1..Len(h)
      PROVE  /\ h[n].shown => Len(Told(h)[n - 1]) < Len(Told(h)[n])
             /\ ~h[n].shown => Told(h)[n] = Told(h)[n - 1]
  <2>1. PICK s, t : s = Told(h)[n - 1] /\ t = Tale(h[n])
    OBVIOUS
  <2>2. n - 1 \in 0..Len(h)
    BY ToldGrows
  <2>3. s \in Seq(DiffRecords) /\ t \in Seq(DiffRecords) /\ Told(h)[n] = s \o t
    BY <2>1, <2>2, ToldGrows, HistoryIs
  <2>4. CASE h[n].shown
    <3>1. t # <<>>
      <4>1. TellsRight(h[n])
        BY HistoryIs
      <4> QED BY <2>1, <2>4, <4>1 DEF TellsRight, Tale
    <3>2. Len(t) \in Nat /\ Len(t) # 0 /\ Len(s) \in Nat
      BY <2>3, <3>1, EmptySeq, LenProperties
    <3>3. Len(s \o t) = Len(s) + Len(t)
      BY <2>3, ConcatProperties
    <3>4. Len(s) < Len(Told(h)[n])
      BY <2>3, <3>2, <3>3
    <3> QED BY <2>1, <2>4, <3>4
  <2>5. CASE ~h[n].shown
    <3>1. t = <<>>
      BY <2>1, <2>5 DEF Tale
    <3>2. s \o <<>> = s
      BY <2>3, ConcatEmptySeq
    <3> QED BY <2>1, <2>3, <2>5, <3>1, <3>2
  <2> QED BY <2>4, <2>5
<1> QED BY <1>1, <1>2

-----------------------------------------------------------------------------
(* The entry k of what is told belongs to the commit during which the      *)
(* telling passes k.                                                       *)
Belongs(h, k, n) == n \in 1..Len(h) /\ Len(Told(h)[n - 1]) < k /\ k <= Len(Told(h)[n])

(* The whole of a history, and how it begins.                              *)
LEMMA AllIs ==
    ASSUME ParserIsRight, NEW h \in Histories
    PROVE  /\ All(h) = Told(h)[Len(h)] /\ All(h) \in Seq(DiffRecords) /\ Len(All(h)) \in Nat
           /\ \A n \in 0..Len(h) : Len(Told(h)[n]) <= Len(All(h))
           /\ \A n \in 0..Len(h) : \A k \in 1..Len(Told(h)[n]) : All(h)[k] = Told(h)[n][k]
<1>1. Len(h) \in 0..Len(h) /\ All(h) = Told(h)[Len(h)]
  BY ToldGrows DEF All
<1>2. All(h) \in Seq(DiffRecords) /\ Len(All(h)) \in Nat
  BY <1>1, ToldGrows
<1>3. ASSUME NEW n \in 0..Len(h)
      PROVE  Len(Told(h)[n]) <= Len(All(h)) /\ \A k \in 1..Len(Told(h)[n]) : All(h)[k] = Told(h)[n][k]
  <2>1. PICK s, e : s = Told(h)[n] /\ e = Expected(SubSeq(h, n + 1, Len(h)))
    OBVIOUS
  <2>2. n <= Len(h)
    BY ToldGrows
  <2>3. s \in Seq(DiffRecords) /\ e \in Seq(DiffRecords) /\ All(h) = s \o e
    BY <1>1, <2>1, <2>2, ToldSplits, ToldGrows
  <2>4. Len(s \o e) = Len(s) + Len(e) /\ Len(s) \in Nat /\ Len(e) \in Nat
    BY <2>3, ConcatProperties, LenProperties
  <2>5. \A k \in 1..Len(s) : (s \o e)[k] = s[k]
    <3>1. \A k \in 1..Len(s) + Len(e) : (s \o e)[k] = IF k <= Len(s) THEN s[k] ELSE e[k - Len(s)]
      BY <2>3, ConcatProperties
    <3> QED BY <2>4, <3>1
  <2>6. Len(s) <= Len(s \o e)
    BY <2>4
  <2> QED BY <2>1, <2>3, <2>5, <2>6, Zenon
<1> QED BY <1>1, <1>2, <1>3

(* Of the entries that belong to a commit, the first alone has no path.    *)
LEMMA EntryIs ==
    ASSUME ParserIsRight, NEW h \in Histories, NEW k \in Nat, NEW n, Belongs(h, k, n)
    PROVE  /\ h[n].shown /\ k \in 1..Len(All(h))
           /\ All(h)[k].path = "" <=> k = Len(Told(h)[n - 1]) + 1
<1>1. PICK s, t, c : s = Told(h)[n - 1] /\ t = Says(c) /\ c = h[n]
  OBVIOUS
<1>2. n \in 1..Len(h) /\ n \in 0..Len(h) /\ n - 1 \in 0..Len(h) /\ Len(s) < k /\ k <= Len(Told(h)[n])
  BY <1>1, ToldGrows DEF Belongs
<1>3. h[n].shown
  <2> SUFFICES ASSUME ~h[n].shown PROVE FALSE
    OBVIOUS
  <2>1. Told(h)[n] = s
    BY <1>1, <1>2, ToldOrder
  <2>2. Len(s) \in Nat
    BY <1>1, <1>2, ToldGrows
  <2> QED BY <1>2, <2>1, <2>2
<1>4. s \in Seq(DiffRecords) /\ Told(h)[n] = s \o t
  BY <1>1, <1>2, <1>3, ToldGrows DEF Tale
<1>5. TellsRight(c)
  BY <1>1, <1>2, HistoryIs
<1>6. t \in Seq(DiffRecords) /\ DOMAIN t = 1..Len(t) /\ \A i \in DOMAIN t : t[i].path = "" <=> i = 1
  BY <1>1, <1>5, LenProperties DEF TellsRight
<1>7. /\ Len(s \o t) = Len(s) + Len(t) /\ Len(s) \in Nat /\ Len(t) \in Nat
      /\ \A i \in 1..Len(s) + Len(t) : (s \o t)[i] = IF i <= Len(s) THEN s[i] ELSE t[i - Len(s)]
  BY <1>4, <1>6, ConcatProperties, LenProperties
<1>8. k \in 1..Len(s) + Len(t) /\ ~(k <= Len(s)) /\ k - Len(s) \in 1..Len(t) /\ k \in 1..Len(Told(h)[n])
  BY <1>2, <1>4, <1>7
<1>9. k \in 1..Len(All(h)) /\ All(h)[k] = Told(h)[n][k]
  <2>1. Len(Told(h)[n]) <= Len(All(h)) /\ \A j \in 1..Len(Told(h)[n]) : All(h)[j] = Told(h)[n][j]
    BY <1>2, AllIs
  <2>2. Len(All(h)) \in Nat /\ Len(Told(h)[n]) \in Nat
    BY <1>2, AllIs, ToldGrows
  <2> QED BY <1>8, <2>1, <2>2
<1>10. All(h)[k] = t[k - Len(s)]
  BY <1>4, <1>7, <1>8, <1>9
<1>11. All(h)[k].path = "" <=> k - Len(s) = 1
  BY <1>6, <1>8, <1>10
<1>12. k - Len(s) = 1 <=> k = Len(s) + 1
  BY <1>7
<1> QED BY <1>1, <1>3, <1>9, <1>11, <1>12

(* Each entry belongs to a commit.                                         *)
LEMMA EntryOf ==
    ASSUME ParserIsRight, NEW h \in Histories, NEW k \in 1..Len(All(h))
    PROVE  \E n : Belongs(h, k, n)
<1> DEFINE S == {n \in 0..Len(h) : k <= Len(Told(h)[n])}
<1>1. Len(h) \in Nat /\ Len(All(h)) \in Nat /\ Len(h) \in 0..Len(h) /\ All(h) = Told(h)[Len(h)]
  BY ToldGrows, AllIs
<1>2. Len(h) \in S
  BY <1>1
<1>3. PICK n \in S : \A m \in S : n <= m
  <2>1. S # {} /\ S \subseteq Nat
    BY <1>1, <1>2
  <2> HIDE DEF S
  <2> QED BY <2>1, LeastElement
<1>4. n # 0
  <2> SUFFICES ASSUME n = 0 PROVE FALSE
    OBVIOUS
  <2>1. Len(Told(h)[0]) = 0
    BY ToldGrows, EmptySeq
  <2> QED BY <1>1, <1>3, <2>1
<1>5. n \in 1..Len(h) /\ n - 1 \in 0..Len(h) /\ ~(n <= n - 1)
  BY <1>1, <1>3, <1>4
<1>6. n - 1 \notin S
  <2> HIDE DEF S
  <2> QED BY <1>3, <1>5
<1>7. Len(Told(h)[n - 1]) \in Nat
  BY <1>5, ToldGrows
<1>8. Len(Told(h)[n - 1]) < k
  BY <1>1, <1>5, <1>6, <1>7
<1> QED BY <1>3, <1>5, <1>8 DEF Belongs

(* An entry without a path is the first of a commit that is shown.         *)
LEMMA StartIs ==
    ASSUME ParserIsRight, NEW h \in Histories, NEW k \in 1..Len(All(h))
    PROVE  All(h)[k].path = "" <=> \E n \in 1..Len(h) : h[n].shown /\ k = Len(Told(h)[n - 1]) + 1
<1>0. k \in Nat
  BY AllIs
<1>1. ASSUME All(h)[k].path = "" PROVE \E n \in 1..Len(h) : h[n].shown /\ k = Len(Told(h)[n - 1]) + 1
  <2>1. PICK n : Belongs(h, k, n)
    BY EntryOf
  <2>2. h[n].shown /\ k = Len(Told(h)[n - 1]) + 1
    BY <1>0, <1>1, <2>1, EntryIs
  <2> QED BY <2>1, <2>2 DEF Belongs
<1>2. ASSUME NEW n \in 1..Len(h), h[n].shown, k = Len(Told(h)[n - 1]) + 1 PROVE All(h)[k].path = ""
  <2>1. Len(Told(h)[n - 1]) < Len(Told(h)[n])
    BY <1>2, ToldOrder
  <2>2. Len(Told(h)[n - 1]) \in Nat /\ Len(Told(h)[n]) \in Nat
    <3>1. n - 1 \in 0..Len(h) /\ n \in 0..Len(h)
      BY ToldGrows
    <3> QED BY <3>1, ToldGrows
  <2>3. Belongs(h, k, n)
    BY <1>2, <2>1, <2>2 DEF Belongs
  <2> QED BY <1>0, <1>2, <2>3, EntryIs
<1> QED BY <1>1, <1>2

-----------------------------------------------------------------------------
(* How many commits are begun with the first n entries.                    *)
Starts(h, n) == {i \in DOMAIN h : h[i].shown /\ Len(Told(h)[i - 1]) < n}

(* How many commits are begun with the first n entries.                    *)
LEMMA BegunIs ==
    ASSUME ParserIsRight, NEW h \in Histories, NEW n \in Nat
    PROVE  /\ IsFiniteSet(Starts(h, n)) /\ Begun(h, n) = Cardinality(Starts(h, n))
           /\ Begun(h, n) \in Nat /\ Begun(h, n) <= Len(h)
           /\ \A m \in Nat : n <= m => Begun(h, n) <= Begun(h, m)
           /\ n = 0 => Begun(h, n) = 0
<1>1. Len(h) \in Nat /\ DOMAIN h = 1..Len(h)
  BY HistoryIs
<1>2. IsFiniteSet(1..Len(h)) /\ Cardinality(1..Len(h)) = Len(h)
  <2>1. 1 \in Int /\ Len(h) \in Int
    BY <1>1
  <2>2. IsFiniteSet(1..Len(h)) /\ Cardinality(1..Len(h)) = IF 1 > Len(h) THEN 0 ELSE Len(h) - 1 + 1
    BY <2>1, FS_Interval
  <2> QED BY <1>1, <2>2
<1>3. \A m \in Nat : Begun(h, m) = Cardinality(Starts(h, m))
  BY DEF Begun, Starts
<1>4. ASSUME NEW m \in Nat
      PROVE  IsFiniteSet(Starts(h, m)) /\ Begun(h, m) \in Nat /\ Begun(h, m) <= Len(h)
  <2>1. Starts(h, m) \subseteq 1..Len(h)
    BY <1>1 DEF Starts
  <2>2. IsFiniteSet(Starts(h, m)) /\ Cardinality(Starts(h, m)) <= Cardinality(1..Len(h))
    BY <1>2, <2>1, FS_Subset
  <2>3. Cardinality(Starts(h, m)) \in Nat
    BY <2>2, FS_CardinalityType
  <2> QED BY <1>2, <1>3, <2>2, <2>3
<1>5. ASSUME NEW m \in Nat, n <= m PROVE Begun(h, n) <= Begun(h, m)
  <2>1. \A i \in 1..Len(h) : Len(Told(h)[i - 1]) \in Nat
    <3>1. \A i \in 1..Len(h) : i - 1 \in 0..Len(h)
      BY <1>1
    <3> QED BY <3>1, ToldGrows
  <2>2. Starts(h, n) \subseteq Starts(h, m)
    BY <1>1, <1>5, <2>1 DEF Starts
  <2> QED BY <1>3, <1>4, <2>2, FS_Subset
<1>6. ASSUME n = 0 PROVE Begun(h, n) = 0
  <2>1. \A i \in 1..Len(h) : Len(Told(h)[i - 1]) \in Nat
    <3>1. \A i \in 1..Len(h) : i - 1 \in 0..Len(h)
      BY <1>1
    <3> QED BY <3>1, ToldGrows
  <2>2. Starts(h, n) = {}
    BY <1>1, <1>6, <2>1 DEF Starts
  <2> QED BY <1>3, <2>2, FS_EmptySet
<1> QED BY <1>3, <1>4, <1>5, <1>6

(* An entry without a path begins a commit, and no other does.             *)
LEMMA BegunGrows ==
    ASSUME ParserIsRight, NEW h \in Histories, NEW n \in Nat, n < Len(All(h))
    PROVE  /\ All(h)[n + 1].path = "" => Begun(h, n + 1) = Begun(h, n) + 1
           /\ All(h)[n + 1].path # "" => Begun(h, n + 1) = Begun(h, n)
<1>1. Len(h) \in Nat /\ DOMAIN h = 1..Len(h)
  BY HistoryIs
<1>2. PICK m \in Nat : m = n + 1
  OBVIOUS
<1>3. m \in 1..Len(All(h))
  BY <1>2, AllIs
<1>4. All(h)[m].path = "" <=> \E i \in 1..Len(h) : h[i].shown /\ m = Len(Told(h)[i - 1]) + 1
  BY <1>3, StartIs
<1>5. \A i \in 0..Len(h) : Len(Told(h)[i]) \in Nat
  BY ToldGrows
<1>6. \A i \in 1..Len(h) : i - 1 \in 0..Len(h) /\ Len(Told(h)[i - 1]) \in Nat
  BY <1>1, <1>5
<1>7. Starts(h, m) = Starts(h, n) \cup {i \in 1..Len(h) : h[i].shown /\ m = Len(Told(h)[i - 1]) + 1}
  <2>1. \A i \in 1..Len(h) : Len(Told(h)[i - 1]) < m <=> Len(Told(h)[i - 1]) < n \/ m = Len(Told(h)[i - 1]) + 1
    BY <1>2, <1>6
  <2> QED BY <1>1, <2>1 DEF Starts
<1>8. CASE All(h)[m].path # ""
  <2>1. Starts(h, m) = Starts(h, n)
    BY <1>4, <1>7, <1>8
  <2> QED BY <1>2, <1>8, <2>1, BegunIs
<1>9. CASE All(h)[m].path = ""
  <2>1. PICK i \in 1..Len(h) : h[i].shown /\ m = Len(Told(h)[i - 1]) + 1
    BY <1>4, <1>9
  <2>2. ASSUME NEW j \in 1..Len(h), h[j].shown, m = Len(Told(h)[j - 1]) + 1, j # i PROVE FALSE
    <3>1. Len(Told(h)[i - 1]) < Len(Told(h)[i]) /\ Len(Told(h)[j - 1]) < Len(Told(h)[j])
      BY <2>1, <2>2, ToldOrder
    <3>2. CASE i < j
      <4>1. i \in 0..Len(h) /\ j - 1 \in 0..Len(h) /\ i <= j - 1
        BY <1>1, <3>2
      <4>2. Len(Told(h)[i]) <= Len(Told(h)[j - 1])
        BY <4>1, ToldOrder
      <4>3. Len(Told(h)[i]) \in Nat /\ Len(Told(h)[i - 1]) \in Nat /\ Len(Told(h)[j - 1]) \in Nat
        BY <1>5, <1>6, <4>1
      <4> QED BY <2>1, <2>2, <3>1, <4>2, <4>3
    <3>3. CASE j < i
      <4>1. j \in 0..Len(h) /\ i - 1 \in 0..Len(h) /\ j <= i - 1
        BY <1>1, <3>3
      <4>2. Len(Told(h)[j]) <= Len(Told(h)[i - 1])
        BY <4>1, ToldOrder
      <4>3. Len(Told(h)[j]) \in Nat /\ Len(Told(h)[j - 1]) \in Nat /\ Len(Told(h)[i - 1]) \in Nat
        BY <1>5, <1>6, <4>1
      <4> QED BY <2>1, <2>2, <3>1, <4>2, <4>3
    <3> QED BY <2>2, <3>2, <3>3
  <2>3. Starts(h, m) = Starts(h, n) \cup {i}
    BY <1>7, <2>1, <2>2
  <2>4. i \notin Starts(h, n)
    BY <1>2, <1>6, <2>1 DEF Starts
  <2>5. Cardinality(Starts(h, m)) = Cardinality(Starts(h, n)) + 1
    <3>1. IsFiniteSet(Starts(h, n))
      BY BegunIs
    <3> QED BY <2>3, <2>4, <3>1, FS_AddElement
  <2> QED BY <1>2, <1>9, <2>5, BegunIs
<1> QED BY <1>2, <1>8, <1>9

-----------------------------------------------------------------------------
(* What ScanCommits makes of the first k diffs.                            *)
ReportTo(diffs, k) == Report(SubSeq(diffs, 1, k))

(* What is reported of a diff: its commit, alone, if it is a new one, and  *)
(* the diff if it has a path.                                              *)
LEMMA ReportedIs ==
    ASSUME NEW d \in DiffRecords
    PROVE  /\ NoDiffs(d.commit) \in DiffRecords /\ NoDiffs(d.commit).path = ""
           /\ d.commit \in STRING /\ Len(d.text) \in Nat /\ IsPrefix(d.text, d.text)
<1>1. /\ d.commit \in STRING /\ d.text \in Seq(STRING)
  BY DEF DiffRecords
<1>2. Len(d.text) \in Nat
  BY <1>1, LenProperties
<1>3. IsPrefix(d.text, d.text)
  BY <1>2 DEF IsPrefix
<1>4. <<>> \in Seq(STRING) /\ "" \in Paths /\ FALSE \in BOOLEAN
  BY EmptySeq DEF Paths
<1>5. PICK c \in STRING : c = d.commit
  BY <1>1
<1>6. PICK n : n = [commit |-> c, path |-> "", binary |-> FALSE, text |-> <<>>]
  OBVIOUS
<1>7. n \in DiffRecords /\ n.path = ""
  BY <1>4, <1>6 DEF DiffRecords
<1>8. NoDiffs(d.commit) = n
  BY <1>5, <1>6 DEF NoDiffs, Diff
<1> QED BY <1>1, <1>2, <1>3, <1>7, <1>8, Zenon

(* What a diff adds to the report is a sequence of records.                *)
LEMMA ReportedSeq ==
    ASSUME NEW diffs \in Seq(DiffRecords), NEW i \in 1..Len(diffs)
    PROVE  Reported(diffs, i) \in Seq(DiffRecords)
<1>1. PICK d : d = diffs[i]
  OBVIOUS
<1>2. d \in DiffRecords
  BY <1>1, ElementOfSeq
<1>3. NoDiffs(d.commit) \in DiffRecords
  BY <1>2, ReportedIs
<1>4. PICK n : n = NoDiffs(d.commit)
  OBVIOUS
<1>5. <<>> \in Seq(DiffRecords) /\ <<d>> \in Seq(DiffRecords) /\ <<n>> \in Seq(DiffRecords)
  BY <1>2, <1>3, <1>4
<1>6. PICK u, v : /\ u = IF i = 1 \/ d.commit # diffs[i - 1].commit THEN <<n>> ELSE <<>>
                  /\ v = IF d.path # "" THEN <<d>> ELSE <<>>
  OBVIOUS
<1>7. u \in Seq(DiffRecords) /\ v \in Seq(DiffRecords)
  BY <1>5, <1>6
<1>8. u \o v \in Seq(DiffRecords)
  BY <1>7, ConcatProperties
<1> QED BY <1>1, <1>4, <1>6, <1>8 DEF Reported

(* A diff more adds what is reported of it.                                *)
LEMMA ReportGrows ==
    ASSUME NEW diffs \in Seq(DiffRecords), NEW k \in Nat, k < Len(diffs)
    PROVE  /\ ReportTo(diffs, k) \in Seq(DiffRecords)
           /\ ReportTo(diffs, k + 1) = ReportTo(diffs, k) \o Reported(diffs, k + 1)
<1>1. PICK g, e, m : g = SubSeq(diffs, 1, k) /\ e = SubSeq(diffs, 1, m) /\ m = k + 1
  OBVIOUS
<1>2. m \in Nat /\ m <= Len(diffs) /\ m \in 1..Len(diffs) /\ Len(diffs) \in Nat
  BY <1>1, LenProperties
<1>3. /\ g \in Seq(DiffRecords) /\ Len(g) = k /\ \A i \in 1..k : g[i] = diffs[i]
      /\ e \in Seq(DiffRecords) /\ Len(e) = m /\ \A i \in 1..m : e[i] = diffs[i]
  <2>1. \A n \in Nat : n <= Len(diffs) =>
            /\ SubSeq(diffs, 1, n) \in Seq(DiffRecords) /\ Len(SubSeq(diffs, 1, n)) = n
            /\ \A i \in 1..n : SubSeq(diffs, 1, n)[i] = diffs[i]
    <3> SUFFICES ASSUME NEW n \in Nat, n <= Len(diffs)
                 PROVE  /\ SubSeq(diffs, 1, n) \in Seq(DiffRecords) /\ Len(SubSeq(diffs, 1, n)) = n
                        /\ \A i \in 1..n : SubSeq(diffs, 1, n)[i] = diffs[i]
      OBVIOUS
    <3>1. /\ SubSeq(diffs, 0 + 1, n) \in Seq(DiffRecords) /\ Len(SubSeq(diffs, 0 + 1, n)) = n - 0
          /\ \A i \in 1..n - 0 : SubSeq(diffs, 0 + 1, n)[i] = diffs[0 + i]
      <4>1. 0 \in Nat /\ 0 <= n
        OBVIOUS
      <4> QED BY <4>1, Stretch
    <3>2. 0 + 1 = 1 /\ n - 0 = n /\ \A i \in 1..n : 0 + i = i
      OBVIOUS
    <3> QED BY <3>1, <3>2
  <2>2. k <= Len(diffs)
    BY <1>2
  <2> QED BY <1>1, <1>2, <2>1, <2>2, Zenon
<1>4. PICK p, q, r : /\ p = [i \in 1..k |-> Reported(g, i)] /\ q = [i \in 1..m |-> Reported(e, i)]
                     /\ r = Reported(diffs, m)
  OBVIOUS
<1>5. ASSUME NEW i \in 1..m
      PROVE  Reported(e, i) = Reported(diffs, i) /\ (i <= k => Reported(g, i) = Reported(diffs, i))
  <2>1. e[i] = diffs[i] /\ (i <= k => g[i] = diffs[i])
    BY <1>1, <1>3
  <2>2. i # 1 => e[i - 1] = diffs[i - 1] /\ (i <= k => g[i - 1] = diffs[i - 1])
    <3>1. i # 1 => i - 1 \in 1..m /\ (i <= k => i - 1 \in 1..k)
      BY <1>2
    <3> QED BY <1>3, <3>1
  <2> QED BY <2>1, <2>2 DEF Reported
<1>6. \A i \in 1..m : Reported(diffs, i) \in Seq(DiffRecords)
  <2>1. \A i \in 1..m : i \in 1..Len(diffs)
    BY <1>2
  <2> QED BY <2>1, ReportedSeq
<1>7. \A i \in 1..k : i \in 1..m /\ i <= k
  BY <1>1
<1>8. p \in Seq(Seq(DiffRecords)) /\ Len(p) = k
  <2>1. \A i \in 1..k : Reported(g, i) \in Seq(DiffRecords)
    BY <1>5, <1>6, <1>7
  <2> QED BY <1>4, <2>1
<1>9. q = Append(p, r)
  <2>1. r \in Seq(DiffRecords) /\ m \in 1..m
    BY <1>2, <1>4, ReportedSeq
  <2>2. /\ Append(p, r) \in Seq(Seq(DiffRecords)) /\ Len(Append(p, r)) = m /\ Append(p, r)[m] = r
        /\ \A i \in 1..k : Append(p, r)[i] = p[i]
    <3>1. /\ Append(p, r) \in Seq(Seq(DiffRecords)) /\ Len(Append(p, r)) = Len(p) + 1
          /\ Append(p, r)[Len(p) + 1] = r
          /\ \A i \in 1..Len(p) : Append(p, r)[i] = p[i]
      BY <1>8, <2>1, AppendProperties
    <3> QED BY <1>1, <1>8, <3>1, Zenon
  <2>3. PICK s : s = Append(p, r)
    OBVIOUS
  <2>4. ASSUME NEW i \in 1..m PROVE s[i] = q[i]
    <3>1. q[i] = Reported(diffs, i)
      BY <1>4, <1>5
    <3>2. CASE i \in 1..k
      <4>1. s[i] = p[i] /\ p[i] = Reported(g, i)
        BY <1>4, <2>2, <2>3, <3>2
      <4>2. Reported(g, i) = Reported(diffs, i)
        BY <1>5, <1>7, <3>2
      <4> QED BY <3>1, <4>1, <4>2, Zenon
    <3>3. CASE i = m
      <4>1. s[i] = r
        BY <2>2, <2>3, <3>3, Zenon
      <4> QED BY <1>4, <3>1, <3>3, <4>1, Zenon
    <3>4. i \in 1..k \/ i = m
      BY <1>1
    <3> QED BY <3>2, <3>3, <3>4
  <2>5. s = [i \in 1..m |-> s[i]]
    BY <2>2, <2>3, LenProperties
  <2>6. s = q
    BY <1>4, <2>4, <2>5
  <2> QED BY <2>3, <2>6
<1>10. Report(g) = FlattenSeq(p) /\ Report(e) = FlattenSeq(q)
  <2>1. DOMAIN g = 1..k /\ DOMAIN e = 1..m
    BY <1>3, LenProperties
  <2> QED BY <1>4, <2>1 DEF Report
<1>11. FlattenSeq(p) \in Seq(DiffRecords) /\ FlattenSeq(Append(p, r)) = FlattenSeq(p) \o r
  <2>1. r \in Seq(DiffRecords)
    BY <1>2, <1>4, ReportedSeq
  <2> QED BY <1>8, <2>1, FlatSeq, FlatAppend
<1> QED BY <1>1, <1>4, <1>9, <1>10, <1>11, Zenon DEF ReportTo

(* No diffs make no report, all of them the whole of it.                   *)
LEMMA ReportOfNone ==
    ASSUME NEW diffs \in Seq(DiffRecords)
    PROVE  ReportTo(diffs, 0) = <<>> /\ ReportTo(diffs, Len(diffs)) = Report(diffs)
<1>1. DOMAIN <<>> = {} /\ [i \in {} |-> Reported(<<>>, i)] = <<>>
  OBVIOUS
<1>2. Report(<<>>) = <<>>
  BY <1>1, FlatEmpty DEF Report
<1>3. SubSeq(diffs, 1, 0) = <<>> /\ SubSeq(diffs, 1, Len(diffs)) = diffs
  BY SubSeqEmpty, SubSeqFull
<1> QED BY <1>2, <1>3 DEF ReportTo

(* What is reported of the first diffs is the start of the whole report.   *)
LEMMA ReportStarts ==
    ASSUME NEW diffs \in Seq(DiffRecords), NEW k \in 0..Len(diffs)
    PROVE  /\ ReportTo(diffs, k) \in Seq(DiffRecords)
           /\ Len(ReportTo(diffs, k)) <= Len(Report(diffs))
           /\ \A i \in 1..Len(ReportTo(diffs, k)) : ReportTo(diffs, k)[i] = Report(diffs)[i]
<1>1. PICK n \in Nat : n = Len(diffs)
  OBVIOUS
<1>2. ASSUME NEW j \in 0..n PROVE ReportTo(diffs, j) \in Seq(DiffRecords)
  <2>1. CASE j = 0
    BY <2>1, ReportOfNone, EmptySeq
  <2>2. CASE j # 0
    <3>1. PICK i \in Nat : i = j - 1
      BY <2>2
    <3>2. i < Len(diffs) /\ i + 1 = j /\ j \in 1..Len(diffs)
      BY <1>1, <2>2, <3>1
    <3>3. ReportTo(diffs, i) \in Seq(DiffRecords) /\ ReportTo(diffs, i + 1) = ReportTo(diffs, i) \o Reported(diffs, i + 1)
      BY <3>2, ReportGrows
    <3>4. Reported(diffs, j) \in Seq(DiffRecords)
      BY <3>2, ReportedSeq
    <3>5. ReportTo(diffs, j) = ReportTo(diffs, i) \o Reported(diffs, j)
      BY <3>2, <3>3
    <3> QED BY <3>3, <3>4, <3>5, ConcatProperties
  <2> QED BY <2>1, <2>2
<1> DEFINE Begins(s, t) == Len(s) <= Len(t) /\ \A i \in 1..Len(s) : s[i] = t[i]
           T == {j \in 0..n : k + j <= n => Begins(ReportTo(diffs, k), ReportTo(diffs, k + j))}
<1>3. 0 \in T
  <2>1. k + 0 = k /\ Len(ReportTo(diffs, k)) \in Nat
    BY <1>1, <1>2, LenProperties
  <2> QED BY <1>1, <2>1
<1>4. ASSUME NEW j \in 1..n, j - 1 \in T PROVE j \in T
  <2> SUFFICES ASSUME k + j <= n PROVE Begins(ReportTo(diffs, k), ReportTo(diffs, k + j))
    OBVIOUS
  <2>1. PICK i \in Nat : i = k + (j - 1)
    OBVIOUS
  <2>2. i < Len(diffs) /\ i + 1 = k + j /\ i \in 0..n /\ i + 1 \in 1..Len(diffs) /\ k + (j - 1) <= n
    BY <1>1, <2>1
  <2>3. PICK s, t, u : s = ReportTo(diffs, k) /\ t = ReportTo(diffs, i) /\ u = Reported(diffs, i + 1)
    OBVIOUS
  <2>4. s \in Seq(DiffRecords) /\ t \in Seq(DiffRecords) /\ u \in Seq(DiffRecords)
    BY <1>1, <1>2, <2>2, <2>3, ReportedSeq
  <2>5. ReportTo(diffs, k + j) = t \o u
    BY <2>2, <2>3, ReportGrows
  <2>6. Begins(s, t)
    BY <1>4, <2>1, <2>2, <2>3
  <2>7. /\ Len(t \o u) = Len(t) + Len(u) /\ Len(t) \in Nat /\ Len(u) \in Nat /\ Len(s) \in Nat
        /\ \A x \in 1..Len(t) + Len(u) : (t \o u)[x] = IF x <= Len(t) THEN t[x] ELSE u[x - Len(t)]
    BY <2>4, ConcatProperties, LenProperties
  <2>8. ASSUME NEW x \in 1..Len(s) PROVE s[x] = (t \o u)[x]
    <3>1. x \in 1..Len(t) + Len(u) /\ x <= Len(t)
      BY <2>6, <2>7
    <3>2. (t \o u)[x] = t[x]
      BY <2>7, <3>1
    <3> QED BY <2>6, <3>2
  <2>9. Len(s) <= Len(t \o u)
    BY <2>6, <2>7
  <2>10. Begins(s, t \o u)
    BY <2>8, <2>9
  <2> HIDE DEF Begins
  <2> QED BY <2>3, <2>5, <2>10
<1>5. n - k \in T
  <2> HIDE DEF T
  <2>1. n - k \in 0..n
    BY <1>1
  <2> QED BY <1>3, <1>4, <2>1, Counting
<1>6. k + (n - k) = n /\ n <= n
  BY <1>1
<1>7. Begins(ReportTo(diffs, k), ReportTo(diffs, n))
  BY <1>5, <1>6
<1> QED BY <1>1, <1>2, <1>7, ReportOfNone

-----------------------------------------------------------------------------
(* The first of a part of a sequence, and what is left without it.         *)
LEMMA Shorter ==
    ASSUME NEW A, NEW s \in Seq(A), NEW a \in Nat, NEW b \in Nat, a < b, b <= Len(s)
    PROVE  /\ SubSeq(s, a + 1, b) # <<>> /\ Head(SubSeq(s, a + 1, b)) = s[a + 1]
           /\ Tail(SubSeq(s, a + 1, b)) = SubSeq(s, a + 1 + 1, b)
<1>1. PICK t, m, u : t = SubSeq(s, a + 1, b) /\ m = a + 1 /\ u = SubSeq(s, m + 1, b)
  OBVIOUS
<1>2. t \in Seq(A) /\ Len(t) = b - a /\ \A k \in 1..b - a : t[k] = s[a + k]
  <2>1. a <= b
    OBVIOUS
  <2> QED BY <1>1, <2>1, Stretch
<1>3. u \in Seq(A) /\ Len(u) = b - m /\ \A k \in 1..b - m : u[k] = s[m + k]
  <2>1. m \in Nat /\ m <= b
    BY <1>1
  <2> QED BY <1>1, <2>1, Stretch
<1>4. t # <<>> /\ 1 \in 1..b - a
  <2>1. Len(t) # 0
    BY <1>2
  <2> QED BY <2>1, EmptySeq
<1>5. Head(t) = t[1] /\ t[1] = s[a + 1]
  BY <1>2, <1>4, HeadTailProperties
<1>6. Tail(t) \in Seq(A) /\ Len(Tail(t)) = Len(t) - 1 /\ \A k \in 1..Len(Tail(t)) : Tail(t)[k] = t[k + 1]
  BY <1>2, <1>4, HeadTailProperties
<1>7. Len(Tail(t)) = Len(u)
  BY <1>1, <1>2, <1>3, <1>6
<1>8. ASSUME NEW k \in 1..Len(Tail(t)) PROVE Tail(t)[k] = u[k]
  <2>1. k + 1 \in 1..b - a /\ a + (k + 1) = m + k /\ k \in 1..b - m
    BY <1>1, <1>2, <1>3, <1>6, <1>7
  <2>2. Tail(t)[k] = t[k + 1] /\ t[k + 1] = s[a + (k + 1)] /\ u[k] = s[m + k]
    BY <1>2, <1>3, <1>6, <2>1
  <2> QED BY <2>1, <2>2, Zenon
<1>9. Tail(t) = u
  BY <1>3, <1>6, <1>7, <1>8, SeqEqual
<1> QED BY <1>1, <1>4, <1>5, <1>9

(* What it is to be a prefix.                                              *)
LEMMA PrefixIs ==
    ASSUME NEW A, NEW s \in Seq(A), NEW t \in Seq(A)
    PROVE  IsPrefix(s, t) <=> Len(s) <= Len(t) /\ \A k \in 1..Len(s) : t[k] = s[k]
<1>1. PICK n, u, v : n = Len(s) /\ u = SubSeq(s, 0 + 1, n) /\ v = SubSeq(t, 0 + 1, n)
  OBVIOUS
<1>2. n \in Nat /\ Len(t) \in Nat /\ 0 <= n /\ n <= Len(s) /\ 0 \in Nat
  BY <1>1, LenProperties
<1>3. SUFFICES ASSUME n <= Len(t) PROVE u = v <=> \A k \in 1..n : t[k] = s[k]
  <2>1. 0 + 1 = 1
    OBVIOUS
  <2>2. IsPrefix(s, t) <=> n <= Len(t) /\ u = v
    BY <1>1, <2>1 DEF IsPrefix
  <2> QED BY <1>1, <2>2
<1>4. u \in Seq(A) /\ Len(u) = n - 0 /\ \A k \in 1..n - 0 : u[k] = s[0 + k]
  BY <1>1, <1>2, Stretch
<1>5. v \in Seq(A) /\ Len(v) = n - 0 /\ \A k \in 1..n - 0 : v[k] = t[0 + k]
  BY <1>1, <1>2, <1>3, Stretch
<1>6. Len(u) = n /\ Len(v) = n /\ \A k \in 1..n : u[k] = s[k] /\ v[k] = t[k]
  BY <1>2, <1>4, <1>5
<1>7. ASSUME u = v PROVE \A k \in 1..n : t[k] = s[k]
  BY <1>6, <1>7
<1>8. ASSUME \A k \in 1..n : t[k] = s[k] PROVE u = v
  <2>1. \A k \in 1..Len(u) : u[k] = v[k]
    BY <1>6, <1>8
  <2>2. Len(u) = Len(v)
    BY <1>6
  <2> QED BY <1>4, <1>5, <2>1, <2>2, SeqEqual
<1> QED BY <1>7, <1>8

(* A log's parser: what it will send in all, full, has been sent up to     *)
(* sent, and the last of that is in its channel.  As long as no git        *)
(* process failed, full is what the parser sends of the whole log.         *)
LogType ==
    [at : {"parsing", "cut", "closed"}, commits : Pieces, sent : Nat,
     rest : Seq(DiffRecords), chan : Seq(DiffRecords)]

(* Nothing failed.                                                         *)
Fine(failed) == failed = 0

(* All the diffs a log is about to give: those of its whole output, unless *)
(* it was cut.                                                             *)
FullOf(l, full, failed) ==
    full = OutputOf(l.commits).whole \/ (~Fine(failed) /\ full \in OutputOf(l.commits).cuts)

(* Of full, n diffs have left the channel.                                 *)
Carries(l, full, n, failed) ==
    /\ FullOf(l, full, failed) /\ (l.at = "parsing" => full = OutputOf(l.commits).whole)
    /\ n \in Nat /\ n <= l.sent /\ l.sent <= Len(full)
    /\ l.at = "closed" => l.sent = Len(full)
    /\ l.rest = SubSeq(full, l.sent + 1, Len(full))
    /\ l.chan = SubSeq(full, n + 1, l.sent)

(* Each diff is of one of the commits.                                     *)
AreOf(diffs, g) == \A i \in 1..Len(diffs) : \E j \in DOMAIN g : diffs[i].commit = g[j].hash

(* What the parser's promise says of it.                                   *)
LEMMA FullIs ==
    ASSUME ParserIsRight, NEW l \in LogType, NEW failed, NEW full, FullOf(l, full, failed)
    PROVE  /\ full \in Seq(DiffRecords) /\ Len(full) \in Nat
           /\ Follows(Report(full), Expected(l.commits))
           /\ Fine(failed) => Report(full) = Expected(l.commits)
           /\ AreOf(full, l.commits)
<1>1. PICK g, out : g = l.commits /\ out = OutputOf(g)
  OBVIOUS
<1>2. ReadsRight(g)
  BY <1>1 DEF ParserIsRight, LogType
<1>3. full \in out.cuts \cup {out.whole} /\ (Fine(failed) => full = out.whole)
  BY <1>1 DEF FullOf
<1>4. /\ full \in Seq(DiffRecords) /\ Follows(Report(full), Expected(g))
      /\ \A i \in DOMAIN full : \E j \in DOMAIN g : full[i].commit = g[j].hash
      /\ Report(out.whole) = Expected(g)
  BY <1>1, <1>2, <1>3 DEF ReadsRight
<1>5. Len(full) \in Nat /\ DOMAIN full = 1..Len(full)
  BY <1>4, LenProperties
<1>6. AreOf(full, g)
  BY <1>4, <1>5 DEF AreOf
<1> QED BY <1>1, <1>3, <1>4, <1>5, <1>6

(* What is in a log that carries full.                                     *)
LEMMA CarriesIs ==
    ASSUME ParserIsRight, NEW l \in LogType, NEW failed, NEW full, NEW n, Carries(l, full, n, failed)
    PROVE  /\ full \in Seq(DiffRecords) /\ Len(full) \in Nat
           /\ l.sent \in 0..Len(full) /\ n \in 0..l.sent
           /\ l.rest = <<>> <=> l.sent = Len(full)
           /\ l.rest # <<>> => Head(l.rest) = full[l.sent + 1]
                               /\ Tail(l.rest) = SubSeq(full, l.sent + 1 + 1, Len(full))
           /\ l.chan = <<>> <=> n = l.sent
           /\ l.chan # <<>> => Head(l.chan) = full[n + 1]
                               /\ Tail(l.chan) = SubSeq(full, n + 1 + 1, l.sent)
<1>1. full \in Seq(DiffRecords) /\ Len(full) \in Nat
  BY FullIs DEF Carries
<1>2. PICK s, m : s = l.sent /\ m = Len(full)
  OBVIOUS
<1>3. s \in Nat /\ m \in Nat /\ n \in Nat /\ n <= s /\ s <= m /\ s <= Len(full) /\ m <= Len(full)
  BY <1>1, <1>2 DEF Carries, LogType
<1>4. l.rest = SubSeq(full, s + 1, m) /\ l.chan = SubSeq(full, n + 1, s)
  BY <1>2 DEF Carries
<1>5. l.rest \in Seq(DiffRecords) /\ Len(l.rest) = m - s
  BY <1>1, <1>3, <1>4, Stretch
<1>6. l.chan \in Seq(DiffRecords) /\ Len(l.chan) = s - n
  BY <1>1, <1>3, <1>4, Stretch
<1>7. l.rest = <<>> <=> s = m
  BY <1>3, <1>5, EmptySeq
<1>8. l.chan = <<>> <=> n = s
  BY <1>3, <1>6, EmptySeq
<1>9. ASSUME l.rest # <<>>
      PROVE  Head(l.rest) = full[s + 1] /\ Tail(l.rest) = SubSeq(full, s + 1 + 1, m)
  <2>1. s < m
    BY <1>3, <1>7, <1>9
  <2> QED BY <1>1, <1>3, <1>4, <2>1, Shorter
<1>10. ASSUME l.chan # <<>>
       PROVE  Head(l.chan) = full[n + 1] /\ Tail(l.chan) = SubSeq(full, n + 1 + 1, s)
  <2>1. n < s
    BY <1>3, <1>8, <1>10
  <2> QED BY <1>1, <1>3, <1>4, <2>1, Shorter
<1>11. s \in 0..m /\ n \in 0..s
  BY <1>3
<1> QED BY <1>1, <1>2, <1>7, <1>8, <1>9, <1>10, <1>11

(* It goes on carrying it when a diff is sent, or taken, and when the      *)
(* parser's goroutine ends.                                                *)
LEMMA CarriesSends ==
    ASSUME ParserIsRight, NEW l \in LogType, NEW failed, NEW full, NEW n, Carries(l, full, n, failed),
           l.rest # <<>>, NEW r,
           r = [l EXCEPT !.rest = Tail(l.rest), !.sent = l.sent + 1,
                         !.chan = Append(l.chan, Head(l.rest))]
    PROVE  /\ r \in LogType /\ Carries(r, full, n, failed)
           /\ Len(r.chan) = Len(l.chan) + 1 /\ r.at = l.at /\ r.commits = l.commits
           /\ l.at # "closed"
<1>1. PICK s, m : s = l.sent /\ m = Len(full)
  OBVIOUS
<1>2. PICK rest, chan : rest = Tail(l.rest) /\ chan = Append(l.chan, Head(l.rest))
  OBVIOUS
<1>3. /\ full \in Seq(DiffRecords) /\ m \in Nat /\ s \in 0..m /\ n \in 0..s /\ s # m
      /\ Head(l.rest) = full[s + 1] /\ rest = SubSeq(full, s + 1 + 1, m)
  BY <1>1, <1>2, CarriesIs
<1>4. n \in Nat /\ s \in Nat /\ n <= s /\ s < Len(full) /\ s + 1 <= m
  BY <1>1, <1>3
<1>5. l.chan = SubSeq(full, n + 1, s) /\ l.at # "closed"
  BY <1>1, <1>3 DEF Carries
<1>6. chan = SubSeq(full, n + 1, s + 1)
  <2>1. SubSeq(full, n + 1, s + 1) = Append(SubSeq(full, n + 1, s), full[s + 1])
    BY <1>3, <1>4, Longer
  <2> QED BY <1>2, <1>3, <1>5, <2>1
<1>7. /\ l.rest \in Seq(DiffRecords) /\ l.chan \in Seq(DiffRecords)
      /\ rest \in Seq(DiffRecords) /\ chan \in Seq(DiffRecords) /\ Len(chan) = Len(l.chan) + 1
  <2>1. l.rest \in Seq(DiffRecords) /\ l.chan \in Seq(DiffRecords)
    BY DEF LogType
  <2>2. rest \in Seq(DiffRecords) /\ Head(l.rest) \in DiffRecords
    BY <1>2, <2>1, HeadTailProperties
  <2> QED BY <1>2, <2>1, <2>2, AppendProperties
<1>8. r = [l EXCEPT !.rest = rest, !.sent = s + 1, !.chan = chan]
  BY <1>1, <1>2
<1>9. /\ r.rest = rest /\ r.sent = s + 1 /\ r.chan = chan /\ r.at = l.at /\ r.commits = l.commits
      /\ r \in LogType
  <2>1. s + 1 \in Nat
    BY <1>4
  <2> QED BY <1>7, <1>8, <2>1 DEF LogType
<1>10. Carries(r, full, n, failed)
  <2>1. FullOf(r, full, failed) /\ (r.at = "parsing" => full = OutputOf(r.commits).whole)
    BY <1>9 DEF Carries, FullOf
  <2>2. n <= r.sent /\ r.sent <= Len(full)
    BY <1>1, <1>4, <1>9
  <2>3. r.chan = SubSeq(full, n + 1, r.sent) /\ r.rest = SubSeq(full, r.sent + 1, Len(full))
    BY <1>1, <1>3, <1>6, <1>9
  <2> QED BY <1>4, <1>5, <1>9, <2>1, <2>2, <2>3 DEF Carries
<1> QED BY <1>5, <1>7, <1>9, <1>10

(* A diff is taken from the channel.                                       *)
LEMMA CarriesTaken ==
    ASSUME ParserIsRight, NEW l \in LogType, NEW failed, NEW full, NEW n, Carries(l, full, n, failed),
           l.chan # <<>>, NEW r, r = [l EXCEPT !.chan = Tail(l.chan)]
    PROVE  /\ r \in LogType /\ Carries(r, full, n + 1, failed) /\ n + 1 \in 1..Len(full)
           /\ Head(l.chan) = full[n + 1] /\ Head(l.chan) \in DiffRecords
           /\ Len(r.chan) < Len(l.chan) /\ r.at = l.at /\ r.commits = l.commits
<1>1. PICK s, m, chan : s = l.sent /\ m = Len(full) /\ chan = Tail(l.chan)
  OBVIOUS
<1>2. /\ full \in Seq(DiffRecords) /\ m \in Nat /\ s \in 0..m /\ n \in 0..s /\ s # n
      /\ Head(l.chan) = full[n + 1] /\ chan = SubSeq(full, n + 1 + 1, s)
  BY <1>1, CarriesIs
<1>3. n + 1 \in Nat /\ n + 1 <= s /\ n + 1 \in 1..m
  BY <1>2
<1>4. l.chan \in Seq(DiffRecords) /\ chan \in Seq(DiffRecords) /\ Len(chan) < Len(l.chan) /\ Head(l.chan) \in DiffRecords
  <2>1. l.chan \in Seq(DiffRecords)
    BY DEF LogType
  <2>2. chan \in Seq(DiffRecords) /\ Len(chan) = Len(l.chan) - 1 /\ Head(l.chan) \in DiffRecords
    BY <1>1, <2>1, HeadTailProperties
  <2>3. Len(l.chan) \in Nat
    BY <2>1, LenProperties
  <2> QED BY <2>1, <2>2, <2>3
<1>5. r = [l EXCEPT !.chan = chan]
  BY <1>1
<1>6. /\ r.rest = l.rest /\ r.sent = l.sent /\ r.chan = chan /\ r.at = l.at /\ r.commits = l.commits
      /\ r \in LogType
  BY <1>4, <1>5 DEF LogType
<1>7. Carries(r, full, n + 1, failed)
  BY <1>1, <1>2, <1>3, <1>6 DEF Carries, FullOf
<1> QED BY <1>1, <1>2, <1>3, <1>4, <1>6, <1>7

(* The parser closes the channel.                                          *)
LEMMA CarriesEnds ==
    ASSUME ParserIsRight, NEW l \in LogType, NEW failed, NEW full, NEW n, Carries(l, full, n, failed),
           l.rest = <<>>, NEW r, r = [l EXCEPT !.at = "closed"]
    PROVE  /\ r \in LogType /\ Carries(r, full, n, failed)
           /\ r.at = "closed" /\ r.chan = l.chan /\ r.commits = l.commits
<1>1. l.sent = Len(full)
  BY CarriesIs
<1>2. /\ r.rest = l.rest /\ r.sent = l.sent /\ r.chan = l.chan /\ r.at = "closed" /\ r.commits = l.commits
      /\ r \in LogType
  BY DEF LogType
<1>3. Carries(r, full, n, failed)
  BY <1>1, <1>2 DEF Carries, FullOf
<1> QED BY <1>2, <1>3

(* A log may be cut so that it sends cut in all.                           *)
CutTo(l, r, cut) ==
    /\ l.at = "parsing" /\ cut \in OutputOf(l.commits).cuts
    /\ IsPrefix(SubSeq(OutputOf(l.commits).whole, 1, l.sent), cut)
    /\ r = [l EXCEPT !.at = "cut", !.rest = SubSeq(cut, l.sent + 1, Len(cut))]

(* A log that is cut carries the start of what it carried, or more of it.  *)
LEMMA CarriesCut ==
    ASSUME ParserIsRight, NEW l \in LogType, NEW failed, NEW full, NEW n, Carries(l, full, n, failed),
           NEW more, ~Fine(more), NEW cut, NEW r, CutTo(l, r, cut)
    PROVE  /\ r \in LogType /\ Carries(r, cut, n, more) /\ r.chan = l.chan /\ r.at = "cut"
           /\ r.commits = l.commits
           /\ cut \in Seq(DiffRecords) /\ n <= Len(cut) /\ \A i \in 1..n : cut[i] = full[i]
<1>17. /\ l.at = "parsing" /\ cut \in OutputOf(l.commits).cuts
       /\ IsPrefix(SubSeq(OutputOf(l.commits).whole, 1, l.sent), cut)
       /\ r = [l EXCEPT !.at = "cut", !.rest = SubSeq(cut, l.sent + 1, Len(cut))]
  BY DEF CutTo
<1>1. PICK s, m, p : s = l.sent /\ m = Len(full) /\ p = SubSeq(full, 0 + 1, s)
  OBVIOUS
<1>2. /\ full \in Seq(DiffRecords) /\ m \in Nat /\ s \in 0..m /\ n \in 0..s
      /\ full = OutputOf(l.commits).whole /\ l.chan = SubSeq(full, n + 1, s)
  BY <1>1, <1>17, CarriesIs DEF Carries
<1>3. FullOf(l, cut, more)
  BY <1>17 DEF FullOf
<1>4. cut \in Seq(DiffRecords) /\ Len(cut) \in Nat
  BY <1>3, FullIs
<1>5. s \in Nat /\ n \in Nat /\ n <= s /\ 0 <= s /\ s <= m /\ s <= Len(full) /\ 0 \in Nat
  BY <1>1, <1>2
<1>6. p \in Seq(DiffRecords) /\ Len(p) = s - 0 /\ \A k \in 1..s - 0 : p[k] = full[0 + k]
  <2>1. full \in Seq(DiffRecords) /\ s \in Nat /\ 0 \in Nat /\ 0 <= s /\ s <= Len(full)
    BY <1>2, <1>5
  <2>2. PICK a : a = 0
    OBVIOUS
  <2>3. p = SubSeq(full, a + 1, s)
    BY <1>1, <2>2
  <2>4. p \in Seq(DiffRecords) /\ Len(p) = s - a /\ \A k \in 1..s - a : p[k] = full[a + k]
    BY <2>1, <2>2, <2>3, Stretch
  <2> QED BY <2>2, <2>4
<1>7. Len(p) = s /\ \A k \in 1..s : p[k] = full[k]
  BY <1>5, <1>6
<1>8. IsPrefix(p, cut)
  <2>1. 0 + 1 = 1
    OBVIOUS
  <2> QED BY <1>1, <1>2, <1>17, <2>1
<1>9. s <= Len(cut) /\ \A k \in 1..s : cut[k] = full[k]
  BY <1>4, <1>6, <1>7, <1>8, PrefixIs
<1>10. SubSeq(full, n + 1, s) = SubSeq(cut, n + 1, s)
  <2>1. PICK t, u : t = SubSeq(full, n + 1, s) /\ u = SubSeq(cut, n + 1, s)
    OBVIOUS
  <2>2. t \in Seq(DiffRecords) /\ Len(t) = s - n /\ \A k \in 1..s - n : t[k] = full[n + k]
    BY <1>2, <1>5, <2>1, Stretch
  <2>3. u \in Seq(DiffRecords) /\ Len(u) = s - n /\ \A k \in 1..s - n : u[k] = cut[n + k]
    BY <1>4, <1>5, <1>9, <2>1, Stretch
  <2>4. ASSUME NEW k \in 1..Len(t) PROVE t[k] = u[k]
    <3>1. n + k \in 1..s /\ k \in 1..s - n
      BY <1>5, <2>2
    <3> QED BY <1>9, <2>2, <2>3, <3>1
  <2>5. t = u
    BY <2>2, <2>3, <2>4, SeqEqual
  <2> QED BY <2>1, <2>5
<1>11. PICK rest : rest = SubSeq(cut, s + 1, Len(cut))
  OBVIOUS
<1>12. rest \in Seq(DiffRecords)
  BY <1>4, <1>5, <1>9, <1>11, Stretch
<1>13. r = [l EXCEPT !.at = "cut", !.rest = rest]
  BY <1>1, <1>11, <1>17
<1>14. /\ r.rest = rest /\ r.sent = s /\ r.chan = l.chan /\ r.at = "cut" /\ r.commits = l.commits
       /\ r \in LogType
  BY <1>1, <1>12, <1>13 DEF LogType
<1>15. Carries(r, cut, n, more)
  <2>1. r.chan = SubSeq(cut, n + 1, r.sent)
    BY <1>2, <1>10, <1>14
  <2> QED BY <1>5, <1>9, <1>11, <1>14, <1>17, <2>1 DEF Carries, FullOf
<1>16. n <= Len(cut) /\ \A i \in 1..n : cut[i] = full[i]
  BY <1>4, <1>5, <1>9
<1> QED BY <1>4, <1>14, <1>15, <1>16

(* A log that is started carries what its parser says of it.               *)
LEMMA CarriesStarts ==
    ASSUME ParserIsRight, NEW g \in Pieces, NEW failed
    PROVE  /\ Log(g) \in LogType /\ Carries(Log(g), OutputOf(g).whole, 0, failed)
           /\ Log(g).at = "parsing" /\ Log(g).commits = g /\ Log(g).chan = <<>> /\ Len(Log(g).chan) = 0
<1>1. PICK full, m : full = OutputOf(g).whole /\ m = Len(full)
  OBVIOUS
<1>2. full \in Seq(DiffRecords)
  <2>1. ReadsRight(g)
    BY DEF ParserIsRight
  <2>2. PICK out : out = OutputOf(g)
    OBVIOUS
  <2>3. out.whole \in out.cuts \cup {out.whole}
    OBVIOUS
  <2> QED BY <1>1, <2>1, <2>2, <2>3 DEF ReadsRight
<1>3. m \in Nat /\ <<>> \in Seq(DiffRecords) /\ Len(<<>>) = 0 /\ 0 \in Nat /\ 0 <= 0 /\ 0 <= m /\ m <= Len(full)
  BY <1>1, <1>2, LenProperties, EmptySeq
<1>4. SubSeq(full, 0 + 1, m) = full
  <2>1. PICK t : t = SubSeq(full, 0 + 1, m)
    OBVIOUS
  <2>2. t \in Seq(DiffRecords) /\ Len(t) = m - 0 /\ \A k \in 1..m - 0 : t[k] = full[0 + k]
    BY <1>2, <1>3, <2>1, Stretch
  <2>3. Len(t) = m /\ \A k \in 1..m : t[k] = full[k]
    BY <1>3, <2>2
  <2>4. t = full
    BY <1>1, <1>2, <2>2, <2>3, SeqEqual
  <2> QED BY <2>1, <2>4
<1>5. SubSeq(full, 0 + 1, 0) = <<>>
  <2>1. PICK t : t = SubSeq(full, 0 + 1, 0)
    OBVIOUS
  <2>2. 0 <= Len(full)
    BY <1>1, <1>3
  <2>3. t \in Seq(DiffRecords) /\ Len(t) = 0 - 0
    BY <1>2, <1>3, <2>1, <2>2, Stretch
  <2> QED BY <2>1, <2>3, EmptySeq
<1>6. PICK l : l = Log(g)
  OBVIOUS
<1>7. l = [at |-> "parsing", commits |-> g, sent |-> 0, rest |-> full, chan |-> <<>>]
  BY <1>1, <1>6 DEF Log
<1>8. l.at = "parsing" /\ l.commits = g /\ l.sent = 0 /\ l.rest = full /\ l.chan = <<>> /\ l \in LogType
  BY <1>2, <1>3, <1>7 DEF LogType
<1>9. Carries(l, full, 0, failed)
  BY <1>1, <1>3, <1>4, <1>5, <1>8 DEF Carries, FullOf
<1> QED BY <1>1, <1>3, <1>6, <1>8, <1>9
-----------------------------------------------------------------------------
(* A sequence of what was reported fits to the first n of what the history *)
(* says: each is part of an entry of its own, in the order of the entries. *)
FitsTo(h, s, n) ==
    \E place \in [1..Len(s) -> 1..n] :
       /\ \A i, j \in 1..Len(s) : i < j => place[i] < place[j]
       /\ \A i \in 1..Len(s) : PartOf(s[i], All(h)[place[i]])

(* A report of nothing fits everywhere.                                    *)
LEMMA FitsNone == \A h : \A n \in Nat : FitsTo(h, <<>>, n)
<1> SUFFICES ASSUME NEW h, NEW n \in Nat PROVE FitsTo(h, <<>>, n)
  OBVIOUS
<1> DEFINE place == [i \in 1..0 |-> 1]
<1>1. Len(<<>>) = 0 /\ 1..0 = {}
  BY EmptySeq
<1>2. place \in [1..0 -> 1..n]
  BY <1>1
<1> QED BY <1>1, <1>2 DEF FitsTo

(* What fits to the entries that follow may be joined to it.               *)
LEMMA FitsJoin ==
    ASSUME NEW h, NEW s \in Seq(DiffRecords), NEW u \in Seq(DiffRecords),
           NEW n \in Nat, NEW m \in Nat, FitsTo(h, s, n), n + Len(u) <= m,
           \A i \in 1..Len(u) : PartOf(u[i], All(h)[n + i])
    PROVE  FitsTo(h, s \o u, m)
<1>1. PICK all, x, y : all = All(h) /\ x = Len(s) /\ y = Len(u)
  OBVIOUS
<1>2. PICK p \in [1..x -> 1..n] :
          /\ \A i, j \in 1..x : i < j => p[i] < p[j]
          /\ \A i \in 1..x : PartOf(s[i], all[p[i]])
  BY <1>1 DEF FitsTo
<1>3. x \in Nat /\ y \in Nat /\ n + y <= m
  BY <1>1, LenProperties
<1>4. PICK w : w = s \o u
  OBVIOUS
<1>5. Len(w) = x + y /\ \A i \in 1..x + y : w[i] = IF i <= x THEN s[i] ELSE u[i - x]
  BY <1>1, <1>4, ConcatProperties
<1>6. PICK q : q = [i \in 1..x + y |-> IF i <= x THEN p[i] ELSE n + (i - x)]
  OBVIOUS
<1>7. \A i \in 1..x + y : i <= x => i \in 1..x /\ p[i] \in 1..n /\ q[i] = p[i] /\ w[i] = s[i]
  <2> SUFFICES ASSUME NEW i \in 1..x + y, i <= x
               PROVE  i \in 1..x /\ p[i] \in 1..n /\ q[i] = p[i] /\ w[i] = s[i]
    OBVIOUS
  <2>1. i \in 1..x
    BY <1>3
  <2>2. q[i] = p[i]
    BY <1>6
  <2>3. w[i] = s[i]
    BY <1>5
  <2> QED BY <1>2, <2>1, <2>2, <2>3
<1>8. \A i \in 1..x + y : ~(i <= x) => i - x \in 1..y /\ q[i] = n + (i - x) /\ w[i] = u[i - x]
  BY <1>3, <1>5, <1>6
<1>9. ASSUME NEW i \in 1..x + y PROVE q[i] \in 1..m /\ PartOf(w[i], all[q[i]])
  <2>1. CASE i <= x
    <3>1. q[i] = p[i] /\ w[i] = s[i] /\ i \in 1..x /\ p[i] \in 1..n
      BY <1>7, <2>1
    <3>2. PartOf(s[i], all[p[i]])
      BY <1>2, <3>1
    <3>3. q[i] \in 1..m
      BY <1>3, <3>1
    <3> QED BY <3>1, <3>2, <3>3, Zenon
  <2>2. CASE ~(i <= x)
    <3>1. PICK k : k = i - x
      OBVIOUS
    <3>2. k \in 1..y /\ q[i] = n + k /\ w[i] = u[k]
      BY <1>8, <2>2, <3>1
    <3>3. PartOf(u[k], all[n + k])
      BY <1>1, <3>2
    <3>4. q[i] \in 1..m
      BY <1>3, <3>2
    <3> QED BY <3>2, <3>3, <3>4, Zenon
  <2> QED BY <2>1, <2>2
<1>10. ASSUME NEW i \in 1..x + y, NEW j \in 1..x + y, i < j PROVE q[i] < q[j]
  <2>1. CASE j <= x
    <3>1. i <= x
      BY <1>3, <1>10, <2>1
    <3> QED BY <1>2, <1>7, <1>10, <2>1, <3>1
  <2>2. CASE ~(j <= x) /\ i <= x
    <3>1. q[i] \in 1..n /\ q[j] = n + (j - x) /\ j - x \in 1..y
      BY <1>7, <1>8, <2>2
    <3> QED BY <1>3, <3>1
  <2>3. CASE ~(j <= x) /\ ~(i <= x)
    <3>1. q[i] = n + (i - x) /\ q[j] = n + (j - x)
      BY <1>8, <2>3
    <3> QED BY <1>3, <1>10, <3>1
  <2> QED BY <2>1, <2>2, <2>3
<1>11. q \in [1..x + y -> 1..m]
  BY <1>6, <1>9
<1> QED BY <1>1, <1>4, <1>5, <1>9, <1>10, <1>11 DEF FitsTo

(* What fits to the first entries fits to more of them.                    *)
LEMMA FitsMore ==
    ASSUME NEW h, NEW s, NEW n \in Nat, NEW m \in Nat, FitsTo(h, s, n), n <= m
    PROVE  FitsTo(h, s, m)
<1>1. PICK p \in [1..Len(s) -> 1..n] :
          /\ \A i, j \in 1..Len(s) : i < j => p[i] < p[j]
          /\ \A i \in 1..Len(s) : PartOf(s[i], All(h)[p[i]])
  BY DEF FitsTo
<1>2. p \in [1..Len(s) -> 1..m]
  <2>1. \A k \in 1..n : k \in 1..m
    OBVIOUS
  <2> QED BY <2>1
<1> QED BY <1>1, <1>2 DEF FitsTo

-----------------------------------------------------------------------------
(* What full is to the commits a + 1 to b of a history: it reports what    *)
(* these say or, after a failure, the start of it.                         *)
Piece(h, a, b, full, failed) ==
    /\ full \in Seq(DiffRecords)
    /\ Follows(Report(full), Expected(SubSeq(h, a + 1, b)))
    /\ Fine(failed) => Report(full) = Expected(SubSeq(h, a + 1, b))
    /\ \A i \in 1..Len(full) : \E j \in a + 1..b : full[i].commit = h[j].hash

(* What a log carries is a piece, if the log is of those commits.          *)
LEMMA PieceIs ==
    ASSUME ParserIsRight, NEW h \in Histories, NEW a \in Nat, NEW b \in Nat, a <= b, b <= Len(h),
           NEW l \in LogType, l.commits = SubSeq(h, a + 1, b),
           NEW failed, NEW full, FullOf(l, full, failed)
    PROVE  Piece(h, a, b, full, failed)
<1>1. PICK g : g = SubSeq(h, a + 1, b)
  OBVIOUS
<1>2. /\ full \in Seq(DiffRecords)
      /\ Follows(Report(full), Expected(g)) /\ (Fine(failed) => Report(full) = Expected(g))
      /\ \A i \in 1..Len(full) : \E j \in DOMAIN g : full[i].commit = g[j].hash
  <2>1. /\ full \in Seq(DiffRecords) /\ AreOf(full, l.commits)
        /\ Follows(Report(full), Expected(l.commits))
        /\ Fine(failed) => Report(full) = Expected(l.commits)
    BY FullIs
  <2>2. l.commits = g
    BY <1>1
  <2> QED BY <2>1, <2>2 DEF AreOf
<1>3. PICK S : h \in Seq(S)
  BY HistoryIs
<1>4. g \in Seq(S) /\ Len(g) = b - a /\ \A k \in 1..b - a : g[k] = h[a + k]
  BY <1>1, <1>3, Stretch
<1>5. DOMAIN g = 1..b - a
  BY <1>4, LenProperties
<1>6. ASSUME NEW i \in 1..Len(full) PROVE \E j \in a + 1..b : full[i].commit = h[j].hash
  <2>1. PICK k \in 1..b - a : full[i].commit = g[k].hash
    BY <1>2, <1>5
  <2>2. a + k \in a + 1..b /\ g[k] = h[a + k]
    BY <1>4
  <2> QED BY <2>1, <2>2
<1> QED BY <1>1, <1>2, <1>6 DEF Piece

(* Before the first log: no commits, no diffs.                             *)
LEMMA PieceOfNone ==
    ASSUME ParserIsRight, NEW h \in Histories, NEW failed
    PROVE  Piece(h, 0, 0, <<>>, failed)
<1>1. PICK e : e = <<>>
  OBVIOUS
<1>2. e \in Seq(DiffRecords) /\ Len(e) = 0 /\ DOMAIN e = {} /\ 1..0 = {} /\ Len(e) <= Len(e)
  BY <1>1, EmptySeq
<1>3. ReportTo(e, 0) = e /\ ReportTo(e, Len(e)) = Report(e)
  BY <1>1, <1>2, ReportOfNone
<1>4. Report(e) = e
  BY <1>2, <1>3
<1>5. SubSeq(h, 0 + 1, 0) = e /\ Expected(e) = e
  <2>1. 0 \in Nat
    OBVIOUS
  <2> QED BY <1>1, <2>1, ExpectedEmpty
<1>6. Expected(SubSeq(h, 0 + 1, 0)) = e
  BY <1>5
<1>7. Follows(e, e)
  BY <1>2 DEF Follows
<1> QED BY <1>1, <1>2, <1>4, <1>6, <1>7 DEF Piece

(* The entries that what is reported of a piece is part of.                *)
LEMMA PieceFits ==
    ASSUME ParserIsRight, NEW h \in Histories, NEW a \in 0..Len(h), NEW b \in 0..Len(h), a <= b,
           NEW full, NEW failed, Piece(h, a, b, full, failed), NEW t \in 0..Len(full)
    PROVE  /\ ReportTo(full, t) \in Seq(DiffRecords) /\ Len(ReportTo(full, t)) \in Nat
           /\ Len(Told(h)[a]) \in Nat /\ Len(Told(h)[b]) \in Nat
           /\ Len(Told(h)[a]) + Len(ReportTo(full, t)) <= Len(Told(h)[b])
           /\ \A i \in 1..Len(ReportTo(full, t)) :
                 PartOf(ReportTo(full, t)[i], All(h)[Len(Told(h)[a]) + i])
           /\ Fine(failed) => Told(h)[b] = Told(h)[a] \o Report(full)
<1>1. PICK r, f, e, x, y : /\ r = ReportTo(full, t) /\ f = Report(full)
                           /\ e = Expected(SubSeq(h, a + 1, b)) /\ x = Told(h)[a] /\ y = Told(h)[b]
  OBVIOUS
<1>2. /\ full \in Seq(DiffRecords) /\ Len(f) <= Len(e)
      /\ \A i \in DOMAIN f : PartOf(f[i], e[i])
      /\ Fine(failed) => f = e
  BY <1>1 DEF Piece, Follows
<1>3. r \in Seq(DiffRecords) /\ Len(r) <= Len(f) /\ \A i \in 1..Len(r) : r[i] = f[i]
  BY <1>1, <1>2, ReportStarts
<1>4. f \in Seq(DiffRecords)
  <2>1. Len(full) \in 0..Len(full)
    BY <1>2, LenProperties
  <2>2. ReportTo(full, Len(full)) \in Seq(DiffRecords)
    BY <1>2, <2>1, ReportStarts
  <2> QED BY <1>1, <1>2, <2>2, ReportOfNone
<1>5. e \in Seq(DiffRecords) /\ y = x \o e
  BY <1>1, ToldSplits
<1>6. x \in Seq(DiffRecords) /\ y \in Seq(DiffRecords)
  BY <1>1, ToldGrows
<1>7. PICK n, m, k : n = Len(x) /\ m = Len(e) /\ k = Len(r)
  OBVIOUS
<1>8. n \in Nat /\ m \in Nat /\ k \in Nat /\ Len(f) \in Nat /\ k <= m /\ DOMAIN f = 1..Len(f)
  BY <1>2, <1>3, <1>4, <1>5, <1>6, <1>7, LenProperties
<1>9. Len(y) = n + m /\ \A i \in 1..n + m : y[i] = IF i <= n THEN x[i] ELSE e[i - n]
  BY <1>5, <1>6, <1>7, ConcatProperties
<1>10. \A i \in 1..Len(y) : All(h)[i] = y[i]
  BY <1>1, AllIs
<1>11. ASSUME NEW i \in 1..k PROVE PartOf(r[i], All(h)[n + i])
  <2>1. n + i \in 1..n + m /\ ~(n + i <= n) /\ n + i - n = i /\ i \in 1..Len(f) /\ n + i \in 1..Len(y)
    BY <1>2, <1>3, <1>7, <1>8, <1>9
  <2>2. y[n + i] = e[i]
    <3>1. PICK j : j = n + i
      OBVIOUS
    <3>2. j \in 1..n + m /\ ~(j <= n) /\ j - n = i
      BY <1>8, <2>1, <3>1
    <3>3. y[j] = e[j - n]
      BY <1>9, <3>2
    <3> QED BY <3>1, <3>2, <3>3, Zenon
  <2>3. All(h)[n + i] = y[n + i] /\ r[i] = f[i]
    BY <1>3, <1>7, <1>10, <2>1
  <2>4. PartOf(f[i], e[i])
    BY <1>2, <1>8, <2>1
  <2> QED BY <2>2, <2>3, <2>4, Zenon
<1>12. n + k <= Len(y) /\ Len(y) \in Nat
  BY <1>8, <1>9
<1> QED BY <1>1, <1>2, <1>3, <1>5, <1>7, <1>8, <1>11, <1>12
-----------------------------------------------------------------------------
(* Where the scan is: it has reported what is before a piece of the        *)
(* history, commits a + 1 to b, and of the piece the first t diffs.        *)
Place(h, a, full, t) == Len(Told(h)[a]) + Len(ReportTo(full, t))

(* The depth is the number of commits begun, or less after a failure.      *)
Counts(h, depth, failed, n) ==
    depth \in Nat /\ depth <= Begun(h, n) /\ (Fine(failed) => depth = Begun(h, n))

(* The hash ScanCommits keeps is that of the last diff it took, and of     *)
(* none to come.                                                           *)
IsLast(h, last, a, full, t) ==
    IF t = 0 THEN \A i \in a + 1..Len(h) : last # h[i].hash ELSE last = full[t].commit

(* What was reported of the logs before the one that is read.              *)
Before(h, s, failed, a) ==
    s \in Seq(DiffRecords) /\ FitsTo(h, s, Len(Told(h)[a])) /\ (Fine(failed) => s = Told(h)[a])

(* Where ScanCommits is: it has reported the logs of commits 1 to a, and t *)
(* diffs of the log of a + 1 to b.                                         *)
Stage(h, s, depth, last, failed, a, b, full, t) ==
    /\ Piece(h, a, b, full, failed) /\ t \in 0..Len(full)
    /\ \E before : Before(h, before, failed, a) /\ s = before \o ReportTo(full, t)
    /\ Counts(h, depth, failed, Place(h, a, full, t))
    /\ IsLast(h, last, a, full, t)

(* At first nothing is reported.                                           *)
LEMMA StageStarts ==
    ASSUME ParserIsRight, NEW h \in Histories, NEW failed
    PROVE  Stage(h, <<>>, 0, NoCommit, failed, 0, 0, <<>>, 0)
<1>1. PICK e : e = <<>>
  OBVIOUS
<1>2. e \in Seq(DiffRecords) /\ Len(e) = 0 /\ 0 \in 0..0
  BY <1>1, EmptySeq
<1>3. Piece(h, 0, 0, e, failed) /\ ReportTo(e, 0) = e /\ Told(h)[0] = e
  BY <1>1, <1>2, PieceOfNone, ReportOfNone, ToldGrows
<1>4. e \o e = e
  BY <1>2, ConcatEmptySeq, <1>1
<1>5. FitsTo(h, e, 0)
  <2>1. 0 \in Nat
    OBVIOUS
  <2> QED BY <1>1, <2>1, FitsNone
<1>6. Before(h, e, failed, 0)
  BY <1>2, <1>3, <1>5 DEF Before
<1>7. Place(h, 0, e, 0) = 0
  BY <1>2, <1>3 DEF Place
<1>8. Begun(h, 0) = 0
  <2>1. 0 \in Nat
    OBVIOUS
  <2> QED BY <2>1, BegunIs
<1>9. Counts(h, 0, failed, Place(h, 0, e, 0))
  BY <1>7, <1>8 DEF Counts
<1>10. IsLast(h, NoCommit, 0, e, 0)
  <2>1. \A i \in 1..Len(h) : h[i].hash # NoCommit
    BY HistoryIs DEF ParserIsRight
  <2>2. 0 + 1 = 1
    OBVIOUS
  <2> QED BY <2>1, <2>2 DEF IsLast
<1>11. \E before : Before(h, before, failed, 0) /\ e = before \o ReportTo(e, 0)
  BY <1>3, <1>4, <1>6
<1>12. Stage(h, e, 0, NoCommit, failed, 0, 0, e, 0)
  BY <1>2, <1>3, <1>9, <1>10, <1>11 DEF Stage
<1> QED BY <1>1, <1>12

(* The first n entries.                                                    *)
IsFirst(h, s, n) == Len(s) = n /\ \A i \in 1..Len(s) : All(h)[i] = s[i]

(* What has been reported fits to the entries before its place.            *)
LEMMA StageFits ==
    ASSUME ParserIsRight, NEW h \in Histories, NEW a \in 0..Len(h), NEW b \in 0..Len(h), a <= b,
           NEW s, NEW depth, NEW last, NEW failed, NEW full, NEW t,
           Stage(h, s, depth, last, failed, a, b, full, t)
    PROVE  /\ s \in Seq(DiffRecords) /\ FitsTo(h, s, Place(h, a, full, t))
           /\ Place(h, a, full, t) \in Nat /\ Place(h, a, full, t) <= Len(Told(h)[b])
           /\ Fine(failed) => /\ IsFirst(h, s, Place(h, a, full, t))
                              /\ t = Len(full) => s = Told(h)[b]
<1>1. PICK r, x, y, n, k : /\ r = ReportTo(full, t) /\ x = Told(h)[a] /\ y = Told(h)[b]
                           /\ n = Len(x) /\ k = Len(r)
  OBVIOUS
<1>2. Piece(h, a, b, full, failed) /\ t \in 0..Len(full)
  BY DEF Stage
<1>3. PICK u : Before(h, u, failed, a) /\ s = u \o r
  BY <1>1 DEF Stage
<1>4. /\ r \in Seq(DiffRecords) /\ k \in Nat /\ n \in Nat /\ Len(y) \in Nat /\ n + k <= Len(y)
      /\ \A i \in 1..k : PartOf(r[i], All(h)[n + i])
      /\ Fine(failed) => y = x \o Report(full)
  <2>1. /\ ReportTo(full, t) \in Seq(DiffRecords) /\ Len(ReportTo(full, t)) \in Nat
        /\ Len(Told(h)[a]) \in Nat /\ Len(Told(h)[b]) \in Nat
        /\ Len(Told(h)[a]) + Len(ReportTo(full, t)) <= Len(Told(h)[b])
    BY <1>2, PieceFits
  <2>2. \A i \in 1..Len(ReportTo(full, t)) :
            PartOf(ReportTo(full, t)[i], All(h)[Len(Told(h)[a]) + i])
    BY <1>2, PieceFits
  <2>3. Fine(failed) => Told(h)[b] = Told(h)[a] \o Report(full)
    <3>1. Fine(failed) => Report(full) = Expected(SubSeq(h, a + 1, b))
      BY <1>2 DEF Piece
    <3>2. Told(h)[b] = Told(h)[a] \o Expected(SubSeq(h, a + 1, b))
      BY ToldSplits
    <3> QED BY <3>1, <3>2, Zenon
  <2> QED BY <1>1, <2>1, <2>2, <2>3
<1>5. u \in Seq(DiffRecords) /\ FitsTo(h, u, n) /\ (Fine(failed) => u = x)
  BY <1>1, <1>3 DEF Before
<1>6. Place(h, a, full, t) = n + k
  BY <1>1 DEF Place
<1>7. s \in Seq(DiffRecords)
  BY <1>3, <1>4, <1>5, ConcatProperties
<1>8. FitsTo(h, s, n + k)
  <2>1. n + k \in Nat /\ n + Len(r) <= n + k /\ \A i \in 1..Len(r) : PartOf(r[i], All(h)[n + i])
    BY <1>1, <1>4
  <2>2. FitsTo(h, u \o r, n + k)
    BY <1>4, <1>5, <2>1, FitsJoin
  <2> QED BY <1>3, <2>2
<1>9. ASSUME Fine(failed)
      PROVE  /\ Len(s) = n + k /\ \A i \in 1..Len(s) : All(h)[i] = s[i]
             /\ t = Len(full) => s = y
  <2>1. PICK f : f = Report(full)
    OBVIOUS
  <2>2. full \in Seq(DiffRecords)
    BY <1>2 DEF Piece
  <2>3. f \in Seq(DiffRecords)
    <3>1. Len(full) \in 0..Len(full)
      BY <2>2, LenProperties
    <3>2. ReportTo(full, Len(full)) \in Seq(DiffRecords)
      BY <2>2, <3>1, ReportStarts
    <3> QED BY <2>1, <2>2, <3>2, ReportOfNone
  <2>4. k <= Len(f) /\ \A i \in 1..k : r[i] = f[i]
    BY <1>1, <1>2, <2>1, <2>2, ReportStarts
  <2>5. s = x \o r /\ y = x \o f /\ x \in Seq(DiffRecords)
    BY <1>3, <1>4, <1>5, <1>9, <2>1
  <2>6. Len(s) = n + k /\ \A i \in 1..n + k : s[i] = IF i <= n THEN x[i] ELSE r[i - n]
    BY <1>1, <1>4, <2>5, ConcatProperties
  <2>7. \A i \in 1..n + Len(f) : y[i] = IF i <= n THEN x[i] ELSE f[i - n]
    BY <1>1, <2>3, <2>5, ConcatProperties
  <2>8. ASSUME NEW i \in 1..n + k PROVE All(h)[i] = s[i]
    <3>1. Len(f) \in Nat
      BY <2>3, LenProperties
    <3>2. i \in 1..n + Len(f) /\ i \in 1..Len(y)
      BY <1>4, <2>4, <3>1
    <3>3. All(h)[i] = y[i]
      BY <1>1, <3>2, AllIs
    <3>4. CASE i <= n
      BY <2>6, <2>7, <3>2, <3>3, <3>4
    <3>5. CASE ~(i <= n)
      <4>1. i - n \in 1..k
        BY <1>4, <3>5
      <4>2. s[i] = r[i - n] /\ y[i] = f[i - n]
        BY <2>6, <2>7, <3>2, <3>5
      <4>3. PICK j : j = i - n
        OBVIOUS
      <4> QED BY <2>4, <3>3, <4>1, <4>2, <4>3
    <3> QED BY <3>4, <3>5
  <2>9. t = Len(full) => s = y
    <3>1. t = Len(full) => r = f
      BY <1>1, <2>1, <2>2, ReportOfNone
    <3> QED BY <2>5, <3>1
  <2> QED BY <2>6, <2>8, <2>9
<1>10. Fine(failed) => IsFirst(h, s, n + k) /\ (t = Len(full) => s = y)
  BY <1>9 DEF IsFirst
<1> QED BY <1>1, <1>4, <1>6, <1>7, <1>8, <1>10

(* What has been reported is as it should be.                              *)
Kept(h, s, depth, failed) ==
    /\ s \in Seq(DiffRecords) /\ FitsTo(h, s, Len(All(h)))
    /\ Fine(failed) => IsPrefix(s, All(h)) /\ depth = Begun(h, Len(s))
    /\ depth \in 0..Len(h)

(* What a stage says of the report as a whole.                             *)
LEMMA StageIsKept ==
    ASSUME ParserIsRight, NEW h \in Histories, NEW a \in 0..Len(h), NEW b \in 0..Len(h), a <= b,
           NEW s, NEW depth, NEW last, NEW failed, NEW full, NEW t,
           Stage(h, s, depth, last, failed, a, b, full, t)
    PROVE  Kept(h, s, depth, failed)
<1>1. PICK n : n = Place(h, a, full, t)
  OBVIOUS
<1>2. /\ s \in Seq(DiffRecords) /\ FitsTo(h, s, n) /\ n \in Nat /\ n <= Len(Told(h)[b])
      /\ Fine(failed) => Len(s) = n /\ \A i \in 1..Len(s) : All(h)[i] = s[i]
  <2>1. s \in Seq(DiffRecords) /\ FitsTo(h, s, n) /\ n \in Nat /\ n <= Len(Told(h)[b])
    BY <1>1, StageFits
  <2>2. Fine(failed) => IsFirst(h, s, n)
    BY <1>1, StageFits
  <2> QED BY <2>1, <2>2 DEF IsFirst
<1>3. Len(Told(h)[b]) <= Len(All(h)) /\ Len(Told(h)[b]) \in Nat /\ Len(All(h)) \in Nat /\ All(h) \in Seq(DiffRecords)
  BY AllIs, ToldGrows
<1>4. n <= Len(All(h))
  BY <1>2, <1>3
<1>5. FitsTo(h, s, Len(All(h)))
  BY <1>2, <1>3, <1>4, FitsMore
<1>6. Fine(failed) => IsPrefix(s, All(h))
  BY <1>2, <1>3, <1>4, PrefixIs
<1>7. depth \in Nat /\ depth <= Begun(h, n) /\ (Fine(failed) => depth = Begun(h, n))
  BY <1>1 DEF Stage, Counts
<1>8. Begun(h, n) <= Len(h) /\ Begun(h, n) \in Nat /\ Len(h) \in Nat
  BY <1>2, BegunIs, HistoryIs
<1>9. depth \in 0..Len(h)
  BY <1>7, <1>8
<1> QED BY <1>2, <1>5, <1>6, <1>7, <1>9 DEF Kept

(* The next piece begins where the one before it ends.                     *)
LEMMA StageTurns ==
    ASSUME ParserIsRight, NEW h \in Histories, NEW a \in 0..Len(h), NEW b \in 0..Len(h), a <= b,
           NEW s, NEW depth, NEW last, NEW failed, NEW full, NEW c, NEW next,
           Stage(h, s, depth, last, failed, a, b, full, Len(full)), Piece(h, b, c, next, failed)
    PROVE  Stage(h, s, depth, last, failed, b, c, next, 0)
<1>1. PICK n, m : n = Place(h, a, full, Len(full)) /\ m = Len(Told(h)[b])
  OBVIOUS
<1>2. /\ s \in Seq(DiffRecords) /\ FitsTo(h, s, n) /\ n \in Nat /\ n <= m
      /\ Fine(failed) => Len(s) = n /\ s = Told(h)[b]
  <2>1. PICK t : t = Len(full)
    OBVIOUS
  <2>2. Stage(h, s, depth, last, failed, a, b, full, t) /\ n = Place(h, a, full, t)
    BY <1>1, <2>1
  <2>3. /\ s \in Seq(DiffRecords) /\ FitsTo(h, s, Place(h, a, full, t))
        /\ Place(h, a, full, t) \in Nat /\ Place(h, a, full, t) <= Len(Told(h)[b])
    BY <2>2, StageFits
  <2>4. Fine(failed) => IsFirst(h, s, Place(h, a, full, t)) /\ (t = Len(full) => s = Told(h)[b])
    BY <2>2, StageFits
  <2>5. Fine(failed) => Len(s) = n /\ s = Told(h)[b]
    BY <2>1, <2>2, <2>4 DEF IsFirst
  <2> QED BY <1>1, <2>2, <2>3, <2>5
<1>3. m \in Nat
  BY <1>1, ToldGrows
<1>4. Before(h, s, failed, b)
  <2>1. FitsTo(h, s, m)
    BY <1>2, <1>3, FitsMore
  <2> QED BY <1>1, <1>2, <2>1 DEF Before
<1>5. next \in Seq(DiffRecords) /\ Len(next) \in Nat /\ full \in Seq(DiffRecords) /\ Len(full) \in Nat
  BY LenProperties DEF Piece, Stage
<1>6. ReportTo(next, 0) = <<>>
  BY <1>5, ReportOfNone
<1>7. s \o ReportTo(next, 0) = s
  BY <1>2, <1>6, ConcatEmptySeq
<1>8. Place(h, b, next, 0) = m
  <2>1. Len(ReportTo(next, 0)) = 0
    BY <1>6, EmptySeq
  <2> QED BY <1>1, <1>3, <2>1 DEF Place
<1>9. Counts(h, depth, failed, m)
  <2>1. depth \in Nat /\ depth <= Begun(h, n) /\ (Fine(failed) => depth = Begun(h, n))
    BY <1>1 DEF Stage, Counts
  <2>2. Begun(h, n) <= Begun(h, m) /\ Begun(h, n) \in Nat /\ Begun(h, m) \in Nat
    BY <1>2, <1>3, BegunIs
  <2>3. Fine(failed) => m = n
    BY <1>1, <1>2
  <2> QED BY <2>1, <2>2, <2>3 DEF Counts
<1>10. \A i \in b + 1..Len(h) : last # h[i].hash
  <2> SUFFICES ASSUME NEW i \in b + 1..Len(h) PROVE last # h[i].hash
    OBVIOUS
  <2>1. IsLast(h, last, a, full, Len(full))
    BY DEF Stage
  <2>2. i \in a + 1..Len(h) /\ i \in 1..Len(h)
    BY HistoryIs
  <2>3. CASE Len(full) = 0
    BY <2>1, <2>2, <2>3 DEF IsLast
  <2>4. CASE Len(full) # 0
    <3>1. Len(full) \in 1..Len(full)
      BY <1>5, <2>4
    <3>2. PICK j \in a + 1..b : full[Len(full)].commit = h[j].hash
      BY <3>1 DEF Stage, Piece
    <3>3. j \in 1..Len(h) /\ j # i
      BY HistoryIs
    <3>4. h[j].hash # h[i].hash
      BY <2>2, <3>3, HistoryIs DEF ParserIsRight
    <3>5. last = full[Len(full)].commit
      BY <2>1, <2>4 DEF IsLast
    <3> QED BY <3>2, <3>4, <3>5
  <2> QED BY <2>3, <2>4
<1>11. IsLast(h, last, b, next, 0)
  BY <1>10 DEF IsLast
<1>12. 0 \in 0..Len(next)
  BY <1>5
<1> QED BY <1>4, <1>7, <1>8, <1>9, <1>11, <1>12 DEF Stage

(* A log that is cut goes on from the same place.                          *)
LEMMA StageCut ==
    ASSUME ParserIsRight, NEW h \in Histories, NEW a \in 0..Len(h), NEW b \in 0..Len(h), a <= b,
           NEW s, NEW depth, NEW last, NEW failed, NEW full, NEW t, NEW cut, NEW more,
           Stage(h, s, depth, last, failed, a, b, full, t), Piece(h, a, b, cut, more), ~Fine(more),
           t <= Len(cut), \A i \in 1..t : cut[i] = full[i]
    PROVE  Stage(h, s, depth, last, more, a, b, cut, t)
<1>1. /\ cut \in Seq(DiffRecords) /\ full \in Seq(DiffRecords) /\ Len(cut) \in Nat /\ Len(full) \in Nat
      /\ t \in Nat /\ t <= Len(full) /\ 0 <= t
  BY LenProperties DEF Piece, Stage
<1>2. SubSeq(cut, 1, t) = SubSeq(full, 1, t)
  <2>1. PICK z \in Nat : z = 0
    OBVIOUS
  <2>2. PICK u, v : u = SubSeq(cut, z + 1, t) /\ v = SubSeq(full, z + 1, t)
    OBVIOUS
  <2>3. u \in Seq(DiffRecords) /\ Len(u) = t - z /\ \A k \in 1..t - z : u[k] = cut[z + k]
    BY <1>1, <2>1, <2>2, Stretch
  <2>4. v \in Seq(DiffRecords) /\ Len(v) = t - z /\ \A k \in 1..t - z : v[k] = full[z + k]
    BY <1>1, <2>1, <2>2, Stretch
  <2>5. ASSUME NEW k \in 1..Len(u) PROVE u[k] = v[k]
    <3>1. k \in 1..t - z /\ z + k = k /\ k \in 1..t
      BY <1>1, <2>1, <2>3
    <3>2. cut[k] = full[k]
      BY <3>1
    <3>3. u[k] = cut[z + k] /\ v[k] = full[z + k]
      BY <2>3, <2>4, <3>1
    <3> QED BY <3>1, <3>2, <3>3, Zenon
  <2>6. u = v
    BY <2>3, <2>4, <2>5, SeqEqual
  <2>7. z + 1 = 1
    BY <2>1
  <2> QED BY <2>2, <2>6, <2>7
<1>3. ReportTo(cut, t) = ReportTo(full, t)
  BY <1>2 DEF ReportTo
<1>4. Place(h, a, cut, t) = Place(h, a, full, t)
  BY <1>3 DEF Place
<1>5. PICK u : Before(h, u, failed, a) /\ s = u \o ReportTo(full, t)
  BY DEF Stage
<1>6. Before(h, u, more, a)
  BY <1>5 DEF Before
<1>7. Counts(h, depth, more, Place(h, a, cut, t))
  BY <1>4 DEF Counts, Stage
<1>8. IsLast(h, last, a, cut, t)
  <2>1. t # 0 => t \in 1..t
    BY <1>1
  <2>2. t # 0 => cut[t] = full[t]
    BY <2>1
  <2> QED BY <2>2 DEF IsLast, Stage
<1>9. t \in 0..Len(cut)
  BY <1>1
<1> QED BY <1>3, <1>5, <1>6, <1>7, <1>8, <1>9 DEF Stage

(* The failure of another process asks less.                               *)
LEMMA StageFails ==
    ASSUME NEW h, NEW s, NEW depth, NEW last, NEW failed, NEW a, NEW b, NEW full, NEW t, NEW more,
           Stage(h, s, depth, last, failed, a, b, full, t), ~Fine(more)
    PROVE  Stage(h, s, depth, last, more, a, b, full, t)
<1>1. PICK u : Before(h, u, failed, a) /\ s = u \o ReportTo(full, t)
  BY DEF Stage
<1>2. Before(h, u, more, a)
  BY <1>1 DEF Before
<1>3. Piece(h, a, b, full, more)
  BY DEF Stage, Piece
<1>4. Counts(h, depth, more, Place(h, a, full, t))
  BY DEF Stage, Counts
<1> QED BY <1>1, <1>2, <1>3, <1>4 DEF Stage
(* What is reported of a diff when that before it was of the commit last.  *)
Chunks(d, last) ==
    (IF d.commit # last THEN <<NoDiffs(d.commit)>> ELSE <<>>)
        \o (IF d.path # "" THEN <<d>> ELSE <<>>)

(* The depth once the diff is taken.                                       *)
Deeper(depth, d, last) == IF d.commit # last THEN depth + 1 ELSE depth

(* The diff has no file; its commit is not the last one.                   *)
Bare(d) == d.path = ""
IsNew(d, last) == d.commit # last

(* One or two of them, or none.                                            *)
LEMMA ChunksAre ==
    ASSUME NEW d \in DiffRecords, NEW last, NEW w, w = Chunks(d, last)
    PROVE  /\ w \in Seq(DiffRecords)
           /\ IsNew(d, last) => Bare(w[1])
           /\ IsNew(d, last) /\ ~Bare(d) => Len(w) = 2 /\ w[2] = d
           /\ IsNew(d, last) /\ Bare(d) => Len(w) = 1
           /\ ~IsNew(d, last) /\ ~Bare(d) => Len(w) = 1 /\ w[1] = d
           /\ ~IsNew(d, last) /\ Bare(d) => Len(w) = 0
<1>1. PICK c : c = NoDiffs(d.commit)
  OBVIOUS
<1>2. c \in DiffRecords /\ Bare(c)
  BY <1>1, ReportedIs DEF Bare
<1>3. PICK u, v, e : u = <<c>> /\ v = <<d>> /\ e = <<>>
  OBVIOUS
<1>4. u \in Seq(DiffRecords) /\ Len(u) = 1 /\ u[1] = c
  BY <1>2, <1>3
<1>5. v \in Seq(DiffRecords) /\ Len(v) = 1 /\ v[1] = d
  BY <1>3
<1>6. e \in Seq(DiffRecords) /\ Len(e) = 0
  BY <1>3, EmptySeq
<1>7. w = (IF IsNew(d, last) THEN u ELSE e) \o (IF Bare(d) THEN e ELSE v)
  BY <1>1, <1>3 DEF Chunks, IsNew, Bare
<1>8. CASE IsNew(d, last) /\ ~Bare(d)
  <2>1. w = u \o v
    BY <1>7, <1>8
  <2>2. w \in Seq(DiffRecords) /\ Len(w) = 2 /\ w[1] = c /\ w[2] = d
    <3>1. w \in Seq(DiffRecords) /\ Len(w) = 1 + 1
      BY <1>4, <1>5, <2>1, ConcatProperties
    <3>2. \A i \in 1..Len(u) + Len(v) :
              w[i] = IF i <= Len(u) THEN u[i] ELSE v[i - Len(u)]
      <4>1. \A i \in 1..Len(u) + Len(v) :
                (u \o v)[i] = IF i <= Len(u) THEN u[i] ELSE v[i - Len(u)]
        <5>1. u \in Seq(DiffRecords) /\ v \in Seq(DiffRecords)
          BY <1>4, <1>5
        <5> QED BY <5>1, ConcatProperties
      <4> QED BY <2>1, <4>1
    <3>3. /\ 1 \in 1..Len(u) + Len(v) /\ 2 \in 1..Len(u) + Len(v)
          /\ 1 <= Len(u) /\ ~(2 <= Len(u)) /\ 2 - Len(u) = 1 /\ 1 + 1 = 2
      BY <1>4, <1>5
    <3>4. w[1] = u[1]
      BY <3>2, <3>3
    <3>5. w[2] = v[2 - Len(u)]
      BY <3>2, <3>3
    <3> QED BY <1>4, <1>5, <3>1, <3>3, <3>4, <3>5
  <2> QED BY <1>2, <1>8, <2>2
<1>9. CASE IsNew(d, last) /\ Bare(d)
  <2>1. w = u \o e
    BY <1>7, <1>9
  <2>2. w \in Seq(DiffRecords) /\ Len(w) = 1 /\ w[1] = c
    BY <1>4, <1>6, <2>1, ConcatProperties
  <2> QED BY <1>2, <1>9, <2>2
<1>10. CASE ~IsNew(d, last) /\ ~Bare(d)
  <2>1. w = e \o v
    BY <1>7, <1>10
  <2>2. w \in Seq(DiffRecords) /\ Len(w) = 1 /\ w[1] = d
    BY <1>5, <1>6, <2>1, ConcatProperties
  <2> QED BY <1>10, <2>2
<1>11. CASE ~IsNew(d, last) /\ Bare(d)
  <2>1. w = e \o e
    BY <1>7, <1>11
  <2>2. w \in Seq(DiffRecords) /\ Len(w) = 0
    BY <1>6, <2>1, ConcatProperties
  <2> QED BY <1>11, <2>2
<1> QED BY <1>8, <1>9, <1>10, <1>11

(* Of a diff the commit is reported, alone, if it is a new one, and the    *)
(* diff, if it has a path: what is begun grows with the first only.        *)
LEMMA ChunksBegin ==
    ASSUME ParserIsRight, NEW h \in Histories, NEW d \in DiffRecords, NEW last, NEW u,
           u = Chunks(d, last), NEW n \in Nat, n + Len(u) <= Len(All(h)),
           \A i \in 1..Len(u) : PartOf(u[i], All(h)[n + i])
    PROVE  Begun(h, n + Len(u)) = Deeper(Begun(h, n), d, last)
<1>0. Len(All(h)) \in Nat
  BY AllIs
<1>1. PICK all, k : all = All(h) /\ k = Len(all) /\ k \in Nat
  BY <1>0
<1>2. IsNew(d, last) => Bare(u[1])
  BY ChunksAre
<1>3. n + Len(u) <= k
  BY <1>1
<1>4. \A i \in 1..Len(u) : Bare(u[i]) <=> Bare(all[n + i])
  BY <1>1 DEF PartOf, Bare
<1>5. \A m \in Nat : m < k =>
          /\ Bare(all[m + 1]) => Begun(h, m + 1) = Begun(h, m) + 1
          /\ ~Bare(all[m + 1]) => Begun(h, m + 1) = Begun(h, m)
  BY <1>1, BegunGrows DEF Bare
<1>6. CASE IsNew(d, last) /\ ~Bare(d)
  <2>1. Len(u) = 2 /\ u[2] = d
    BY <1>6, ChunksAre
  <2>2. 1 \in 1..Len(u) /\ 2 \in 1..Len(u)
    BY <2>1
  <2>3. Bare(all[n + 1]) /\ ~Bare(all[n + 2])
    BY <1>2, <1>4, <1>6, <2>1, <2>2
  <2>4. PICK m \in Nat : m = n + 1
    OBVIOUS
  <2>5. n < k /\ m < k /\ m + 1 = n + 2
    BY <1>1, <1>3, <2>1, <2>4
  <2>6. Begun(h, m) = Begun(h, n) + 1
    BY <1>5, <2>3, <2>4, <2>5
  <2>7. Begun(h, n + 2) = Begun(h, m)
    BY <1>5, <2>3, <2>4, <2>5
  <2> QED BY <1>6, <2>1, <2>6, <2>7 DEF Deeper, IsNew
<1>7. CASE IsNew(d, last) /\ Bare(d)
  <2>1. Len(u) = 1
    BY <1>7, ChunksAre
  <2>2. n < k /\ 1 \in 1..Len(u)
    BY <1>1, <1>3, <2>1
  <2>3. Begun(h, n + 1) = Begun(h, n) + 1
    BY <1>2, <1>4, <1>5, <1>7, <2>2
  <2> QED BY <1>7, <2>1, <2>3 DEF Deeper, IsNew
<1>8. CASE ~IsNew(d, last) /\ ~Bare(d)
  <2>1. Len(u) = 1 /\ u[1] = d
    BY <1>8, ChunksAre
  <2>2. n < k /\ 1 \in 1..Len(u)
    BY <1>1, <1>3, <2>1
  <2>3. Begun(h, n + 1) = Begun(h, n)
    BY <1>4, <1>5, <1>8, <2>1, <2>2
  <2> QED BY <1>8, <2>1, <2>3 DEF Deeper, IsNew
<1>9. CASE ~IsNew(d, last) /\ Bare(d)
  <2>1. Len(u) = 0
    BY <1>9, ChunksAre
  <2>2. n + Len(u) = n
    BY <2>1
  <2> QED BY <1>9, <2>2 DEF Deeper, IsNew
<1> QED BY <1>6, <1>7, <1>8, <1>9

(* ScanCommits takes the next diff of the piece.                           *)
LEMMA StageScans ==
    ASSUME ParserIsRight, NEW h \in Histories, NEW a \in 0..Len(h), NEW b \in 0..Len(h), a <= b,
           NEW s, NEW depth, NEW last, NEW failed, NEW full, NEW t,
           Stage(h, s, depth, last, failed, a, b, full, t), t < Len(full),
           NEW d, d = full[t + 1], NEW u, u = Chunks(d, last),
           NEW deep, deep = Deeper(depth, d, last)
    PROVE  Stage(h, s \o u, deep, d.commit, failed, a, b, full, t + 1)
<1>1. PICK k, r, n : k = t + 1 /\ r = ReportTo(full, t) /\ n = Place(h, a, full, t)
  OBVIOUS
<1>2. /\ Piece(h, a, b, full, failed) /\ t \in 0..Len(full) /\ Counts(h, depth, failed, n)
      /\ IsLast(h, last, a, full, t)
  BY <1>1 DEF Stage
<1>3. /\ full \in Seq(DiffRecords) /\ Len(full) \in Nat /\ t \in Nat
      /\ k \in 1..Len(full) /\ k \in 0..Len(full) /\ d = full[k] /\ k - 1 = t
  BY <1>1, <1>2, LenProperties DEF Piece
<1>4. d \in DiffRecords
  BY <1>3, ElementOfSeq
<1>5. d.commit # last <=> (k = 1 \/ d.commit # full[k - 1].commit)
  <2>1. CASE t = 0
    <3>1. PICK j \in a + 1..b : d.commit = h[j].hash
      BY <1>2, <1>3 DEF Piece
    <3>2. j \in a + 1..Len(h)
      BY <3>1, HistoryIs
    <3>3. last # h[j].hash
      BY <1>2, <2>1, <3>2 DEF IsLast
    <3> QED BY <1>1, <2>1, <3>1, <3>3
  <2>2. CASE t # 0
    <3>1. last = full[t].commit
      BY <1>2, <2>2 DEF IsLast
    <3>2. k # 1
      BY <1>1, <1>3, <2>2
    <3> QED BY <1>3, <3>1, <3>2
  <2> QED BY <2>1, <2>2
<1>6. u = Reported(full, k)
  BY <1>3, <1>5 DEF Reported, Chunks
<1>7. u \in Seq(DiffRecords) /\ r \in Seq(DiffRecords) /\ ReportTo(full, k) = r \o u
  <2>1. ReportTo(full, t) \in Seq(DiffRecords) /\ ReportTo(full, t + 1) = ReportTo(full, t) \o Reported(full, t + 1)
    BY <1>3, ReportGrows
  <2>2. Reported(full, k) \in Seq(DiffRecords)
    BY <1>3, ReportedSeq
  <2> QED BY <1>1, <1>6, <2>1, <2>2
<1>8. PICK x : x = Len(Told(h)[a])
  OBVIOUS
<1>9. x \in Nat /\ n \in Nat /\ n = x + Len(r) /\ Len(u) \in Nat /\ Len(r) \in Nat
  <2>1. Len(Told(h)[a]) \in Nat
    BY ToldGrows
  <2> QED BY <1>1, <1>7, <1>8, <2>1, LenProperties DEF Place
<1>10. Len(r \o u) = Len(r) + Len(u) /\ \A i \in 1..Len(u) : (r \o u)[Len(r) + i] = u[i]
  <2>1. /\ Len(r \o u) = Len(r) + Len(u)
        /\ \A i \in 1..Len(r) + Len(u) : (r \o u)[i] = IF i <= Len(r) THEN r[i] ELSE u[i - Len(r)]
    BY <1>7, ConcatProperties
  <2>2. ASSUME NEW i \in 1..Len(u) PROVE (r \o u)[Len(r) + i] = u[i]
    <3>1. PICK j : j = Len(r) + i
      OBVIOUS
    <3>2. j \in 1..Len(r) + Len(u) /\ ~(j <= Len(r)) /\ j - Len(r) = i
      BY <1>9, <3>1
    <3>3. (r \o u)[j] = u[j - Len(r)]
      BY <2>1, <3>2
    <3> QED BY <3>1, <3>2, <3>3, Zenon
  <2> QED BY <2>1, <2>2
<1>11. Place(h, a, full, k) = n + Len(u)
  <2>1. Place(h, a, full, k) = x + Len(r \o u)
    BY <1>7, <1>8 DEF Place
  <2> QED BY <1>9, <1>10, <2>1
<1>12. n + Len(u) <= Len(All(h))
  <2>1. Len(Told(h)[a]) + Len(ReportTo(full, k)) <= Len(Told(h)[b]) /\ Len(Told(h)[b]) \in Nat
    BY <1>2, <1>3, PieceFits
  <2>2. Len(Told(h)[b]) <= Len(All(h)) /\ Len(All(h)) \in Nat
    BY AllIs
  <2>3. Place(h, a, full, k) <= Len(Told(h)[b])
    BY <2>1 DEF Place
  <2> QED BY <1>9, <1>11, <2>1, <2>2, <2>3
<1>13. ASSUME NEW i \in 1..Len(u) PROVE PartOf(u[i], All(h)[n + i])
  <2>1. PICK j : j = Len(r) + i
    OBVIOUS
  <2>2. j \in 1..Len(r \o u) /\ x + j = n + i
    BY <1>9, <1>10, <2>1
  <2>3. \A m \in 1..Len(ReportTo(full, k)) :
            PartOf(ReportTo(full, k)[m], All(h)[Len(Told(h)[a]) + m])
    BY <1>2, <1>3, PieceFits
  <2>4. PartOf((r \o u)[j], All(h)[x + j])
    BY <1>7, <1>8, <2>2, <2>3
  <2>5. (r \o u)[j] = u[i]
    BY <1>10, <2>1
  <2> QED BY <2>2, <2>4, <2>5, Zenon
<1>14. Begun(h, n + Len(u)) = Deeper(Begun(h, n), d, last)
  BY <1>4, <1>9, <1>12, <1>13, ChunksBegin
<1>15. Counts(h, deep, failed, Place(h, a, full, k))
  <2>1. depth \in Nat /\ depth <= Begun(h, n) /\ (Fine(failed) => depth = Begun(h, n))
    BY <1>2 DEF Counts
  <2>2. Begun(h, n) \in Nat
    BY <1>9, BegunIs
  <2>3. PICK m, o : m = Begun(h, n) /\ o = Begun(h, n + Len(u))
    OBVIOUS
  <2>4. CASE d.commit # last
    <3>1. deep = depth + 1 /\ o = m + 1
      BY <1>14, <2>3, <2>4 DEF Deeper
    <3>2. deep \in Nat /\ deep <= o /\ (Fine(failed) => deep = o)
      BY <2>1, <2>2, <2>3, <3>1
    <3> QED BY <1>11, <2>3, <3>2 DEF Counts
  <2>5. CASE ~(d.commit # last)
    <3>1. deep = depth /\ o = m
      BY <1>14, <2>3, <2>5 DEF Deeper
    <3> QED BY <1>11, <2>1, <2>3, <3>1 DEF Counts
  <2> QED BY <2>4, <2>5
<1>16. PICK v : Before(h, v, failed, a) /\ s = v \o r
  BY <1>1 DEF Stage
<1>17. s \o u = v \o ReportTo(full, k)
  <2>1. v \in Seq(DiffRecords)
    BY <1>16 DEF Before
  <2>2. (v \o r) \o u = v \o (r \o u)
    BY <1>7, <2>1, JoinIsAssociative
  <2> QED BY <1>7, <1>16, <2>2, Zenon
<1>18. IsLast(h, d.commit, a, full, k)
  <2>1. k # 0
    BY <1>3
  <2> QED BY <1>3, <2>1 DEF IsLast
<1>19. Stage(h, s \o u, deep, d.commit, failed, a, b, full, k)
  BY <1>2, <1>3, <1>15, <1>16, <1>17, <1>18 DEF Stage
<1> QED BY <1>1, <1>19
-----------------------------------------------------------------------------
(* The types of what the goroutines keep.                                  *)
AllCommits == UNION {{h[i] : i \in DOMAIN h} : h \in Histories}

RevListType == [at : {"running", "exited", "failed"}, written : 0..MaxCommits]
ReaderStates == {"new", "scan", "send", "send last", "wait", "done"}
ReaderType == [at : ReaderStates, read : 0..MaxCommits, group : Seq(AllCommits)]
StarterStates == {"range", "start", "send", "done"}
StarterType == [at : StarterStates, group : Seq(AllCommits)]
JoinerStates == {"range", "read", "send", "done"}
AnyDiff == DiffRecords \cup {NoDiff}
JoinerType == [at : JoinerStates, log : LogNumbers, diff : AnyDiff]
ScanStates == {"open", "read", "returned"}
Results == {"none", "nil", "error"}
Names == STRING \cup {NoCommit}
ScanType == [at : ScanStates, depth : Nat, last : Names, result : Results]

(* The types of the variables, and the bounds of the channels.             *)
Values ==
    /\ history \in Histories /\ groupSize \in GroupSizes /\ maxDepth \in Depths
    /\ cancelled \in BOOLEAN /\ ctxDone \in BOOLEAN /\ troubles \in 0..MaxTroubles

Records ==
    /\ revList \in RevListType /\ reader \in ReaderType /\ starter \in StarterType
    /\ joiner \in JoinerType /\ scan \in ScanType

Channels == logs \in Seq(LogType) /\ \A i \in 1..Len(logs) : Len(logs[i].chan) <= DiffCap

(* How their states exclude one another, whether or not a context is done. *)
Control ==
    /\ revList.written <= Len(history) /\ reader.read <= revList.written
    /\ LowMemory /\ revList.at = "exited" => revList.written = Len(history)
    /\ joiner.at \in {"read", "send"} => joiner.log \in 1..Len(logs)
    /\ joiner.at = "send" => joiner.diff \in DiffRecords
    /\ starter.at = "send" => Len(logs) # 0
    /\ scan.at # "returned" => scan.result = "none"
    /\ cancelled => ctxDone
    /\ ctxDone => cancelled \/ scan.at = "returned"
    /\ ~LowMemory => reader.at = "done" /\ starter.at = "done" /\ joiner.at = "done"
    /\ ~LowMemory /\ scan.at = "open" => Len(logs) = 0
    /\ ~LowMemory /\ scan.at = "read" => Len(logs) = 1

(* The part of the invariant that holds whether or not a context is done.  *)
Shape == Values /\ Records /\ Channels /\ Control

(* The numbers among them.                                                 *)
LEMMA Numbers ==
    ASSUME Shape
    PROVE  /\ history \in Histories /\ Len(history) \in Nat /\ Len(history) <= MaxCommits
           /\ DOMAIN history = 1..Len(history)
           /\ MaxCommits \in Nat /\ MaxCommits # 0 /\ 1 \in LogNumbers /\ MaxTroubles \in Nat /\ DiffCap \in Nat
           /\ DiffCap # 0 /\ groupSize \in Nat /\ maxDepth \in Nat /\ troubles \in Nat
           /\ Len(logs) \in Nat /\ DOMAIN logs = 1..Len(logs)
           /\ \A i \in 1..Len(logs) : logs[i] \in LogType
<1>1. history \in Histories /\ groupSize \in GroupSizes /\ maxDepth \in Depths /\ troubles \in 0..MaxTroubles
  BY DEF Shape, Values
<1>2. Len(history) \in Nat /\ Len(history) <= MaxCommits /\ DOMAIN history = 1..Len(history)
  <2>1. history \in Seq({history[i] : i \in DOMAIN history}) /\ Len(history) <= MaxCommits
    BY <1>1, HistoryAssumption
  <2> QED BY <2>1, LenProperties
<1>3. MaxCommits \in Nat \ {0}
  BY HistoryAssumption
<1>4. MaxTroubles \in Nat /\ DiffCap \in Nat \ {0}
  BY LogCapAssumption
<1>5. groupSize \in Nat /\ maxDepth \in Nat
  BY <1>1, GroupSizeAssumption, DepthAssumption
<1>6. Len(logs) \in Nat /\ DOMAIN logs = 1..Len(logs) /\ \A i \in 1..Len(logs) : logs[i] \in LogType
  <2>1. logs \in Seq(LogType)
    BY DEF Shape, Channels
  <2> QED BY <2>1, LenProperties, ElementOfSeq
<1>7. 1 \in LogNumbers
  BY <1>3 DEF LogNumbers
<1> QED BY <1>1, <1>2, <1>3, <1>4, <1>5, <1>6, <1>7

(* The fields of the goroutines' records.                                  *)
LEMMA Fields ==
    ASSUME Shape
    PROVE  /\ revList.written \in Nat /\ revList.at \in {"running", "exited", "failed"}
           /\ reader.at \in ReaderStates /\ reader.read \in Nat /\ reader.group \in Seq(AllCommits)
           /\ starter.at \in StarterStates /\ starter.group \in Seq(AllCommits)
           /\ joiner.at \in JoinerStates /\ joiner.log \in Nat /\ joiner.diff \in AnyDiff
           /\ scan.at \in ScanStates /\ scan.depth \in Nat /\ scan.last \in Names /\ scan.result \in Results
<1>1. revList \in RevListType /\ reader \in ReaderType /\ starter \in StarterType
      /\ joiner \in JoinerType /\ scan \in ScanType
  BY DEF Shape, Records
<1>2. revList.at \in {"running", "exited", "failed"} /\ revList.written \in Nat
  BY <1>1 DEF RevListType
<1>3. reader.at \in ReaderStates /\ reader.read \in Nat /\ reader.group \in Seq(AllCommits)
  BY <1>1 DEF ReaderType
<1>4. starter.at \in StarterStates /\ starter.group \in Seq(AllCommits)
  BY <1>1 DEF StarterType
<1>5. joiner.at \in JoinerStates /\ joiner.log \in Nat /\ joiner.diff \in AnyDiff
  BY <1>1 DEF JoinerType, LogNumbers
<1>6. scan.at \in ScanStates /\ scan.depth \in Nat /\ scan.last \in Names /\ scan.result \in Results
  BY <1>1 DEF ScanType
<1> QED BY <1>2, <1>3, <1>4, <1>5, <1>6

(* What a goroutine that only goes elsewhere keeps.                        *)
LEMMA ReaderGoes ==
    ASSUME NEW r \in ReaderType, NEW x \in ReaderStates, NEW q, q = [r EXCEPT !.at = x]
    PROVE  q \in ReaderType /\ q.at = x /\ q.read = r.read /\ q.group = r.group
BY DEF ReaderType

(* The same of the starter.                                                *)
LEMMA StarterGoes ==
    ASSUME NEW r \in StarterType, NEW x \in StarterStates, NEW q, q = [r EXCEPT !.at = x]
    PROVE  q \in StarterType /\ q.at = x /\ q.group = r.group
BY DEF StarterType

(* The same of the joiner.                                                 *)
LEMMA JoinerGoes ==
    ASSUME NEW r \in JoinerType, NEW x \in JoinerStates, NEW q, q = [r EXCEPT !.at = x]
    PROVE  q \in JoinerType /\ q.at = x /\ q.log = r.log /\ q.diff = r.diff
BY DEF JoinerType

(* And of the scan.                                                        *)
LEMMA ScanGoes ==
    ASSUME NEW r \in ScanType, NEW x \in ScanStates, NEW q, q = [r EXCEPT !.at = x]
    PROVE  q \in ScanType /\ q.at = x /\ q.depth = r.depth /\ q.last = r.last /\ q.result = r.result
BY DEF ScanType

(* One log of them changes.                                                *)
LEMMA LogGoes ==
    ASSUME NEW ls \in Seq(LogType), NEW i \in 1..Len(ls), NEW r \in LogType, NEW qs, qs = [ls EXCEPT ![i] = r]
    PROVE  /\ qs \in Seq(LogType) /\ Len(qs) = Len(ls) /\ qs[i] = r
           /\ \A j \in 1..Len(ls) : j # i => qs[j] = ls[j]
<1>1. qs \in Seq(LogType) /\ Len(qs) = Len(ls)
  BY ExceptSeq
<1>2. DOMAIN ls = 1..Len(ls)
  BY LenProperties
<1> QED BY <1>1, <1>2

-----------------------------------------------------------------------------
(* The first part of the invariant, of the initial states and of every     *)
(* step.                                                                   *)
LEMMA ShapeInit == Init => Shape
<1> SUFFICES ASSUME Init PROVE Shape
  OBVIOUS
<1>1. <<>> \in Seq(AllCommits) /\ <<>> \in Seq(LogType) /\ Len(<<>>) = 0
  BY EmptySeq
<1>2. MaxCommits \in Nat \ {0} /\ MaxTroubles \in Nat
  BY HistoryAssumption, LogCapAssumption
<1>3. 0 \in 0..MaxCommits /\ 0 \in 0..MaxTroubles /\ 1 \in LogNumbers /\ 0 \in Nat
  BY <1>2 DEF LogNumbers
<1>4. history \in Histories /\ groupSize \in GroupSizes /\ maxDepth \in Depths
      /\ cancelled = FALSE /\ ctxDone = FALSE /\ troubles = 0 /\ logs = <<>>
  BY DEF Init
<1>5. Len(history) \in Nat
  <2>1. history \in Seq({history[i] : i \in DOMAIN history})
    BY <1>4, HistoryAssumption
  <2> QED BY <2>1, LenProperties
<1>6. Values
  BY <1>3, <1>4 DEF Values
<1>7. Channels
  BY <1>1, <1>4 DEF Channels
<1>8. revList \in RevListType /\ revList.written = 0 /\ (LowMemory => revList.at # "exited")
  <2>1. revList = [at |-> IF LowMemory THEN "running" ELSE "exited", written |-> 0]
    BY DEF Init
  <2> QED BY <1>3, <2>1 DEF RevListType
<1>9. reader \in ReaderType /\ reader.read = 0 /\ (~LowMemory => reader.at = "done")
  <2>1. PICK g : g = <<>>
    OBVIOUS
  <2>2. reader = [at |-> IF LowMemory THEN "new" ELSE "done", read |-> 0, group |-> g]
    BY <2>1 DEF Init
  <2>3. g \in Seq(AllCommits)
    BY <1>1, <2>1
  <2> QED BY <1>3, <2>2, <2>3 DEF ReaderType, ReaderStates
<1>10. starter \in StarterType /\ starter.at # "send" /\ (~LowMemory => starter.at = "done")
  <2>1. PICK g : g = <<>>
    OBVIOUS
  <2>2. starter = [at |-> IF LowMemory THEN "range" ELSE "done", group |-> g]
    BY <2>1 DEF Init
  <2>3. g \in Seq(AllCommits)
    BY <1>1, <2>1
  <2> QED BY <2>2, <2>3 DEF StarterType, StarterStates
<1>11. joiner \in JoinerType /\ joiner.at \notin {"read", "send"} /\ (~LowMemory => joiner.at = "done")
  <2>1. PICK d : d = NoDiff
    OBVIOUS
  <2>2. joiner = [at |-> IF LowMemory THEN "range" ELSE "done", log |-> 1, diff |-> d]
    BY <2>1 DEF Init
  <2>3. d \in AnyDiff
    BY <2>1 DEF AnyDiff
  <2> QED BY <1>3, <2>2, <2>3 DEF JoinerType, JoinerStates
<1>12. scan \in ScanType /\ scan.at = "open" /\ scan.result = "none"
  <2>1. PICK z : z = NoCommit
    OBVIOUS
  <2>2. scan = [at |-> "open", depth |-> 0, last |-> z, result |-> "none"]
    BY <2>1 DEF Init
  <2>3. z \in Names
    BY <2>1 DEF Names
  <2> QED BY <2>2, <2>3 DEF ScanType, ScanStates, Results
<1>13. Records
  BY <1>8, <1>9, <1>10, <1>11, <1>12 DEF Records
<1>14. Control
  BY <1>1, <1>4, <1>5, <1>8, <1>9, <1>10, <1>11, <1>12 DEF Control
<1> QED BY <1>6, <1>7, <1>13, <1>14 DEF Shape

(* rev-list and its reader.                                                *)
LEMMA ShapeRevList ==
    ASSUME Shape, RevListSteps
    PROVE  Shape'
<1>1. UNCHANGED <<params, cancelled, ctxDone, reader, starter, logs, joiner, scan, scanned>>
  BY DEF RevListSteps, RevListWrites, RevListEnds, RevListDies
<1>2. UNCHANGED <<history, groupSize, maxDepth>>
  BY <1>1 DEF params
<1>3. Len(history) \in Nat /\ Len(history) <= MaxCommits /\ MaxCommits \in Nat /\ MaxTroubles \in Nat
      /\ troubles \in Nat
  BY Numbers
<1>4. revList \in RevListType /\ reader \in ReaderType
  BY DEF Shape, Records
<1>5. Values'
  <2>1. troubles' = troubles \/ (troubles < MaxTroubles /\ troubles' = troubles + 1)
    BY DEF RevListSteps, RevListWrites, RevListEnds, RevListDies
  <2>2. troubles' \in 0..MaxTroubles
    BY <1>3, <2>1 DEF Shape, Values
  <2> QED BY <1>1, <1>2, <2>2 DEF Shape, Values
<1>6. Channels'
  BY <1>1 DEF Shape, Channels
<1>7. /\ revList' \in RevListType /\ revList'.written <= Len(history)
      /\ revList.written <= revList'.written
      /\ LowMemory /\ revList'.at = "exited" => revList'.written = Len(history)
  <2>1. PICK w, x : w = revList.written /\ x = revList.at
    OBVIOUS
  <2>2. w \in Nat /\ w <= Len(history)
    BY <2>1, Fields DEF Shape, Control
  <2>3. CASE RevListWrites
    <3>1. w < Len(history) /\ x = "running" /\ revList' = [revList EXCEPT !.written = w + 1]
      BY <2>1, <2>3 DEF RevListWrites
    <3>2. PICK v : v = w + 1
      OBVIOUS
    <3>3. v \in 0..MaxCommits /\ v <= Len(history) /\ w <= v
      BY <1>3, <2>2, <3>1, <3>2
    <3>4. revList' \in RevListType /\ revList'.at = "running" /\ revList'.written = v
      BY <1>4, <2>1, <3>1, <3>2, <3>3 DEF RevListType
    <3> QED BY <2>1, <3>3, <3>4
  <2>4. CASE RevListEnds
    <3>1. w = Len(history) /\ revList' = [revList EXCEPT !.at = "exited"]
      BY <2>1, <2>4 DEF RevListEnds
    <3>2. revList' \in RevListType /\ revList'.at = "exited" /\ revList'.written = w
      BY <1>4, <2>1, <3>1 DEF RevListType
    <3> QED BY <2>1, <2>2, <3>1, <3>2
  <2>5. CASE RevListDies
    <3>1. revList' = [revList EXCEPT !.at = "failed"]
      BY <2>5 DEF RevListDies
    <3>2. revList' \in RevListType /\ revList'.at = "failed" /\ revList'.written = w
      BY <1>4, <2>1, <3>1 DEF RevListType
    <3> QED BY <2>1, <2>2, <3>2
  <2> QED BY <2>3, <2>4, <2>5 DEF RevListSteps
<1>8. Records'
  BY <1>1, <1>7 DEF Shape, Records
<1>9. reader'.read <= revList'.written
  <2>1. reader.read <= revList.written /\ reader'.read = reader.read
    BY <1>1 DEF Shape, Control
  <2>2. reader.read \in Nat /\ revList.written \in Nat /\ revList'.written \in Nat
    <3>1. revList'.written \in 0..MaxCommits
      BY <1>7 DEF RevListType
    <3> QED BY <1>3, <3>1, Fields
  <2> QED BY <1>7, <2>1, <2>2
<1>10. Control'
  BY <1>1, <1>2, <1>7, <1>9 DEF Shape, Control, LowMemory
<1> QED BY <1>5, <1>6, <1>8, <1>10 DEF Shape

(* The goroutine of enumerateCommits.                                      *)
LEMMA ShapeReader ==
    ASSUME Shape, ReaderSteps
    PROVE  Shape'
<1>1. UNCHANGED <<params, cancelled, ctxDone, troubles, revList, logs, joiner, scan, scanned>>
  BY DEF ReaderSteps, ReadHash, HashesEnd, SendGroup, GiveUpGroup, WaitForRevList
<1>2. UNCHANGED <<history, groupSize, maxDepth>>
  BY <1>1 DEF params
<1>3. Len(history) \in Nat /\ Len(history) <= MaxCommits /\ MaxCommits \in Nat
  BY Numbers
<1>4. Values' /\ Channels'
  BY <1>1, <1>2 DEF Shape, Values, Channels
<1>5. reader \in ReaderType /\ starter \in StarterType
  BY DEF Shape, Records
<1>6. PICK r : r = reader'
  OBVIOUS
<1>7. LowMemory
  <2>1. reader.at # "done"
    BY DEF ReaderSteps, ReadHash, HashesEnd, SendGroup, GiveUpGroup, WaitForRevList
  <2> QED BY <2>1 DEF Shape, Control
<1>8. ASSUME r \in ReaderType, r.read <= revList.written,
             starter' \in StarterType, starter'.at # "send" \/ starter' = starter
      PROVE  Shape'
  <2>1. Records'
    BY <1>1, <1>6, <1>8 DEF Shape, Records
  <2>2. Control'
    BY <1>1, <1>2, <1>6, <1>7, <1>8 DEF Shape, Control, LowMemory
  <2> QED BY <1>4, <2>1, <2>2 DEF Shape
<1>9. CASE ReadHash
  <2>1. PICK c, g, n, x : /\ c = history[reader.read + 1] /\ g = Append(reader.group, c)
                          /\ n = reader.read + 1 /\ x = IF Len(g) = groupSize THEN "send" ELSE "scan"
    OBVIOUS
  <2>2. reader.read \in Nat /\ revList.written \in Nat /\ reader.read < revList.written
        /\ revList.written <= Len(history)
    BY <1>9, Fields DEF ReadHash, Shape, Control
  <2>3. n \in 1..Len(history) /\ n <= revList.written /\ n \in 0..MaxCommits
    BY <1>3, <2>1, <2>2
  <2>4. c \in AllCommits
    <3>1. n \in DOMAIN history /\ history \in Histories
      BY <2>3, Numbers
    <3>2. c = history[n]
      BY <2>1
    <3> QED BY <3>1, <3>2 DEF AllCommits
  <2>5. g \in Seq(AllCommits)
    BY <2>1, <2>4, Fields, AppendProperties
  <2>6. r = [at |-> x, read |-> n, group |-> g]
    BY <1>6, <1>9, <2>1 DEF ReadHash
  <2>7. x \in ReaderStates
    BY <2>1 DEF ReaderStates
  <2>8. r \in ReaderType /\ r.read = n
    BY <2>3, <2>5, <2>6, <2>7 DEF ReaderType
  <2>9. starter' = starter
    BY <1>9 DEF ReadHash
  <2> QED BY <1>5, <1>8, <2>3, <2>8, <2>9
<1>10. CASE HashesEnd \/ GiveUpGroup \/ WaitForRevList
  <2>1. PICK x \in ReaderStates : r = [reader EXCEPT !.at = x]
    <3>1. CASE HashesEnd
      <4>1. PICK x : x = IF reader.group # <<>> /\ ~ctxDone THEN "send last" ELSE "wait"
        OBVIOUS
      <4>2. r = [reader EXCEPT !.at = x]
        BY <1>6, <3>1, <4>1 DEF HashesEnd
      <4> QED BY <4>1, <4>2 DEF ReaderStates
    <3>2. CASE GiveUpGroup
      BY <1>6, <3>2 DEF GiveUpGroup, ReaderStates
    <3>3. CASE WaitForRevList
      BY <1>6, <3>3 DEF WaitForRevList, ReaderStates
    <3> QED BY <1>10, <3>1, <3>2, <3>3
  <2>2. r \in ReaderType /\ r.read = reader.read
    BY <1>5, <2>1, ReaderGoes
  <2>3. starter' = starter
    BY <1>10 DEF HashesEnd, GiveUpGroup, WaitForRevList
  <2>4. reader.read <= revList.written
    BY DEF Shape, Control
  <2> QED BY <1>5, <1>8, <2>2, <2>3, <2>4
<1>11. CASE SendGroup
  <2>1. PICK g, x, e : g = reader.group /\ x = (IF reader.at = "send" THEN "scan" ELSE "wait") /\ e = <<>>
    OBVIOUS
  <2>2. starter' = [at |-> "start", group |-> g] /\ r = [reader EXCEPT !.at = x, !.group = e]
    BY <1>6, <1>11, <2>1 DEF SendGroup
  <2>3. g \in Seq(AllCommits) /\ e \in Seq(AllCommits) /\ x \in ReaderStates
    BY <2>1, Fields, EmptySeq DEF ReaderStates
  <2>4. r \in ReaderType /\ r.read = reader.read
    BY <1>5, <2>2, <2>3 DEF ReaderType
  <2>5. starter' \in StarterType /\ starter'.at = "start"
    BY <2>2, <2>3 DEF StarterType, StarterStates
  <2>6. reader.read <= revList.written
    BY DEF Shape, Control
  <2> QED BY <1>8, <2>4, <2>5, <2>6
<1> QED BY <1>9, <1>10, <1>11 DEF ReaderSteps

-----------------------------------------------------------------------------
(* The log's channel gives its first diff.                                 *)
LEMMA LogGives ==
    ASSUME NEW l \in LogType, l.chan # <<>>, NEW r, r = [l EXCEPT !.chan = Tail(l.chan)]
    PROVE  r \in LogType /\ Len(r.chan) <= Len(l.chan) /\ Head(l.chan) \in DiffRecords
<1>1. PICK s : s = l.chan
  OBVIOUS
<1>2. s \in Seq(DiffRecords) /\ s # <<>>
  BY <1>1 DEF LogType
<1>3. Head(s) \in DiffRecords /\ Tail(s) \in Seq(DiffRecords) /\ Len(Tail(s)) = Len(s) - 1
  BY <1>2, HeadTailProperties
<1>4. Len(s) \in Nat
  BY <1>2, LenProperties
<1>5. PICK t : t = Tail(s)
  OBVIOUS
<1>6. r \in LogType /\ r.chan = t
  BY <1>1, <1>3, <1>5 DEF LogType
<1> QED BY <1>1, <1>3, <1>4, <1>5, <1>6

(* What a parser's goroutine may do to its log.                            *)
Sent(l, r) ==
    /\ l.rest # <<>> /\ Len(l.chan) < DiffCap
    /\ r = [l EXCEPT !.rest = Tail(l.rest), !.sent = l.sent + 1, !.chan = Append(l.chan, Head(l.rest))]

(* The parser closes its channel once it has sent everything.              *)
Ended(l, r) == l.at # "closed" /\ l.rest = <<>> /\ r = [l EXCEPT !.at = "closed"]

(* The troubles there may be after a step.                                 *)
Worse(failed, more) == more = failed \/ ~Fine(more)

(* What a step of a parser changes: its own log, and no more.              *)
LEMMA ParserIs ==
    ASSUME Shape, NEW i \in DOMAIN logs, Parser(i)
    PROVE  /\ i \in 1..Len(logs) /\ logs[i] \in LogType
           /\ UNCHANGED <<params, cancelled, ctxDone, revList, reader, starter, joiner, scan, scanned>>
           /\ troubles' \in 0..MaxTroubles /\ Worse(troubles, troubles')
           /\ \E r : /\ logs' = [logs EXCEPT ![i] = r]
                     /\ \/ Sent(logs[i], r) \/ Ended(logs[i], r)
                        \/ \E cut : CutTo(logs[i], r, cut) /\ (ctxDone \/ ~Fine(troubles'))
<1>1. i \in 1..Len(logs) /\ logs[i] \in LogType /\ logs \in Seq(LogType)
  BY Numbers DEF Shape, Channels
<1>2. UNCHANGED <<params, cancelled, ctxDone, revList, reader, starter, joiner, scan, scanned>>
  BY DEF Parser, ParserSends, LogIsCut, ParserEnds
<1>3. troubles' = troubles \/ (troubles < MaxTroubles /\ troubles' = troubles + 1)
  BY DEF Parser, ParserSends, LogIsCut, ParserEnds
<1>4. troubles \in 0..MaxTroubles /\ MaxTroubles \in Nat
  BY Numbers DEF Shape, Values
<1>5. troubles' \in 0..MaxTroubles /\ Worse(troubles, troubles')
  BY <1>3, <1>4 DEF Worse, Fine
<1>6. PICK l : l = logs[i]
  OBVIOUS
<1>7. CASE ParserSends(i)
  <2>1. PICK rest, sent, chan : rest = Tail(l.rest) /\ sent = l.sent + 1 /\ chan = Append(l.chan, Head(l.rest))
    OBVIOUS
  <2>2. logs' = [logs EXCEPT ![i].rest = rest, ![i].sent = sent, ![i].chan = chan]
    BY <1>6, <1>7, <2>1 DEF ParserSends
  <2>3. PICK r : r = [l EXCEPT !.rest = rest, !.sent = sent, !.chan = chan]
    OBVIOUS
  <2>4. logs' = [logs EXCEPT ![i] = r]
    BY <1>1, <1>6, <2>2, <2>3
  <2>5. l.rest # <<>> /\ Len(l.chan) < DiffCap
    BY <1>6, <1>7 DEF ParserSends
  <2>6. Sent(l, r)
    BY <2>1, <2>3, <2>5 DEF Sent
  <2> QED BY <1>1, <1>2, <1>5, <1>6, <2>4, <2>6
<1>8. CASE LogIsCut(i)
  <2>1. PICK cut : /\ cut \in OutputOf(logs[i].commits).cuts /\ logs[i].at = "parsing"
                   /\ IsPrefix(SubSeq(OutputOf(logs[i].commits).whole, 1, logs[i].sent), cut)
                   /\ logs' = [logs EXCEPT ![i].at = "cut", ![i].rest = SubSeq(cut, logs[i].sent + 1, Len(cut))]
    BY <1>8 DEF LogIsCut
  <2>2. PICK rest : rest = SubSeq(cut, l.sent + 1, Len(cut))
    OBVIOUS
  <2>3. PICK r : r = [l EXCEPT !.at = "cut", !.rest = rest]
    OBVIOUS
  <2>4. logs' = [logs EXCEPT ![i].at = "cut", ![i].rest = rest]
    BY <1>6, <2>1, <2>2
  <2>5. logs' = [logs EXCEPT ![i] = r]
    BY <1>1, <1>6, <2>3, <2>4
  <2>6. CutTo(l, r, cut)
    BY <1>6, <2>1, <2>2, <2>3 DEF CutTo
  <2>7. ctxDone \/ troubles' = troubles + 1
    BY <1>8 DEF LogIsCut
  <2>8. ctxDone \/ ~Fine(troubles')
    BY <1>4, <2>7 DEF Fine
  <2> QED BY <1>1, <1>2, <1>5, <1>6, <2>5, <2>6, <2>8
<1>9. CASE ParserEnds(i)
  <2>1. PICK r : r = [l EXCEPT !.at = "closed"]
    OBVIOUS
  <2>2. logs' = [logs EXCEPT ![i].at = "closed"] /\ l.at # "closed" /\ l.rest = <<>>
    BY <1>6, <1>9 DEF ParserEnds
  <2>3. logs' = [logs EXCEPT ![i] = r]
    BY <1>1, <1>6, <2>1, <2>2
  <2>4. Ended(l, r)
    BY <2>1, <2>2 DEF Ended
  <2> QED BY <1>1, <1>2, <1>5, <1>6, <2>3, <2>4
<1> QED BY <1>7, <1>8, <1>9 DEF Parser

(* A parser.                                                               *)
LEMMA ShapeParser ==
    ASSUME ParserIsRight, Shape, NEW i \in DOMAIN logs, Parser(i)
    PROVE  Shape'
<1>1. /\ i \in 1..Len(logs) /\ logs[i] \in LogType
      /\ UNCHANGED <<params, cancelled, ctxDone, revList, reader, starter, joiner, scan, scanned>>
      /\ troubles' \in 0..MaxTroubles
  BY ParserIs
<1>2. PICK r : /\ logs' = [logs EXCEPT ![i] = r]
               /\ \/ Sent(logs[i], r) \/ Ended(logs[i], r) \/ \E cut : CutTo(logs[i], r, cut)
  BY ParserIs
<1>3. UNCHANGED <<history, groupSize, maxDepth>>
  BY <1>1 DEF params
<1>4. PICK l : l = logs[i]
  OBVIOUS
<1>5. l \in LogType /\ Len(l.chan) <= DiffCap /\ DiffCap \in Nat
  BY <1>1, <1>4, Numbers DEF Shape, Channels
<1>6. r \in LogType /\ Len(r.chan) <= DiffCap
  <2>1. CASE Sent(l, r)
    <3>1. PICK s, c : s = l.rest /\ c = l.chan
      OBVIOUS
    <3>2. s \in Seq(DiffRecords) /\ s # <<>> /\ c \in Seq(DiffRecords) /\ l.sent \in Nat /\ Len(c) < DiffCap
      BY <1>5, <2>1, <3>1 DEF LogType, Sent
    <3>3. PICK rest, sent, chan : rest = Tail(s) /\ sent = l.sent + 1 /\ chan = Append(c, Head(s))
      OBVIOUS
    <3>4. Head(s) \in DiffRecords /\ rest \in Seq(DiffRecords) /\ sent \in Nat
      BY <3>2, <3>3, HeadTailProperties
    <3>5. chan \in Seq(DiffRecords) /\ Len(chan) = Len(c) + 1 /\ Len(c) \in Nat
      BY <3>2, <3>3, <3>4, AppendProperties, LenProperties
    <3>6. r = [l EXCEPT !.rest = rest, !.sent = sent, !.chan = chan]
      BY <2>1, <3>1, <3>3 DEF Sent
    <3>7. r \in LogType /\ r.chan = chan
      BY <1>5, <3>4, <3>5, <3>6 DEF LogType
    <3> QED BY <1>5, <3>2, <3>5, <3>7
  <2>2. CASE Ended(l, r)
    <3>1. r = [l EXCEPT !.at = "closed"]
      BY <2>2 DEF Ended
    <3> QED BY <1>5, <3>1 DEF LogType
  <2>3. ASSUME NEW cut, CutTo(l, r, cut) PROVE r \in LogType /\ Len(r.chan) <= DiffCap
    <3>1. cut \in Seq(DiffRecords) /\ l.sent \in Nat
      <4>1. l.commits \in Pieces /\ cut \in OutputOf(l.commits).cuts /\ l.sent \in Nat
        BY <1>5, <2>3 DEF LogType, CutTo
      <4>2. ReadsRight(l.commits)
        BY <4>1 DEF ParserIsRight
      <4> QED BY <4>1, <4>2 DEF ReadsRight
    <3>2. PICK n, rest : n = l.sent + 1 /\ rest = SubSeq(cut, n, Len(cut))
      OBVIOUS
    <3>3. n \in Nat \ {0} /\ Len(cut) \in Nat /\ Len(cut) <= Len(cut)
      BY <3>1, <3>2, LenProperties
    <3>4. rest \in Seq(DiffRecords)
      BY <3>1, <3>2, <3>3, Part
    <3>5. r = [l EXCEPT !.at = "cut", !.rest = rest]
      BY <2>3, <3>2 DEF CutTo
    <3> QED BY <1>5, <3>4, <3>5 DEF LogType
  <2> QED BY <1>2, <1>4, <2>1, <2>2, <2>3
<1>7. /\ logs' \in Seq(LogType) /\ Len(logs') = Len(logs) /\ logs'[i] = r
      /\ \A j \in 1..Len(logs) : j # i => logs'[j] = logs[j]
  <2>1. logs \in Seq(LogType)
    BY DEF Shape, Channels
  <2> QED BY <1>1, <1>2, <1>6, <2>1, LogGoes
<1>8. Channels'
  BY <1>6, <1>7 DEF Shape, Channels
<1>9. Values' /\ Records'
  BY <1>1, <1>3 DEF Shape, Values, Records
<1>10. Control'
  BY <1>1, <1>3, <1>7 DEF Shape, Control, LowMemory
<1> QED BY <1>8, <1>9, <1>10 DEF Shape

-----------------------------------------------------------------------------
(* What starts the logs.                                                   *)
LEMMA ShapeStarter ==
    ASSUME ParserIsRight, Shape, StarterSteps, Len(logs) <= MaxCommits,
           StartLog => starter.group \in Pieces
    PROVE  Shape'
<1>1. UNCHANGED <<params, cancelled, ctxDone, revList, reader, scan, scanned>>
  BY DEF StarterSteps, StartLog, StartFails, SendLog, GiveUpLog, StarterEnds
<1>2. UNCHANGED <<history, groupSize, maxDepth>>
  BY <1>1 DEF params
<1>3. Values'
  <2>1. troubles' = troubles \/ (troubles < MaxTroubles /\ troubles' = troubles + 1)
    BY DEF StarterSteps, StartLog, StartFails, SendLog, GiveUpLog, StarterEnds
  <2>2. MaxTroubles \in Nat /\ troubles \in 0..MaxTroubles
    BY Numbers DEF Shape, Values
  <2>3. troubles' \in 0..MaxTroubles
    BY <2>1, <2>2
  <2> QED BY <1>1, <1>2, <2>3 DEF Shape, Values
<1>4. LowMemory
  <2>1. starter.at # "done"
    BY DEF StarterSteps, StartLog, StartFails, SendLog, GiveUpLog, StarterEnds
  <2> QED BY <2>1 DEF Shape, Control
<1>5. starter \in StarterType /\ joiner \in JoinerType /\ Len(logs) \in Nat /\ logs \in Seq(LogType)
  BY Numbers DEF Shape, Records, Channels
<1>6. PICK q : q = starter'
  OBVIOUS
<1>7. ASSUME q \in StarterType, q.at = "send" => Len(logs') # 0,
             joiner' \in JoinerType, joiner'.at \in {"read", "send"} => joiner'.log \in 1..Len(logs'),
             joiner'.at = "send" => joiner'.diff \in DiffRecords, Channels'
      PROVE  Shape'
  <2>1. Records'
    BY <1>1, <1>6, <1>7 DEF Shape, Records
  <2>2. Control'
    BY <1>1, <1>2, <1>4, <1>6, <1>7 DEF Shape, Control, LowMemory
  <2> QED BY <1>3, <1>7, <2>1, <2>2 DEF Shape
<1>8. /\ joiner.at \in {"read", "send"} => joiner.log \in 1..Len(logs)
      /\ joiner.at = "send" => joiner.diff \in DiffRecords
  BY DEF Shape, Control
<1>9. CASE StartLog
  <2>1. PICK r, e : r = Log(starter.group) /\ e = <<>>
    OBVIOUS
  <2>2. starter.group \in Pieces
    BY <1>9
  <2>3. r \in LogType /\ Len(r.chan) = 0
    BY <2>1, <2>2, CarriesStarts
  <2>4. logs' = Append(logs, r) /\ q = [at |-> "send", group |-> e] /\ joiner' = joiner
    BY <1>6, <1>9, <2>1 DEF StartLog
  <2>5. e \in Seq(AllCommits)
    BY <2>1, EmptySeq
  <2>6. q \in StarterType
    BY <2>4, <2>5 DEF StarterType, StarterStates
  <2>7. /\ logs' \in Seq(LogType) /\ Len(logs') = Len(logs) + 1
        /\ \A i \in 1..Len(logs) : logs'[i] = logs[i]
        /\ logs'[Len(logs) + 1] = r
    BY <1>5, <2>3, <2>4, AppendProperties
  <2>8. Channels'
    <3>1. DiffCap \in Nat /\ \A i \in 1..Len(logs) : Len(logs[i].chan) <= DiffCap
      BY Numbers DEF Shape, Channels
    <3>2. ASSUME NEW i \in 1..Len(logs') PROVE Len(logs'[i].chan) <= DiffCap
      <4>1. i \in 1..Len(logs) \/ i = Len(logs) + 1
        BY <1>5, <2>7
      <4>2. CASE i \in 1..Len(logs)
        BY <2>7, <3>1, <4>2
      <4>3. CASE i = Len(logs) + 1
        BY <2>3, <2>7, <3>1, <4>3
      <4> QED BY <4>1, <4>2, <4>3
    <3> QED BY <2>7, <3>2 DEF Channels
  <2>9. joiner.at \in {"read", "send"} => joiner.log \in 1..Len(logs')
    BY <1>5, <1>8, <2>7
  <2>10. Len(logs') # 0
    BY <1>5, <2>7
  <2> QED BY <1>5, <1>7, <1>8, <2>4, <2>6, <2>8, <2>9, <2>10
<1>10. CASE StartFails
  <2>1. PICK e : e = <<>>
    OBVIOUS
  <2>2. q = [at |-> "done", group |-> e] /\ logs' = logs /\ joiner' = joiner
    BY <1>6, <1>10, <2>1 DEF StartFails
  <2>3. q \in StarterType /\ q.at = "done"
    <3>1. e \in Seq(AllCommits)
      BY <2>1, EmptySeq
    <3> QED BY <2>2, <3>1 DEF StarterType, StarterStates
  <2>4. Channels'
    BY <2>2 DEF Shape, Channels
  <2> QED BY <1>5, <1>7, <1>8, <2>2, <2>3, <2>4
<1>11. CASE SendLog
  <2>1. PICK n : n = Len(logs)
    OBVIOUS
  <2>2. q = [starter EXCEPT !.at = "range"] /\ joiner' = [joiner EXCEPT !.at = "read", !.log = n] /\ logs' = logs
        /\ starter.at = "send"
    BY <1>6, <1>11, <2>1 DEF SendLog
  <2>3. n # 0
    BY <2>1, <2>2 DEF Shape, Control
  <2>4. n \in LogNumbers /\ n \in 1..Len(logs) /\ NoDiff \in AnyDiff
    BY <1>5, <2>1, <2>3, Numbers DEF LogNumbers, AnyDiff
  <2>5. q \in StarterType /\ q.at = "range"
    BY <1>5, <2>2, StarterGoes DEF StarterStates
  <2>6. joiner' \in JoinerType /\ joiner'.at = "read" /\ joiner'.log = n
    BY <1>5, <2>2, <2>4 DEF JoinerStates, JoinerType
  <2>7. Channels'
    BY <2>2 DEF Shape, Channels
  <2> QED BY <1>7, <2>2, <2>4, <2>5, <2>6, <2>7
<1>12. CASE GiveUpLog \/ StarterEnds
  <2>1. q = [starter EXCEPT !.at = "done"] /\ logs' = logs /\ joiner' = joiner
    BY <1>6, <1>12 DEF GiveUpLog, StarterEnds
  <2>2. q \in StarterType /\ q.at = "done"
    BY <1>5, <2>1, StarterGoes DEF StarterStates
  <2>3. Channels'
    BY <2>1 DEF Shape, Channels
  <2> QED BY <1>5, <1>7, <1>8, <2>1, <2>2, <2>3
<1> QED BY <1>9, <1>10, <1>11, <1>12 DEF StarterSteps

(* What joins them.                                                        *)
LEMMA ShapeJoiner ==
    ASSUME Shape, JoinerSteps
    PROVE  Shape'
<1>1. UNCHANGED <<params, cancelled, ctxDone, troubles, revList, reader, starter, scan, scanned>>
  BY DEF JoinerSteps, TakeDiff, LogDrained, GiveUpDiff, JoinerEnds
<1>2. UNCHANGED <<history, groupSize, maxDepth>>
  BY <1>1 DEF params
<1>3. Values'
  BY <1>1, <1>2 DEF Shape, Values
<1>4. LowMemory
  <2>1. joiner.at # "done"
    BY DEF JoinerSteps, TakeDiff, LogDrained, GiveUpDiff, JoinerEnds
  <2> QED BY <2>1 DEF Shape, Control
<1>5. joiner \in JoinerType /\ logs \in Seq(LogType) /\ 1 \in LogNumbers
  BY Numbers DEF Shape, Records, Channels
<1>6. PICK q : q = joiner'
  OBVIOUS
<1>7. ASSUME q \in JoinerType, q.at # "read",
             q.at = "send" => q.diff \in DiffRecords /\ joiner.at = "read" /\ q.log = joiner.log,
             Channels', Len(logs') = Len(logs)
      PROVE  Shape'
  <2>1. Records'
    BY <1>1, <1>6, <1>7 DEF Shape, Records
  <2>2. Control'
    BY <1>1, <1>2, <1>4, <1>6, <1>7 DEF Shape, Control, LowMemory
  <2> QED BY <1>3, <1>7, <2>1, <2>2 DEF Shape
<1>8. CASE TakeDiff
  <2>1. PICK n, l : n = joiner.log /\ l = logs[n]
    OBVIOUS
  <2>2. n \in 1..Len(logs) /\ l.chan # <<>>
    BY <1>8, <2>1 DEF TakeDiff, Shape, Control
  <2>3. l \in LogType /\ Len(l.chan) <= DiffCap
    BY <2>1, <2>2, Numbers DEF Shape, Channels
  <2>4. PICK c, x, d : c = Tail(l.chan) /\ x = (IF ctxDone THEN "done" ELSE "send")
                       /\ d = IF ctxDone THEN NoDiff ELSE Head(l.chan)
    OBVIOUS
  <2>5. q = [joiner EXCEPT !.at = x, !.diff = d] /\ logs' = [logs EXCEPT ![n].chan = c]
    BY <1>6, <1>8, <2>1, <2>4 DEF TakeDiff
  <2>6. PICK r : r = [l EXCEPT !.chan = c]
    OBVIOUS
  <2>7. r \in LogType /\ Len(r.chan) <= Len(l.chan) /\ Head(l.chan) \in DiffRecords
    BY <2>2, <2>3, <2>4, <2>6, LogGives
  <2>8. x \in JoinerStates /\ d \in AnyDiff /\ x # "read" /\ (x = "send" => d \in DiffRecords)
    BY <2>4, <2>7 DEF JoinerStates, AnyDiff
  <2>9. q \in JoinerType /\ q.at = x /\ q.diff = d /\ q.log = joiner.log
    BY <1>5, <2>5, <2>8 DEF JoinerType
  <2>10. logs' = [logs EXCEPT ![n] = r]
    BY <1>5, <2>1, <2>2, <2>5, <2>6
  <2>11. logs' \in Seq(LogType) /\ Len(logs') = Len(logs) /\ logs'[n] = r
         /\ \A j \in 1..Len(logs) : j # n => logs'[j] = logs[j]
    BY <1>5, <2>2, <2>7, <2>10, LogGoes
  <2>12. Channels'
    <3>1. Len(r.chan) \in Nat /\ Len(l.chan) \in Nat /\ DiffCap \in Nat
      <4>1. r.chan \in Seq(DiffRecords) /\ l.chan \in Seq(DiffRecords)
        BY <2>3, <2>7 DEF LogType
      <4> QED BY <4>1, LenProperties, Numbers
    <3>2. Len(r.chan) <= DiffCap
      BY <2>3, <2>7, <3>1
    <3> QED BY <2>11, <3>2 DEF Shape, Channels
  <2>13. joiner.at = "read"
    BY <1>8 DEF TakeDiff
  <2> QED BY <1>7, <2>8, <2>9, <2>11, <2>12, <2>13
<1>9. CASE LogDrained \/ JoinerEnds
  <2>1. PICK x : x \in {"range", "done"} /\ q = [joiner EXCEPT !.at = x] /\ logs' = logs
    BY <1>6, <1>9 DEF LogDrained, JoinerEnds
  <2>2. x \in JoinerStates /\ NoDiff \in AnyDiff
    BY <2>1 DEF JoinerStates, AnyDiff
  <2>3. q \in JoinerType /\ q.at = x
    BY <1>5, <2>1, <2>2, JoinerGoes
  <2>4. Channels'
    BY <2>1 DEF Shape, Channels
  <2> QED BY <1>7, <2>1, <2>3, <2>4
<1>10. CASE GiveUpDiff
  <2>1. PICK d : d = NoDiff
    OBVIOUS
  <2>2. d \in AnyDiff /\ q = [joiner EXCEPT !.at = "done", !.diff = d] /\ logs' = logs
    BY <1>6, <1>10, <2>1 DEF GiveUpDiff, AnyDiff
  <2>3. q \in JoinerType /\ q.at = "done"
    BY <1>5, <2>2 DEF JoinerStates, JoinerType
  <2>4. Channels'
    BY <2>2 DEF Shape, Channels
  <2> QED BY <1>7, <2>2, <2>3, <2>4
<1> QED BY <1>8, <1>9, <1>10 DEF JoinerSteps

-----------------------------------------------------------------------------
(* A part of a history is one of the pieces, and the history another.      *)
LEMMA PiecesAre == Pieces = (UNION {PiecesOf(h) : h \in Histories}) \cup {<<>>} /\ <<>> \in Pieces
<1>1. Pieces = (UNION {PiecesOf(h) : h \in Histories}) \cup {<<>>}
  BY DEF Pieces
<1>2. PICK U, e : U = UNION {PiecesOf(h) : h \in Histories} /\ e = <<>>
  OBVIOUS
<1>3. Pieces = U \cup {e}
  BY <1>1, <1>2, Zenon
<1> QED BY <1>1, <1>2, <1>3, Zenon

(* Some of the commits of a history make a piece of it.                    *)
LEMMA PieceOfHistory ==
    ASSUME NEW h \in Histories, NEW a \in Nat, NEW b \in Nat, a < b, b <= Len(h)
    PROVE  SubSeq(h, a + 1, b) \in Pieces
<1>1. h \in Seq({h[i] : i \in DOMAIN h})
  BY HistoryAssumption
<1>2. DOMAIN h = 1..Len(h) /\ Len(h) \in Nat
  BY <1>1, LenProperties
<1>3. PICK i : i = a + 1
  OBVIOUS
<1>4. i \in DOMAIN h /\ b \in DOMAIN h
  BY <1>2, <1>3
<1>5. SubSeq(h, i, b) \in PiecesOf(h)
  BY <1>4 DEF PiecesOf
<1>6. PiecesOf(h) \in {PiecesOf(g) : g \in Histories}
  OBVIOUS
<1>7. SubSeq(h, i, b) \in UNION {PiecesOf(g) : g \in Histories}
  BY <1>5, <1>6
<1> QED BY <1>3, <1>7, PiecesAre

(* And so do all of them.                                                  *)
LEMMA HistoryIsPiece ==
    ASSUME NEW h \in Histories
    PROVE  h \in Pieces /\ SubSeq(h, 0 + 1, Len(h)) = h
<1>1. h \in Seq({h[i] : i \in DOMAIN h})
  BY HistoryAssumption
<1>2. Len(h) \in Nat /\ 0 \in Nat /\ 0 <= Len(h) /\ Len(h) <= Len(h)
  BY <1>1, LenProperties
<1>3. PICK g : g = SubSeq(h, 0 + 1, Len(h))
  OBVIOUS
<1>4. g \in Seq({h[i] : i \in DOMAIN h}) /\ Len(g) = Len(h) - 0 /\ \A k \in 1..Len(h) - 0 : g[k] = h[0 + k]
  BY <1>1, <1>2, <1>3, Stretch
<1>5. Len(g) = Len(h) /\ \A k \in 1..Len(g) : g[k] = h[k]
  BY <1>2, <1>4
<1>6. g = h
  BY <1>1, <1>4, <1>5, SeqEqual
<1>7. CASE Len(h) = 0
  <2>1. h = <<>>
    BY <1>1, <1>7, EmptySeq
  <2>2. <<>> \in Pieces
    BY PiecesAre
  <2> QED BY <1>3, <1>6, <2>1, <2>2
<1>8. CASE Len(h) # 0
  <2>1. 0 < Len(h)
    BY <1>2, <1>8
  <2> QED BY <1>2, <1>3, <1>6, <2>1, PieceOfHistory
<1> QED BY <1>7, <1>8

-----------------------------------------------------------------------------
(* ScanCommits returns, or takes a diff.                                   *)
LEMMA ReturnIs ==
    ASSUME Shape, NEW y \in Results, Return(y)
    PROVE  /\ scan' \in ScanType /\ scan'.at = "returned" /\ scan'.result = y
           /\ scan'.depth = scan.depth /\ scan'.last = scan.last /\ ctxDone' = TRUE
<1>1. scan \in ScanType /\ "returned" \in ScanStates
  BY DEF Shape, Records, ScanStates
<1>2. scan' = [scan EXCEPT !.at = "returned", !.result = y] /\ ctxDone' = TRUE
  BY DEF Return
<1> QED BY <1>1, <1>2 DEF ScanType

(* ScanCommits reports a diff.                                             *)
LEMMA ScansIs ==
    ASSUME Shape, NEW d \in DiffRecords, Scans(d)
    PROVE  /\ scan' \in ScanType /\ scan'.at = scan.at /\ scan'.result = scan.result
           /\ scan'.depth = Deeper(scan.depth, d, scan.last) /\ scan'.last = d.commit
           /\ scanned' = scanned \o Chunks(d, scan.last) /\ ~cancelled /\ ctxDone' = ctxDone
<1>1. PICK n, z : n = Deeper(scan.depth, d, scan.last) /\ z = d.commit
  OBVIOUS
<1>2. scan' = [scan EXCEPT !.depth = n, !.last = z]
  BY <1>1 DEF Scans, IsNewCommit, Deeper
<1>3. n \in Nat /\ z \in Names
  <2>1. scan.depth \in Nat
    BY Fields
  <2>2. d.commit \in STRING
    BY ReportedIs
  <2>3. n = scan.depth \/ n = scan.depth + 1
    BY <1>1 DEF Deeper
  <2> QED BY <1>1, <2>1, <2>2, <2>3 DEF Names
<1>4. scan \in ScanType
  BY DEF Shape, Records
<1>5. scanned' = scanned \o Chunks(d, scan.last) /\ ~cancelled /\ ctxDone' = ctxDone
  BY DEF Scans, ChunksOf, Chunks, IsNewCommit
<1>6. /\ scan' \in ScanType /\ scan'.at = scan.at /\ scan'.result = scan.result
      /\ scan'.depth = n /\ scan'.last = z
  BY <1>2, <1>3, <1>4 DEF ScanType
<1> QED BY <1>1, <1>5, <1>6

(* What taking a diff may come to.                                         *)
Taken(d) ==
    \/ Return("nil") /\ TooDeep /\ scanned' = scanned
    \/ Scans(d) /\ ~TooDeep
    \/ cancelled /\ scanned' = scanned /\ (Return("error") \/ (scan' = scan /\ ctxDone' = ctxDone))

(* Takes(diff), as alternatives.                                           *)
LEMMA TakesIs ==
    ASSUME NEW d, Takes(d)
    PROVE  Taken(d)
<1>1. CASE TooDeep
  BY <1>1 DEF Takes, Taken
<1>2. CASE ~TooDeep
  <2>1. Scans(d) \/ Refuses(d)
    BY <1>2 DEF Takes
  <2>2. CASE Refuses(d)
    BY <2>2 DEF Refuses, Taken
  <2> QED BY <1>2, <2>1, <2>2 DEF Taken
<1> QED BY <1>1, <1>2

(* What ScanCommits does with a diff keeps the types.                      *)
LEMMA ShapeTaken ==
    ASSUME Shape, scan.at = "read", NEW d \in DiffRecords, Taken(d)
    PROVE  /\ scan' \in ScanType /\ ctxDone' \in BOOLEAN /\ scan'.at \in {"read", "returned"}
           /\ scan'.at # "returned" => scan'.result = "none"
           /\ ctxDone => ctxDone'
           /\ ctxDone' => cancelled \/ scan'.at = "returned"
<1>1. /\ scan \in ScanType /\ ctxDone \in BOOLEAN /\ scan.result = "none"
      /\ ctxDone => cancelled \/ scan.at = "returned"
  BY DEF Shape, Records, Values, Control
<1>2. CASE Return("nil") \/ Return("error")
  <2>1. PICK y \in Results : Return(y)
    BY <1>2 DEF Results
  <2> QED BY <2>1, ReturnIs
<1>3. CASE Scans(d)
  BY <1>1, <1>3, ScansIs
<1>4. CASE cancelled /\ scan' = scan /\ ctxDone' = ctxDone
  BY <1>1, <1>4
<1> QED BY <1>2, <1>3, <1>4 DEF Taken

(* ScanCommits, and the opening of what it reads.                          *)
LEMMA ShapeOpens ==
    ASSUME ParserIsRight, Shape, RepoPath
    PROVE  Shape'
<1>1. UNCHANGED <<params, cancelled, revList, scanned>> /\ scan.at = "open"
  BY DEF RepoPath, PeekFindsCommits, PeekFindsNothing, PeekFails, OpenLog, OpenFails
<1>2. UNCHANGED <<history, groupSize, maxDepth>>
  BY <1>1 DEF params
<1>3. /\ scan \in ScanType /\ reader \in ReaderType /\ starter \in StarterType /\ joiner \in JoinerType
      /\ logs \in Seq(LogType) /\ scan.result = "none"
  BY <1>1 DEF Shape, Records, Channels, Control
<1>4. CASE PeekFindsCommits \/ PeekFindsNothing
  <2>1. PICK x \in {"scan", "done"} : reader' = [reader EXCEPT !.at = x]
    BY <1>4 DEF PeekFindsCommits, PeekFindsNothing
  <2>0. x \in ReaderStates
    BY <2>1 DEF ReaderStates
  <2>2. reader' \in ReaderType /\ reader'.read = reader.read
    BY <1>3, <2>0, <2>1, ReaderGoes
  <2>3. /\ UNCHANGED <<ctxDone, troubles, starter, logs, joiner>> /\ LowMemory
        /\ scan' = [scan EXCEPT !.at = "read"]
    BY <1>4 DEF PeekFindsCommits, PeekFindsNothing
  <2>4. scan' \in ScanType /\ scan'.at = "read" /\ scan'.result = "none"
    BY <1>3, <2>3, ScanGoes DEF ScanStates
  <2>5. Values' /\ Channels'
    BY <1>1, <1>2, <2>3 DEF Shape, Values, Channels
  <2>6. Records'
    BY <1>1, <2>2, <2>3, <2>4 DEF Shape, Records
  <2>7. Control'
    BY <1>1, <1>2, <2>2, <2>3, <2>4 DEF Shape, Control, LowMemory
  <2> QED BY <2>5, <2>6, <2>7 DEF Shape
<1>5. CASE PeekFails
  <2>1. /\ Return("error") /\ LowMemory /\ UNCHANGED <<troubles, logs>>
        /\ reader' = [reader EXCEPT !.at = "done"] /\ starter' = [starter EXCEPT !.at = "done"]
        /\ joiner' = [joiner EXCEPT !.at = "done"]
    BY <1>5 DEF PeekFails
  <2>2. reader' \in ReaderType /\ reader'.read = reader.read /\ reader'.at = "done"
    BY <1>3, <2>1, ReaderGoes DEF ReaderStates
  <2>3. starter' \in StarterType /\ starter'.at = "done"
    BY <1>3, <2>1, StarterGoes DEF StarterStates
  <2>4. joiner' \in JoinerType /\ joiner'.at = "done"
    BY <1>3, <2>1, JoinerGoes DEF JoinerStates
  <2>5. scan' \in ScanType /\ scan'.at = "returned" /\ ctxDone' = TRUE
    <3>1. "error" \in Results
      BY DEF Results
    <3> QED BY <2>1, <3>1, ReturnIs
  <2>6. Values' /\ Channels'
    BY <1>1, <1>2, <2>1, <2>5 DEF Shape, Values, Channels
  <2>7. Records'
    BY <1>1, <2>2, <2>3, <2>4, <2>5 DEF Shape, Records
  <2>8. Control'
    BY <1>1, <1>2, <2>1, <2>2, <2>3, <2>4, <2>5 DEF Shape, Control, LowMemory
  <2> QED BY <2>6, <2>7, <2>8 DEF Shape
<1>6. CASE OpenFails
  <2>1. Return("error") /\ ~LowMemory /\ UNCHANGED <<reader, starter, logs, joiner>>
        /\ (troubles' = troubles \/ (troubles < MaxTroubles /\ troubles' = troubles + 1))
    BY <1>6 DEF OpenFails
  <2>2. scan' \in ScanType /\ scan'.at = "returned" /\ ctxDone' = TRUE
    <3>1. "error" \in Results
      BY DEF Results
    <3> QED BY <2>1, <3>1, ReturnIs
  <2>3. troubles' \in 0..MaxTroubles
    <3>1. MaxTroubles \in Nat /\ troubles \in 0..MaxTroubles
      BY Numbers DEF Shape, Values
    <3> QED BY <2>1, <3>1
  <2>4. Values' /\ Channels'
    BY <1>1, <1>2, <2>1, <2>2, <2>3 DEF Shape, Values, Channels
  <2>5. Records'
    BY <1>1, <2>1, <2>2 DEF Shape, Records
  <2>6. Control'
    BY <1>1, <1>2, <2>1, <2>2 DEF Shape, Control, LowMemory
  <2> QED BY <2>4, <2>5, <2>6 DEF Shape
<1>7. CASE OpenLog
  <2>1. PICK r : r = Log(history)
    OBVIOUS
  <2>2. /\ logs' = <<r>> /\ scan' = [scan EXCEPT !.at = "read"] /\ ~LowMemory
        /\ UNCHANGED <<ctxDone, troubles, reader, starter, joiner>>
    BY <1>7, <2>1 DEF OpenLog
  <2>3. history \in Pieces
    BY HistoryIsPiece, Numbers
  <2>4. r \in LogType /\ Len(r.chan) = 0
    BY <2>1, <2>3, CarriesStarts
  <2>5. logs' \in Seq(LogType) /\ Len(logs') = 1 /\ logs'[1] = r
    BY <2>2, <2>4
  <2>6. Channels'
    <3>1. DiffCap \in Nat
      BY Numbers
    <3>2. \A i \in 1..Len(logs') : i = 1
      BY <2>5
    <3> QED BY <2>4, <2>5, <3>1, <3>2 DEF Channels
  <2>7. scan' \in ScanType /\ scan'.at = "read" /\ scan'.result = "none"
    BY <1>3, <2>2, ScanGoes DEF ScanStates
  <2>8. Values' /\ Records'
    BY <1>1, <1>2, <2>2, <2>7 DEF Shape, Values, Records
  <2>9. reader.at = "done" /\ starter.at = "done" /\ joiner.at = "done"
    BY <2>2 DEF Shape, Control
  <2>10. Control'
    BY <1>1, <1>2, <2>2, <2>5, <2>7, <2>9 DEF Shape, Control, LowMemory
  <2> QED BY <2>6, <2>8, <2>10 DEF Shape
<1> QED BY <1>4, <1>5, <1>6, <1>7 DEF RepoPath

(* ScanCommits takes a diff, or finds that there are no more.              *)
LEMMA ShapeScan ==
    ASSUME ParserIsRight, Shape, ScanJoined \/ ScanParsed \/ ScanEnds
    PROVE  Shape'
<1>1. UNCHANGED <<params, cancelled, troubles, revList, reader, starter>> /\ scan.at = "read"
  BY DEF ScanJoined, ScanParsed, ScanEnds
<1>2. UNCHANGED <<history, groupSize, maxDepth>>
  BY <1>1 DEF params
<1>3. scan \in ScanType /\ joiner \in JoinerType /\ logs \in Seq(LogType) /\ NoDiff \in AnyDiff
  BY DEF Shape, Records, Channels, AnyDiff
<1>4. ASSUME /\ scan' \in ScanType /\ ctxDone' \in BOOLEAN /\ scan'.at \in {"read", "returned"}
             /\ scan'.at # "returned" => scan'.result = "none"
             /\ ctxDone => ctxDone'
             /\ ctxDone' => cancelled \/ scan'.at = "returned",
             Channels', Len(logs') = Len(logs), joiner' \in JoinerType,
             joiner' = joiner \/ (LowMemory /\ joiner'.at = "read" /\ joiner'.log \in 1..Len(logs))
      PROVE  Shape'
  <2>1. Values' /\ Records'
    BY <1>1, <1>2, <1>4 DEF Shape, Values, Records
  <2>2. Control'
    BY <1>1, <1>2, <1>4 DEF Shape, Control, LowMemory
  <2> QED BY <1>4, <2>1, <2>2 DEF Shape
<1>5. CASE ScanJoined
  <2>1. /\ joiner.at = "send" /\ Takes(joiner.diff) /\ logs' = logs
        /\ joiner' = [joiner EXCEPT !.at = "read", !.diff = NoDiff]
    BY <1>5 DEF ScanJoined
  <2>2. joiner.diff \in DiffRecords /\ LowMemory /\ joiner.log \in 1..Len(logs)
    BY <2>1 DEF Shape, Control
  <2>3. joiner' \in JoinerType /\ joiner'.at = "read" /\ joiner'.log = joiner.log
    BY <1>3, <2>1 DEF JoinerStates, JoinerType
  <2>4. Taken(joiner.diff)
    BY <2>1, TakesIs
  <2>5. Channels'
    BY <2>1 DEF Shape, Channels
  <2> QED BY <1>1, <1>4, <2>1, <2>2, <2>3, <2>4, <2>5, ShapeTaken
<1>6. CASE ScanParsed
  <2>1. PICK l : l = logs[1]
    OBVIOUS
  <2>2. PICK c : c = Tail(l.chan)
    OBVIOUS
  <2>3. /\ l.chan # <<>> /\ ~LowMemory /\ Takes(Head(l.chan)) /\ joiner' = joiner
        /\ logs' = [logs EXCEPT ![1].chan = c]
    BY <1>6, <2>1, <2>2 DEF ScanParsed
  <2>4. Len(logs) = 1
    BY <1>1, <2>3 DEF Shape, Control
  <2>5. 1 \in 1..Len(logs) /\ l \in LogType /\ Len(l.chan) <= DiffCap
    BY <2>1, <2>4, Numbers DEF Shape, Channels
  <2>6. PICK r : r = [l EXCEPT !.chan = c]
    OBVIOUS
  <2>7. r \in LogType /\ Len(r.chan) <= Len(l.chan) /\ Head(l.chan) \in DiffRecords
    BY <2>2, <2>3, <2>5, <2>6, LogGives
  <2>8. logs' = [logs EXCEPT ![1] = r]
    BY <1>3, <2>1, <2>3, <2>5, <2>6
  <2>9. logs' \in Seq(LogType) /\ Len(logs') = Len(logs) /\ logs'[1] = r
    BY <1>3, <2>5, <2>7, <2>8, LogGoes
  <2>10. Channels'
    <3>1. Len(r.chan) \in Nat /\ Len(l.chan) \in Nat /\ DiffCap \in Nat
      <4>1. r.chan \in Seq(DiffRecords) /\ l.chan \in Seq(DiffRecords)
        BY <2>5, <2>7 DEF LogType
      <4> QED BY <4>1, LenProperties, Numbers
    <3>2. Len(r.chan) <= DiffCap
      BY <2>5, <2>7, <3>1
    <3>3. \A i \in 1..Len(logs') : i = 1
      BY <2>4, <2>9
    <3> QED BY <2>9, <3>2, <3>3 DEF Channels
  <2>11. Taken(Head(l.chan))
    BY <2>3, TakesIs
  <2> QED BY <1>1, <1>3, <1>4, <2>3, <2>7, <2>9, <2>10, <2>11, ShapeTaken
<1>7. CASE ScanEnds
  <2>1. Return("nil") /\ UNCHANGED <<logs, joiner>> /\ "nil" \in Results
    BY <1>7 DEF ScanEnds, Results
  <2>2. scan' \in ScanType /\ scan'.at = "returned" /\ ctxDone' = TRUE
    BY <2>1, ReturnIs
  <2>3. Channels'
    BY <2>1 DEF Shape, Channels
  <2> QED BY <1>3, <1>4, <2>1, <2>2, <2>3
<1> QED BY <1>5, <1>6, <1>7

(* The caller cancels, or nothing happens.                                 *)
LEMMA ShapeCancel ==
    ASSUME Shape, Cancel \/ UNCHANGED vars
    PROVE  Shape'
<1>1. UNCHANGED <<params, troubles, revList, reader, starter, logs, joiner, scan, scanned>>
  BY DEF Cancel, vars
<1>2. UNCHANGED <<history, groupSize, maxDepth>>
  BY <1>1 DEF params
<1>3. (cancelled' = TRUE /\ ctxDone' = TRUE) \/ UNCHANGED <<cancelled, ctxDone>>
  BY DEF Cancel, vars
<1>4. Values' /\ Records' /\ Channels'
  BY <1>1, <1>2, <1>3 DEF Shape, Values, Records, Channels
<1>5. Control'
  BY <1>1, <1>2, <1>3 DEF Shape, Control, LowMemory
<1> QED BY <1>4, <1>5 DEF Shape
-----------------------------------------------------------------------------
(* While no context is done, the commits are in line: what ScanCommits has *)
(* taken ends in the log that is read, commits a + 1 to b, of whose diffs, *)
(* full, it took t; the starter's group, or the log it has started and not *)
(* handed over, is of commits b + 1 to c; the reader's group follows.      *)
InLine(a, b, c) == a \in 0..Len(history) /\ b \in a..Len(history) /\ c \in b..Len(history)

(* Where ScanCommits is.                                                   *)
Staged(a, b, full, t) == Stage(history, scanned, scan.depth, scan.last, troubles, a, b, full, t)

(* The number of the log that is read.                                     *)
Current == IF starter.at = "send" THEN Len(logs) - 1 ELSE Len(logs)
(* What has left the channel of the log: the joiner may hold one more      *)
(* diff.                                                                   *)
Gone(t) == IF joiner.at = "send" THEN t + 1 ELSE t

(* The log is of commits a + 1 to b, and of its diffs n have been taken.   *)
LogOf(h, l, a, b, full, n, failed) == l.commits = SubSeq(h, a + 1, b) /\ Carries(l, full, n, failed)

(* The log that is read.                                                   *)
BeingRead(a, b, full, t) ==
    /\ Current = 0 => b = 0 /\ full = <<>>
    /\ Current # 0 => LogOf(history, logs[Current], a, b, full, Gone(t), troubles)
    /\ LowMemory => Current <= b

(* The joiner reads that log, and goes on to the next when it has all of   *)
(* it.                                                                     *)
Joining(full, t) ==
    /\ joiner.at \in {"read", "send"} => Current # 0 /\ joiner.log = Current
    /\ joiner.at = "send" => t < Len(full) /\ joiner.diff = full[t + 1]
    /\ LowMemory /\ joiner.at \in {"range", "done"} =>
          t = Len(full) /\ (Current # 0 => logs[Current].at = "closed")
    /\ LowMemory /\ joiner.at = "done" => starter.at = "done"

(* The group, or the log, that the starter is about to hand over.          *)
Handed(b, c) ==
    /\ starter.at = "start" => b < c /\ starter.group = SubSeq(history, b + 1, c)
    /\ starter.at = "send" =>
          b < c /\ \E next : LogOf(history, logs[Len(logs)], b, c, next, 0, troubles)
    /\ starter.at \in {"range", "done"} => b = c
    /\ ~LowMemory /\ Len(logs) # 0 => c = Len(history)

(* The group of the reader, and what is left when no process failed.       *)
Gathered(c) ==
    /\ LowMemory /\ starter.at # "done" /\ reader.at \in {"new", "scan", "send", "send last"} =>
          c <= reader.read /\ reader.group = SubSeq(history, c + 1, reader.read)
    /\ LowMemory /\ starter.at # "done" /\ reader.at \in {"send", "send last"} => c < reader.read
    /\ LowMemory /\ scan.at = "open" => reader.at = "new"
    /\ LowMemory /\ reader.at = "new" => reader.read = 0 /\ starter.at = "range"
    /\ LowMemory /\ revList.at = "failed" => ~Fine(troubles)
    /\ LowMemory /\ Fine(troubles) =>
          /\ reader.at = "send last" => reader.read = Len(history)
          /\ reader.at \in {"wait", "done"} => c = Len(history)
          /\ starter.at = "done" => reader.at = "done"

(* All of them, for one choice of the stretches.                           *)
FlowAt(a, b, c, full, t) ==
    /\ InLine(a, b, c) /\ Staged(a, b, full, t) /\ BeingRead(a, b, full, t)
    /\ Joining(full, t) /\ Handed(b, c) /\ Gathered(c)

(* The second part of the invariant. Once the context is done nothing more *)
(* is reported.                                                            *)
Flow == ~ctxDone => \E a, b, c, full, t : FlowAt(a, b, c, full, t)

-----------------------------------------------------------------------------
(* A failure asks less of what was read.                                   *)
LEMMA WorseCarries ==
    ASSUME NEW l, NEW full, NEW n, NEW failed, NEW more, Carries(l, full, n, failed), Worse(failed, more)
    PROVE  Carries(l, full, n, more)
BY DEF Worse, Carries, FullOf

(* The same of a stage.                                                    *)
LEMMA WorseStage ==
    ASSUME NEW h, NEW s, NEW depth, NEW last, NEW failed, NEW a, NEW b, NEW full, NEW t, NEW more,
           Stage(h, s, depth, last, failed, a, b, full, t), Worse(failed, more)
    PROVE  Stage(h, s, depth, last, more, a, b, full, t)
BY StageFails DEF Worse

(* And of a log.                                                           *)
LEMMA WorseLog ==
    ASSUME NEW h, NEW l, NEW a, NEW b, NEW full, NEW n, NEW failed, NEW more,
           LogOf(h, l, a, b, full, n, failed), Worse(failed, more)
    PROVE  LogOf(h, l, a, b, full, n, more)
BY WorseCarries DEF LogOf

(* What is in line stays there when only the reader, or rev-list, goes on. *)
LEMMA LineStays ==
    ASSUME NEW a, NEW b, NEW c, NEW full, NEW t, FlowAt(a, b, c, full, t),
           UNCHANGED <<history, groupSize, logs, starter, joiner, scanned>>,
           scan'.depth = scan.depth, scan'.last = scan.last, Worse(troubles, troubles'), Gathered(c)'
    PROVE  FlowAt(a, b, c, full, t)'
<1>1. InLine(a, b, c)' /\ Current' = Current /\ Gone(t)' = Gone(t) /\ (LowMemory' <=> LowMemory)
  BY DEF FlowAt, InLine, Current, Gone, LowMemory
<1>2. Staged(a, b, full, t)'
  BY WorseStage DEF FlowAt, Staged
<1>3. BeingRead(a, b, full, t)'
  <2>1. /\ Current = 0 => b = 0 /\ full = <<>>
        /\ Current # 0 => LogOf(history, logs[Current], a, b, full, Gone(t), troubles)
        /\ LowMemory => Current <= b
    BY DEF FlowAt, BeingRead
  <2>2. Current # 0 => LogOf(history', logs'[Current'], a, b, full, Gone(t)', troubles')
    BY <1>1, <2>1, WorseLog
  <2> QED BY <1>1, <2>1, <2>2 DEF BeingRead
<1>4. Joining(full, t)'
  BY <1>1 DEF FlowAt, Joining
<1>5. Handed(b, c)'
  <2>1. ASSUME NEW next, LogOf(history, logs[Len(logs)], b, c, next, 0, troubles)
        PROVE  LogOf(history', logs'[Len(logs')], b, c, next, 0, troubles')
    BY <2>1, WorseLog
  <2> QED BY <1>1, <2>1 DEF FlowAt, Handed
<1> QED BY <1>1, <1>2, <1>3, <1>4, <1>5 DEF FlowAt

(* At first nobody has anything.                                           *)
LEMMA FlowInit ==
    ASSUME ParserIsRight, Init, Shape
    PROVE  Flow
<1>1. history \in Histories /\ Len(history) \in Nat
  BY Numbers
<1>2. /\ scanned = <<>> /\ troubles = 0 /\ logs = <<>> /\ Len(logs) = 0
  BY EmptySeq DEF Init
<1>3. scan.depth = 0 /\ scan.last = NoCommit
  <2>1. PICK z : z = NoCommit
    OBVIOUS
  <2>2. scan = [at |-> "open", depth |-> 0, last |-> z, result |-> "none"]
    BY <2>1 DEF Init
  <2> QED BY <2>1, <2>2
<1>4. starter.at = (IF LowMemory THEN "range" ELSE "done")
      /\ reader.at = (IF LowMemory THEN "new" ELSE "done") /\ reader.read = 0
      /\ joiner.at = (IF LowMemory THEN "range" ELSE "done")
      /\ (LowMemory => revList.at # "failed")
  <2>1. PICK g, d : g = <<>> /\ d = NoDiff
    OBVIOUS
  <2>2. /\ starter = [at |-> IF LowMemory THEN "range" ELSE "done", group |-> g]
        /\ reader = [at |-> IF LowMemory THEN "new" ELSE "done", read |-> 0, group |-> g]
        /\ joiner = [at |-> IF LowMemory THEN "range" ELSE "done", log |-> 1, diff |-> d]
        /\ revList = [at |-> IF LowMemory THEN "running" ELSE "exited", written |-> 0]
    BY <2>1 DEF Init
  <2> QED BY <2>2
<1>5. PICK e : e = <<>>
  OBVIOUS
<1>6. Len(e) = 0 /\ SubSeq(history, 0 + 1, 0) = e
  BY <1>1, <1>5, ExpectedEmpty, EmptySeq
<1>7. reader.group = e
  BY <1>5 DEF Init
<1>8. InLine(0, 0, 0)
  BY <1>1 DEF InLine
<1>9. Staged(0, 0, e, 0)
  BY <1>1, <1>2, <1>3, <1>5, StageStarts DEF Staged
<1>10. Current = 0
  BY <1>2, <1>4 DEF Current
<1>11. BeingRead(0, 0, e, 0)
  BY <1>5, <1>10 DEF BeingRead
<1>12. Joining(e, 0)
  BY <1>4, <1>6, <1>10 DEF Joining
<1>13. Handed(0, 0)
  BY <1>2, <1>4 DEF Handed
<1>14. Gathered(0)
  BY <1>4, <1>6, <1>7 DEF Gathered
<1> QED BY <1>8, <1>9, <1>11, <1>12, <1>13, <1>14 DEF Flow, FlowAt

(* rev-list only writes, or ends.                                          *)
LEMMA FlowRevList ==
    ASSUME Shape, Flow, RevListSteps
    PROVE  Flow'
<1> SUFFICES ASSUME ~ctxDone' PROVE \E a, b, c, full, t : FlowAt(a, b, c, full, t)'
  BY DEF Flow
<1>1. UNCHANGED <<params, cancelled, ctxDone, reader, starter, logs, joiner, scan, scanned>>
  BY DEF RevListSteps, RevListWrites, RevListEnds, RevListDies
<1>2. UNCHANGED <<history, groupSize, maxDepth>>
  BY <1>1 DEF params
<1>3. PICK a, b, c, full, t : FlowAt(a, b, c, full, t)
  BY <1>1 DEF Flow
<1>4. troubles \in Nat
  BY Numbers
<1>5. /\ Worse(troubles, troubles')
      /\ revList'.at = "failed" => revList.at = "failed" \/ ~Fine(troubles')
  <2>1. CASE RevListWrites
    <3>1. revList' = [revList EXCEPT !.written = revList.written + 1] /\ revList.at = "running"
          /\ troubles' = troubles
      BY <2>1 DEF RevListWrites
    <3>2. revList'.at = revList.at
      BY <3>1 DEF Shape, Records, RevListType
    <3> QED BY <3>1, <3>2 DEF Worse
  <2>2. CASE RevListEnds
    <3>1. revList' = [revList EXCEPT !.at = "exited"] /\ troubles' = troubles
      BY <2>2 DEF RevListEnds
    <3>2. revList'.at = "exited"
      BY <3>1 DEF Shape, Records, RevListType
    <3> QED BY <3>1, <3>2 DEF Worse
  <2>3. CASE RevListDies
    <3>1. troubles' = troubles + 1
      BY <1>1, <2>3 DEF RevListDies
    <3> QED BY <1>4, <3>1 DEF Worse, Fine
  <2> QED BY <2>1, <2>2, <2>3 DEF RevListSteps
<1>6. Gathered(c)'
  <2>1. Fine(troubles') => Fine(troubles)
    BY <1>5 DEF Worse
  <2> QED BY <1>1, <1>2, <1>3, <1>5, <2>1 DEF FlowAt, Gathered, LowMemory
<1>7. FlowAt(a, b, c, full, t)'
  BY <1>1, <1>2, <1>3, <1>5, <1>6, LineStays
<1> QED BY <1>7

(* A history's part has as many commits as its bounds say.                 *)
LEMMA PartOfHistory ==
    ASSUME NEW h \in Histories, NEW a \in Nat, NEW b \in Nat, a <= b, b <= Len(h)
    PROVE  /\ SubSeq(h, a + 1, b) = <<>> <=> a = b
           /\ b < Len(h) => SubSeq(h, a + 1, b + 1) = Append(SubSeq(h, a + 1, b), h[b + 1])
<1>1. h \in Seq({h[i] : i \in DOMAIN h})
  BY HistoryAssumption
<1>2. PICK g : g = SubSeq(h, a + 1, b)
  OBVIOUS
<1>3. g \in Seq({h[i] : i \in DOMAIN h}) /\ Len(g) = b - a
  BY <1>1, <1>2, Stretch
<1>4. g = <<>> <=> Len(g) = 0
  BY <1>3, EmptySeq
<1>5. g = <<>> <=> a = b
  BY <1>3, <1>4
<1>6. b < Len(h) => SubSeq(h, a + 1, b + 1) = Append(SubSeq(h, a + 1, b), h[b + 1])
  BY <1>1, Longer
<1> QED BY <1>2, <1>5, <1>6

(* The numbers of the stretches.                                           *)
LEMMA LineIs ==
    ASSUME Shape, NEW a, NEW b, NEW c, InLine(a, b, c)
    PROVE  /\ a \in Nat /\ b \in Nat /\ c \in Nat /\ a <= b /\ b <= c /\ c <= Len(history)
           /\ a \in 0..Len(history) /\ b \in 0..Len(history) /\ c \in 0..Len(history)
<1>1. Len(history) \in Nat
  BY Numbers
<1> QED BY <1>1 DEF InLine

(* The reader adds a hash to its group, or stops.                          *)
LEMMA FlowReads ==
    ASSUME ParserIsRight, Shape, Flow, ReadHash \/ HashesEnd \/ GiveUpGroup \/ WaitForRevList
    PROVE  Flow'
<1> SUFFICES ASSUME ~ctxDone' PROVE \E a, b, c, full, t : FlowAt(a, b, c, full, t)'
  BY DEF Flow
<1>1. UNCHANGED <<params, cancelled, ctxDone, troubles, revList, starter, logs, joiner, scan, scanned>>
  BY DEF ReadHash, HashesEnd, GiveUpGroup, WaitForRevList
<1>2. UNCHANGED <<history, groupSize, maxDepth>>
  BY <1>1 DEF params
<1>3. PICK a, b, c, full, t : FlowAt(a, b, c, full, t)
  BY <1>1 DEF Flow
<1>4. Gathered(c) /\ c \in Nat /\ c <= Len(history) /\ Len(history) \in Nat /\ history \in Histories
  BY <1>3, LineIs, Numbers DEF FlowAt
<1>5. reader \in ReaderType /\ reader.read \in Nat /\ revList.written \in Nat
      /\ revList.written <= Len(history) /\ reader.read <= revList.written
  BY Fields DEF Shape, Records, Control
<1>9. ~ctxDone
  BY <1>1
<1>10. PICK d : d = reader.read
  OBVIOUS
<1>11. d \in Nat /\ d <= Len(history)
  BY <1>4, <1>5, <1>10
<1>12. LowMemory
  <2>1. reader.at # "done"
    BY DEF ReadHash, HashesEnd, GiveUpGroup, WaitForRevList
  <2> QED BY <2>1 DEF Shape, Control
<1>7. Gathered(c)'
  <2>1. CASE ReadHash
    <3>1. PICK n, g, x : /\ n = reader.read + 1 /\ g = Append(reader.group, history[n])
                         /\ x = IF Len(g) = groupSize THEN "send" ELSE "scan"
      OBVIOUS
    <3>2. reader' = [at |-> x, read |-> n, group |-> g] /\ reader.at = "scan" /\ reader.read < revList.written
      BY <2>1, <3>1 DEF ReadHash
    <3>3. reader'.at = x /\ reader'.read = n /\ reader'.group = g /\ x \in {"scan", "send"}
      BY <3>1, <3>2
    <3>4. CASE starter.at # "done"
      <4>1. c <= reader.read /\ reader.group = SubSeq(history, c + 1, reader.read)
        BY <1>4, <1>12, <3>2, <3>4 DEF Gathered
      <4>2. reader.read < Len(history) /\ c < n /\ c <= n /\ reader.read <= Len(history)
        BY <1>4, <1>5, <3>1, <3>2, <4>1
      <4>3. SubSeq(history, c + 1, n) = g
        <5>1. c <= d /\ d < Len(history)
          BY <1>10, <4>1, <4>2
        <5>2. SubSeq(history, c + 1, d + 1) = Append(SubSeq(history, c + 1, d), history[d + 1])
          BY <1>4, <1>11, <5>1, PartOfHistory
        <5> QED BY <1>10, <3>1, <4>1, <5>2
      <4> QED BY <1>1, <1>2, <1>4, <3>2, <3>3, <3>4, <4>2, <4>3 DEF Gathered, LowMemory
    <3>5. CASE starter.at = "done"
      BY <1>1, <1>2, <1>4, <3>2, <3>3, <3>5 DEF Gathered, LowMemory
    <3> QED BY <3>4, <3>5
  <2>2. CASE HashesEnd
    <3>1. PICK x : x = IF reader.group # <<>> THEN "send last" ELSE "wait"
      OBVIOUS
    <3>2. reader' = [reader EXCEPT !.at = x] /\ reader.at = "scan" /\ reader.read = revList.written
          /\ revList.at # "running"
      BY <1>9, <2>2, <3>1 DEF HashesEnd
    <3>3. reader'.at = x /\ reader'.read = reader.read /\ reader'.group = reader.group
          /\ x \in {"send last", "wait"}
      <4>1. x \in {"send last", "wait"} /\ x \in ReaderStates
        BY <3>1 DEF ReaderStates
      <4> QED BY <1>5, <3>2, <4>1 DEF ReaderType
    <3>4. Fine(troubles) => reader.read = Len(history) /\ starter.at # "done"
      <4>1. revList.at \in {"exited", "failed"}
        BY <3>2, Fields
      <4>2. revList.at = "failed" => ~Fine(troubles)
        BY <1>4, <1>12 DEF Gathered
      <4>3. revList.at = "exited" => revList.written = Len(history)
        BY <1>12 DEF Shape, Control
      <4>4. Fine(troubles) /\ starter.at = "done" => reader.at = "done"
        BY <1>4, <1>12 DEF Gathered
      <4> QED BY <3>2, <4>1, <4>2, <4>3, <4>4
    <3>5. CASE starter.at # "done"
      <4>1. c <= reader.read /\ reader.group = SubSeq(history, c + 1, reader.read)
        BY <1>4, <1>12, <3>2, <3>5 DEF Gathered
      <4>2. reader.group = <<>> <=> c = reader.read
        <5>1. c <= d
          BY <1>10, <4>1
        <5>2. SubSeq(history, c + 1, d) = <<>> <=> c = d
          BY <1>4, <1>11, <5>1, PartOfHistory
        <5> QED BY <1>10, <4>1, <5>2
      <4>3. x = "send last" => c < reader.read
        <5>1. x = "send last" => c # d
          BY <1>10, <3>1, <4>2
        <5>2. c <= d
          BY <1>10, <4>1
        <5>3. c # d => c < d
          BY <1>4, <1>11, <5>2
        <5> QED BY <1>10, <5>1, <5>3
      <4>4. x = "wait" => c = reader.read
        BY <3>1, <4>2
      <4> QED BY <1>1, <1>2, <1>4, <3>2, <3>3, <3>4, <3>5, <4>1, <4>3, <4>4 DEF Gathered, LowMemory
    <3>6. CASE starter.at = "done"
      BY <1>1, <1>2, <1>4, <3>2, <3>3, <3>4, <3>6 DEF Gathered, LowMemory
    <3> QED BY <3>5, <3>6
  <2>3. CASE GiveUpGroup
    BY <1>9, <2>3 DEF GiveUpGroup
  <2>4. CASE WaitForRevList
    <3>1. reader' = [reader EXCEPT !.at = "done"] /\ reader.at = "wait"
      BY <2>4 DEF WaitForRevList
    <3>2. reader'.at = "done"
      BY <1>5, <3>1, ReaderGoes DEF ReaderStates
    <3> QED BY <1>1, <1>2, <1>4, <3>1, <3>2 DEF Gathered, LowMemory
  <2> QED BY <2>1, <2>2, <2>3, <2>4
<1>8. FlowAt(a, b, c, full, t)'
  BY <1>1, <1>2, <1>3, <1>7, LineStays DEF Worse
<1> QED BY <1>8

(* The reader hands its group to the starter.                              *)
LEMMA FlowSendGroup ==
    ASSUME ParserIsRight, Shape, Flow, SendGroup
    PROVE  Flow'
<1> SUFFICES ASSUME ~ctxDone' PROVE \E a, b, c, full, t : FlowAt(a, b, c, full, t)'
  BY DEF Flow
<1>1. UNCHANGED <<params, cancelled, ctxDone, troubles, revList, logs, joiner, scan, scanned>>
  BY DEF SendGroup
<1>2. UNCHANGED <<history, groupSize, maxDepth>>
  BY <1>1 DEF params
<1>3. PICK a, b, c, full, t : FlowAt(a, b, c, full, t)
  BY <1>1 DEF Flow
<1>4. Gathered(c) /\ InLine(a, b, c) /\ Handed(b, c) /\ Len(history) \in Nat /\ history \in Histories
  BY <1>3, Numbers DEF FlowAt
<1>5. reader \in ReaderType /\ reader.read \in Nat /\ revList.written \in Nat
      /\ revList.written <= Len(history) /\ reader.read <= revList.written
  BY Fields DEF Shape, Records, Control
<1>6. PICK d, g, e, x : d = reader.read /\ g = reader.group /\ e = <<>>
                        /\ x = IF reader.at = "send" THEN "scan" ELSE "wait"
  OBVIOUS
<1>7. /\ reader.at \in {"send", "send last"} /\ starter.at = "range"
      /\ starter' = [at |-> "start", group |-> g] /\ reader' = [reader EXCEPT !.at = x, !.group = e]
  BY <1>6 DEF SendGroup
<1>8. starter'.at = "start" /\ starter'.group = g
  BY <1>7
<1>9. reader'.at = x /\ reader'.read = d /\ reader'.group = e /\ x \in {"scan", "wait"}
  BY <1>5, <1>6, <1>7 DEF ReaderType
<1>10. LowMemory
  BY <1>7 DEF Shape, Control
<1>11. c < d /\ g = SubSeq(history, c + 1, d) /\ b = c /\ d <= Len(history) /\ d \in Nat
  <2>1. c < reader.read /\ b = c
    BY <1>4, <1>7, <1>10 DEF Gathered, Handed
  <2>2. reader.group = SubSeq(history, c + 1, reader.read)
    BY <1>4, <1>7, <1>10 DEF Gathered
  <2> QED BY <1>4, <1>5, <1>6, <2>1, <2>2
<1>12. InLine(a, b, d)'
  <2>1. a \in 0..Len(history) /\ b \in a..Len(history) /\ b \in Nat /\ b <= c
    BY <1>4, LineIs DEF InLine
  <2> QED BY <1>2, <1>4, <1>11, <2>1 DEF InLine
<1>13. Current' = Current /\ Gone(t)' = Gone(t) /\ (LowMemory' <=> LowMemory)
  BY <1>1, <1>2, <1>7, <1>8 DEF Current, Gone, LowMemory
<1>14. Staged(a, b, full, t)' /\ BeingRead(a, b, full, t)'
  BY <1>1, <1>2, <1>3, <1>13 DEF FlowAt, Staged, BeingRead
<1>15. Joining(full, t)'
  <2>1. joiner.at # "done"
    BY <1>3, <1>7, <1>10 DEF FlowAt, Joining
  <2> QED BY <1>1, <1>3, <1>13, <2>1 DEF FlowAt, Joining
<1>16. Handed(b, d)'
  BY <1>2, <1>8, <1>10, <1>11, <1>13 DEF Handed
<1>17. Gathered(d)'
  <2>1. SubSeq(history, d + 1, d) = e
    BY <1>4, <1>6, <1>11, ExpectedEmpty
  <2>2. reader.at = "send last" /\ Fine(troubles) => d = Len(history)
    BY <1>4, <1>6, <1>10 DEF Gathered
  <2>3. x = "wait" => reader.at = "send last"
    BY <1>6, <1>7
  <2>4. d <= d
    BY <1>11
  <2>5. scan.at = "open" => reader.at = "new"
    BY <1>4, <1>10 DEF Gathered
  <2> QED BY <1>1, <1>2, <1>4, <1>7, <1>8, <1>9, <2>1, <2>2, <2>3, <2>4, <2>5 DEF Gathered, LowMemory
<1>18. FlowAt(a, b, d, full, t)'
  BY <1>12, <1>14, <1>15, <1>16, <1>17 DEF FlowAt
<1> QED BY <1>18

-----------------------------------------------------------------------------
(* What starts the logs.                                                   *)
LEMMA FlowStartLog ==
    ASSUME ParserIsRight, Shape, Flow, StartLog
    PROVE  Flow' /\ starter.group \in Pieces
<1>1. UNCHANGED <<params, cancelled, ctxDone, troubles, revList, reader, joiner, scan, scanned>>
      /\ ~ctxDone
  BY DEF StartLog
<1>2. UNCHANGED <<history, groupSize, maxDepth>>
  BY <1>1 DEF params
<1>3. PICK a, b, c, full, t : FlowAt(a, b, c, full, t)
  BY <1>1 DEF Flow
<1>4. PICK g, r, e, n : g = starter.group /\ r = Log(g) /\ e = <<>> /\ n = Len(logs)
  OBVIOUS
<1>5. starter.at = "start" /\ logs' = Append(logs, r) /\ starter' = [at |-> "send", group |-> e]
  BY <1>4 DEF StartLog
<1>6. starter'.at = "send"
  BY <1>5
<1>7. LowMemory
  BY <1>5 DEF Shape, Control
<1>8. /\ a \in Nat /\ b \in Nat /\ c \in Nat /\ c <= Len(history) /\ history \in Histories
      /\ n \in Nat
  BY <1>3, <1>4, LineIs, Numbers DEF FlowAt
<1>9. b < c /\ g = SubSeq(history, b + 1, c)
  BY <1>3, <1>4, <1>5 DEF FlowAt, Handed
<1>10. g \in Pieces
  BY <1>8, <1>9, PieceOfHistory
<1>11. r \in LogType /\ r.commits = g /\ Carries(r, OutputOf(g).whole, 0, troubles)
  BY <1>4, <1>10, CarriesStarts
<1>12. /\ Len(logs') = n + 1 /\ logs'[n + 1] = r
       /\ \A i \in 1..n : logs'[i] = logs[i]
  <2>1. logs \in Seq(LogType)
    BY DEF Shape, Channels
  <2> QED BY <1>4, <1>5, <1>11, <2>1, AppendProperties
<1>13. Current = n /\ Current' = n /\ Gone(t)' = Gone(t) /\ (LowMemory' <=> LowMemory)
  BY <1>1, <1>2, <1>4, <1>5, <1>6, <1>8, <1>12 DEF Current, Gone, LowMemory
<1>14. n # 0 => logs'[n] = logs[n]
  <2>1. n # 0 => n \in 1..n
    BY <1>8
  <2> QED BY <1>12, <2>1
<1>15. InLine(a, b, c)' /\ Staged(a, b, full, t)'
  BY <1>1, <1>2, <1>3 DEF FlowAt, InLine, Staged
<1>16. BeingRead(a, b, full, t)'
  BY <1>1, <1>2, <1>3, <1>13, <1>14 DEF FlowAt, BeingRead
<1>17. Joining(full, t)'
  <2>1. joiner.at # "done"
    BY <1>3, <1>5, <1>7 DEF FlowAt, Joining
  <2> QED BY <1>1, <1>3, <1>13, <1>14, <2>1 DEF FlowAt, Joining
<1>18. Handed(b, c)'
  <2>1. LogOf(history, r, b, c, OutputOf(g).whole, 0, troubles)
    BY <1>9, <1>11 DEF LogOf
  <2>2. logs'[Len(logs')] = r
    BY <1>12
  <2> QED BY <1>1, <1>2, <1>6, <1>7, <1>9, <1>13, <2>1, <2>2 DEF Handed
<1>19. Gathered(c)'
  BY <1>1, <1>2, <1>3, <1>5, <1>6 DEF FlowAt, Gathered, LowMemory
<1>20. FlowAt(a, b, c, full, t)'
  BY <1>15, <1>16, <1>17, <1>18, <1>19 DEF FlowAt
<1> QED BY <1>4, <1>10, <1>20 DEF Flow

(* The starter stops, which without a failure it does at the end of the    *)
(* history.                                                                *)
LEMMA FlowStarter ==
    ASSUME ParserIsRight, Shape, Flow, StartFails \/ GiveUpLog \/ StarterEnds
    PROVE  Flow'
<1> SUFFICES ASSUME ~ctxDone' PROVE \E a, b, c, full, t : FlowAt(a, b, c, full, t)'
  BY DEF Flow
<1>1. UNCHANGED <<params, cancelled, ctxDone, revList, reader, logs, joiner, scan, scanned>>
  BY DEF StartFails, GiveUpLog, StarterEnds
<1>2. UNCHANGED <<history, groupSize, maxDepth>>
  BY <1>1 DEF params
<1>3. ~ctxDone
  BY <1>1
<1>4. PICK a, b, c, full, t : FlowAt(a, b, c, full, t)
  BY <1>3 DEF Flow
<1>5. starter \in StarterType /\ troubles \in Nat
  BY Numbers DEF Shape, Records
<1>6. LowMemory
  <2>1. starter.at # "done"
    BY DEF StartFails, GiveUpLog, StarterEnds
  <2> QED BY <2>1 DEF Shape, Control
<1>7. ASSUME NEW d, starter.at \in {"start", "range"}, starter'.at = "done", Worse(troubles, troubles'),
             d = b, b = c \/ ~Fine(troubles'), Fine(troubles') => reader.at = "done", reader.at # "new"
      PROVE  FlowAt(a, b, d, full, t)'
  <2>1. InLine(a, b, d)'
    <3>1. b \in b..Len(history)
      BY <1>4, LineIs, Numbers DEF FlowAt
    <3> QED BY <1>2, <1>4, <1>7, <3>1 DEF FlowAt, InLine
  <2>2. Current' = Current /\ Gone(t)' = Gone(t) /\ (LowMemory' <=> LowMemory)
    BY <1>1, <1>2, <1>7 DEF Current, Gone, LowMemory
  <2>3. Staged(a, b, full, t)'
    BY <1>1, <1>2, <1>4, <1>7, WorseStage DEF FlowAt, Staged
  <2>4. BeingRead(a, b, full, t)'
    <3>1. /\ Current = 0 => b = 0 /\ full = <<>>
          /\ Current # 0 => LogOf(history, logs[Current], a, b, full, Gone(t), troubles)
          /\ LowMemory => Current <= b
      BY <1>4 DEF FlowAt, BeingRead
    <3>2. Current # 0 => LogOf(history', logs'[Current'], a, b, full, Gone(t)', troubles')
      BY <1>1, <1>2, <1>7, <2>2, <3>1, WorseLog
    <3> QED BY <2>2, <3>1, <3>2 DEF BeingRead
  <2>5. Joining(full, t)'
    BY <1>1, <1>4, <1>7, <2>2 DEF FlowAt, Joining
  <2>6. Handed(b, d)'
    BY <1>6, <1>7, <2>2 DEF Handed
  <2>7. Gathered(d)'
    <3>1. Fine(troubles') => Fine(troubles)
      BY <1>7 DEF Worse
    <3>2. Gathered(c)
      BY <1>4 DEF FlowAt
    <3> QED BY <1>1, <1>2, <1>6, <1>7, <3>1, <3>2 DEF Gathered, LowMemory
  <2> QED BY <2>1, <2>3, <2>4, <2>5, <2>6, <2>7 DEF FlowAt
<1>8. CASE StartFails
  <2>1. starter.at = "start" /\ starter'.at = "done" /\ troubles' = troubles + 1
    <3>1. PICK e : e = <<>>
      OBVIOUS
    <3>2. starter' = [at |-> "done", group |-> e]
      BY <1>8, <3>1 DEF StartFails
    <3> QED BY <1>3, <1>8, <3>2 DEF StartFails
  <2>2. ~Fine(troubles') /\ Worse(troubles, troubles')
    BY <1>5, <2>1 DEF Worse, Fine
  <2>3. reader.at # "new"
    BY <1>4, <1>6, <2>1 DEF FlowAt, Gathered
  <2>4. FlowAt(a, b, b, full, t)'
    BY <1>7, <2>1, <2>2, <2>3
  <2> QED BY <2>4
<1>9. CASE GiveUpLog
  BY <1>3, <1>9 DEF GiveUpLog
<1>10. CASE StarterEnds
  <2>1. starter.at = "range" /\ starter' = [starter EXCEPT !.at = "done"] /\ troubles' = troubles
        /\ reader.at = "done"
    BY <1>10 DEF StarterEnds
  <2>2. starter'.at = "done" /\ Worse(troubles, troubles')
    BY <1>5, <2>1 DEF StarterType, Worse
  <2>3. b = c
    BY <1>4, <2>1 DEF FlowAt, Handed
  <2>4. FlowAt(a, b, b, full, t)'
    BY <1>7, <2>1, <2>2, <2>3
  <2> QED BY <2>4
<1> QED BY <1>8, <1>9, <1>10

(* The starter hands its log to the joiner, which has read all of the one  *)
(* before.                                                                 *)
LEMMA FlowSendLog ==
    ASSUME ParserIsRight, Shape, Flow, SendLog
    PROVE  Flow'
<1> SUFFICES ASSUME ~ctxDone' PROVE \E a, b, c, full, t : FlowAt(a, b, c, full, t)'
  BY DEF Flow
<1>1. UNCHANGED <<params, cancelled, ctxDone, troubles, revList, reader, logs, scan, scanned>>
  BY DEF SendLog
<1>2. UNCHANGED <<history, groupSize, maxDepth>>
  BY <1>1 DEF params
<1>3. ~ctxDone
  BY <1>1
<1>4. PICK a, b, c, full, t : FlowAt(a, b, c, full, t)
  BY <1>3 DEF Flow
<1>5. PICK n : n = Len(logs)
  OBVIOUS
<1>6. starter.at = "send" /\ starter' = [starter EXCEPT !.at = "range"] /\ joiner.at = "range"
      /\ joiner' = [joiner EXCEPT !.at = "read", !.log = n]
  BY <1>5 DEF SendLog
<1>7. starter'.at = "range" /\ joiner'.at = "read" /\ joiner'.log = n
  BY <1>6 DEF Shape, Records, StarterType, JoinerType
<1>8. LowMemory /\ n # 0
  BY <1>5, <1>6 DEF Shape, Control
<1>9. n \in Nat /\ n \in 1..n /\ logs[n] \in LogType
  <2>1. n \in Nat /\ n # 0
    BY <1>5, <1>8, Numbers
  <2>2. n \in 1..n
    BY <2>1
  <2> QED BY <1>5, <2>1, <2>2, Numbers
<1>10. /\ a \in Nat /\ b \in Nat /\ c \in Nat /\ b <= c /\ c <= Len(history) /\ history \in Histories
       /\ a \in 0..Len(history) /\ b \in 0..Len(history) /\ a <= b /\ c \in 0..Len(history)
  BY <1>4, LineIs, Numbers DEF FlowAt
<1>11. PICK next : LogOf(history, logs[n], b, c, next, 0, troubles)
  BY <1>4, <1>5, <1>6 DEF FlowAt, Handed
<1>12. b < c
  BY <1>4, <1>6 DEF FlowAt, Handed
<1>13. Piece(history, b, c, next, troubles)
  <2>1. logs[n].commits = SubSeq(history, b + 1, c) /\ FullOf(logs[n], next, troubles)
    BY <1>11 DEF LogOf, Carries
  <2> QED BY <1>9, <1>10, <2>1, PieceIs
<1>14. t = Len(full)
  BY <1>4, <1>6, <1>8 DEF FlowAt, Joining
<1>15. Stage(history, scanned, scan.depth, scan.last, troubles, b, c, next, 0)
  <2>1. Stage(history, scanned, scan.depth, scan.last, troubles, a, b, full, Len(full))
    BY <1>4, <1>14 DEF FlowAt, Staged
  <2> QED BY <1>10, <1>13, <2>1, StageTurns
<1>16. Current = n - 1 /\ Current' = n /\ Gone(0)' = 0 /\ (LowMemory' <=> LowMemory)
  BY <1>1, <1>2, <1>5, <1>6, <1>7 DEF Current, Gone, LowMemory
<1>17. InLine(b, c, c)'
  <2>1. c \in b..Len(history) /\ c \in c..Len(history)
    BY <1>10, Numbers
  <2> QED BY <1>2, <1>10, <2>1 DEF InLine
<1>18. Staged(b, c, next, 0)'
  BY <1>1, <1>2, <1>15 DEF Staged
<1>19. BeingRead(b, c, next, 0)'
  <2>1. n <= c
    <3>1. n - 1 <= b
      BY <1>4, <1>8, <1>16 DEF FlowAt, BeingRead
    <3> QED BY <1>9, <1>10, <1>12, <3>1
  <2> QED BY <1>1, <1>2, <1>8, <1>11, <1>16, <2>1 DEF BeingRead
<1>20. Joining(next, 0)'
  BY <1>7, <1>8, <1>16 DEF Joining
<1>21. Handed(c, c)'
  BY <1>7, <1>8, <1>16 DEF Handed
<1>22. Gathered(c)'
  BY <1>1, <1>2, <1>4, <1>6, <1>7 DEF FlowAt, Gathered, LowMemory
<1>23. FlowAt(b, c, c, next, 0)'
  BY <1>17, <1>18, <1>19, <1>20, <1>21, <1>22 DEF FlowAt
<1> QED BY <1>23

-----------------------------------------------------------------------------
(* A log's parser goes on with what the log carries, or cuts it.           *)
KeptOn(h, r, a, b, full, n, more, kept) ==
    /\ LogOf(h, r, a, b, kept, n, more)
    /\ kept = full \/ (/\ ~Fine(more) /\ Piece(h, a, b, kept, more) /\ n \in Nat /\ n <= Len(kept)
                       /\ kept \in Seq(DiffRecords) /\ \A k \in 1..n : kept[k] = full[k])

(* Whatever a parser does, its log keeps the diffs that were taken from    *)
(* it.                                                                     *)
LEMMA ParserKeeps ==
    ASSUME ParserIsRight, NEW h \in Histories, NEW a \in Nat, NEW b \in Nat, a <= b, b <= Len(h),
           NEW l \in LogType, NEW full, NEW n, NEW failed, LogOf(h, l, a, b, full, n, failed),
           NEW more, Worse(failed, more), NEW r,
           Sent(l, r) \/ Ended(l, r) \/ \E cut : CutTo(l, r, cut) /\ ~Fine(more)
    PROVE  /\ \E kept : KeptOn(h, r, a, b, full, n, more, kept) /\ (l.at = "closed" => kept = full)
           /\ l.at = "closed" => r.at = "closed"
<1>1. Carries(l, full, n, failed) /\ l.commits = SubSeq(h, a + 1, b)
  BY DEF LogOf
<1>2. CASE Sent(l, r)
  <2>1. /\ l.rest # <<>>
        /\ r = [l EXCEPT !.rest = Tail(l.rest), !.sent = l.sent + 1, !.chan = Append(l.chan, Head(l.rest))]
    BY <1>2 DEF Sent
  <2>2. Carries(r, full, n, failed) /\ r.commits = l.commits /\ r.at = l.at
    BY <1>1, <2>1, CarriesSends
  <2>3. Carries(r, full, n, more)
    BY <2>2, WorseCarries
  <2>4. KeptOn(h, r, a, b, full, n, more, full)
    BY <1>1, <2>2, <2>3 DEF KeptOn, LogOf
  <2> QED BY <2>2, <2>4
<1>3. CASE Ended(l, r)
  <2>1. l.rest = <<>> /\ r = [l EXCEPT !.at = "closed"]
    BY <1>3 DEF Ended
  <2>2. Carries(r, full, n, failed) /\ r.commits = l.commits /\ r.at = "closed"
    BY <1>1, <2>1, CarriesEnds
  <2>3. Carries(r, full, n, more)
    BY <2>2, WorseCarries
  <2>4. KeptOn(h, r, a, b, full, n, more, full)
    BY <1>1, <2>2, <2>3 DEF KeptOn, LogOf
  <2> QED BY <2>2, <2>4
<1>4. CASE \E cut : CutTo(l, r, cut) /\ ~Fine(more)
  <2>1. PICK cut : CutTo(l, r, cut) /\ ~Fine(more)
    BY <1>4
  <2>2. l.at = "parsing"
    BY <2>1 DEF CutTo
  <2>3. /\ r \in LogType /\ Carries(r, cut, n, more) /\ r.commits = l.commits
        /\ cut \in Seq(DiffRecords) /\ n <= Len(cut) /\ \A k \in 1..n : cut[k] = full[k]
    BY <1>1, <2>1, CarriesCut
  <2>4. r.commits = SubSeq(h, a + 1, b) /\ FullOf(r, cut, more) /\ n \in Nat
    BY <1>1, <2>3 DEF Carries
  <2>5. Piece(h, a, b, cut, more)
    BY <2>3, <2>4, PieceIs
  <2>6. KeptOn(h, r, a, b, full, n, more, cut)
    BY <2>1, <2>3, <2>4, <2>5 DEF KeptOn, LogOf
  <2> QED BY <2>2, <2>6
<1> QED BY <1>2, <1>3, <1>4

(* A parser, of the log that is read, of the next one, or of one read      *)
(* before.                                                                 *)
LEMMA FlowParser ==
    ASSUME ParserIsRight, Shape, Flow, NEW i \in DOMAIN logs, Parser(i)
    PROVE  Flow'
<1> SUFFICES ASSUME ~ctxDone' PROVE \E a, b, c, full, t : FlowAt(a, b, c, full, t)'
  BY DEF Flow
<1>1. /\ i \in 1..Len(logs) /\ logs[i] \in LogType
      /\ UNCHANGED <<params, cancelled, ctxDone, revList, reader, starter, joiner, scan, scanned>>
      /\ Worse(troubles, troubles')
  BY ParserIs
<1>2. UNCHANGED <<history, groupSize, maxDepth>>
  BY <1>1 DEF params
<1>3. ~ctxDone
  BY <1>1
<1>4. PICK r : /\ logs' = [logs EXCEPT ![i] = r]
               /\ Sent(logs[i], r) \/ Ended(logs[i], r) \/ \E cut : CutTo(logs[i], r, cut) /\ ~Fine(troubles')
  BY <1>3, ParserIs
<1>5. PICK a, b, c, full, t : FlowAt(a, b, c, full, t)
  BY <1>3 DEF Flow
<1>6. /\ a \in Nat /\ b \in Nat /\ c \in Nat /\ a <= b /\ b <= c /\ c <= Len(history) /\ history \in Histories
      /\ a \in 0..Len(history) /\ b \in 0..Len(history) /\ Len(logs) \in Nat /\ Len(history) \in Nat
  BY <1>5, LineIs, Numbers DEF FlowAt
<1>7. b <= Len(history)
  BY <1>6
<1>8. /\ DOMAIN logs' = DOMAIN logs /\ Len(logs') = Len(logs) /\ logs'[i] = r
      /\ \A j \in 1..Len(logs) : j # i => logs'[j] = logs[j]
  <2>1. logs \in Seq(LogType) /\ DOMAIN logs = 1..Len(logs)
    BY Numbers DEF Shape, Channels
  <2>2. logs' = [logs EXCEPT ![i] = r]
    BY <1>4
  <2>3. DOMAIN logs' = DOMAIN logs /\ logs'[i] = r /\ \A j \in 1..Len(logs) : j # i => logs'[j] = logs[j]
    BY <1>1, <2>1, <2>2
  <2>4. Len(logs') = Len(logs)
    <3>1. Shape'
      BY ShapeParser
    <3>2. Len(logs') \in Nat /\ DOMAIN logs' = 1..Len(logs')
      BY <3>1, Numbers
    <3> QED BY <1>6, <2>1, <2>3, <3>2
  <2> QED BY <2>3, <2>4
<1>9. Current' = Current /\ Gone(t)' = Gone(t) /\ (LowMemory' <=> LowMemory)
  BY <1>1, <1>2, <1>8 DEF Current, Gone, LowMemory
<1>10. Current \in Nat /\ (Current # 0 => Current \in 1..Len(logs))
  <2>1. starter.at = "send" => Len(logs) # 0
    BY DEF Shape, Control
  <2>2. Current \in Nat /\ Current <= Len(logs)
    BY <1>6, <2>1 DEF Current
  <2> QED BY <1>6, <2>2
<1>11. /\ Current = 0 => b = 0 /\ full = <<>>
       /\ Current # 0 => LogOf(history, logs[Current], a, b, full, Gone(t), troubles)
       /\ LowMemory => Current <= b
  BY <1>5 DEF FlowAt, BeingRead
<1>12. Stage(history, scanned, scan.depth, scan.last, troubles', a, b, full, t)
  BY <1>1, <1>5, WorseStage DEF FlowAt, Staged
<1>13. \E kept : Staged(a, b, kept, t)' /\ BeingRead(a, b, kept, t)' /\ Joining(kept, t)'
  <2>1. CASE Current # i
    <3>1. Current # 0 => logs'[Current] = logs[Current]
      BY <1>8, <1>10, <2>1
    <3>2. Staged(a, b, full, t)'
      BY <1>1, <1>2, <1>12 DEF Staged
    <3>3. Current # 0 => LogOf(history, logs[Current], a, b, full, Gone(t), troubles')
      BY <1>1, <1>11, WorseLog
    <3>4. BeingRead(a, b, full, t)'
      BY <1>2, <1>9, <1>11, <3>1, <3>3 DEF BeingRead
    <3>5. Joining(full, t)'
      BY <1>1, <1>5, <1>9, <3>1 DEF FlowAt, Joining
    <3> QED BY <3>2, <3>4, <3>5
  <2>2. CASE Current = i
    <3>1. Current # 0 /\ Current \in 1..Len(logs)
      BY <1>1, <1>6, <2>2
    <3>2. LogOf(history, logs[i], a, b, full, Gone(t), troubles)
      BY <1>11, <2>2, <3>1
    <3>3. PICK n : n = Gone(t)
      OBVIOUS
    <3>4. PICK kept : KeptOn(history, r, a, b, full, n, troubles', kept) /\ (logs[i].at = "closed" => kept = full)
      BY <1>1, <1>4, <1>6, <1>7, <3>2, <3>3, ParserKeeps
    <3>5. logs[i].at = "closed" => r.at = "closed"
      BY <1>1, <1>4, <1>6, <1>7, <3>2, ParserKeeps
    <3>6. LogOf(history, r, a, b, kept, n, troubles')
      BY <3>4 DEF KeptOn
    <3>7. BeingRead(a, b, kept, t)'
      <4>1. LogOf(history', logs'[Current'], a, b, kept, Gone(t)', troubles')
        BY <1>2, <1>8, <1>9, <2>2, <3>3, <3>6
      <4> QED BY <1>9, <1>11, <3>1, <4>1 DEF BeingRead
    <3>8. CASE kept = full
      <4>1. Staged(a, b, full, t)'
        BY <1>1, <1>2, <1>12 DEF Staged
      <4>2. Joining(full, t)'
        BY <1>1, <1>5, <1>8, <1>9, <2>2, <3>5 DEF FlowAt, Joining
      <4> QED BY <3>7, <3>8, <4>1, <4>2
    <3>9. CASE kept # full
      <4>1. /\ ~Fine(troubles') /\ Piece(history, a, b, kept, troubles') /\ n \in Nat /\ n <= Len(kept)
            /\ kept \in Seq(DiffRecords) /\ \A k \in 1..n : kept[k] = full[k]
        BY <3>4, <3>9 DEF KeptOn
      <4>2. Len(kept) \in Nat /\ t \in Nat
        <5>1. t \in 0..Len(full) /\ full \in Seq(DiffRecords)
          BY <1>12 DEF Stage, Piece
        <5> QED BY <4>1, <5>1, LenProperties
      <4>3. t <= n /\ (joiner.at = "send" => n = t + 1)
        BY <3>3, <4>2 DEF Gone
      <4>4. t <= Len(kept) /\ \A k \in 1..t : kept[k] = full[k]
        <5>1. \A k \in 1..t : k \in 1..n
          BY <4>1, <4>2, <4>3
        <5> QED BY <4>1, <4>2, <4>3, <5>1
      <4>5. Stage(history, scanned, scan.depth, scan.last, troubles', a, b, kept, t)
        BY <1>6, <1>12, <4>1, <4>4, StageCut
      <4>6. Staged(a, b, kept, t)'
        BY <1>1, <1>2, <4>5 DEF Staged
      <4>7. joiner.at = "send" => t < Len(kept) /\ joiner.diff = kept[t + 1]
        <5>1. joiner.at = "send" => joiner.diff = full[t + 1]
          BY <1>5 DEF FlowAt, Joining
        <5>2. ASSUME joiner.at = "send" PROVE t < Len(kept) /\ kept[t + 1] = full[t + 1]
          <6>1. n = t + 1 /\ n \in 1..n
            BY <4>1, <4>2, <4>3, <5>2
          <6>2. kept[n] = full[n]
            BY <4>1, <6>1
          <6> QED BY <4>1, <4>2, <6>1, <6>2
        <5> QED BY <5>1, <5>2
      <4>8. ~(LowMemory /\ joiner.at \in {"range", "done"})
        BY <1>5, <2>2, <3>1, <3>4, <3>9 DEF FlowAt, Joining
      <4>9. joiner.at = "done" /\ LowMemory => starter.at = "done"
        BY <4>8
      <4>10. Joining(kept, t)'
        BY <1>1, <1>5, <1>9, <4>7, <4>8 DEF FlowAt, Joining
      <4> QED BY <3>7, <4>6, <4>10
    <3> QED BY <3>8, <3>9
  <2> QED BY <2>1, <2>2
<1>14. PICK kept : Staged(a, b, kept, t)' /\ BeingRead(a, b, kept, t)' /\ Joining(kept, t)'
  BY <1>13
<1>15. Handed(b, c)'
  <2>1. CASE starter.at = "send"
    <3>1. PICK next : LogOf(history, logs[Len(logs)], b, c, next, 0, troubles)
      BY <1>5, <2>1 DEF FlowAt, Handed
    <3>2. \E more : LogOf(history, logs'[Len(logs)], b, c, more, 0, troubles')
      <4>1. CASE i = Len(logs)
        <5>1. PICK more : KeptOn(history, r, b, c, next, 0, troubles', more)
          <6>1. LogOf(history, logs[i], b, c, next, 0, troubles)
            BY <3>1, <4>1
          <6> QED BY <1>1, <1>4, <1>6, <6>1, ParserKeeps
        <5> QED BY <1>8, <4>1, <5>1 DEF KeptOn
      <4>2. CASE i # Len(logs)
        <5>1. Len(logs) \in 1..Len(logs)
          BY <1>6, <2>1 DEF Shape, Control
        <5>2. logs'[Len(logs)] = logs[Len(logs)]
          BY <1>8, <4>2, <5>1
        <5> QED BY <1>1, <3>1, <5>2, WorseLog
      <4> QED BY <4>1, <4>2
    <3>3. \E more : LogOf(history, logs[Len(logs)], b, c, more, 0, troubles)'
      BY <1>2, <1>8, <3>2
    <3> QED BY <1>1, <1>2, <1>5, <1>8, <1>9, <2>1, <3>3 DEF FlowAt, Handed
  <2>2. CASE starter.at # "send"
    BY <1>1, <1>2, <1>5, <1>8, <1>9, <2>2 DEF FlowAt, Handed
  <2> QED BY <2>1, <2>2
<1>16. InLine(a, b, c)' /\ Gathered(c)'
  <2>1. Fine(troubles') => Fine(troubles)
    BY <1>1 DEF Worse
  <2> QED BY <1>1, <1>2, <1>5, <2>1 DEF FlowAt, InLine, Gathered, LowMemory
<1>17. FlowAt(a, b, c, kept, t)'
  BY <1>14, <1>15, <1>16 DEF FlowAt
<1> QED BY <1>17

-----------------------------------------------------------------------------
(* What joins the logs.                                                    *)
LEMMA CurrentIs ==
    ASSUME Shape
    PROVE  Current \in Nat /\ (Current # 0 => Current \in 1..Len(logs) /\ logs[Current] \in LogType)
<1>1. starter.at = "send" => Len(logs) # 0
  BY DEF Shape, Control
<1>2. Len(logs) \in Nat
  BY Numbers
<1>3. Current \in Nat /\ Current <= Len(logs)
  BY <1>1, <1>2 DEF Current
<1>4. Current # 0 => Current \in 1..Len(logs)
  BY <1>2, <1>3
<1> QED BY <1>3, <1>4, Numbers

(* The joiner takes a diff from the log.                                   *)
LEMMA FlowTakeDiff ==
    ASSUME ParserIsRight, Shape, Flow, TakeDiff
    PROVE  Flow'
<1> SUFFICES ASSUME ~ctxDone' PROVE \E a, b, c, full, t : FlowAt(a, b, c, full, t)'
  BY DEF Flow
<1>1. UNCHANGED <<params, cancelled, ctxDone, troubles, revList, reader, starter, scan, scanned>>
  BY DEF TakeDiff
<1>2. UNCHANGED <<history, groupSize, maxDepth>>
  BY <1>1 DEF params
<1>3. ~ctxDone
  BY <1>1
<1>4. PICK a, b, c, full, t : FlowAt(a, b, c, full, t)
  BY <1>3 DEF Flow
<1>5. PICK n : n = Current
  OBVIOUS
<1>6. PICK l : l = logs[n]
  OBVIOUS
<1>7. joiner.at = "read" /\ joiner.log = n /\ n # 0
  BY <1>4, <1>5 DEF TakeDiff, FlowAt, Joining
<1>8. n \in 1..Len(logs) /\ l \in LogType /\ logs \in Seq(LogType)
  BY <1>5, <1>6, <1>7, CurrentIs DEF Shape, Channels
<1>9. PICK d, s : d = Head(l.chan) /\ s = Tail(l.chan)
  OBVIOUS
<1>10. /\ l.chan # <<>> /\ joiner' = [joiner EXCEPT !.at = "send", !.diff = d]
       /\ logs' = [logs EXCEPT ![n].chan = s]
  BY <1>3, <1>6, <1>7, <1>9 DEF TakeDiff
<1>11. joiner'.at = "send" /\ joiner'.log = n /\ joiner'.diff = d
  BY <1>7, <1>10 DEF Shape, Records, JoinerType
<1>12. PICK r : r = [l EXCEPT !.chan = s]
  OBVIOUS
<1>13. l.commits = SubSeq(history, a + 1, b) /\ Carries(l, full, t, troubles)
  <2>1. Gone(t) = t
    BY <1>7 DEF Gone
  <2> QED BY <1>4, <1>5, <1>6, <1>7, <2>1 DEF FlowAt, BeingRead, LogOf
<1>14. /\ r \in LogType /\ Carries(r, full, t + 1, troubles) /\ t + 1 \in 1..Len(full)
       /\ d = full[t + 1] /\ r.commits = l.commits
  BY <1>9, <1>10, <1>12, <1>13, <1>8, CarriesTaken
<1>15. logs' = [logs EXCEPT ![n] = r]
  BY <1>6, <1>8, <1>10, <1>12
<1>16. Len(logs') = Len(logs) /\ logs'[n] = r /\ \A j \in 1..Len(logs) : j # n => logs'[j] = logs[j]
  BY <1>8, <1>14, <1>15, LogGoes
<1>17. Current' = Current /\ Gone(t)' = t + 1 /\ (LowMemory' <=> LowMemory)
  BY <1>1, <1>2, <1>11, <1>16 DEF Current, Gone, LowMemory
<1>18. InLine(a, b, c)' /\ Staged(a, b, full, t)' /\ Gathered(c)'
  BY <1>1, <1>2, <1>4 DEF FlowAt, InLine, Staged, Gathered, LowMemory
<1>19. BeingRead(a, b, full, t)'
  <2>1. LogOf(history, r, a, b, full, t + 1, troubles)
    BY <1>13, <1>14 DEF LogOf
  <2>2. LowMemory => Current <= b
    BY <1>4 DEF FlowAt, BeingRead
  <2> QED BY <1>1, <1>2, <1>5, <1>7, <1>16, <1>17, <2>1, <2>2 DEF BeingRead
<1>20. Joining(full, t)'
  <2>1. t < Len(full)
    <3>1. t \in Nat /\ Len(full) \in Nat
      BY <1>4, LenProperties DEF FlowAt, Staged, Stage, Piece
    <3> QED BY <1>14, <3>1
  <2> QED BY <1>5, <1>7, <1>11, <1>14, <1>17, <2>1 DEF Joining
<1>21. Handed(b, c)'
  <2>1. starter.at = "send" => logs'[Len(logs)] = logs[Len(logs)]
    <3>1. starter.at = "send" => n # Len(logs) /\ Len(logs) \in 1..Len(logs)
      BY <1>5, Numbers DEF Current, Shape, Control
    <3> QED BY <1>16, <3>1
  <2> QED BY <1>1, <1>2, <1>4, <1>16, <1>17, <2>1 DEF FlowAt, Handed
<1>22. FlowAt(a, b, c, full, t)'
  BY <1>18, <1>19, <1>20, <1>21 DEF FlowAt
<1> QED BY <1>22

(* The joiner is done with the log, or ends.                               *)
LEMMA FlowJoiner ==
    ASSUME ParserIsRight, Shape, Flow, LogDrained \/ GiveUpDiff \/ JoinerEnds
    PROVE  Flow'
<1> SUFFICES ASSUME ~ctxDone' PROVE \E a, b, c, full, t : FlowAt(a, b, c, full, t)'
  BY DEF Flow
<1>1. UNCHANGED <<params, cancelled, ctxDone, troubles, revList, reader, starter, logs, scan, scanned>>
  BY DEF LogDrained, GiveUpDiff, JoinerEnds
<1>2. UNCHANGED <<history, groupSize, maxDepth>>
  BY <1>1 DEF params
<1>3. ~ctxDone
  BY <1>1
<1>4. PICK a, b, c, full, t : FlowAt(a, b, c, full, t)
  BY <1>3 DEF Flow
<1>5. joiner \in JoinerType
  BY DEF Shape, Records
<1>6. ASSUME joiner.at # "send", joiner'.at \in {"range", "done"}, t = Len(full),
             Current # 0 => logs[Current].at = "closed", joiner'.at = "done" => starter.at = "done"
      PROVE  FlowAt(a, b, c, full, t)'
  <2>1. Current' = Current /\ Gone(t)' = Gone(t) /\ (LowMemory' <=> LowMemory)
    BY <1>1, <1>2, <1>6 DEF Current, Gone, LowMemory
  <2>2. InLine(a, b, c)' /\ Staged(a, b, full, t)' /\ Gathered(c)'
    BY <1>1, <1>2, <1>4 DEF FlowAt, InLine, Staged, Gathered, LowMemory
  <2>3. BeingRead(a, b, full, t)'
    BY <1>1, <1>2, <1>4, <2>1 DEF FlowAt, BeingRead
  <2>4. Joining(full, t)'
    BY <1>1, <1>6, <2>1 DEF Joining
  <2>5. Handed(b, c)'
    BY <1>1, <1>2, <1>4, <2>1 DEF FlowAt, Handed
  <2> QED BY <2>2, <2>3, <2>4, <2>5 DEF FlowAt
<1>7. CASE LogDrained
  <2>1. PICK n, l : n = Current /\ l = logs[n]
    OBVIOUS
  <2>2. joiner.at = "read" /\ joiner.log = n /\ n # 0
    BY <1>4, <1>7, <2>1 DEF LogDrained, FlowAt, Joining
  <2>3. l.chan = <<>> /\ l.at = "closed" /\ joiner' = [joiner EXCEPT !.at = "range"]
    BY <1>7, <2>1, <2>2 DEF LogDrained
  <2>4. joiner'.at = "range"
    BY <1>5, <2>3 DEF JoinerType
  <2>5. Carries(l, full, t, troubles) /\ l \in LogType
    <3>1. Gone(t) = t
      BY <2>2 DEF Gone
    <3> QED BY <1>4, <2>1, <2>2, <3>1, CurrentIs DEF FlowAt, BeingRead, LogOf
  <2>6. t = l.sent
    BY <2>3, <2>5, CarriesIs
  <2>7. l.sent = Len(full)
    BY <2>3, <2>5 DEF Carries
  <2>8. FlowAt(a, b, c, full, t)'
    BY <1>6, <2>1, <2>2, <2>3, <2>4, <2>6, <2>7
  <2> QED BY <2>8
<1>8. CASE GiveUpDiff
  BY <1>3, <1>8 DEF GiveUpDiff
<1>9. CASE JoinerEnds
  <2>1. joiner.at = "range" /\ starter.at = "done" /\ joiner' = [joiner EXCEPT !.at = "done"]
    BY <1>9 DEF JoinerEnds
  <2>2. joiner'.at = "done"
    BY <1>5, <2>1 DEF JoinerType
  <2>3. LowMemory
    BY <2>1 DEF Shape, Control
  <2>4. t = Len(full) /\ (Current # 0 => logs[Current].at = "closed")
    BY <1>4, <2>1, <2>3 DEF FlowAt, Joining
  <2>5. FlowAt(a, b, c, full, t)'
    BY <1>6, <2>1, <2>2, <2>4
  <2> QED BY <2>5
<1> QED BY <1>7, <1>8, <1>9

-----------------------------------------------------------------------------
(* ScanCommits.                                                            *)
LEMMA FlowPeeks ==
    ASSUME ParserIsRight, Shape, Flow, PeekFindsCommits \/ PeekFindsNothing
    PROVE  Flow'
<1> SUFFICES ASSUME ~ctxDone' PROVE \E a, b, c, full, t : FlowAt(a, b, c, full, t)'
  BY DEF Flow
<1>1. UNCHANGED <<params, cancelled, ctxDone, troubles, revList, starter, logs, joiner, scanned>>
  BY DEF PeekFindsCommits, PeekFindsNothing
<1>2. UNCHANGED <<history, groupSize, maxDepth>>
  BY <1>1 DEF params
<1>3. ~ctxDone
  BY <1>1
<1>4. PICK a, b, c, full, t : FlowAt(a, b, c, full, t)
  BY <1>3 DEF Flow
<1>5. scan \in ScanType /\ reader \in ReaderType
  BY DEF Shape, Records
<1>6. scan.at = "open" /\ scan' = [scan EXCEPT !.at = "read"] /\ LowMemory
  BY DEF PeekFindsCommits, PeekFindsNothing
<1>7. scan'.at = "read" /\ scan'.depth = scan.depth /\ scan'.last = scan.last
  BY <1>5, <1>6 DEF ScanType
<1>8. reader.at = "new" /\ reader.read = 0 /\ starter.at = "range"
  BY <1>4, <1>6 DEF FlowAt, Gathered
<1>9. c = 0
  <2>1. c \in Nat
    BY <1>4, LineIs DEF FlowAt
  <2>2. c <= 0
    BY <1>4, <1>6, <1>8 DEF FlowAt, Gathered
  <2> QED BY <2>1, <2>2
<1>10. Gathered(c)'
  <2>1. CASE PeekFindsCommits
    <3>1. reader' = [reader EXCEPT !.at = "scan"]
      BY <2>1 DEF PeekFindsCommits
    <3>2. reader'.at = "scan" /\ reader'.read = reader.read /\ reader'.group = reader.group
      BY <1>5, <3>1 DEF ReaderType
    <3> QED BY <1>1, <1>2, <1>4, <1>7, <1>8, <3>2 DEF FlowAt, Gathered, LowMemory
  <2>2. CASE PeekFindsNothing
    <3>1. reader' = [reader EXCEPT !.at = "done"] /\ revList.written = 0 /\ revList.at = "exited"
      BY <2>2 DEF PeekFindsNothing
    <3>2. reader'.at = "done"
      BY <1>5, <3>1 DEF ReaderType
    <3>3. Len(history) = 0
      BY <1>6, <3>1 DEF Shape, Control
    <3> QED BY <1>1, <1>2, <1>4, <1>7, <1>8, <1>9, <3>2, <3>3 DEF FlowAt, Gathered, LowMemory
  <2> QED BY <2>1, <2>2
<1>11. FlowAt(a, b, c, full, t)'
  BY <1>1, <1>2, <1>4, <1>7, <1>10, LineStays DEF Worse
<1> QED BY <1>11

(* In the form with one log, it is of all the commits.                     *)
LEMMA FlowOpenLog ==
    ASSUME ParserIsRight, Shape, Flow, OpenLog
    PROVE  Flow'
<1> SUFFICES ASSUME ~ctxDone' PROVE \E a, b, c, full, t : FlowAt(a, b, c, full, t)'
  BY DEF Flow
<1>1. UNCHANGED <<params, cancelled, ctxDone, troubles, revList, reader, starter, joiner, scanned>>
  BY DEF OpenLog
<1>2. UNCHANGED <<history, groupSize, maxDepth>>
  BY <1>1 DEF params
<1>3. ~ctxDone
  BY <1>1
<1>4. PICK a, b, c, full, t : FlowAt(a, b, c, full, t)
  BY <1>3 DEF Flow
<1>5. scan \in ScanType /\ history \in Histories /\ Len(history) \in Nat
  BY Numbers DEF Shape, Records
<1>6. PICK r : r = Log(history)
  OBVIOUS
<1>7. scan.at = "open" /\ scan' = [scan EXCEPT !.at = "read"] /\ ~LowMemory /\ logs' = <<r>>
  BY <1>6 DEF OpenLog
<1>8. scan'.at = "read" /\ scan'.depth = scan.depth /\ scan'.last = scan.last
  BY <1>5, <1>7 DEF ScanType
<1>9. starter.at = "done" /\ joiner.at = "done" /\ Len(logs) = 0
  BY <1>7 DEF Shape, Control
<1>10. b = 0 /\ full = <<>> /\ a = 0
  <2>1. Current = 0
    BY <1>9 DEF Current
  <2>2. b = 0 /\ full = <<>>
    BY <1>4, <2>1 DEF FlowAt, BeingRead
  <2> QED BY <1>4, <2>2, LineIs DEF FlowAt
<1>11. PICK m, next : m = Len(history) /\ next = OutputOf(history).whole
  OBVIOUS
<1>12. /\ r \in LogType /\ r.commits = history /\ Carries(r, next, 0, troubles)
       /\ SubSeq(history, 0 + 1, m) = history
  BY <1>5, <1>6, <1>11, HistoryIsPiece, CarriesStarts
<1>13. Piece(history, 0, m, next, troubles)
  <2>1. FullOf(r, next, troubles) /\ 0 <= m /\ m <= Len(history) /\ m \in Nat
    BY <1>5, <1>11, <1>12 DEF Carries
  <2>2. r.commits = SubSeq(history, 0 + 1, m)
    BY <1>12
  <2> QED BY <1>5, <1>12, <2>1, <2>2, PieceIs
<1>14. Stage(history, scanned, scan.depth, scan.last, troubles, 0, m, next, 0)
  <2>1. PICK e : e = <<>>
    OBVIOUS
  <2>2. e \in Seq(DiffRecords) /\ Len(e) = 0
    BY <2>1, EmptySeq
  <2>3. Stage(history, scanned, scan.depth, scan.last, troubles, 0, 0, e, t)
    BY <1>4, <1>10, <2>1 DEF FlowAt, Staged
  <2>4. t = Len(e)
    BY <2>2, <2>3 DEF Stage
  <2>5. Stage(history, scanned, scan.depth, scan.last, troubles, 0, 0, e, Len(e))
    BY <2>3, <2>4
  <2>6. 0 \in 0..Len(history) /\ 0 <= 0
    BY <1>5
  <2> QED BY <1>5, <1>13, <2>5, <2>6, StageTurns
<1>15. Len(logs') = 1 /\ logs'[1] = r
  BY <1>7
<1>16. Current' = 1 /\ Gone(0)' = 0 /\ ~LowMemory'
  BY <1>1, <1>2, <1>7, <1>9, <1>15 DEF Current, Gone, LowMemory
<1>17. InLine(0, m, m)'
  BY <1>2, <1>5, <1>11 DEF InLine
<1>18. Staged(0, m, next, 0)'
  BY <1>1, <1>2, <1>8, <1>14 DEF Staged
<1>19. BeingRead(0, m, next, 0)'
  <2>1. LogOf(history, r, 0, m, next, 0, troubles)
    BY <1>12 DEF LogOf
  <2> QED BY <1>1, <1>2, <1>15, <1>16, <2>1 DEF BeingRead
<1>20. Joining(next, 0)' /\ Handed(m, m)' /\ Gathered(m)'
  BY <1>1, <1>2, <1>9, <1>11, <1>16 DEF Joining, Handed, Gathered
<1>21. FlowAt(0, m, m, next, 0)'
  BY <1>17, <1>18, <1>19, <1>20 DEF FlowAt
<1> QED BY <1>21

(* ScanCommits takes the diff that the joiner sends, or a log.             *)
LEMMA FlowScans ==
    ASSUME ParserIsRight, Shape, NEW a, NEW b, NEW c, NEW full, NEW t, FlowAt(a, b, c, full, t),
           t < Len(full), NEW d, d = full[t + 1], Scans(d), UNCHANGED <<history, troubles>>
    PROVE  Staged(a, b, full, t + 1)' /\ d \in DiffRecords
<1>1. /\ a \in 0..Len(history) /\ b \in 0..Len(history) /\ a <= b /\ history \in Histories
  BY LineIs, Numbers DEF FlowAt
<1>2. PICK s, depth, last : s = scanned /\ depth = scan.depth /\ last = scan.last
  OBVIOUS
<1>3. Stage(history, s, depth, last, troubles, a, b, full, t)
  BY <1>2 DEF FlowAt, Staged
<1>4. full \in Seq(DiffRecords) /\ t \in Nat /\ t + 1 \in 1..Len(full)
  <2>1. full \in Seq(DiffRecords) /\ t \in 0..Len(full)
    BY <1>3 DEF Stage, Piece
  <2>2. Len(full) \in Nat
    BY <2>1, LenProperties
  <2> QED BY <2>1, <2>2
<1>5. d \in DiffRecords
  BY <1>4, ElementOfSeq
<1>6. /\ scan'.depth = Deeper(depth, d, last) /\ scan'.last = d.commit
      /\ scanned' = s \o Chunks(d, last)
  BY <1>2, <1>5, ScansIs
<1>7. PICK u, deep : u = Chunks(d, last) /\ deep = Deeper(depth, d, last)
  OBVIOUS
<1>8. Stage(history, s \o u, deep, d.commit, troubles, a, b, full, t + 1)
  BY <1>1, <1>3, <1>7, StageScans
<1> QED BY <1>5, <1>6, <1>7, <1>8 DEF Staged

(* While no context is done, a diff that is taken is reported.             *)
LEMMA TakenWhenOpen ==
    ASSUME Shape, NEW d, Taken(d), ~ctxDone, ~ctxDone'
    PROVE  Scans(d) /\ ~TooDeep
<1>1. ~cancelled
  BY DEF Shape, Control
<1>2. ~Return("nil")
  BY DEF Return
<1> QED BY <1>1, <1>2 DEF Taken

(* ScanCommits takes the diff of the joiner.                               *)
LEMMA FlowScanJoined ==
    ASSUME ParserIsRight, Shape, Flow, ScanJoined
    PROVE  Flow'
<1> SUFFICES ASSUME ~ctxDone' PROVE \E a, b, c, full, t : FlowAt(a, b, c, full, t)'
  BY DEF Flow
<1>1. UNCHANGED <<params, cancelled, troubles, revList, reader, starter, logs>>
  BY DEF ScanJoined
<1>2. UNCHANGED <<history, groupSize, maxDepth>>
  BY <1>1 DEF params
<1>3. PICK d, x : d = joiner.diff /\ x = NoDiff
  OBVIOUS
<1>4. scan.at = "read" /\ joiner.at = "send" /\ Taken(d) /\ joiner' = [joiner EXCEPT !.at = "read", !.diff = x]
  BY <1>3, TakesIs DEF ScanJoined
<1>5. d \in DiffRecords
  BY <1>3, <1>4 DEF Shape, Control
<1>6. ~ctxDone
  BY <1>4, <1>5, ShapeTaken
<1>7. Scans(d)
  BY <1>4, <1>6, TakenWhenOpen
<1>8. PICK a, b, c, full, t : FlowAt(a, b, c, full, t)
  BY <1>6 DEF Flow
<1>9. t < Len(full) /\ d = full[t + 1] /\ Current # 0 /\ joiner.log = Current
  BY <1>3, <1>4, <1>8 DEF FlowAt, Joining
<1>10. Staged(a, b, full, t + 1)'
  BY <1>1, <1>2, <1>7, <1>8, <1>9, FlowScans
<1>11. joiner'.at = "read" /\ joiner'.log = joiner.log
  BY <1>4 DEF Shape, Records, JoinerType
<1>12. PICK k : k = t + 1
  OBVIOUS
<1>13. Current' = Current /\ Gone(k)' = Gone(t) /\ (LowMemory' <=> LowMemory)
  BY <1>1, <1>2, <1>4, <1>11, <1>12 DEF Current, Gone, LowMemory
<1>14. InLine(a, b, c)'
  BY <1>2, <1>8 DEF FlowAt, InLine
<1>15. BeingRead(a, b, full, k)'
  <2>1. /\ Current # 0 => LogOf(history, logs[Current], a, b, full, Gone(t), troubles)
        /\ LowMemory => Current <= b
    BY <1>8 DEF FlowAt, BeingRead
  <2>2. LogOf(history', logs'[Current'], a, b, full, Gone(k)', troubles')
    BY <1>1, <1>2, <1>9, <1>13, <2>1
  <2> QED BY <1>9, <1>13, <2>1, <2>2 DEF BeingRead
<1>16. Joining(full, k)'
  BY <1>9, <1>11, <1>13 DEF Joining
<1>17. Handed(b, c)'
  BY <1>1, <1>2, <1>8, <1>13 DEF FlowAt, Handed
<1>18. scan'.at = "read"
  BY <1>4, <1>5, <1>7, ScansIs
<1>19. Gathered(c)'
  BY <1>1, <1>2, <1>8, <1>18 DEF FlowAt, Gathered, LowMemory
<1>20. FlowAt(a, b, c, full, k)'
  BY <1>10, <1>12, <1>14, <1>15, <1>16, <1>17, <1>19 DEF FlowAt
<1> QED BY <1>20

(* Or that of the only parser.                                             *)
LEMMA FlowScanParsed ==
    ASSUME ParserIsRight, Shape, Flow, ScanParsed
    PROVE  Flow'
<1> SUFFICES ASSUME ~ctxDone' PROVE \E a, b, c, full, t : FlowAt(a, b, c, full, t)'
  BY DEF Flow
<1>1. UNCHANGED <<params, cancelled, troubles, revList, reader, starter, joiner>>
  BY DEF ScanParsed
<1>2. UNCHANGED <<history, groupSize, maxDepth>>
  BY <1>1 DEF params
<1>3. PICK l : l = logs[1]
  OBVIOUS
<1>4. PICK d, s : d = Head(l.chan) /\ s = Tail(l.chan)
  OBVIOUS
<1>5. /\ scan.at = "read" /\ ~LowMemory /\ l.chan # <<>> /\ Taken(d)
      /\ logs' = [logs EXCEPT ![1].chan = s]
  BY <1>3, <1>4, TakesIs DEF ScanParsed
<1>6. Len(logs) = 1 /\ starter.at = "done" /\ joiner.at = "done"
  BY <1>5 DEF Shape, Control
<1>7. 1 \in 1..Len(logs) /\ l \in LogType /\ logs \in Seq(LogType)
  BY <1>3, <1>6, Numbers DEF Shape, Channels
<1>8. PICK r : r = [l EXCEPT !.chan = s]
  OBVIOUS
<1>9. d \in DiffRecords
  BY <1>4, <1>5, <1>7, <1>8, LogGives
<1>10. ~ctxDone
  BY <1>5, <1>9, ShapeTaken
<1>11. Scans(d)
  BY <1>5, <1>10, TakenWhenOpen
<1>12. PICK a, b, c, full, t : FlowAt(a, b, c, full, t)
  BY <1>10 DEF Flow
<1>13. Current = 1 /\ Gone(t) = t
  BY <1>6 DEF Current, Gone
<1>14. Carries(l, full, t, troubles) /\ l.commits = SubSeq(history, a + 1, b)
  BY <1>3, <1>12, <1>13 DEF FlowAt, BeingRead, LogOf
<1>15. /\ r \in LogType /\ Carries(r, full, t + 1, troubles) /\ t + 1 \in 1..Len(full)
       /\ d = full[t + 1] /\ r.commits = l.commits
  BY <1>4, <1>5, <1>7, <1>8, <1>14, CarriesTaken
<1>16. t < Len(full)
  <2>1. t \in Nat /\ Len(full) \in Nat
    BY <1>12, LenProperties DEF FlowAt, Staged, Stage, Piece
  <2> QED BY <1>15, <2>1
<1>17. PICK k : k = t + 1
  OBVIOUS
<1>18. Staged(a, b, full, k)'
  BY <1>1, <1>2, <1>11, <1>12, <1>15, <1>16, <1>17, FlowScans
<1>19. logs' = [logs EXCEPT ![1] = r]
  BY <1>3, <1>5, <1>7, <1>8
<1>20. Len(logs') = 1 /\ logs'[1] = r
  BY <1>6, <1>7, <1>15, <1>19, LogGoes
<1>21. Current' = 1 /\ Gone(k)' = k /\ ~LowMemory'
  BY <1>1, <1>2, <1>5, <1>6, <1>20 DEF Current, Gone, LowMemory
<1>22. InLine(a, b, c)'
  BY <1>2, <1>12 DEF FlowAt, InLine
<1>23. BeingRead(a, b, full, k)'
  <2>1. LogOf(history, r, a, b, full, k, troubles)
    BY <1>14, <1>15, <1>17 DEF LogOf
  <2> QED BY <1>1, <1>2, <1>20, <1>21, <2>1 DEF BeingRead
<1>24. Joining(full, k)' /\ Gathered(c)'
  BY <1>1, <1>6, <1>21 DEF Joining, Gathered
<1>25. Handed(b, c)'
  BY <1>1, <1>2, <1>5, <1>6, <1>12, <1>20, <1>21 DEF FlowAt, Handed
<1>26. FlowAt(a, b, c, full, k)'
  BY <1>18, <1>22, <1>23, <1>24, <1>25 DEF FlowAt
<1> QED BY <1>26

(* The steps that end the context, or change nothing.                      *)
LEMMA FlowEnds ==
    ASSUME Flow, PeekFails \/ OpenFails \/ ScanEnds \/ Cancel \/ UNCHANGED vars
    PROVE  Flow'
<1>1. CASE PeekFails \/ OpenFails \/ ScanEnds \/ Cancel
  <2>1. ctxDone'
    BY <1>1 DEF PeekFails, OpenFails, ScanEnds, Cancel, Return
  <2> QED BY <2>1 DEF Flow
<1>2. CASE UNCHANGED vars
  <2>1. /\ UNCHANGED <<history, groupSize, maxDepth, cancelled, ctxDone, troubles>>
        /\ UNCHANGED <<revList, reader, starter, logs, joiner, scan, scanned>>
    BY <1>2 DEF vars, params
  <2> SUFFICES ASSUME ~ctxDone' PROVE \E a, b, c, full, t : FlowAt(a, b, c, full, t)'
    BY DEF Flow
  <2>2. PICK a, b, c, full, t : FlowAt(a, b, c, full, t)
    BY <2>1 DEF Flow
  <2>3. Gathered(c)'
    BY <2>1, <2>2 DEF FlowAt, Gathered, LowMemory
  <2>4. FlowAt(a, b, c, full, t)'
    BY <2>1, <2>2, <2>3, LineStays DEF Worse
  <2> QED BY <2>4
<1> QED BY <1>1, <1>2

-----------------------------------------------------------------------------
(* What is reported is kept, whatever ends the scan, and if nothing failed *)
(* and nobody cancelled it is the whole, or ends in the last commit of the *)
(* depth.                                                                  *)
Whole(h, s, depth) ==
    IF depth = 0 \/ depth > Begun(h, Len(All(h))) THEN s = All(h) ELSE Begun(h, Len(s)) = depth

(* What a return without an error promises.                                *)
Finished ==
    scan.result = "nil" /\ Fine(troubles) /\ ~cancelled => Whole(history, scanned, maxDepth)

(* The third part of the invariant.                                        *)
Result ==
    /\ Kept(history, scanned, scan.depth, troubles)
    /\ Len(logs) <= MaxCommits
    /\ maxDepth > 0 => scan.depth <= maxDepth
    /\ Finished

(* The inductive invariant.                                                *)
Inv == Shape /\ Flow /\ Result

(* A failure asks less of what was reported.                               *)
LEMMA WorseKept ==
    ASSUME NEW h, NEW s, NEW depth, NEW failed, NEW more, Kept(h, s, depth, failed), Worse(failed, more)
    PROVE  Kept(h, s, depth, more)
BY DEF Kept, Worse

(* What is in line has been kept.                                          *)
LEMMA FlowIsKept ==
    ASSUME ParserIsRight, Shape, Flow, ~ctxDone
    PROVE  Kept(history, scanned, scan.depth, troubles)
<1>1. PICK a, b, c, full, t : FlowAt(a, b, c, full, t)
  BY DEF Flow
<1>2. PICK s, depth, last : s = scanned /\ depth = scan.depth /\ last = scan.last
  OBVIOUS
<1>3. /\ a \in 0..Len(history) /\ b \in 0..Len(history) /\ a <= b /\ history \in Histories
  BY <1>1, LineIs, Numbers DEF FlowAt
<1>4. Stage(history, s, depth, last, troubles, a, b, full, t)
  BY <1>1, <1>2 DEF FlowAt, Staged
<1>5. Kept(history, s, depth, troubles)
  BY <1>3, <1>4, StageIsKept
<1> QED BY <1>2, <1>5

(* No log is started without a commit of its own.                          *)
LEMMA FewLogs ==
    ASSUME Shape, Flow, ~ctxDone, starter.at = "start"
    PROVE  Len(logs) < MaxCommits
<1>1. PICK a, b, c, full, t : FlowAt(a, b, c, full, t)
  BY DEF Flow
<1>2. LowMemory
  BY DEF Shape, Control
<1>3. Current <= b /\ b < c
  BY <1>1, <1>2 DEF FlowAt, BeingRead, Handed
<1>4. b \in Nat /\ c \in Nat /\ c <= Len(history) /\ Len(history) <= MaxCommits /\ MaxCommits \in Nat
      /\ Len(history) \in Nat /\ Len(logs) \in Nat
  BY <1>1, LineIs, Numbers DEF FlowAt
<1>5. Current = Len(logs)
  BY DEF Current
<1> QED BY <1>3, <1>4, <1>5

(* A step that reports nothing, and does not return without an error.      *)
LEMMA ResultStays ==
    ASSUME Result, UNCHANGED <<history, maxDepth, scanned>>, Worse(troubles, troubles'),
           scan'.depth = scan.depth, scan'.result = scan.result \/ scan'.result # "nil",
           Len(logs') <= MaxCommits, cancelled => cancelled'
    PROVE  Result'
<1>1. Kept(history, scanned, scan.depth, troubles)'
  BY WorseKept DEF Result
<1>2. Finished'
  <2>1. Fine(troubles') => Fine(troubles)
    BY DEF Worse
  <2>2. scan'.result = "nil" /\ Fine(troubles') /\ ~cancelled' => Whole(history, scanned, maxDepth)
    BY <2>1 DEF Result, Finished
  <2> QED BY <2>2 DEF Finished
<1> QED BY <1>1, <1>2 DEF Result

(* The depth is reached: what is reported ends in its last commit.         *)
LEMMA DeepIsWhole ==
    ASSUME ParserIsRight, Shape, Result, Fine(troubles), TooDeep
    PROVE  Whole(history, scanned, maxDepth)
<1>1. PICK h, s, n, m, all : h = history /\ s = scanned /\ n = scan.depth /\ m = maxDepth /\ all = All(h)
  OBVIOUS
<1>2. h \in Histories /\ m \in Nat /\ n \in Nat
  BY <1>1, Numbers, Fields
<1>3. m > 0 /\ n >= m /\ n <= m
  BY <1>1 DEF TooDeep, Result
<1>4. n = m
  BY <1>2, <1>3
<1>5. s \in Seq(DiffRecords) /\ IsPrefix(s, all) /\ n = Begun(h, Len(s))
  BY <1>1 DEF Result, Kept
<1>6. all \in Seq(DiffRecords) /\ Len(all) \in Nat
  BY <1>1, <1>2, AllIs
<1>7. Len(s) \in Nat /\ Len(s) <= Len(all)
  BY <1>5, <1>6, PrefixIs, LenProperties
<1>8. Begun(h, Len(s)) <= Begun(h, Len(all)) /\ Begun(h, Len(all)) \in Nat
  BY <1>2, <1>6, <1>7, BegunIs
<1>9. ~(m = 0 \/ m > Begun(h, Len(all)))
  BY <1>2, <1>3, <1>4, <1>5, <1>8
<1> QED BY <1>1, <1>4, <1>5, <1>9 DEF Whole

(* The diffs end: everything has been reported.                            *)
LEMMA EndIsWhole ==
    ASSUME ParserIsRight, Shape, Flow, Result, Fine(troubles), ~ctxDone, scan.at = "read", DiffsEnd
    PROVE  Whole(history, scanned, maxDepth)
<1>1. PICK a, b, c, full, t : FlowAt(a, b, c, full, t)
  BY DEF Flow
<1>2. /\ a \in 0..Len(history) /\ b \in 0..Len(history) /\ a <= b /\ history \in Histories
  BY <1>1, LineIs, Numbers DEF FlowAt
<1>3. t = Len(full) /\ starter.at = "done" /\ c = Len(history)
  <2>1. CASE LowMemory
    <3>1. joiner.at = "done"
      BY <2>1 DEF DiffsEnd
    <3>2. t = Len(full) /\ starter.at = "done"
      BY <1>1, <2>1, <3>1 DEF FlowAt, Joining
    <3> QED BY <1>1, <2>1, <3>2 DEF FlowAt, Gathered
  <2>2. CASE ~LowMemory
    <3>1. Len(logs) = 1 /\ starter.at = "done" /\ joiner.at = "done"
      BY <2>2 DEF Shape, Control
    <3>2. PICK l : l = logs[1]
      OBVIOUS
    <3>3. l.at = "closed" /\ l.chan = <<>>
      BY <2>2, <3>2 DEF DiffsEnd
    <3>4. l \in LogType
      <4>1. 1 \in 1..Len(logs)
        BY <3>1
      <4> QED BY <3>2, <4>1, Numbers
    <3>5. Current = 1 /\ Gone(t) = t
      BY <3>1 DEF Current, Gone
    <3>6. Carries(l, full, t, troubles)
      BY <1>1, <3>2, <3>5 DEF FlowAt, BeingRead, LogOf
    <3>7. t = l.sent /\ l.sent = Len(full)
      <4>1. t = l.sent
        BY <3>3, <3>4, <3>6, CarriesIs
      <4> QED BY <3>3, <3>6, <4>1 DEF Carries
    <3> QED BY <1>1, <2>2, <3>1, <3>7 DEF FlowAt, Handed
  <2> QED BY <2>1, <2>2
<1>4. b = Len(history)
  BY <1>1, <1>3 DEF FlowAt, Handed
<1>5. PICK h, s, n, m, last : h = history /\ s = scanned /\ n = scan.depth /\ m = maxDepth /\ last = scan.last
  OBVIOUS
<1>6. s = Told(h)[b]
  <2>1. Stage(h, s, n, last, troubles, a, b, full, t)
    BY <1>1, <1>5 DEF FlowAt, Staged
  <2>2. h \in Histories /\ a \in 0..Len(h) /\ b \in 0..Len(h)
    BY <1>2, <1>5
  <2>3. Fine(troubles) => (t = Len(full) => s = Told(h)[b])
    BY <1>2, <2>1, <2>2, StageFits
  <2> QED BY <1>3, <2>3
<1>7. s = All(h)
  BY <1>4, <1>5, <1>6 DEF All
<1>8. CASE m = 0 \/ m > Begun(h, Len(All(h)))
  BY <1>5, <1>7, <1>8 DEF Whole
<1>9. CASE ~(m = 0 \/ m > Begun(h, Len(All(h))))
  <2>1. n = Begun(h, Len(s)) /\ (m > 0 => n <= m)
    BY <1>5 DEF Result, Kept
  <2>2. m \in Nat /\ n \in Nat
    BY <1>5, Numbers, Fields
  <2>3. PICK k : k = Begun(h, Len(s))
    OBVIOUS
  <2>4. k = n /\ m # 0 /\ ~(m > k)
    BY <1>7, <1>9, <2>1, <2>3
  <2>5. k = m
    BY <2>1, <2>2, <2>4
  <2> QED BY <1>5, <1>9, <2>3, <2>5 DEF Whole
<1> QED BY <1>8, <1>9

-----------------------------------------------------------------------------
(* The third part of the invariant, of the initial states and of the steps *)
(* of ScanCommits.                                                         *)
LEMMA ResultInit ==
    ASSUME ParserIsRight, Init, Shape, Flow
    PROVE  Result
<1>1. ctxDone = FALSE /\ logs = <<>>
  BY DEF Init
<1>2. Kept(history, scanned, scan.depth, troubles)
  BY <1>1, FlowIsKept
<1>3. Len(logs) <= MaxCommits
  <2>1. Len(logs) = 0 /\ MaxCommits \in Nat
    BY <1>1, Numbers
  <2> QED BY <2>1
<1>4. scan.depth = 0 /\ scan.result = "none"
  <2>1. PICK z : z = NoCommit
    OBVIOUS
  <2>2. scan = [at |-> "open", depth |-> 0, last |-> z, result |-> "none"]
    BY <2>1 DEF Init
  <2> QED BY <2>2
<1>5. maxDepth \in Nat
  BY Numbers
<1> QED BY <1>2, <1>3, <1>4, <1>5 DEF Result, Finished

(* ScanCommits takes a diff, and stays, or returns.                        *)
LEMMA ResultTaken ==
    ASSUME ParserIsRight, Shape, Flow, Result, scan.at = "read", NEW d \in DiffRecords, Taken(d), Flow', Shape',
           UNCHANGED <<history, maxDepth, cancelled, troubles>>, Len(logs') = Len(logs)
    PROVE  Result'
<1>1. Len(logs') <= MaxCommits
  BY DEF Result
<1>2. scan.result = "none"
  BY DEF Shape, Control
<1>3. CASE Return("nil") /\ TooDeep /\ scanned' = scanned
  <2>1. "nil" \in Results
    BY DEF Results
  <2>2. scan'.depth = scan.depth /\ scan'.result = "nil"
    BY <1>3, <2>1, ReturnIs
  <2>3. Kept(history, scanned, scan.depth, troubles)'
    BY <1>3, <2>2 DEF Result
  <2>4. Finished'
    <3>1. Fine(troubles) => Whole(history, scanned, maxDepth)
      BY <1>3, DeepIsWhole
    <3> QED BY <1>3, <3>1 DEF Finished
  <2> QED BY <1>1, <2>2, <2>3, <2>4 DEF Result
<1>4. CASE Return("error") /\ scanned' = scanned
  <2>1. "error" \in Results
    BY DEF Results
  <2>2. scan'.depth = scan.depth /\ scan'.result = "error"
    BY <1>4, <2>1, ReturnIs
  <2> QED BY <1>1, <1>4, <2>2, ResultStays DEF Worse
<1>5. CASE scanned' = scanned /\ scan' = scan
  BY <1>1, <1>5, ResultStays DEF Worse
<1>6. CASE Scans(d) /\ ~TooDeep
  <2>1. /\ scan'.depth = Deeper(scan.depth, d, scan.last) /\ scan'.result = "none"
        /\ ~cancelled /\ ctxDone' = ctxDone
    BY <1>2, <1>6, ScansIs
  <2>2. ~ctxDone
    BY <2>1 DEF Shape, Control
  <2>3. Kept(history, scanned, scan.depth, troubles)'
    <3>1. ~ctxDone'
      BY <2>1, <2>2
    <3>2. PICK a, b, c, full, t : FlowAt(a, b, c, full, t)'
      BY <3>1 DEF Flow
    <3>3. PICK h, s, depth, last, failed :
             h = history' /\ s = scanned' /\ depth = scan'.depth /\ last = scan'.last /\ failed = troubles'
      OBVIOUS
    <3>4. h \in Histories /\ Len(h) \in Nat
      BY <3>3, Numbers
    <3>5. a \in 0..Len(h) /\ b \in 0..Len(h) /\ a <= b
      <4>1. InLine(a, b, c)'
        BY <3>2 DEF FlowAt
      <4>2. a \in 0..Len(h) /\ b \in a..Len(h)
        BY <3>3, <4>1 DEF InLine
      <4> QED BY <3>4, <4>2
    <3>6. Stage(h, s, depth, last, failed, a, b, full, t)
      BY <3>2, <3>3 DEF FlowAt, Staged
    <3>7. Kept(h, s, depth, failed)
      BY <3>4, <3>5, <3>6, StageIsKept
    <3> QED BY <3>3, <3>7
  <2>4. maxDepth > 0 => scan'.depth <= maxDepth
    <3>1. scan.depth \in Nat /\ maxDepth \in Nat
      BY Fields, Numbers
    <3>2. scan'.depth = scan.depth \/ scan'.depth = scan.depth + 1
      BY <2>1 DEF Deeper
    <3>3. maxDepth > 0 => ~(scan.depth >= maxDepth)
      BY <1>6 DEF TooDeep
    <3> QED BY <3>1, <3>2, <3>3
  <2>5. Finished'
    BY <2>1 DEF Finished
  <2> QED BY <1>1, <2>3, <2>4, <2>5 DEF Result
<1> QED BY <1>3, <1>4, <1>5, <1>6 DEF Taken

(* Every step of ScanCommits.                                              *)
LEMMA ResultScan ==
    ASSUME ParserIsRight, Shape, Flow, Result, ScanSteps, Shape', Flow'
    PROVE  Result'
<1>1. UNCHANGED <<params, cancelled>>
  BY DEF ScanSteps, RepoPath, PeekFindsCommits, PeekFindsNothing, PeekFails, OpenLog, OpenFails,
         ScanJoined, ScanParsed, ScanEnds
<1>2. UNCHANGED <<history, groupSize, maxDepth>>
  BY <1>1 DEF params
<1>3. scan \in ScanType /\ Len(logs) <= MaxCommits /\ troubles \in Nat
  BY Numbers DEF Shape, Records, Result
<1>4. CASE PeekFindsCommits \/ PeekFindsNothing
  <2>1. scan' = [scan EXCEPT !.at = "read"] /\ UNCHANGED <<troubles, logs, scanned>>
    BY <1>4 DEF PeekFindsCommits, PeekFindsNothing
  <2>2. scan'.depth = scan.depth /\ scan'.result = scan.result
    BY <1>3, <2>1 DEF ScanType
  <2> QED BY <1>1, <1>2, <1>3, <2>1, <2>2, ResultStays DEF Worse
<1>5. CASE OpenLog
  <2>1. PICK r : r = Log(history)
    OBVIOUS
  <2>2. scan' = [scan EXCEPT !.at = "read"] /\ logs' = <<r>> /\ UNCHANGED <<troubles, scanned>>
    BY <1>5, <2>1 DEF OpenLog
  <2>3. scan'.depth = scan.depth /\ scan'.result = scan.result
    BY <1>3, <2>2 DEF ScanType
  <2>4. Len(logs') = 1
    BY <2>2
  <2>5. Len(logs') <= MaxCommits
    <3>1. MaxCommits \in Nat /\ MaxCommits # 0
      BY Numbers
    <3> QED BY <2>4, <3>1
  <2> QED BY <1>1, <1>2, <2>2, <2>3, <2>5, ResultStays DEF Worse
<1>6. CASE PeekFails \/ OpenFails
  <2>1. Return("error") /\ UNCHANGED <<logs, scanned>>
    BY <1>6 DEF PeekFails, OpenFails
  <2>2. troubles' = troubles \/ troubles' = troubles + 1
    BY <1>6 DEF PeekFails, OpenFails
  <2>3. Worse(troubles, troubles')
    BY <1>3, <2>2 DEF Worse, Fine
  <2>4. scan'.depth = scan.depth /\ scan'.result = "error"
    <3>1. "error" \in Results
      BY DEF Results
    <3> QED BY <2>1, <3>1, ReturnIs
  <2> QED BY <1>1, <1>2, <1>3, <2>1, <2>3, <2>4, ResultStays
<1>7. CASE ScanJoined
  <2>1. scan.at = "read" /\ joiner.at = "send" /\ Taken(joiner.diff) /\ UNCHANGED <<troubles, logs>>
    BY <1>7, TakesIs DEF ScanJoined
  <2>2. joiner.diff \in DiffRecords
    BY <2>1 DEF Shape, Control
  <2> QED BY <1>1, <1>2, <2>1, <2>2, ResultTaken
<1>8. CASE ScanParsed
  <2>1. PICK l : l = logs[1]
    OBVIOUS
  <2>2. PICK d, s : d = Head(l.chan) /\ s = Tail(l.chan)
    OBVIOUS
  <2>3. /\ scan.at = "read" /\ ~LowMemory /\ l.chan # <<>> /\ Taken(d) /\ troubles' = troubles
        /\ logs' = [logs EXCEPT ![1].chan = s]
    BY <1>8, <2>1, <2>2, TakesIs DEF ScanParsed
  <2>4. PICK r : r = [l EXCEPT !.chan = s]
    OBVIOUS
  <2>5. 1 \in 1..Len(logs) /\ l \in LogType /\ logs \in Seq(LogType)
    <3>1. Len(logs) = 1
      BY <2>3 DEF Shape, Control
    <3> QED BY <2>1, <3>1, Numbers DEF Shape, Channels
  <2>6. d \in DiffRecords /\ r \in LogType
    BY <2>2, <2>3, <2>4, <2>5, LogGives
  <2>7. logs' = [logs EXCEPT ![1] = r]
    BY <2>1, <2>3, <2>4, <2>5
  <2>8. Len(logs') = Len(logs)
    BY <2>5, <2>6, <2>7, LogGoes
  <2> QED BY <1>1, <1>2, <2>3, <2>6, <2>8, ResultTaken
<1>9. CASE ScanEnds
  <2>1. /\ scan.at = "read" /\ DiffsEnd /\ Return("nil") /\ UNCHANGED <<troubles, logs, scanned>>
        /\ "nil" \in Results
    BY <1>9 DEF ScanEnds, Results
  <2>2. scan'.depth = scan.depth /\ scan'.result = "nil"
    BY <2>1, ReturnIs
  <2>3. ~cancelled => ~ctxDone
    BY <2>1 DEF Shape, Control
  <2>4. Fine(troubles) /\ ~cancelled => Whole(history, scanned, maxDepth)
    BY <2>1, <2>3, EndIsWhole
  <2>5. Finished'
    BY <1>1, <1>2, <2>1, <2>4 DEF Finished
  <2>6. Kept(history, scanned, scan.depth, troubles)'
    BY <1>2, <2>1, <2>2 DEF Result
  <2> QED BY <1>2, <1>3, <2>1, <2>2, <2>5, <2>6 DEF Result
<1> QED BY <1>4, <1>5, <1>6, <1>7, <1>8, <1>9 DEF ScanSteps, RepoPath

-----------------------------------------------------------------------------
(* The invariant holds at first, and every step keeps it.                  *)
LEMMA InvInit ==
    ASSUME ParserIsRight, Init
    PROVE  Inv
<1>1. Shape
  BY ShapeInit
<1>2. Flow
  BY <1>1, FlowInit
<1> QED BY <1>1, <1>2, ResultInit DEF Inv

(* The steps that report nothing.                                          *)
LEMMA InvRevList ==
    ASSUME ParserIsRight, Inv, RevListSteps
    PROVE  Inv'
<1>1. Shape /\ Flow /\ Result
  BY DEF Inv
<1>2. Shape' /\ Flow'
  BY <1>1, ShapeRevList, FlowRevList
<1>3. UNCHANGED <<params, cancelled, logs, scan, scanned>>
  BY DEF RevListSteps, RevListWrites, RevListEnds, RevListDies
<1>4. UNCHANGED <<history, maxDepth>>
  BY <1>3 DEF params
<1>5. troubles' = troubles \/ troubles' = troubles + 1
  BY DEF RevListSteps, RevListWrites, RevListEnds, RevListDies
<1>6. Worse(troubles, troubles')
  <2>1. troubles \in Nat
    BY <1>1, Numbers
  <2> QED BY <1>5, <2>1 DEF Worse, Fine
<1>7. Result'
  <2>1. Len(logs') <= MaxCommits
    BY <1>1, <1>3 DEF Result
  <2> QED BY <1>1, <1>3, <1>4, <1>6, <2>1, ResultStays
<1> QED BY <1>2, <1>7 DEF Inv

(* The goroutine of enumerateCommits.                                      *)
LEMMA InvReader ==
    ASSUME ParserIsRight, Inv, ReaderSteps
    PROVE  Inv'
<1>1. Shape /\ Flow /\ Result
  BY DEF Inv
<1>2. Flow'
  <2>1. SendGroup \/ ReadHash \/ HashesEnd \/ GiveUpGroup \/ WaitForRevList
    BY DEF ReaderSteps
  <2> QED BY <1>1, <2>1, FlowReads, FlowSendGroup
<1>3. UNCHANGED <<params, cancelled, logs, scan, scanned, troubles>>
  BY DEF ReaderSteps, ReadHash, HashesEnd, SendGroup, GiveUpGroup, WaitForRevList
<1>4. UNCHANGED <<history, maxDepth>>
  BY <1>3 DEF params
<1>5. Result'
  <2>1. Len(logs') <= MaxCommits /\ Worse(troubles, troubles')
    BY <1>1, <1>3 DEF Result, Worse
  <2> QED BY <1>1, <1>3, <1>4, <2>1, ResultStays
<1> QED BY <1>1, <1>2, <1>5, ShapeReader DEF Inv

(* The goroutine that starts the logs.                                     *)
LEMMA InvStarter ==
    ASSUME ParserIsRight, Inv, StarterSteps
    PROVE  Inv'
<1>1. Shape /\ Flow /\ Result
  BY DEF Inv
<1>2. Flow' /\ (StartLog => starter.group \in Pieces)
  <2>1. StartLog \/ StartFails \/ SendLog \/ GiveUpLog \/ StarterEnds
    BY DEF StarterSteps
  <2> QED BY <1>1, <2>1, FlowStartLog, FlowStarter, FlowSendLog
<1>3. Shape'
  BY <1>1, <1>2, ShapeStarter DEF Result
<1>4. UNCHANGED <<params, cancelled, scan, scanned>>
  BY DEF StarterSteps, StartLog, StartFails, SendLog, GiveUpLog, StarterEnds
<1>5. UNCHANGED <<history, maxDepth>>
  BY <1>4 DEF params
<1>6. Worse(troubles, troubles')
  <2>1. troubles' = troubles \/ troubles' = troubles + 1
    BY DEF StarterSteps, StartLog, StartFails, SendLog, GiveUpLog, StarterEnds
  <2>2. troubles \in Nat
    BY <1>1, Numbers
  <2> QED BY <2>1, <2>2 DEF Worse, Fine
<1>7. Len(logs') <= MaxCommits
  <2>1. CASE StartLog
    <3>1. PICK r : r = Log(starter.group)
      OBVIOUS
    <3>2. logs' = Append(logs, r) /\ ~ctxDone /\ starter.at = "start"
      BY <2>1, <3>1 DEF StartLog
    <3>3. r \in LogType /\ logs \in Seq(LogType)
      <4>1. starter.group \in Pieces
        BY <1>2, <2>1
      <4> QED BY <1>1, <3>1, <4>1, CarriesStarts DEF Shape, Channels
    <3>4. Len(logs') = Len(logs) + 1
      BY <3>2, <3>3, AppendProperties
    <3>5. Len(logs) < MaxCommits /\ Len(logs) \in Nat /\ MaxCommits \in Nat
      BY <1>1, <3>2, FewLogs, Numbers
    <3> QED BY <3>4, <3>5
  <2>2. CASE ~StartLog
    <3>1. logs' = logs
      BY <2>2 DEF StarterSteps, StartFails, SendLog, GiveUpLog, StarterEnds
    <3> QED BY <1>1, <3>1 DEF Result
  <2> QED BY <2>1, <2>2
<1>8. Result'
  BY <1>1, <1>4, <1>5, <1>6, <1>7, ResultStays
<1> QED BY <1>2, <1>3, <1>8 DEF Inv

(* A parser, which may be cut.                                             *)
LEMMA InvParser ==
    ASSUME ParserIsRight, Inv, NEW i \in DOMAIN logs, Parser(i)
    PROVE  Inv'
<1>1. Shape /\ Flow /\ Result
  BY DEF Inv
<1>2. Shape' /\ Flow'
  BY <1>1, ShapeParser, FlowParser
<1>3. /\ UNCHANGED <<params, cancelled, ctxDone, revList, reader, starter, joiner, scan, scanned>>
      /\ Worse(troubles, troubles') /\ \E r : logs' = [logs EXCEPT ![i] = r]
  BY <1>1, ParserIs
<1>4. UNCHANGED <<history, maxDepth>>
  BY <1>3 DEF params
<1>5. Len(logs') <= MaxCommits
  <2>1. PICK r : logs' = [logs EXCEPT ![i] = r]
    BY <1>3
  <2>2. Len(logs') = Len(logs)
    <3>1. logs \in Seq(LogType) /\ logs' \in Seq(LogType)
      BY <1>1, <1>2 DEF Shape, Channels
    <3>2. DOMAIN logs' = DOMAIN logs
      BY <2>1
    <3> QED BY <3>1, <3>2, LenProperties
  <2> QED BY <1>1, <2>2 DEF Result
<1>6. Result'
  BY <1>1, <1>3, <1>4, <1>5, ResultStays
<1> QED BY <1>2, <1>6 DEF Inv

(* The goroutine that joins the diffs.                                     *)
LEMMA InvJoiner ==
    ASSUME ParserIsRight, Inv, JoinerSteps
    PROVE  Inv'
<1>1. Shape /\ Flow /\ Result
  BY DEF Inv
<1>2. Shape'
  BY <1>1, ShapeJoiner
<1>3. Flow'
  <2>1. TakeDiff \/ LogDrained \/ GiveUpDiff \/ JoinerEnds
    BY DEF JoinerSteps
  <2> QED BY <1>1, <2>1, FlowTakeDiff, FlowJoiner
<1>4. UNCHANGED <<params, cancelled, scan, scanned, troubles>>
  BY DEF JoinerSteps, TakeDiff, LogDrained, GiveUpDiff, JoinerEnds
<1>5. UNCHANGED <<history, maxDepth>>
  BY <1>4 DEF params
<1>6. Len(logs') <= MaxCommits
  <2>1. CASE TakeDiff
    <3>1. PICK q : q = [logs[joiner.log] EXCEPT !.chan = Tail(@)]
      OBVIOUS
    <3>2. logs' = [logs EXCEPT ![joiner.log] = q]
      BY <2>1, <3>1 DEF TakeDiff
    <3>3. DOMAIN logs' = DOMAIN logs
      BY <3>2
    <3>4. logs \in Seq(LogType) /\ logs' \in Seq(LogType)
      BY <1>1, <1>2 DEF Shape, Channels
    <3>5. Len(logs') = Len(logs)
      BY <3>3, <3>4, LenProperties
    <3> QED BY <1>1, <3>5 DEF Result
  <2>2. CASE ~TakeDiff
    <3>1. logs' = logs
      BY <2>2 DEF JoinerSteps, LogDrained, GiveUpDiff, JoinerEnds
    <3> QED BY <1>1, <3>1 DEF Result
  <2> QED BY <2>1, <2>2
<1>7. Result'
  <2>1. Worse(troubles, troubles')
    BY <1>4 DEF Worse
  <2> QED BY <1>1, <1>4, <1>5, <1>6, <2>1, ResultStays
<1> QED BY <1>2, <1>3, <1>7 DEF Inv

(* ScanCommits, and the opening of its channel of diffs.                   *)
LEMMA InvScan ==
    ASSUME ParserIsRight, Inv, ScanSteps
    PROVE  Inv'
<1>1. Shape /\ Flow /\ Result
  BY DEF Inv
<1>2. \/ RepoPath \/ ScanJoined \/ ScanParsed \/ ScanEnds
  BY DEF ScanSteps
<1>3. Shape'
  BY <1>1, <1>2, ShapeOpens, ShapeScan
<1>4. Flow'
  <2>1. CASE RepoPath
    <3>1. PeekFindsCommits \/ PeekFindsNothing \/ PeekFails \/ OpenLog \/ OpenFails
      BY <2>1 DEF RepoPath
    <3> QED BY <1>1, <3>1, FlowPeeks, FlowOpenLog, FlowEnds
  <2> QED BY <1>1, <1>2, <2>1, FlowScanJoined, FlowScanParsed, FlowEnds
<1>5. Result'
  BY <1>1, <1>3, <1>4, ResultScan
<1> QED BY <1>3, <1>4, <1>5 DEF Inv

(* The caller cancels, or nothing happens.                                 *)
LEMMA InvCancel ==
    ASSUME ParserIsRight, Inv, Cancel \/ UNCHANGED vars
    PROVE  Inv'
<1>1. Shape /\ Flow /\ Result
  BY DEF Inv
<1>2. Shape' /\ Flow'
  BY <1>1, ShapeCancel, FlowEnds
<1>3. UNCHANGED <<params, logs, scan, scanned, troubles>> /\ (cancelled => cancelled')
  BY DEF Cancel, vars
<1>4. UNCHANGED <<history, maxDepth>>
  BY <1>3 DEF params
<1>5. Result'
  <2>1. Len(logs') <= MaxCommits /\ Worse(troubles, troubles')
    BY <1>1, <1>3 DEF Result, Worse
  <2> QED BY <1>1, <1>3, <1>4, <2>1, ResultStays
<1> QED BY <1>2, <1>5 DEF Inv

(* Every step.                                                             *)
LEMMA InvStep ==
    ASSUME ParserIsRight, Inv, [Next]_vars
    PROVE  Inv'
<1>1. CASE \E i \in DOMAIN logs : Parser(i)
  BY <1>1, InvParser
<1>2. CASE RevListSteps \/ ReaderSteps \/ StarterSteps \/ JoinerSteps \/ ScanSteps
  BY <1>2, InvRevList, InvReader, InvStarter, InvJoiner, InvScan
<1>3. CASE Cancel \/ UNCHANGED vars
  BY <1>3, InvCancel
<1> QED BY <1>1, <1>2, <1>3 DEF Next

-----------------------------------------------------------------------------
(* The invariant says what the types are.                                  *)
LEMMA InvTypes ==
    ASSUME Inv
    PROVE  TypeOK
<1>1. Shape /\ Result
  BY DEF Inv
<1>2. /\ history \in Histories /\ groupSize \in GroupSizes /\ maxDepth \in Depths
      /\ {cancelled, ctxDone} \subseteq BOOLEAN /\ troubles \in 0..MaxTroubles
  BY <1>1 DEF Shape, Values
<1>3. /\ Len(history) \in Nat /\ Len(history) <= MaxCommits /\ MaxCommits \in Nat
      /\ DOMAIN logs = 1..Len(logs) /\ \A i \in 1..Len(logs) : logs[i] \in LogType
  BY <1>1, Numbers
<1>4. revList \in [at : {"running", "exited", "failed"}, written : 0..MaxCommits]
  BY <1>1 DEF Shape, Records, RevListType
<1>5. reader.at \in {"new", "scan", "send", "send last", "wait", "done"} /\ reader.read \in 0..revList.written
  <2>1. reader.at \in ReaderStates /\ reader.read \in Nat /\ revList.written \in Nat
        /\ reader.read <= revList.written
    BY <1>1, Fields DEF Shape, Control
  <2>2. reader.at \in {"new", "scan", "send", "send last", "wait", "done"}
    BY <2>1 DEF ReaderStates
  <2>3. reader.read \in 0..revList.written
    BY <2>1
  <2> QED BY <2>2, <2>3
<1>6. starter.at \in {"range", "start", "send", "done"}
  BY <1>1, Fields DEF StarterStates
<1>7. joiner.at \in {"range", "read", "send", "done"} /\ joiner.log \in LogNumbers
  BY <1>1 DEF Shape, Records, JoinerType, JoinerStates
<1>8. Len(logs) <= MaxCommits
  BY <1>1 DEF Result
<1>9. \A i \in DOMAIN logs :
         logs[i].at \in {"parsing", "cut", "closed"} /\ Len(logs[i].chan) <= DiffCap
  BY <1>1, <1>3 DEF Shape, Channels, LogType
<1>10. scan.at \in {"open", "read", "returned"} /\ scan.result \in {"none", "nil", "error"}
  BY <1>1, Fields DEF ScanStates, Results
<1>11. scan.depth \in 0..MaxCommits
  <2>1. scan.depth \in 0..Len(history)
    BY <1>1 DEF Result, Kept
  <2> QED BY <1>3, <2>1
<1> QED BY <1>2, <1>4, <1>5, <1>6, <1>7, <1>8, <1>9, <1>10, <1>11 DEF TypeOK

(* What is kept is what DiffsAreTheLog asks.                               *)
LEMMA InvJoins ==
    ASSUME ParserIsRight, Inv
    PROVE  DiffsAreTheLog
<1>1. Shape /\ Result
  BY DEF Inv
<1>2. PICK h, s, all, n : h = history /\ s = scanned /\ all = All(h) /\ n = Len(all)
  OBVIOUS
<1>3. h \in Histories /\ all \in Seq(DiffRecords) /\ n \in Nat
  BY <1>1, <1>2, Numbers, AllIs
<1>4. /\ s \in Seq(DiffRecords) /\ FitsTo(h, s, n)
      /\ Fine(troubles) => IsPrefix(s, all)
  BY <1>1, <1>2 DEF Result, Kept
<1>5. DOMAIN s = 1..Len(s) /\ DOMAIN all = 1..n
  BY <1>2, <1>3, <1>4, LenProperties
<1>6. PICK place \in [1..Len(s) -> 1..n] :
         /\ \A i, j \in 1..Len(s) : i < j => place[i] < place[j]
         /\ \A i \in 1..Len(s) : PartOf(s[i], all[place[i]])
  BY <1>2, <1>4 DEF FitsTo
<1> DEFINE placeOf == [i \in DOMAIN s |-> {k \in DOMAIN all : PartOf(s[i], all[k])}]
<1>7. \A i \in DOMAIN s : place[i] \in placeOf[i]
  BY <1>5, <1>6
<1>8. \A i \in DOMAIN s : placeOf[i] # {}
  BY <1>7
<1>9. \A i, j \in DOMAIN s : i < j => \E k \in placeOf[i], l \in placeOf[j] : k < l
  <2> HIDE DEF placeOf
  <2> QED BY <1>5, <1>6, <1>7
<1>10. scan.result = "nil" /\ troubles = 0 /\ ~cancelled =>
          IF maxDepth = 0 \/ maxDepth > Begun(history, Len(all)) THEN s = all
          ELSE Begun(history, Len(s)) = maxDepth
  BY <1>1, <1>2 DEF Result, Finished, Fine, Whole
<1>11. troubles = 0 => IsPrefix(s, all)
  BY <1>4 DEF Fine
<1> QED BY <1>2, <1>8, <1>9, <1>10, <1>11 DEF DiffsAreTheLog

(* Whatever the histories, the size of the groups, the depth and the       *)
(* capacities, every behaviour keeps the types, the bounds of the parsers' *)
(* channels among them, if the parser is right of every log it may read.   *)
THEOREM TypeCorrect ==
    ASSUME ParserIsRight
    PROVE  Spec => []TypeOK
<1>1. Init => Inv
  BY InvInit
<1>2. Inv /\ [Next]_vars => Inv'
  BY InvStep
<1>3. Inv => TypeOK
  BY InvTypes
<1> QED BY <1>1, <1>2, <1>3, PTL DEF Spec

(* Under the same promise of the parser, the goroutines of ScanCommits and *)
(* repoPathLowMemory lose, repeat and swap nothing: what is reported is    *)
(* what the log of the whole history says, in its order.                   *)
THEOREM DiffsAreJoined ==
    ASSUME ParserIsRight
    PROVE  Spec => []DiffsAreTheLog
<1>1. Init => Inv
  BY InvInit
<1>2. Inv /\ [Next]_vars => Inv'
  BY InvStep
<1>3. Inv => DiffsAreTheLog
  BY InvJoins
<1> QED BY <1>1, <1>2, <1>3, PTL DEF Spec

-----------------------------------------------------------------------------
(* At most two git logs at once.  This needs nothing of the parser.        *)
Open(i) == logs[i].at # "closed"

(* What the proof needs to know of the types.                              *)
LogRecords(S) ==
    [at : {"parsing", "cut", "closed"}, commits : S, sent : S, rest : S, chan : S]

LogsAre(S) == logs \in Seq(LogRecords(S))
JoinerIs(S) == joiner \in [at : {"range", "read", "send", "done"}, log : Nat, diff : S]
StarterIs(S) == starter \in [at : {"range", "start", "send", "done"}, group : S]

Shapes ==
    /\ \E S : LogsAre(S)
    /\ \E S : JoinerIs(S)
    /\ \E S : StarterIs(S)
    /\ ~LowMemory => starter.at = "done"

(* An unfinished log is the joiner's, or the last one, which the starter   *)
(* has yet to hand over or never will.                                     *)
LastIsKept(i) == i = Len(logs) /\ starter.at \in {"send", "done"}

OpenLogsAreHeld ==
    \A i \in 1..Len(logs) :
        Open(i) => LastIsKept(i) \/ (joiner.at # "range" /\ i = joiner.log)

IInv == Shapes /\ OpenLogsAreHeld

-----------------------------------------------------------------------------
(* A part of a pair has two elements or fewer.                             *)
LEMMA PairIsSmall ==
    ASSUME NEW a, NEW b, NEW T, T \subseteq {a, b}
    PROVE  Cardinality(T) <= 2
<1>1. IsFiniteSet({a}) /\ Cardinality({a}) = 1
  BY FS_Singleton
<1>2. IsFiniteSet({a} \cup {b}) /\ Cardinality({a} \cup {b}) <= 2
  <2>1. IsFiniteSet({a} \cup {b}) /\ Cardinality({a} \cup {b}) \in {1, 2}
    BY <1>1, FS_AddElement
  <2> QED BY <2>1
<1>3. T \subseteq {a} \cup {b}
  OBVIOUS
<1>4. Cardinality(T) \in Nat /\ Cardinality({a} \cup {b}) \in Nat
        /\ Cardinality(T) <= Cardinality({a} \cup {b})
  BY <1>2, <1>3, FS_Subset, FS_CardinalityType
<1> QED BY <1>2, <1>4

-----------------------------------------------------------------------------
(* The invariant of the open logs holds at first.                          *)
LEMMA HeldInit == Init => IInv
<1> SUFFICES ASSUME Init PROVE IInv
  OBVIOUS
<1>1. LogsAre({})
  BY DEF Init, LogsAre
<1>2. JoinerIs({NoDiff})
  BY DEF Init, JoinerIs
<1>3. StarterIs({<<>>})
  BY DEF Init, StarterIs
<1>4. ~LowMemory => starter.at = "done"
  BY DEF Init
<1>5. OpenLogsAreHeld
  BY DEF Init, OpenLogsAreHeld
<1> QED
  BY <1>1, <1>2, <1>3, <1>4, <1>5 DEF IInv, Shapes

(* A step of rev-list, its reader or the scan that leaves the rest alone.  *)
LEMMA QuietStep ==
    ASSUME IInv, UNCHANGED <<groupSize, logs, joiner, starter>>
    PROVE  IInv'
BY DEF IInv, Shapes, LogsAre, JoinerIs, StarterIs, OpenLogsAreHeld, LastIsKept, Open, LowMemory

(* A parser's step: logs keep their number, and none is opened again.      *)
LEMMA ParserStep ==
    ASSUME IInv, NEW i \in DOMAIN logs, Parser(i)
    PROVE  IInv'
<1>1. PICK S : LogsAre(S)
  BY DEF IInv, Shapes
<1>2. UNCHANGED <<groupSize, joiner, starter>>
  BY DEF Parser, ParserSends, LogIsCut, ParserEnds, params
<1>3. logs \in Seq(LogRecords(S))
  BY <1>1 DEF LogsAre
<1>4. i \in 1..Len(logs) /\ logs[i] \in LogRecords(S)
  BY <1>3
<1>5. \E r, T : /\ S \subseteq T /\ r \in LogRecords(T)
                /\ logs[i].at = "closed" => r.at = "closed"
                /\ logs' = [logs EXCEPT ![i] = r]
  <2>1. CASE ParserSends(i)
    <3> DEFINE rest == Tail(logs[i].rest)
               sent == logs[i].sent + 1
               chan == Append(logs[i].chan, Head(logs[i].rest))
               r == [logs[i] EXCEPT !.rest = rest, !.sent = sent, !.chan = chan]
               T == S \cup {rest, sent, chan}
    <3>1. logs' = [logs EXCEPT ![i] = r]
      BY <2>1, <1>4, <1>3 DEF ParserSends
    <3> HIDE DEF rest, sent, chan
    <3>2. r \in LogRecords(T) /\ r.at = logs[i].at
      BY <1>4 DEF LogRecords
    <3>3. S \subseteq T
      OBVIOUS
    <3> HIDE DEF r, T
    <3> QED
      BY <3>1, <3>2, <3>3
  <2>2. CASE LogIsCut(i)
    <3>1. PICK rest : logs' = [logs EXCEPT ![i].at = "cut", ![i].rest = rest]
      BY <2>2 DEF LogIsCut
    <3> DEFINE r == [logs[i] EXCEPT !.at = "cut", !.rest = rest]
    <3>2. logs' = [logs EXCEPT ![i] = r]
      BY <3>1, <1>4, <1>3
    <3>3. r \in LogRecords(S \cup {rest})
      BY <1>4 DEF LogRecords
    <3>4. logs[i].at = "parsing"
      BY <2>2 DEF LogIsCut
    <3> QED
      BY <3>2, <3>3, <3>4
  <2>3. CASE ParserEnds(i)
    <3> DEFINE r == [logs[i] EXCEPT !.at = "closed"]
    <3>1. logs' = [logs EXCEPT ![i] = r]
      BY <2>3, <1>4, <1>3 DEF ParserEnds
    <3>2. r \in LogRecords(S) /\ r.at = "closed"
      BY <1>4 DEF LogRecords
    <3> QED
      BY <3>1, <3>2
  <2> QED
    BY <2>1, <2>2, <2>3 DEF Parser
<1>6. PICK r, T : /\ S \subseteq T /\ r \in LogRecords(T)
                  /\ logs[i].at = "closed" => r.at = "closed"
                  /\ logs' = [logs EXCEPT ![i] = r]
  BY <1>5
<1>7. logs \in Seq(LogRecords(T))
  <2>1. LogRecords(S) \subseteq LogRecords(T)
    BY <1>6 DEF LogRecords
  <2> QED
    BY <1>3, <2>1
<1>8. logs' \in Seq(LogRecords(T)) /\ Len(logs') = Len(logs)
  BY <1>4, <1>6, <1>7
<1>9. Shapes'
  BY <1>2, <1>8 DEF IInv, Shapes, LogsAre, JoinerIs, StarterIs, LowMemory
<1>10. ASSUME NEW j \in 1..Len(logs'), Open(j)' PROVE j \in 1..Len(logs) /\ Open(j)
  BY <1>4, <1>6, <1>7, <1>8, <1>10 DEF Open
<1> QED
  BY <1>2, <1>8, <1>9, <1>10 DEF IInv, OpenLogsAreHeld, LastIsKept

(* A diff is taken from a log's channel.                                   *)
LEMMA ChannelStep ==
    ASSUME IInv, NEW x, NEW chan, logs' = [logs EXCEPT ![x].chan = chan]
    PROVE  /\ \E S : LogsAre(S)'
           /\ Len(logs') = Len(logs)
           /\ \A i \in 1..Len(logs) : Open(i)' <=> Open(i)
<1>1. PICK S : logs \in Seq(LogRecords(S))
  BY DEF IInv, Shapes, LogsAre
<1>2. CASE x \in 1..Len(logs)
  <2> DEFINE r == [logs[x] EXCEPT !.chan = chan]
             T == S \cup {chan}
  <2>1. logs[x] \in LogRecords(S)
    BY <1>1, <1>2
  <2>2. r \in LogRecords(T) /\ r.at = logs[x].at
    BY <2>1 DEF LogRecords
  <2>3. LogRecords(S) \subseteq LogRecords(T)
    BY DEF LogRecords
  <2>4. logs' = [logs EXCEPT ![x] = r]
    BY <1>1, <1>2
  <2> HIDE DEF r, T
  <2>5. logs \in Seq(LogRecords(T))
    BY <1>1, <2>3
  <2>6. logs' \in Seq(LogRecords(T)) /\ Len(logs') = Len(logs)
    BY <1>2, <2>2, <2>4, <2>5
  <2>7. \A i \in 1..Len(logs) : Open(i)' <=> Open(i)
    BY <1>2, <2>2, <2>4, <2>5 DEF Open
  <2> QED
    BY <2>6, <2>7 DEF LogsAre
<1>3. CASE x \notin 1..Len(logs)
  <2>1. logs' = logs
    BY <1>1, <1>3
  <2> QED
    BY <1>1, <2>1 DEF LogsAre, Open
<1> QED
  BY <1>2, <1>3

(* And every step keeps it.                                                *)
LEMMA HeldStep == IInv /\ [Next]_vars => IInv'
<1> SUFFICES ASSUME IInv, [Next]_vars PROVE IInv'
  OBVIOUS
<1>0. PICK S, D, G : /\ logs \in Seq(LogRecords(S))
                     /\ joiner \in [at : {"range", "read", "send", "done"}, log : Nat, diff : D]
                     /\ starter \in [at : {"range", "start", "send", "done"}, group : G]
  BY DEF IInv, Shapes, LogsAre, JoinerIs, StarterIs
<1>1. CASE RevListSteps
  BY <1>1, QuietStep DEF RevListSteps, RevListWrites, RevListEnds, RevListDies, params
<1>2. CASE ReaderSteps
  <2>1. CASE SendGroup
    <3>1. PICK g : /\ starter' = [at |-> "start", group |-> g] /\ starter.at = "range"
                   /\ UNCHANGED <<groupSize, logs, joiner>>
      BY <2>1 DEF SendGroup, params
    <3>2. StarterIs({g})'
      BY <3>1 DEF StarterIs
    <3>3. LowMemory'
      BY <3>1 DEF IInv, Shapes, LowMemory
    <3>4. Shapes'
      BY <3>1, <3>2, <3>3 DEF IInv, Shapes, LogsAre, JoinerIs
    <3> QED
      BY <3>1, <3>4 DEF IInv, OpenLogsAreHeld, LastIsKept, Open
  <2>2. CASE ReadHash \/ HashesEnd \/ GiveUpGroup \/ WaitForRevList
    BY <2>2, QuietStep DEF ReadHash, HashesEnd, GiveUpGroup, WaitForRevList, params
  <2> QED
    BY <1>2, <2>1, <2>2 DEF ReaderSteps
<1>3. CASE StarterSteps
  <2>1. CASE StartLog
    <3> DEFINE r == Log(starter.group)
               T == S \cup {r.commits, r.sent, r.rest, r.chan}
    <3>1. /\ logs' = Append(logs, r) /\ starter' = [at |-> "send", group |-> <<>>]
          /\ starter.at = "start" /\ UNCHANGED <<groupSize, joiner>>
      BY <2>1 DEF StartLog, params
    <3>2. r \in LogRecords(T)
      BY DEF LogRecords, Log
    <3>3. LogRecords(S) \subseteq LogRecords(T)
      BY DEF LogRecords
    <3> HIDE DEF r, T
    <3>4. logs \in Seq(LogRecords(T))
      BY <1>0, <3>3
    <3>5. logs' \in Seq(LogRecords(T)) /\ Len(logs') = Len(logs) + 1
            /\ \A i \in 1..Len(logs) : logs'[i] = logs[i]
      BY <3>1, <3>2, <3>4
    <3>6. StarterIs({<<>>})'
      BY <3>1 DEF StarterIs
    <3>7. LowMemory'
      BY <3>1 DEF IInv, Shapes, LowMemory
    <3>8. Shapes'
      BY <3>1, <3>5, <3>6, <3>7 DEF IInv, Shapes, LogsAre, JoinerIs
    <3>9. OpenLogsAreHeld'
      <4> SUFFICES ASSUME NEW i \in 1..Len(logs'), Open(i)'
                   PROVE  LastIsKept(i)' \/ (joiner'.at # "range" /\ i = joiner'.log)
        BY DEF OpenLogsAreHeld
      <4>1. CASE i = Len(logs')
        BY <4>1, <3>1 DEF LastIsKept
      <4>2. CASE i \in 1..Len(logs)
        BY <4>2, <3>1, <3>5 DEF IInv, OpenLogsAreHeld, LastIsKept, Open
      <4> QED
        BY <1>0, <3>5, <4>1, <4>2
    <3> QED
      BY <3>8, <3>9 DEF IInv
  <2>2. CASE StartFails
    <3>1. starter' = [at |-> "done", group |-> <<>>] /\ starter.at = "start"
            /\ UNCHANGED <<groupSize, logs, joiner>>
      BY <2>2 DEF StartFails, params
    <3>2. StarterIs({<<>>})' /\ starter'.at = "done"
      BY <3>1 DEF StarterIs
    <3> QED
      BY <3>1, <3>2 DEF IInv, Shapes, LogsAre, JoinerIs, OpenLogsAreHeld, LastIsKept, Open
  <2>3. CASE SendLog
    <3>1. /\ starter' = [starter EXCEPT !.at = "range"] /\ starter.at = "send"
          /\ joiner' = [joiner EXCEPT !.at = "read", !.log = Len(logs)] /\ joiner.at = "range"
          /\ UNCHANGED <<groupSize, logs>>
      BY <2>3 DEF SendLog, params
    <3>2. StarterIs(G)'
      BY <1>0, <3>1 DEF StarterIs
    <3>3. JoinerIs(D)' /\ joiner'.at = "read" /\ joiner'.log = Len(logs)
      <4>1. Len(logs) \in Nat
        BY <1>0
      <4> QED
        BY <1>0, <3>1, <4>1 DEF JoinerIs
    <3>4. LowMemory'
      BY <3>1 DEF IInv, Shapes, LowMemory
    <3>5. Shapes'
      BY <3>1, <3>2, <3>3, <3>4 DEF IInv, Shapes, LogsAre
    <3> QED
      BY <3>1, <3>3, <3>5 DEF IInv, OpenLogsAreHeld, LastIsKept, Open
  <2>4. CASE GiveUpLog \/ StarterEnds
    <3>1. /\ starter' = [starter EXCEPT !.at = "done"] /\ starter.at \in {"send", "range"}
          /\ UNCHANGED <<groupSize, logs, joiner>>
      BY <2>4 DEF GiveUpLog, StarterEnds, params
    <3>2. StarterIs(G)' /\ starter'.at = "done"
      BY <1>0, <3>1 DEF StarterIs
    <3> QED
      BY <3>1, <3>2 DEF IInv, Shapes, LogsAre, JoinerIs, OpenLogsAreHeld, LastIsKept, Open
  <2> QED
    BY <1>3, <2>1, <2>2, <2>3, <2>4 DEF StarterSteps
<1>4. CASE JoinerSteps
  <2>1. CASE TakeDiff
    <3>1. PICK at, d :
          /\ joiner' = [joiner EXCEPT !.at = at, !.diff = d] /\ at \in {"done", "send"}
          /\ joiner.at = "read"
          /\ logs' = [logs EXCEPT ![joiner.log].chan = Tail(logs[joiner.log].chan)]
          /\ UNCHANGED <<groupSize, starter>>
      <4> WITNESS IF ctxDone THEN "done" ELSE "send",
                  IF ctxDone THEN NoDiff ELSE Head(logs[joiner.log].chan)
      <4> QED
        BY <2>1 DEF TakeDiff, params
    <3>2. JoinerIs(D \cup {d})' /\ joiner'.at # "range" /\ joiner'.log = joiner.log
      BY <1>0, <3>1 DEF JoinerIs
    <3>3. /\ \E T : LogsAre(T)'
          /\ Len(logs') = Len(logs)
          /\ \A i \in 1..Len(logs) : Open(i)' <=> Open(i)
      BY <3>1, ChannelStep
    <3> QED
      BY <3>1, <3>2, <3>3 DEF IInv, Shapes, StarterIs, LowMemory, OpenLogsAreHeld, LastIsKept
  <2>2. CASE LogDrained
    <3>1. /\ joiner' = [joiner EXCEPT !.at = "range"] /\ ~Open(joiner.log)
          /\ UNCHANGED <<groupSize, starter, logs>>
      BY <2>2 DEF LogDrained, params, Open
    <3>2. JoinerIs(D)'
      BY <1>0, <3>1 DEF JoinerIs
    <3> QED
      BY <3>1, <3>2 DEF IInv, Shapes, LogsAre, StarterIs, LowMemory, OpenLogsAreHeld, LastIsKept, Open
  <2>3. CASE GiveUpDiff
    <3>1. /\ joiner' = [joiner EXCEPT !.at = "done", !.diff = NoDiff]
          /\ UNCHANGED <<groupSize, starter, logs>>
      BY <2>3 DEF GiveUpDiff, params
    <3>2. JoinerIs(D \cup {NoDiff})' /\ joiner'.at = "done" /\ joiner'.log = joiner.log
      BY <1>0, <3>1 DEF JoinerIs
    <3> QED
      BY <3>1, <3>2 DEF IInv, Shapes, LogsAre, StarterIs, LowMemory, OpenLogsAreHeld, LastIsKept, Open
  <2>4. CASE JoinerEnds
    <3>1. /\ joiner' = [joiner EXCEPT !.at = "done"]
          /\ UNCHANGED <<groupSize, starter, logs>>
      BY <2>4 DEF JoinerEnds, params
    <3>2. JoinerIs(D)' /\ joiner'.at = "done" /\ joiner'.log = joiner.log
      BY <1>0, <3>1 DEF JoinerIs
    <3> QED
      BY <3>1, <3>2 DEF IInv, Shapes, LogsAre, StarterIs, LowMemory, OpenLogsAreHeld, LastIsKept, Open
  <2> QED
    BY <1>4, <2>1, <2>2, <2>3, <2>4 DEF JoinerSteps
<1>5. CASE ScanSteps
  <2>1. CASE PeekFindsCommits \/ PeekFindsNothing \/ OpenFails \/ ScanEnds
    BY <2>1, QuietStep DEF PeekFindsCommits, PeekFindsNothing, OpenFails, ScanEnds, params
  <2>2. CASE PeekFails
    <3>1. /\ joiner' = [joiner EXCEPT !.at = "done"] /\ starter' = [starter EXCEPT !.at = "done"]
          /\ UNCHANGED <<groupSize, logs>>
      BY <2>2 DEF PeekFails, params
    <3>2. JoinerIs(D)' /\ joiner'.at = "done" /\ joiner'.log = joiner.log
      BY <1>0, <3>1 DEF JoinerIs
    <3>3. StarterIs(G)' /\ starter'.at = "done"
      BY <1>0, <3>1 DEF StarterIs
    <3> QED
      BY <3>1, <3>2, <3>3 DEF IInv, Shapes, LogsAre, OpenLogsAreHeld, LastIsKept, Open
  <2>3. CASE OpenLog
    <3> DEFINE r == Log(history)
               T == {r.commits, r.sent, r.rest, r.chan}
    <3>1. logs' = <<r>> /\ ~LowMemory /\ UNCHANGED <<groupSize, joiner, starter>>
      BY <2>3 DEF OpenLog, params
    <3>2. r \in LogRecords(T)
      BY DEF LogRecords, Log
    <3> HIDE DEF r, T
    <3>3. logs' \in Seq(LogRecords(T)) /\ Len(logs') = 1
      BY <3>1, <3>2
    <3>4. starter'.at = "done"
      BY <3>1 DEF IInv, Shapes
    <3> QED
      BY <3>1, <3>3, <3>4 DEF IInv, Shapes, LogsAre, JoinerIs, StarterIs, OpenLogsAreHeld, LastIsKept
  <2>4. CASE ScanJoined
    <3>1. /\ joiner' = [joiner EXCEPT !.at = "read", !.diff = NoDiff]
          /\ UNCHANGED <<groupSize, starter, logs>>
      BY <2>4 DEF ScanJoined, params
    <3>2. JoinerIs(D \cup {NoDiff})' /\ joiner'.at = "read" /\ joiner'.log = joiner.log
      BY <1>0, <3>1 DEF JoinerIs
    <3> QED
      BY <3>1, <3>2 DEF IInv, Shapes, LogsAre, StarterIs, LowMemory, OpenLogsAreHeld, LastIsKept, Open
  <2>5. CASE ScanParsed
    <3>1. /\ logs' = [logs EXCEPT ![1].chan = Tail(logs[1].chan)]
          /\ UNCHANGED <<groupSize, starter, joiner>>
      BY <2>5 DEF ScanParsed, params
    <3>2. /\ \E T : LogsAre(T)'
          /\ Len(logs') = Len(logs)
          /\ \A i \in 1..Len(logs) : Open(i)' <=> Open(i)
      BY <3>1, ChannelStep
    <3> QED
      BY <3>1, <3>2 DEF IInv, Shapes, JoinerIs, StarterIs, LowMemory, OpenLogsAreHeld, LastIsKept
  <2> QED
    BY <1>5, <2>1, <2>2, <2>3, <2>4, <2>5 DEF ScanSteps, RepoPath
<1>6. CASE Cancel \/ UNCHANGED vars
  BY <1>6, QuietStep DEF Cancel, vars, params
<1>7. CASE \E i \in DOMAIN logs : Parser(i)
  BY <1>7, ParserStep
<1> QED
  BY <1>1, <1>2, <1>3, <1>4, <1>5, <1>6, <1>7 DEF Next

(* It leaves two logs that may be open.                                    *)
LEMMA HeldAreFew == IInv => FewGitsAtOnce
<1> SUFFICES ASSUME IInv PROVE FewGitsAtOnce
  OBVIOUS
<1> DEFINE U == {i \in DOMAIN logs : logs[i].at # "closed"}
<1>1. DOMAIN logs = 1..Len(logs)
  BY DEF IInv, Shapes, LogsAre
<1>2. U \subseteq {joiner.log, Len(logs)}
  <2> SUFFICES ASSUME NEW i \in DOMAIN logs, Open(i) PROVE i \in {joiner.log, Len(logs)}
    BY DEF Open
  <2> QED BY DEF IInv, OpenLogsAreHeld, LastIsKept
<1> HIDE DEF U
<1>3. Cardinality(U) <= 2
  BY <1>2, PairIsSmall
<1> QED
  BY <1>3 DEF FewGitsAtOnce, U

(* FewGitsAtOnce holds of every history, group size and channel capacity:  *)
(* repoPathLowMemory's "at most one git log running and one draining".     *)
THEOREM FewGits == Spec => []FewGitsAtOnce
<1>1. Spec => []IInv
  BY HeldInit, HeldStep, PTL DEF Spec
<1> QED
  BY <1>1, HeldAreFew, PTL
=============================================================================
