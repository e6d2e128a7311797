------------------------------ MODULE ShardProofs ------------------------------
(****************************************************************************)
(* Proofs about the layout of padded and cut weights: the vocabulary, the   *)
(* linear layers and the drafter's heads, for any number of ranks, any      *)
(* padding unit and any sizes.                                              *)
(****************************************************************************)
EXTENDS ServingProofs

(****************************************************************************)
(* Pieces put one after the other                                           *)
(****************************************************************************)

(* "pieces" has n pieces, the i-th of them after ends[i - 1] elements.      *)
Pieces(pieces, ends, n) ==
  /\ n \in Nat \ {0} /\ DOMAIN pieces = 1..n
  /\ pieces = [i \in 1..n |-> pieces[i]]
  /\ ends \in [0..n -> Nat] /\ ends[0] = 0
  /\ \A i, j \in 0..n : i <= j => ends[i] <= ends[j]
  /\ \A i \in 1..n : pieces[i] \in Seq(Int) /\ Len(pieces[i]) = ends[i] - ends[i - 1]

(* The first of them put together, piece by piece.                          *)
Joins(f, pieces, n) ==
  f = [i \in 1..n |-> IF i = 1 THEN pieces[i] ELSE f[i - 1] \o pieces[i]]

LEMMA PiecesAre ==
  ASSUME NEW pieces, NEW ends, NEW n, Pieces(pieces, ends, n)
  PROVE  /\ n \in Nat \ {0} /\ ends[0] = 0
         /\ \A i \in 0..n : ends[i] \in Nat /\ ends[i] <= ends[n]
         /\ \A i, j \in 0..n : i <= j => ends[i] <= ends[j]
         /\ \A i \in 1..n : /\ pieces[i] \in Seq(Int)
                            /\ Len(pieces[i]) = ends[i] - ends[i - 1]
                            /\ ends[i - 1] <= ends[i] /\ ends[i - 1] \in Nat /\ ends[i] \in Nat
<1> USE DEF Pieces
<1>1. \A i \in 1..n : i \in 0..n /\ i - 1 \in 0..n /\ i - 1 <= i
  OBVIOUS
<1>2. \A i \in 0..n : ends[i] \in Nat
  OBVIOUS
<1>3. \A i \in 0..n : ends[i] <= ends[n]
  OBVIOUS
<1> QED
  BY <1>1, <1>2, <1>3

LEMMA SameSequence ==
  ASSUME NEW s \in Seq(Int), NEW t \in Seq(Int), Len(s) = Len(t),
         \A k \in 1..Len(s) : s[k] = t[k]
  PROVE  s = t
<1>1. s = [k \in 1..Len(s) |-> s[k]] /\ t = [k \in 1..Len(t) |-> t[k]]
  OBVIOUS
<1> QED
  BY <1>1

LEMMA LastEnd ==
  ASSUME NEW pieces, NEW ends, NEW n, Pieces(pieces, ends, n), NEW k \in 1..ends[n]
  PROVE  \E i \in 1..n : ends[i - 1] < k /\ k <= ends[i]
<1> USE DEF Pieces
<1> DEFINE S == {i \in 0..n : k <= ends[i]}
<1>1. S \in SUBSET Nat /\ n \in S
  OBVIOUS
<1>2. PICK i \in S : \A m \in S : i <= m
  <2> HIDE DEF S
  <2> QED
    BY <1>1, Lowest
<1>3. i \in 1..n
  BY <1>2
<1>4. i - 1 \in 0..n /\ i - 1 \notin S
  BY <1>2, <1>3
<1>5. ends[i - 1] < k
  BY <1>4
<1> QED
  BY <1>2, <1>3, <1>5

(* What the elements are, in closed form.                                   *)
Closed(pieces, ends, n) ==
  [i \in 1..n |->
     [k \in 1..ends[i] |->
        LET j == CHOOSE j \in 1..n : ends[j - 1] < k /\ k <= ends[j]
        IN pieces[j][k - ends[j - 1]]]]

LEMMA OnePiece ==
  ASSUME NEW pieces, NEW ends, NEW n, Pieces(pieces, ends, n),
         NEW i \in 1..n, NEW j \in 1..n, NEW k \in Nat,
         ends[i - 1] < k, k <= ends[i], ends[j - 1] < k, k <= ends[j]
  PROVE  i = j
<1>0. n \in Nat \ {0} /\ \A a, b \in 0..n : a <= b => ends[a] <= ends[b]
  BY PiecesAre
<1>00. \A a \in 0..n : ends[a] \in Nat
  BY PiecesAre
<1>1. CASE i < j
  <2>1. i <= j - 1 /\ i \in 0..n /\ j - 1 \in 0..n
    BY <1>0, <1>1
  <2>2. ends[i] <= ends[j - 1] /\ ends[i] \in Nat /\ ends[j - 1] \in Nat
    BY <1>0, <1>00, <2>1
  <2> QED
    BY <2>2
<1>2. CASE j < i
  <2>1. j <= i - 1 /\ j \in 0..n /\ i - 1 \in 0..n
    BY <1>0, <1>2
  <2>2. ends[j] <= ends[i - 1] /\ ends[j] \in Nat /\ ends[i - 1] \in Nat
    BY <1>0, <1>00, <2>1
  <2> QED
    BY <2>2
<1> QED
  BY <1>1, <1>2

LEMMA ClosedIs ==
  ASSUME NEW pieces, NEW ends, NEW n, Pieces(pieces, ends, n), NEW i \in 1..n
  PROVE  /\ Closed(pieces, ends, n)[i] \in Seq(Int)
         /\ Len(Closed(pieces, ends, n)[i]) = ends[i]
         /\ \A j \in 1..i : \A k \in 1..ends[i] : ends[j - 1] < k /\ k <= ends[j] =>
              Closed(pieces, ends, n)[i][k] = pieces[j][k - ends[j - 1]]
<1>0. /\ n \in Nat \ {0} /\ ends[i] \in Nat /\ ends[n] \in Nat /\ ends[i] <= ends[n]
      /\ \A j \in 1..n : /\ pieces[j] \in Seq(Int) /\ Len(pieces[j]) = ends[j] - ends[j - 1]
                         /\ ends[j - 1] \in Nat /\ ends[j] \in Nat
  <2>1. i \in 0..n /\ n \in 0..n /\ n \in Nat \ {0}
    BY PiecesAre
  <2> QED
    BY <2>1, PiecesAre
<1> DEFINE el(k) ==
      LET j == CHOOSE j \in 1..n : ends[j - 1] < k /\ k <= ends[j]
      IN pieces[j][k - ends[j - 1]]
<1>1. Closed(pieces, ends, n)[i] = [k \in 1..ends[i] |-> el(k)]
  BY DEF Closed
<1>2. ends[i] \in Nat
  BY <1>0
<1>3. ASSUME NEW k \in Nat, NEW j \in 1..n, ends[j - 1] < k, k <= ends[j]
      PROVE  el(k) = pieces[j][k - ends[j - 1]]
  <2> DEFINE q == CHOOSE q \in 1..n : ends[q - 1] < k /\ k <= ends[q]
  <2>1. q \in 1..n /\ ends[q - 1] < k /\ k <= ends[q]
    BY <1>3
  <2>2. el(k) = pieces[q][k - ends[q - 1]]
    OBVIOUS
  <2> HIDE DEF q, el
  <2>3. q = j
    BY <1>3, <2>1, OnePiece
  <2> QED
    BY <2>2, <2>3
<1>4. \A k \in 1..ends[i] : el(k) \in Int
  <2> SUFFICES ASSUME NEW k \in 1..ends[i] PROVE el(k) \in Int
    OBVIOUS
  <2>1. ends[i] <= ends[n] /\ ends[i] \in Nat /\ ends[n] \in Nat
    BY <1>0
  <2>2. k \in 1..ends[n] /\ k \in Nat
    BY <2>1
  <2>3. PICK j \in 1..n : ends[j - 1] < k /\ k <= ends[j]
    BY <2>2, LastEnd
  <2>4. el(k) = pieces[j][k - ends[j - 1]]
    BY <1>3, <2>2, <2>3
  <2> HIDE DEF el
  <2>5. ends[j] \in Nat /\ ends[j - 1] \in Nat /\ Len(pieces[j]) = ends[j] - ends[j - 1]
        /\ pieces[j] \in Seq(Int)
    BY <1>0
  <2>6. k - ends[j - 1] \in 1..Len(pieces[j])
    BY <2>2, <2>3, <2>5
  <2> QED
    BY <2>4, <2>5, <2>6
<1> HIDE DEF el
<1>5. Closed(pieces, ends, n)[i] \in Seq(Int) /\ Len(Closed(pieces, ends, n)[i]) = ends[i]
  BY <1>1, <1>2, <1>4
<1>6. ASSUME NEW j \in 1..i, NEW k \in 1..ends[i], ends[j - 1] < k, k <= ends[j]
      PROVE  Closed(pieces, ends, n)[i][k] = pieces[j][k - ends[j - 1]]
  <2>1. j \in 1..n /\ k \in Nat
    BY <1>0
  <2>2. el(k) = pieces[j][k - ends[j - 1]]
    BY <1>3, <1>6, <2>1
  <2> QED
    BY <1>1, <2>2
<1> QED
  BY <1>5, <1>6

LEMMA Concat ==
  ASSUME NEW s \in Seq(Int), NEW t \in Seq(Int)
  PROVE  /\ s \o t \in Seq(Int) /\ Len(s \o t) = Len(s) + Len(t)
         /\ \A k \in 1..Len(s) : (s \o t)[k] = s[k]
         /\ \A k \in 1..Len(t) : (s \o t)[Len(s) + k] = t[k]
OBVIOUS

LEMMA ClosedJoins ==
  ASSUME NEW pieces, NEW ends, NEW n, Pieces(pieces, ends, n)
  PROVE  Joins(Closed(pieces, ends, n), pieces, n)
<1> PICK f : f = Closed(pieces, ends, n)
  OBVIOUS
<1>0. f = [i \in 1..n |-> f[i]]
  BY DEF Closed
<1>1. \A i \in 1..n :
        /\ f[i] \in Seq(Int) /\ Len(f[i]) = ends[i]
        /\ \A j \in 1..i : \A k \in 1..ends[i] : ends[j - 1] < k /\ k <= ends[j] =>
              f[i][k] = pieces[j][k - ends[j - 1]]
  BY ClosedIs
<1>2. ASSUME NEW i \in 1..n
      PROVE  f[i] = IF i = 1 THEN pieces[i] ELSE f[i - 1] \o pieces[i]
  <2>0. i \in 0..n /\ i - 1 \in 0..n /\ i - 1 <= i /\ n \in Nat /\ n \in 0..n /\ i \in 1..i
    BY PiecesAre
  <2>1. /\ ends[i] \in Nat /\ ends[i - 1] \in Nat /\ ends[i - 1] <= ends[i]
        /\ pieces[i] \in Seq(Int) /\ Len(pieces[i]) = ends[i] - ends[i - 1]
    BY PiecesAre
  <2>2. f[i] \in Seq(Int) /\ Len(f[i]) = ends[i]
    BY <1>1
  <2>3. \A k \in 1..ends[i] : ends[i - 1] < k => f[i][k] = pieces[i][k - ends[i - 1]]
    BY <1>1, <2>0, <2>1
  <2>4. CASE i = 1
    <3>1. ends[i - 1] = 0
      BY <2>4, PiecesAre
    <3>2. \A k \in 1..ends[i] : f[i][k] = pieces[i][k]
      <4> SUFFICES ASSUME NEW k \in 1..ends[i] PROVE f[i][k] = pieces[i][k]
        OBVIOUS
      <4>1. k - ends[i - 1] = k /\ ends[i - 1] < k
        BY <2>1, <3>1
      <4> QED
        BY <2>3, <4>1
    <3>3. Len(pieces[i]) = Len(f[i])
      BY <2>1, <2>2, <3>1
    <3>4. f[i] = pieces[i]
      BY <2>1, <2>2, <3>2, <3>3, SameSequence
    <3> QED
      BY <2>4, <3>4
  <2>5. CASE i # 1
    <3>1. i - 1 \in 1..n
      BY <2>5, <2>0
    <3>2. f[i - 1] \in Seq(Int) /\ Len(f[i - 1]) = ends[i - 1]
      BY <1>1, <3>1
    <3> PICK g : g = f[i - 1] \o pieces[i]
      OBVIOUS
    <3>3. g \in Seq(Int) /\ Len(g) = ends[i]
      <4>1. g \in Seq(Int) /\ Len(g) = Len(f[i - 1]) + Len(pieces[i])
        BY <2>1, <3>2, Concat
      <4> QED
        BY <2>1, <3>2, <4>1
    <3>4. ASSUME NEW k \in 1..ends[i] PROVE f[i][k] = g[k]
      <4>1. CASE k <= ends[i - 1]
        <5>0. k \in 1..ends[i - 1]
          BY <2>1, <4>1
        <5>1. k \in 1..ends[i - 1] /\ g[k] = f[i - 1][k]
          <6>1. k \in 1..Len(f[i - 1])
            BY <3>2, <5>0
          <6>2. (f[i - 1] \o pieces[i])[k] = f[i - 1][k]
            BY <2>1, <3>2, <6>1, Concat
          <6> QED
            BY <5>0, <6>2
        <5>2. PICK j \in 1..n : ends[j - 1] < k /\ k <= ends[j]
          <6>1. ends[i] <= ends[n] /\ ends[n] \in Nat
            BY <2>0, PiecesAre
          <6>2. k \in 1..ends[n]
            BY <2>1, <6>1
          <6> QED
            BY <6>2, LastEnd
        <5>3. j <= i - 1
          <6>1. SUFFICES ASSUME i - 1 <= j - 1 PROVE FALSE
            BY <2>0
          <6>2. j - 1 \in 0..n /\ ends[j - 1] \in Nat
            BY <2>0, PiecesAre
          <6>3. ends[i - 1] <= ends[j - 1]
            BY <2>0, <6>1, <6>2, PiecesAre
          <6> QED
            BY <2>1, <4>1, <5>2, <6>2, <6>3
        <5>4. j \in 1..(i - 1) /\ j \in 1..i
          BY <5>3, <2>0
        <5>5. f[i][k] = pieces[j][k - ends[j - 1]]
          BY <1>1, <5>2, <5>4
        <5>6. f[i - 1][k] = pieces[j][k - ends[j - 1]]
          BY <1>1, <3>1, <5>1, <5>2, <5>4
        <5> QED
          BY <5>1, <5>5, <5>6
      <4>2. CASE ends[i - 1] < k
        <5>1. k - ends[i - 1] \in 1..Len(pieces[i]) /\ k \in Nat
          BY <2>1, <4>2
        <5>2. g[k] = pieces[i][k - ends[i - 1]]
          <6> PICK j : j = k - ends[i - 1]
            OBVIOUS
          <6>1. g[Len(f[i - 1]) + j] = pieces[i][j]
            BY <2>1, <3>2, <5>1, Concat
          <6>2. Len(f[i - 1]) + j = k
            BY <2>1, <3>2, <5>1
          <6> QED
            BY <6>1, <6>2
        <5> QED
          BY <2>3, <4>2, <5>2
      <4>3. k <= ends[i - 1] \/ ends[i - 1] < k
        BY <2>1
      <4> QED
        BY <4>1, <4>2, <4>3
    <3>5. f[i] = g
      BY <2>2, <3>3, <3>4, SameSequence
    <3> QED
      BY <2>5, <3>5
  <2> QED
    BY <2>4, <2>5
<1> QED
  BY <1>0, <1>2 DEF Joins

LEMMA JoinsOnce ==
  ASSUME NEW pieces, NEW n \in Nat, NEW f, NEW g, Joins(f, pieces, n), Joins(g, pieces, n)
  PROVE  f = g
<1>1. /\ \A i \in 1..n : f[i] = IF i = 1 THEN pieces[i] ELSE f[i - 1] \o pieces[i]
      /\ \A i \in 1..n : g[i] = IF i = 1 THEN pieces[i] ELSE g[i - 1] \o pieces[i]
  BY DEF Joins
<1>2. f = [i \in 1..n |-> f[i]] /\ g = [i \in 1..n |-> g[i]]
  BY DEF Joins
<1> DEFINE S == {i \in 1..n : f[i] # g[i]}
<1>3. CASE S = {}
  BY <1>2, <1>3
<1>4. CASE S # {}
  <2>1. S \in SUBSET Nat
    OBVIOUS
  <2>2. PICK i \in S : \A m \in S : i <= m
    <3> HIDE DEF S
    <3> QED
      BY <1>4, <2>1, Lowest
  <2>3. i \in 1..n /\ f[i] # g[i]
    BY <2>2
  <2>4. i # 1
    BY <1>1, <2>3
  <2>5. i - 1 \in 1..n /\ i - 1 \notin S
    BY <2>2, <2>3, <2>4
  <2>6. f[i - 1] = g[i - 1]
    BY <2>5
  <2> QED
    BY <1>1, <2>3, <2>4, <2>6
<1> QED
  BY <1>3, <1>4

(* All elements are there, each where its piece has come to lie.            *)
IsFlat(f, pieces, ends, n) ==
  /\ f \in Seq(Int) /\ Len(f) = ends[n]
  /\ \A i \in 1..n : \A k \in 1..Len(pieces[i]) : f[ends[i - 1] + k] = pieces[i][k]
  /\ \A k \in 1..ends[n] : \E i \in 1..n :
       /\ ends[i - 1] < k /\ k <= ends[i] /\ k - ends[i - 1] \in 1..Len(pieces[i])
       /\ f[k] = pieces[i][k - ends[i - 1]]

LEMMA Flattened ==
  ASSUME NEW pieces, NEW ends, NEW n, Pieces(pieces, ends, n)
  PROVE  IsFlat(SH!FlattenSeq(pieces), pieces, ends, n)
<1>0. n \in Nat \ {0}
  BY DEF Pieces
<1>1. Len(pieces) = n
  BY DEF Pieces
<1> DEFINE f == CHOOSE f : Joins(f, pieces, n)
<1>2. SH!FlattenSeq(pieces) = f[n]
  <2>1. SH!FlattenSeq(pieces)
          = LET flatten[i \in 1..Len(pieces)] ==
                  IF i = 1 THEN pieces[i] ELSE flatten[i - 1] \o pieces[i]
            IN flatten[Len(pieces)]
    BY <1>0, <1>1 DEF SH!FlattenSeq
  <2> QED
    BY <1>1, <2>1 DEF Joins
<1> HIDE DEF f
<1>3. Joins(f, pieces, n)
  BY ClosedJoins DEF f
<1>4. f = Closed(pieces, ends, n)
  BY <1>0, <1>3, ClosedJoins, JoinsOnce
<1> PICK s : s = SH!FlattenSeq(pieces)
  OBVIOUS
<1>5. /\ s \in Seq(Int) /\ Len(s) = ends[n]
      /\ \A j \in 1..n : \A k \in 1..ends[n] : ends[j - 1] < k /\ k <= ends[j] =>
           s[k] = pieces[j][k - ends[j - 1]]
  <2>1. n \in 1..n
    BY <1>0
  <2> QED
    BY <1>2, <1>4, <2>1, ClosedIs
<1>6. ASSUME NEW i \in 1..n
      PROVE  /\ ends[i] \in Nat /\ ends[i - 1] \in Nat /\ ends[n] \in Nat /\ ends[i] <= ends[n]
             /\ Len(pieces[i]) = ends[i] - ends[i - 1]
  <2>1. i \in 0..n /\ i - 1 \in 0..n /\ n \in 0..n /\ i <= n
    BY <1>0
  <2> QED
    BY <2>1 DEF Pieces
<1>7. ASSUME NEW i \in 1..n, NEW k \in 1..Len(pieces[i])
      PROVE  s[ends[i - 1] + k] = pieces[i][k]
  <2> PICK q : q = ends[i - 1] + k
    OBVIOUS
  <2>1. q \in 1..ends[n] /\ ends[i - 1] < q /\ q <= ends[i] /\ q - ends[i - 1] = k
    BY <1>6
  <2> QED
    BY <1>5, <2>1
<1>8. ASSUME NEW k \in 1..ends[n]
      PROVE  \E i \in 1..n :
              /\ ends[i - 1] < k /\ k <= ends[i]
              /\ k - ends[i - 1] \in 1..Len(pieces[i])
              /\ s[k] = pieces[i][k - ends[i - 1]]
  <2>1. PICK i \in 1..n : ends[i - 1] < k /\ k <= ends[i]
    BY LastEnd
  <2>2. k - ends[i - 1] \in 1..Len(pieces[i])
    <3>1. k \in Nat /\ ends[n] \in Nat
      BY <1>6, <2>1
    <3> QED
      BY <1>6, <2>1, <3>1
  <2> QED
    BY <1>5, <2>1, <2>2
<1>9. IsFlat(s, pieces, ends, n)
  BY <1>5, <1>7, <1>8 DEF IsFlat
<1> QED
  BY <1>9

ThreePieces(w, s, t, u) ==
  /\ w \in Seq(Int) /\ Len(w) = Len(s) + Len(t) + Len(u)
  /\ \A k \in 1..Len(s) : w[k] = s[k]
  /\ \A k \in 1..Len(t) : w[Len(s) + k] = t[k]
  /\ \A k \in 1..Len(u) : w[Len(s) + Len(t) + k] = u[k]

LEMMA Concat3 ==
  ASSUME NEW s \in Seq(Int), NEW t \in Seq(Int), NEW u \in Seq(Int)
  PROVE  ThreePieces(s \o t \o u, s, t, u)
<1> PICK v : v = s \o t
  OBVIOUS
<1>1. /\ v \in Seq(Int) /\ Len(v) = Len(s) + Len(t)
      /\ \A k \in 1..Len(s) : v[k] = s[k]
      /\ \A k \in 1..Len(t) : v[Len(s) + k] = t[k]
  BY Concat
<1>2. /\ v \o u \in Seq(Int) /\ Len(v \o u) = Len(v) + Len(u)
      /\ \A k \in 1..Len(v) : (v \o u)[k] = v[k]
      /\ \A k \in 1..Len(u) : (v \o u)[Len(v) + k] = u[k]
  BY <1>1, Concat
<1>3. Len(s) \in Nat /\ Len(t) \in Nat /\ Len(u) \in Nat
  OBVIOUS
<1> PICK w : w = v \o u
  OBVIOUS
<1>4. \A k \in 1..Len(s) : w[k] = s[k]
  <2> SUFFICES ASSUME NEW k \in 1..Len(s) PROVE w[k] = s[k]
    OBVIOUS
  <2>1. k \in 1..Len(v)
    BY <1>1, <1>3
  <2> QED
    BY <1>1, <1>2, <2>1
<1>5. \A k \in 1..Len(t) : w[Len(s) + k] = t[k]
  <2> SUFFICES ASSUME NEW k \in 1..Len(t) PROVE w[Len(s) + k] = t[k]
    OBVIOUS
  <2>1. Len(s) + k \in 1..Len(v)
    BY <1>1, <1>3
  <2> QED
    BY <1>1, <1>2, <2>1
<1>6. \A k \in 1..Len(u) : w[Len(s) + Len(t) + k] = u[k]
  BY <1>1, <1>2
<1>7. w \in Seq(Int) /\ Len(w) = Len(s) + Len(t) + Len(u)
  BY <1>1, <1>2
<1>8. ThreePieces(w, s, t, u)
  BY <1>4, <1>5, <1>6, <1>7 DEF ThreePieces
<1> QED
  BY <1>8

(****************************************************************************)
(* Numbers cut into runs                                                    *)
(****************************************************************************)

(* Where the i-th run of s numbers ends, of n numbers in all.               *)
Cut(i, s, n) == IF i * s <= n THEN i * s ELSE n
(* How many of them the i-th run has.                                       *)
Part(i, s, n) == Cut(i, s, n) - Cut(i - 1, s, n)

LEMMA CutIs ==
  ASSUME NEW i \in Nat, NEW s \in Nat, NEW n \in Nat
  PROVE  /\ i * s \in Nat /\ Cut(i, s, n) \in Nat
         /\ Cut(i, s, n) <= n /\ Cut(i, s, n) <= i * s
         /\ Cut(i, s, n) = i * s \/ Cut(i, s, n) = n
<1>1. i * s \in Nat
  OBVIOUS
<1> QED
  BY <1>1 DEF Cut

LEMMA CutGrows ==
  ASSUME NEW i \in Nat, NEW j \in Nat, NEW s \in Nat, NEW n \in Nat, i <= j
  PROVE  /\ Cut(i, s, n) <= Cut(j, s, n) /\ i * s <= j * s
         /\ i * s - Cut(i, s, n) <= j * s - Cut(j, s, n)
<1>1. i * s \in Nat /\ j * s \in Nat
  OBVIOUS
<1>2. i * s <= j * s
  <2>1. CASE i = j
    BY <1>1, <2>1
  <2>2. CASE i < j
    BY <1>1, <2>2, Grows
  <2> QED
    BY <2>1, <2>2
<1> QED
  BY <1>1, <1>2 DEF Cut

LEMMA CutFirst ==
  ASSUME NEW s \in Nat, NEW n \in Nat
  PROVE  Cut(0, s, n) = 0
<1>1. 0 * s = 0
  OBVIOUS
<1> QED
  BY <1>1 DEF Cut

LEMMA CutLast ==
  ASSUME NEW i \in Nat, NEW s \in Nat, NEW n \in Nat, n <= i * s
  PROVE  Cut(i, s, n) = n
<1>1. i * s \in Nat
  OBVIOUS
<1> QED
  BY <1>1 DEF Cut

LEMMA PartIs ==
  ASSUME NEW i \in Nat \ {0}, NEW s \in Nat, NEW n \in Nat
  PROVE  /\ i - 1 \in Nat /\ Part(i, s, n) \in 0..s
         /\ Cut(i, s, n) = Cut(i - 1, s, n) + Part(i, s, n)
         /\ i * s = (i - 1) * s + s
         /\ Part(i, s, n) > 0 => Cut(i - 1, s, n) = (i - 1) * s
<1> PICK j \in Nat : j = i - 1
  OBVIOUS
<1>1. i * s = j * s + s
  <2>1. i = j + 1
    OBVIOUS
  <2> QED
    BY <2>1
<1>2. j * s \in Nat /\ i * s \in Nat
  OBVIOUS
<1>3. /\ Cut(j, s, n) \in Nat /\ Cut(i, s, n) \in Nat
      /\ Cut(i, s, n) - Cut(j, s, n) \in 0..s
      /\ Cut(i, s, n) - Cut(j, s, n) > 0 => Cut(j, s, n) = j * s
  BY <1>1, <1>2 DEF Cut
<1> QED
  BY <1>1, <1>3 DEF Part

PartOf(i, s, n) == Part(i, s, n) \in 0..s /\ Cut(i, s, n) = Cut(i - 1, s, n) + Part(i, s, n)

LEMMA PartsAre ==
  ASSUME NEW i \in Nat \ {0}, NEW s \in Nat, NEW n \in Nat
  PROVE  PartOf(i, s, n)
BY PartIs DEF PartOf

(* A number lies in one of the runs, and in one only.                       *)
InRun(i, t, s, n) == Cut(i - 1, s, n) <= t /\ t < Cut(i, s, n)

LEMMA RunOf ==
  ASSUME NEW T \in Nat \ {0}, NEW s \in Nat, NEW n \in Nat, n <= T * s, NEW t \in 0..(n - 1)
  PROVE  \E i \in 1..T : InRun(i, t, s, n)
<1> DEFINE S == {i \in 1..T : t < Cut(i, s, n)}
<1>1. S \in SUBSET Nat /\ T \in S
  <2>1. Cut(T, s, n) = n
    BY CutLast
  <2> QED
    BY <2>1
<1>2. PICK i \in S : \A m \in S : i <= m
  <2> HIDE DEF S
  <2> QED
    BY <1>1, Lowest
<1>3. i \in 1..T /\ t < Cut(i, s, n)
  BY <1>2
<1>4. CASE i = 1
  <2>1. Cut(i - 1, s, n) = 0
    BY <1>4, CutFirst
  <2> QED
    BY <1>3, <2>1 DEF InRun
<1>5. CASE i # 1
  <2>1. i - 1 \in 1..T /\ i - 1 \notin S
    BY <1>2, <1>3, <1>5
  <2>2. ~(t < Cut(i - 1, s, n))
    BY <2>1
  <2>3. Cut(i - 1, s, n) \in Nat
    BY <2>1, CutIs
  <2>4. Cut(i - 1, s, n) <= t
    BY <2>2, <2>3
  <2> QED
    BY <1>3, <2>4 DEF InRun
<1> QED
  BY <1>4, <1>5

LEMMA OneRun ==
  ASSUME NEW s \in Nat, NEW n \in Nat, NEW t \in Int, NEW i \in Nat \ {0}, NEW j \in Nat \ {0},
         InRun(i, t, s, n), InRun(j, t, s, n)
  PROVE  i = j
<1>1. ASSUME NEW p \in Nat \ {0}, NEW q \in Nat \ {0}, p < q, InRun(p, t, s, n), InRun(q, t, s, n)
      PROVE  FALSE
  <2>1. q - 1 \in Nat /\ p <= q - 1
    BY <1>1
  <2>2. Cut(p, s, n) <= Cut(q - 1, s, n) /\ Cut(p, s, n) \in Nat /\ Cut(q - 1, s, n) \in Nat
    BY <2>1, CutGrows, CutIs
  <2>3. t < Cut(p, s, n) /\ Cut(q - 1, s, n) <= t
    BY <1>1 DEF InRun
  <2> QED
    BY <2>2, <2>3
<1>2. ~(i < j) /\ ~(j < i)
  BY <1>1
<1> QED
  BY <1>2

(****************************************************************************)
(* The slots of the ranks                                                   *)
(****************************************************************************)

(* The x-th of the p slots of a rank.                                       *)
Slot(r, x, p) == p * r + x

LEMMA SlotIs ==
  ASSUME NEW T \in Nat, NEW p \in Nat, NEW r \in 0..(T - 1), NEW x \in 0..(p - 1)
  PROVE  /\ Slot(r, x, p) \in 0..(T * p - 1)
         /\ Slot(r, x, p) \div p = r /\ Slot(r, x, p) % p = x
<1>1. p \in Nat \ {0} /\ r \in Int /\ T \in Int /\ r < T
  OBVIOUS
<1>2. p * r = r * p /\ r * p \in Nat /\ T * p \in Nat
  OBVIOUS
<1>3. (r * p + x) \div p = r /\ (r * p + x) % p = x
  BY <1>1, DivMod
<1>4. r * p + p <= T * p
  BY <1>1, Grows
<1>5. r * p + x \in 0..(T * p - 1)
  BY <1>1, <1>2, <1>4
<1> QED
  BY <1>2, <1>3, <1>5 DEF Slot

HasSlot(v, T, p) == \E r \in 0..(T - 1) : \E x \in 0..(p - 1) : v = Slot(r, x, p)

LEMMA SlotOf ==
  ASSUME NEW T \in Nat, NEW p \in Nat, NEW v \in 0..(T * p - 1)
  PROVE  HasSlot(v, T, p)
<1>1. T * p \in Nat /\ T * p # 0
  OBVIOUS
<1>2. p # 0
  <2> SUFFICES ASSUME p = 0 PROVE FALSE
    OBVIOUS
  <2>1. T * p = 0
    OBVIOUS
  <2> QED
    BY <1>1, <2>1
<1> PICK r, x : r = v \div p /\ x = v % p
  OBVIOUS
<1>3. r \in Int /\ x \in 0..(p - 1) /\ v = r * p + x /\ v \in Int
  BY <1>2, Divided
<1>4. r < T
  <2> SUFFICES ASSUME T <= r PROVE FALSE
    BY <1>3
  <2>1. T * p <= r * p
    <3>1. CASE T = r
      BY <1>1, <3>1
    <3>2. CASE T < r
      <4>1. T * p + p <= r * p /\ r * p \in Int
        BY <1>3, <3>2, Grows
      <4> QED
        BY <1>1, <4>1
    <3> QED
      BY <1>3, <3>1, <3>2
  <2>2. r * p \in Int /\ v < T * p
    BY <1>1, <1>3
  <2> QED
    BY <1>1, <1>3, <2>1, <2>2
<1>5. 0 <= r
  <2> SUFFICES ASSUME r < 0 PROVE FALSE
    BY <1>3
  <2>1. r * p + p <= 0 * p
    BY <1>3, Grows
  <2>2. r * p \in Int /\ 0 * p = 0
    BY <1>3
  <2> QED
    BY <1>3, <2>1, <2>2
<1>6. v = Slot(r, x, p)
  <2>1. p * r = r * p
    BY <1>3
  <2> QED
    BY <1>3, <2>1 DEF Slot
<1> QED
  BY <1>3, <1>4, <1>5, <1>6 DEF HasSlot

(****************************************************************************)
(* The mapping                                                              *)
(****************************************************************************)

(* n numbers from the first one on.                                         *)
Run(first, n) == [k \in 1..n |-> first + k - 1]

LEMMA RunIs ==
  ASSUME NEW first \in Int, NEW n \in Nat
  PROVE  /\ Run(first, n) \in Seq(Int) /\ Len(Run(first, n)) = n
         /\ \A k \in 1..n : Run(first, n)[k] = first + k - 1
BY DEF Run

(* The sizes of a layout: n numbers of T runs of o, m of T runs of a.       *)
Fits(o, a, n, m, T) ==
  /\ o \in Nat /\ a \in Nat /\ n \in Nat /\ m \in Nat /\ T \in Nat \ {0}
  /\ n <= T * o /\ m <= T * a

OrgRun(i, o, a, n) == Run(Slot(i - 1, 0, o + a), Part(i, o, n))
AddedRun(i, o, a, m) == Run(Slot(i - 1, o, o + a), Part(i, a, m))
PadRun(i, o, a, n, m) ==
  Run(Slot(i - 1, Part(i, o, n), o + a), o - Part(i, o, n))
    \o Run(Slot(i - 1, o + Part(i, a, m), o + a), a - Part(i, a, m))

OrgRuns(o, a, n, T) == [i \in 1..T |-> OrgRun(i, o, a, n)]
AddedRuns(o, a, m, T) == [i \in 1..T |-> AddedRun(i, o, a, m)]
PadRuns(o, a, n, m, T) == [i \in 1..T |-> PadRun(i, o, a, n, m)]

Slack(i, s, n) == i * s - Cut(i, s, n)
Cuts(s, n, T) == [i \in 0..T |-> Cut(i, s, n)]
Slacks(o, a, n, m, T) == [i \in 0..T |-> Slack(i, o, n) + Slack(i, a, m)]

LEMMA SlotInt ==
  ASSUME NEW r \in Int, NEW x \in Int, NEW p \in Int
  PROVE  Slot(r, x, p) \in Int
<1>1. p * r \in Int
  OBVIOUS
<1> QED
  BY <1>1 DEF Slot

LEMMA SlotPlus ==
  ASSUME NEW r \in Int, NEW x \in Int, NEW y \in Int, NEW p \in Int
  PROVE  Slot(r, x, p) + y = Slot(r, x + y, p)
<1>1. p * r \in Int
  OBVIOUS
<1> QED
  BY <1>1 DEF Slot

LEMMA OrgRunIs ==
  ASSUME NEW o, NEW a, NEW n, NEW m, NEW T, Fits(o, a, n, m, T), NEW i \in 1..T
  PROVE  /\ OrgRun(i, o, a, n) \in Seq(Int) /\ Len(OrgRun(i, o, a, n)) = Part(i, o, n)
         /\ \A k \in 1..Part(i, o, n) : OrgRun(i, o, a, n)[k] = Slot(i - 1, k - 1, o + a)
<1>1. o \in Nat /\ a \in Nat /\ n \in Nat /\ i \in Nat \ {0} /\ i - 1 \in Int /\ o + a \in Int
  BY DEF Fits
<1>2. Part(i, o, n) \in Nat
  BY <1>1, PartIs
<1>3. Slot(i - 1, 0, o + a) \in Int
  BY <1>1, SlotInt
<1>4. /\ OrgRun(i, o, a, n) \in Seq(Int) /\ Len(OrgRun(i, o, a, n)) = Part(i, o, n)
      /\ \A k \in 1..Part(i, o, n) : OrgRun(i, o, a, n)[k] = Slot(i - 1, 0, o + a) + k - 1
  BY <1>2, <1>3, RunIs DEF OrgRun
<1>5. ASSUME NEW k \in 1..Part(i, o, n)
      PROVE  Slot(i - 1, 0, o + a) + k - 1 = Slot(i - 1, k - 1, o + a)
  <2>1. k \in Int /\ k - 1 \in Int /\ 0 + (k - 1) = k - 1
    BY <1>2
  <2>2. Slot(i - 1, 0, o + a) + (k - 1) = Slot(i - 1, 0 + (k - 1), o + a)
    BY <1>1, <2>1, SlotPlus
  <2>3. Slot(i - 1, 0, o + a) + k - 1 = Slot(i - 1, 0, o + a) + (k - 1)
    BY <1>3, <2>1
  <2> QED
    BY <2>1, <2>2, <2>3
<1> QED
  BY <1>4, <1>5

LEMMA AddedRunIs ==
  ASSUME NEW o, NEW a, NEW n, NEW m, NEW T, Fits(o, a, n, m, T), NEW i \in 1..T
  PROVE  /\ AddedRun(i, o, a, m) \in Seq(Int) /\ Len(AddedRun(i, o, a, m)) = Part(i, a, m)
         /\ \A k \in 1..Part(i, a, m) :
              AddedRun(i, o, a, m)[k] = Slot(i - 1, o + (k - 1), o + a)
<1>1. o \in Nat /\ a \in Nat /\ m \in Nat /\ i \in Nat \ {0} /\ i - 1 \in Int /\ o + a \in Int
  BY DEF Fits
<1>2. Part(i, a, m) \in Nat
  BY <1>1, PartIs
<1>3. Slot(i - 1, o, o + a) \in Int
  BY <1>1, SlotInt
<1>4. /\ AddedRun(i, o, a, m) \in Seq(Int) /\ Len(AddedRun(i, o, a, m)) = Part(i, a, m)
      /\ \A k \in 1..Part(i, a, m) : AddedRun(i, o, a, m)[k] = Slot(i - 1, o, o + a) + k - 1
  BY <1>2, <1>3, RunIs DEF AddedRun
<1>5. ASSUME NEW k \in 1..Part(i, a, m)
      PROVE  Slot(i - 1, o, o + a) + k - 1 = Slot(i - 1, o + (k - 1), o + a)
  <2>1. k \in Int /\ k - 1 \in Int
    BY <1>2
  <2>2. Slot(i - 1, o, o + a) + (k - 1) = Slot(i - 1, o + (k - 1), o + a)
    BY <1>1, <2>1, SlotPlus
  <2>3. Slot(i - 1, o, o + a) + k - 1 = Slot(i - 1, o, o + a) + (k - 1)
    BY <1>3, <2>1
  <2> QED
    BY <2>2, <2>3
<1> QED
  BY <1>4, <1>5

(* The padding of a rank is behind its tokens and behind its added ones.    *)
IsPad(f, i, o, a, n, m) ==
  /\ o - Part(i, o, n) \in Nat /\ a - Part(i, a, m) \in Nat
  /\ f \in Seq(Int) /\ Len(f) = (o - Part(i, o, n)) + (a - Part(i, a, m))
  /\ \A k \in 1..(o - Part(i, o, n)) : f[k] = Slot(i - 1, Part(i, o, n) + (k - 1), o + a)
  /\ \A k \in 1..(a - Part(i, a, m)) :
       f[(o - Part(i, o, n)) + k] = Slot(i - 1, o + Part(i, a, m) + (k - 1), o + a)

LEMMA PadRunIs ==
  ASSUME NEW o, NEW a, NEW n, NEW m, NEW T, Fits(o, a, n, m, T), NEW i \in 1..T
  PROVE  IsPad(PadRun(i, o, a, n, m), i, o, a, n, m)
<1> PICK q, z : q = o - Part(i, o, n) /\ z = a - Part(i, a, m)
  OBVIOUS
<1>1. /\ o \in Nat /\ a \in Nat /\ m \in Nat /\ n \in Nat
      /\ i \in Nat \ {0} /\ i - 1 \in Int /\ o + a \in Int
  BY DEF Fits
<1>2. Part(i, a, m) \in 0..a /\ Part(i, o, n) \in 0..o
  BY <1>1, PartIs
<1>3. q \in Nat /\ z \in Nat
  BY <1>1, <1>2
<1> PICK x, y : x = Part(i, o, n) /\ y = o + Part(i, a, m)
  OBVIOUS
<1>4. x \in Int /\ y \in Int
  BY <1>1, <1>2
<1> PICK s, t : s = Run(Slot(i - 1, x, o + a), q) /\ t = Run(Slot(i - 1, y, o + a), z)
  OBVIOUS
<1>5. Slot(i - 1, x, o + a) \in Int /\ Slot(i - 1, y, o + a) \in Int
  BY <1>1, <1>4, SlotInt
<1>6. /\ s \in Seq(Int) /\ Len(s) = q
      /\ \A k \in 1..q : s[k] = Slot(i - 1, x, o + a) + k - 1
  BY <1>3, <1>5, RunIs
<1>7. /\ t \in Seq(Int) /\ Len(t) = z
      /\ \A k \in 1..z : t[k] = Slot(i - 1, y, o + a) + k - 1
  BY <1>3, <1>5, RunIs
<1>8. PadRun(i, o, a, n, m) = s \o t
  BY DEF PadRun
<1>9. /\ s \o t \in Seq(Int) /\ Len(s \o t) = q + z
      /\ \A k \in 1..q : (s \o t)[k] = s[k]
      /\ \A k \in 1..z : (s \o t)[q + k] = t[k]
  <2>1. /\ s \o t \in Seq(Int) /\ Len(s \o t) = Len(s) + Len(t)
        /\ \A k \in 1..Len(s) : (s \o t)[k] = s[k]
        /\ \A k \in 1..Len(t) : (s \o t)[Len(s) + k] = t[k]
    BY <1>6, <1>7, Concat
  <2>2. Len(s) = q /\ Len(t) = z
    BY <1>6, <1>7
  <2>3. Len(s \o t) = q + z
    BY <2>1, <2>2
  <2>4. \A k \in 1..q : (s \o t)[k] = s[k]
    BY <2>1, <2>2
  <2>5. \A k \in 1..z : (s \o t)[q + k] = t[k]
    BY <2>1, <2>2
  <2> QED
    BY <2>1, <2>3, <2>4, <2>5
<1>10. ASSUME NEW k \in Nat, NEW w \in Int
       PROVE  Slot(i - 1, w, o + a) + k - 1 = Slot(i - 1, w + (k - 1), o + a)
  <2>1. k \in Int /\ k - 1 \in Int /\ Slot(i - 1, w, o + a) \in Int
    BY <1>1, SlotInt
  <2>2. Slot(i - 1, w, o + a) + (k - 1) = Slot(i - 1, w + (k - 1), o + a)
    BY <1>1, <2>1, SlotPlus
  <2> QED
    BY <2>1, <2>2
<1>11. \A k \in 1..q : (s \o t)[k] = Slot(i - 1, x + (k - 1), o + a)
  <2> SUFFICES ASSUME NEW k \in 1..q PROVE (s \o t)[k] = Slot(i - 1, x + (k - 1), o + a)
    OBVIOUS
  <2>1. k \in Nat /\ Slot(i - 1, x, o + a) + k - 1 = Slot(i - 1, x + (k - 1), o + a)
    BY <1>3, <1>4, <1>10
  <2> QED
    BY <1>6, <1>9, <2>1
<1>12. \A k \in 1..z : (s \o t)[q + k] = Slot(i - 1, y + (k - 1), o + a)
  <2> SUFFICES ASSUME NEW k \in 1..z
               PROVE  (s \o t)[q + k] = Slot(i - 1, y + (k - 1), o + a)
    OBVIOUS
  <2>1. k \in Nat /\ Slot(i - 1, y, o + a) + k - 1 = Slot(i - 1, y + (k - 1), o + a)
    BY <1>3, <1>4, <1>10
  <2>2. (s \o t)[q + k] = t[k]
    BY <1>9
  <2>3. t[k] = Slot(i - 1, y, o + a) + k - 1
    BY <1>7
  <2> QED
    BY <2>1, <2>2, <2>3, Zenon
<1>13. IsPad(s \o t, i, o, a, n, m)
  BY <1>3, <1>9, <1>11, <1>12 DEF IsPad
<1> QED
  BY <1>8, <1>13, Zenon

CutsAre(e, s, n, T) ==
  /\ e \in [0..T -> Nat] /\ e[0] = 0
  /\ \A i, j \in 0..T : i <= j => e[i] <= e[j]
  /\ \A i \in 1..T : Part(i, s, n) = e[i] - e[i - 1]

LEMMA CutsFit ==
  ASSUME NEW s \in Nat, NEW n \in Nat, NEW T \in Nat \ {0}
  PROVE  CutsAre(Cuts(s, n, T), s, n, T)
<1>1. \A i \in 0..T : Cut(i, s, n) \in Nat
  BY CutIs
<1>2. \A i, j \in 0..T : i <= j => Cut(i, s, n) <= Cut(j, s, n)
  BY CutGrows
<1>3. Cut(0, s, n) = 0
  BY CutFirst
<1>4. \A i \in 1..T : i \in 0..T /\ i - 1 \in 0..T
  OBVIOUS
<1> QED
  BY <1>1, <1>2, <1>3, <1>4 DEF Cuts, Part, CutsAre

LEMMA SlacksFit ==
  ASSUME NEW o, NEW a, NEW n, NEW m, NEW T, Fits(o, a, n, m, T)
  PROVE  LET e == Slacks(o, a, n, m, T)
         IN /\ e \in [0..T -> Nat] /\ e[0] = 0
            /\ \A i, j \in 0..T : i <= j => e[i] <= e[j]
            /\ \A i \in 1..T :
                 (o - Part(i, o, n)) + (a - Part(i, a, m)) = e[i] - e[i - 1]
<1>1. o \in Nat /\ a \in Nat /\ n \in Nat /\ m \in Nat /\ T \in Nat \ {0}
  BY DEF Fits
<1>2. ASSUME NEW s \in Nat, NEW k \in Nat
      PROVE  /\ \A i \in 0..T : Slack(i, s, k) \in Nat
             /\ \A i, j \in 0..T : i <= j => Slack(i, s, k) <= Slack(j, s, k)
             /\ Slack(0, s, k) = 0
             /\ \A i \in 1..T : s - Part(i, s, k) = Slack(i, s, k) - Slack(i - 1, s, k)
  <2>1. \A i \in 0..T : Slack(i, s, k) \in Nat
    <3> SUFFICES ASSUME NEW i \in 0..T PROVE Slack(i, s, k) \in Nat
      OBVIOUS
    <3>1. i \in Nat
      OBVIOUS
    <3>2. i * s \in Nat /\ Cut(i, s, k) \in Nat /\ Cut(i, s, k) <= i * s
      BY <3>1, CutIs
    <3> QED
      BY <3>2 DEF Slack
  <2>2. \A i, j \in 0..T : i <= j => Slack(i, s, k) <= Slack(j, s, k)
    BY <1>2, CutGrows DEF Slack
  <2>3. Slack(0, s, k) = 0
    <3>1. 0 * s = 0 /\ Cut(0, s, k) = 0
      BY <1>2, CutFirst
    <3> QED
      BY <3>1 DEF Slack
  <2>4. ASSUME NEW i \in 1..T
        PROVE  s - Part(i, s, k) = Slack(i, s, k) - Slack(i - 1, s, k)
    <3>1. /\ Cut(i, s, k) = Cut(i - 1, s, k) + Part(i, s, k) /\ i * s = (i - 1) * s + s
          /\ i - 1 \in Nat /\ i \in Nat /\ Part(i, s, k) \in 0..s
      <4>1. i \in Nat \ {0}
        OBVIOUS
      <4> QED
        BY <4>1, PartIs
    <3>2. (i - 1) * s \in Nat /\ Cut(i - 1, s, k) \in Nat
      BY <3>1, CutIs
    <3> QED
      BY <3>1, <3>2 DEF Slack
  <2> QED
    BY <2>1, <2>2, <2>3, <2>4
<1> DEFINE e == Slacks(o, a, n, m, T)
<1>3. \A i \in 0..T : e[i] = Slack(i, o, n) + Slack(i, a, m)
  BY DEF Slacks
<1>4. e = [i \in 0..T |-> e[i]]
  BY DEF Slacks
<1> HIDE DEF e
<1>5. /\ \A i \in 0..T : Slack(i, o, n) \in Nat /\ Slack(i, a, m) \in Nat
      /\ Slack(0, o, n) = 0 /\ Slack(0, a, m) = 0
      /\ \A i, j \in 0..T : i <= j =>
           Slack(i, o, n) <= Slack(j, o, n) /\ Slack(i, a, m) <= Slack(j, a, m)
      /\ \A i \in 1..T : /\ o - Part(i, o, n) = Slack(i, o, n) - Slack(i - 1, o, n)
                         /\ a - Part(i, a, m) = Slack(i, a, m) - Slack(i - 1, a, m)
  BY <1>1, <1>2
<1>6. \A i \in 0..T : e[i] \in Nat
  BY <1>3, <1>5
<1>7. e[0] = 0 /\ e \in [0..T -> Nat]
  <2>1. 0 \in 0..T
    BY <1>1
  <2> QED
    BY <1>3, <1>4, <1>5, <1>6, <2>1
<1>8. \A i, j \in 0..T : i <= j => e[i] <= e[j]
  <2> SUFFICES ASSUME NEW i \in 0..T, NEW j \in 0..T, i <= j PROVE e[i] <= e[j]
    OBVIOUS
  <2>1. /\ Slack(i, o, n) \in Nat /\ Slack(i, a, m) \in Nat
        /\ Slack(j, o, n) \in Nat /\ Slack(j, a, m) \in Nat
        /\ Slack(i, o, n) <= Slack(j, o, n) /\ Slack(i, a, m) <= Slack(j, a, m)
    BY <1>5
  <2> QED
    BY <1>3, <2>1
<1>9. ASSUME NEW i \in 1..T
      PROVE  (o - Part(i, o, n)) + (a - Part(i, a, m)) = e[i] - e[i - 1]
  <2>1. i \in 0..T /\ i - 1 \in 0..T
    BY <1>1
  <2>2. /\ Slack(i, o, n) \in Nat /\ Slack(i, a, m) \in Nat
        /\ Slack(i - 1, o, n) \in Nat /\ Slack(i - 1, a, m) \in Nat
        /\ o - Part(i, o, n) = Slack(i, o, n) - Slack(i - 1, o, n)
        /\ a - Part(i, a, m) = Slack(i, a, m) - Slack(i - 1, a, m)
    BY <1>5, <2>1
  <2>3. e[i] = Slack(i, o, n) + Slack(i, a, m) /\ e[i - 1] = Slack(i - 1, o, n) + Slack(i - 1, a, m)
    BY <1>3, <2>1
  <2> QED
    BY <2>2, <2>3
<1> QED
  BY <1>7, <1>8, <1>9 DEF e

LEMMA RunsFit ==
  ASSUME NEW o, NEW a, NEW n, NEW m, NEW T, Fits(o, a, n, m, T)
  PROVE  /\ Pieces(OrgRuns(o, a, n, T), Cuts(o, n, T), T)
         /\ Pieces(AddedRuns(o, a, m, T), Cuts(a, m, T), T)
         /\ Pieces(PadRuns(o, a, n, m, T), Slacks(o, a, n, m, T), T)
<1>1. o \in Nat /\ a \in Nat /\ n \in Nat /\ m \in Nat /\ T \in Nat \ {0}
  BY DEF Fits
<1>2. Pieces(OrgRuns(o, a, n, T), Cuts(o, n, T), T)
  <2> PICK e, p : e = Cuts(o, n, T) /\ p = OrgRuns(o, a, n, T)
    OBVIOUS
  <2>1. /\ e \in [0..T -> Nat] /\ e[0] = 0 /\ \A i, j \in 0..T : i <= j => e[i] <= e[j]
        /\ \A i \in 1..T : Part(i, o, n) = e[i] - e[i - 1]
    <3>1. CutsAre(Cuts(o, n, T), o, n, T)
      BY <1>1, CutsFit, Zenon
    <3>2. CutsAre(e, o, n, T)
      BY <3>1, Zenon
    <3> QED
      BY <3>2 DEF CutsAre
  <2>2. p = [i \in 1..T |-> p[i]] /\ \A i \in 1..T : p[i] = OrgRun(i, o, a, n)
    BY DEF OrgRuns
  <2>3. \A i \in 1..T : p[i] \in Seq(Int) /\ Len(p[i]) = Part(i, o, n)
    BY <2>2, OrgRunIs
  <2>4. Pieces(p, e, T)
    BY <1>1, <2>1, <2>2, <2>3 DEF Pieces
  <2> QED
    BY <2>4
<1>3. Pieces(AddedRuns(o, a, m, T), Cuts(a, m, T), T)
  <2> PICK e, p : e = Cuts(a, m, T) /\ p = AddedRuns(o, a, m, T)
    OBVIOUS
  <2>1. /\ e \in [0..T -> Nat] /\ e[0] = 0 /\ \A i, j \in 0..T : i <= j => e[i] <= e[j]
        /\ \A i \in 1..T : Part(i, a, m) = e[i] - e[i - 1]
    <3>1. CutsAre(Cuts(a, m, T), a, m, T)
      BY <1>1, CutsFit, Zenon
    <3>2. CutsAre(e, a, m, T)
      BY <3>1, Zenon
    <3> QED
      BY <3>2 DEF CutsAre
  <2>2. p = [i \in 1..T |-> p[i]] /\ \A i \in 1..T : p[i] = AddedRun(i, o, a, m)
    BY DEF AddedRuns
  <2>3. \A i \in 1..T : p[i] \in Seq(Int) /\ Len(p[i]) = Part(i, a, m)
    BY <2>2, AddedRunIs
  <2>4. Pieces(p, e, T)
    BY <1>1, <2>1, <2>2, <2>3 DEF Pieces
  <2> QED
    BY <2>4
<1>4. Pieces(PadRuns(o, a, n, m, T), Slacks(o, a, n, m, T), T)
  <2> PICK e, p : e = Slacks(o, a, n, m, T) /\ p = PadRuns(o, a, n, m, T)
    OBVIOUS
  <2>1. /\ e \in [0..T -> Nat] /\ e[0] = 0 /\ \A i, j \in 0..T : i <= j => e[i] <= e[j]
        /\ \A i \in 1..T : (o - Part(i, o, n)) + (a - Part(i, a, m)) = e[i] - e[i - 1]
    BY SlacksFit
  <2>2. p = [i \in 1..T |-> p[i]] /\ \A i \in 1..T : p[i] = PadRun(i, o, a, n, m)
    BY DEF PadRuns
  <2>3. \A i \in 1..T : /\ p[i] \in Seq(Int)
                        /\ Len(p[i]) = (o - Part(i, o, n)) + (a - Part(i, a, m))
    <3> SUFFICES ASSUME NEW i \in 1..T
                 PROVE  /\ p[i] \in Seq(Int)
                        /\ Len(p[i]) = (o - Part(i, o, n)) + (a - Part(i, a, m))
      OBVIOUS
    <3>1. IsPad(PadRun(i, o, a, n, m), i, o, a, n, m)
      BY PadRunIs, Zenon
    <3>2. p[i] = PadRun(i, o, a, n, m)
      BY <2>2
    <3>3. IsPad(p[i], i, o, a, n, m)
      BY <3>1, <3>2, Zenon
    <3> QED
      BY <3>3 DEF IsPad
  <2>4. Pieces(p, e, T)
    BY <1>1, <2>1, <2>2, <2>3 DEF Pieces
  <2> QED
    BY <2>4
<1> QED
  BY <1>2, <1>3, <1>4

(* A number of a run comes to lie where it was in all of them.              *)
LEMMA InRunIs ==
  ASSUME NEW s \in Nat, NEW n \in Nat, NEW i \in Nat \ {0}, NEW t \in Int, InRun(i, t, s, n)
  PROVE  /\ t \in 0..(n - 1) /\ i - 1 \in Nat
         /\ Cut(i - 1, s, n) \in Nat
         /\ t - Cut(i - 1, s, n) \in 0..(Part(i, s, n) - 1)
         /\ Part(i, s, n) \in 0..s
<1>1. i - 1 \in Nat /\ i \in Nat
  OBVIOUS
<1>2. /\ Cut(i, s, n) \in Nat /\ Cut(i - 1, s, n) \in Nat /\ Cut(i, s, n) <= n
  BY <1>1, CutIs
<1>3. Part(i, s, n) \in 0..s /\ Cut(i, s, n) = Cut(i - 1, s, n) + Part(i, s, n)
  BY PartIs
<1>4. Cut(i - 1, s, n) <= t /\ t < Cut(i, s, n)
  BY DEF InRun
<1> QED
  BY <1>1, <1>2, <1>3, <1>4

LEMMA OrgFlat ==
  ASSUME NEW o, NEW a, NEW n, NEW m, NEW T, Fits(o, a, n, m, T)
  PROVE  LET f == SH!FlattenSeq(OrgRuns(o, a, n, T))
         IN /\ f \in Seq(Int) /\ Len(f) = n
            /\ \A i \in 1..T : \A t \in Int : InRun(i, t, o, n) =>
                 f[t + 1] = Slot(i - 1, t - Cut(i - 1, o, n), o + a)
<1>1. o \in Nat /\ a \in Nat /\ n \in Nat /\ m \in Nat /\ T \in Nat \ {0} /\ n <= T * o
  BY DEF Fits
<1> PICK f : f = SH!FlattenSeq(OrgRuns(o, a, n, T))
  OBVIOUS
<1> PICK e, p : e = Cuts(o, n, T) /\ p = OrgRuns(o, a, n, T)
  OBVIOUS
<1>2. Pieces(p, e, T)
  BY RunsFit
<1>3. /\ f \in Seq(Int) /\ Len(f) = e[T]
      /\ \A i \in 1..T : \A k \in 1..Len(p[i]) : f[e[i - 1] + k] = p[i][k]
  <2>1. f = SH!FlattenSeq(p)
    OBVIOUS
  <2>2. IsFlat(SH!FlattenSeq(p), p, e, T)
    BY <1>2, Flattened, Zenon
  <2>3. IsFlat(f, p, e, T)
    BY <2>1, <2>2, Zenon
  <2> QED
    BY <2>3 DEF IsFlat
<1>4. \A i \in 0..T : e[i] = Cut(i, o, n)
  BY DEF Cuts
<1>5. e[T] = n
  <2>1. T \in 0..T /\ Cut(T, o, n) = n
    BY <1>1, CutLast
  <2> QED
    BY <1>4, <2>1
<1>6. ASSUME NEW i \in 1..T, NEW t \in Int, InRun(i, t, o, n)
      PROVE  f[t + 1] = Slot(i - 1, t - Cut(i - 1, o, n), o + a)
  <2>1. i \in Nat \ {0}
    OBVIOUS
  <2>2. /\ i - 1 \in Nat /\ Cut(i - 1, o, n) \in Nat
        /\ t - Cut(i - 1, o, n) \in 0..(Part(i, o, n) - 1) /\ Part(i, o, n) \in 0..o
    BY <1>1, <1>6, <2>1, InRunIs
  <2> PICK k : k = t - Cut(i - 1, o, n) + 1
    OBVIOUS
  <2>3. k \in 1..Part(i, o, n) /\ k - 1 = t - Cut(i - 1, o, n)
    BY <2>2
  <2>4. p[i] = OrgRun(i, o, a, n)
    BY DEF OrgRuns
  <2>5. Len(p[i]) = Part(i, o, n) /\ p[i][k] = Slot(i - 1, k - 1, o + a)
    BY <2>3, <2>4, OrgRunIs
  <2>6. f[e[i - 1] + k] = p[i][k]
    BY <1>3, <2>3, <2>5
  <2>7. e[i - 1] = Cut(i - 1, o, n)
    <3>1. i - 1 \in 0..T
      BY <1>1
    <3> QED
      BY <1>4, <3>1
  <2>8. e[i - 1] + k = t + 1
    BY <2>2, <2>7
  <2> QED
    BY <2>3, <2>5, <2>6, <2>8
<1> QED
  BY <1>3, <1>5, <1>6

LEMMA AddedFlat ==
  ASSUME NEW o, NEW a, NEW n, NEW m, NEW T, Fits(o, a, n, m, T)
  PROVE  LET f == SH!FlattenSeq(AddedRuns(o, a, m, T))
         IN /\ f \in Seq(Int) /\ Len(f) = m
            /\ \A i \in 1..T : \A t \in Int : InRun(i, t, a, m) =>
                 f[t + 1] = Slot(i - 1, o + (t - Cut(i - 1, a, m)), o + a)
<1>1. o \in Nat /\ a \in Nat /\ n \in Nat /\ m \in Nat /\ T \in Nat \ {0} /\ m <= T * a
  BY DEF Fits
<1> PICK f : f = SH!FlattenSeq(AddedRuns(o, a, m, T))
  OBVIOUS
<1> PICK e, p : e = Cuts(a, m, T) /\ p = AddedRuns(o, a, m, T)
  OBVIOUS
<1>2. Pieces(p, e, T)
  BY RunsFit
<1>3. /\ f \in Seq(Int) /\ Len(f) = e[T]
      /\ \A i \in 1..T : \A k \in 1..Len(p[i]) : f[e[i - 1] + k] = p[i][k]
  <2>1. f = SH!FlattenSeq(p)
    OBVIOUS
  <2>2. IsFlat(SH!FlattenSeq(p), p, e, T)
    BY <1>2, Flattened, Zenon
  <2>3. IsFlat(f, p, e, T)
    BY <2>1, <2>2, Zenon
  <2> QED
    BY <2>3 DEF IsFlat
<1>4. \A i \in 0..T : e[i] = Cut(i, a, m)
  BY DEF Cuts
<1>5. e[T] = m
  <2>1. T \in 0..T /\ Cut(T, a, m) = m
    BY <1>1, CutLast
  <2> QED
    BY <1>4, <2>1
<1>6. ASSUME NEW i \in 1..T, NEW t \in Int, InRun(i, t, a, m)
      PROVE  f[t + 1] = Slot(i - 1, o + (t - Cut(i - 1, a, m)), o + a)
  <2>1. i \in Nat \ {0}
    OBVIOUS
  <2>2. /\ i - 1 \in Nat /\ Cut(i - 1, a, m) \in Nat
        /\ t - Cut(i - 1, a, m) \in 0..(Part(i, a, m) - 1) /\ Part(i, a, m) \in 0..a
    BY <1>1, <1>6, <2>1, InRunIs
  <2> PICK k : k = t - Cut(i - 1, a, m) + 1
    OBVIOUS
  <2>3. k \in 1..Part(i, a, m) /\ k - 1 = t - Cut(i - 1, a, m)
    BY <2>2
  <2>4. p[i] = AddedRun(i, o, a, m)
    BY DEF AddedRuns
  <2>5. Len(p[i]) = Part(i, a, m) /\ p[i][k] = Slot(i - 1, o + (k - 1), o + a)
    BY <2>3, <2>4, AddedRunIs
  <2>6. f[e[i - 1] + k] = p[i][k]
    BY <1>3, <2>3, <2>5
  <2>7. e[i - 1] = Cut(i - 1, a, m)
    <3>1. i - 1 \in 0..T
      BY <1>1
    <3> QED
      BY <1>4, <3>1
  <2>8. e[i - 1] + k = t + 1
    BY <2>2, <2>7
  <2> QED
    BY <2>3, <2>5, <2>6, <2>8
<1> QED
  BY <1>3, <1>5, <1>6

(* The slots of a rank that nothing was loaded into.                        *)
Unused(i, x, o, a, n, m) ==
  \/ x \in Part(i, o, n)..(o - 1)
  \/ x \in (o + Part(i, a, m))..(o + a - 1)

(* Counting through the padding behind q tokens of o and z of a.            *)
LEMMA FirstPads ==
  ASSUME NEW o \in Nat, NEW a \in Nat, NEW q \in 0..o, NEW j \in 1..(o - q),
         NEW x, x = q + (j - 1)
  PROVE  x \in q..(o - 1) /\ x \in 0..(o + a - 1)
OBVIOUS

LEMMA BehindFirst ==
  ASSUME NEW o \in Nat, NEW a \in Nat, NEW q \in 0..o, NEW z \in 0..a,
         NEW j \in 1..((o - q) + (a - z)), ~(j \in 1..(o - q)), NEW k, k = j - (o - q)
  PROVE  k \in 1..(a - z) /\ (o - q) + k = j
OBVIOUS

LEMMA SecondPads ==
  ASSUME NEW o \in Nat, NEW a \in Nat, NEW z \in 0..a, NEW k \in 1..(a - z),
         NEW x, x = o + z + (k - 1)
  PROVE  x \in (o + z)..(o + a - 1) /\ x \in 0..(o + a - 1)
OBVIOUS

LEMMA FirstPlace ==
  ASSUME NEW o \in Nat, NEW a \in Nat, NEW q \in 0..o, NEW z \in 0..a,
         NEW x \in q..(o - 1), NEW j, j = x - q + 1
  PROVE  j \in 1..(o - q) /\ q + (j - 1) = x /\ j \in 1..((o - q) + (a - z))
OBVIOUS

LEMMA SecondPlace ==
  ASSUME NEW o \in Nat, NEW a \in Nat, NEW q \in 0..o, NEW z \in 0..a,
         NEW x \in (o + z)..(o + a - 1), NEW k, k = x - (o + z) + 1
  PROVE  k \in 1..(a - z) /\ o + z + (k - 1) = x /\ (o - q) + k \in 1..((o - q) + (a - z))
OBVIOUS

PadCovered(g, i, o, a, n, m) ==
  /\ \A j \in 1..Len(g) : \E x \in 0..(o + a - 1) :
       Unused(i, x, o, a, n, m) /\ g[j] = Slot(i - 1, x, o + a)
  /\ \A x \in Int : Unused(i, x, o, a, n, m) =>
       \E j \in 1..Len(g) : g[j] = Slot(i - 1, x, o + a)

LEMMA PadCovers ==
  ASSUME NEW o \in Nat, NEW a \in Nat, NEW n, NEW m, NEW i, NEW g,
         Part(i, o, n) \in 0..o, Part(i, a, m) \in 0..a, IsPad(g, i, o, a, n, m)
  PROVE  PadCovered(g, i, o, a, n, m)
<1>0. PICK q, z : q = Part(i, o, n) /\ z = Part(i, a, m)
  OBVIOUS
<1>1. o \in Nat /\ a \in Nat
  OBVIOUS
<1>2. /\ \A k \in 1..(o - q) : g[k] = Slot(i - 1, q + (k - 1), o + a)
      /\ \A k \in 1..(a - z) : g[(o - q) + k] = Slot(i - 1, o + z + (k - 1), o + a)
  BY <1>0 DEF IsPad
<1>3. q \in 0..o /\ z \in 0..a /\ Len(g) = (o - q) + (a - z)
  BY <1>0 DEF IsPad
<1>6. \A x : Unused(i, x, o, a, n, m) <=> x \in q..(o - 1) \/ x \in (o + z)..(o + a - 1)
  BY <1>0 DEF Unused
<1>4. ASSUME NEW j \in 1..Len(g)
      PROVE  \E x \in 0..(o + a - 1) :
               Unused(i, x, o, a, n, m) /\ g[j] = Slot(i - 1, x, o + a)
  <2>2. CASE j \in 1..(o - q)
    <3> PICK x : x = q + (j - 1)
      OBVIOUS
    <3>1. g[j] = Slot(i - 1, x, o + a)
      BY <1>2, <2>2
    <3>2. x \in q..(o - 1) /\ x \in 0..(o + a - 1)
      BY <1>1, <1>3, <2>2, Zenon, FirstPads
    <3> QED
      BY <3>1, <3>2, <1>6
  <2>3. CASE ~(j \in 1..(o - q))
    <3> PICK k : k = j - (o - q)
      OBVIOUS
    <3>0. j \in 1..((o - q) + (a - z))
      BY <1>3
    <3>1. k \in 1..(a - z) /\ (o - q) + k = j
      BY <1>1, <1>3, <2>3, <3>0
    <3> PICK x : x = o + z + (k - 1)
      OBVIOUS
    <3>2. g[(o - q) + k] = Slot(i - 1, x, o + a)
      BY <1>2, <3>1
    <3>3. x \in (o + z)..(o + a - 1) /\ x \in 0..(o + a - 1)
      BY <1>1, <1>3, <3>1, Zenon, SecondPads
    <3> QED
      BY <3>1, <3>2, <3>3, <1>6
  <2> QED
    BY <2>2, <2>3
<1>5. ASSUME NEW x \in Int, Unused(i, x, o, a, n, m)
      PROVE  \E j \in 1..Len(g) : g[j] = Slot(i - 1, x, o + a)
  <2>1. CASE x \in q..(o - 1)
    <3> PICK j : j = x - q + 1
      OBVIOUS
    <3>0. j \in 1..(o - q) /\ q + (j - 1) = x /\ j \in 1..((o - q) + (a - z))
      BY <1>1, <1>3, <2>1
    <3>1. j \in 1..(o - q) /\ q + (j - 1) = x /\ j \in 1..Len(g)
      BY <1>3, <3>0, Zenon
    <3>2. g[j] = Slot(i - 1, q + (j - 1), o + a)
      BY <1>2, <3>1
    <3> QED
      BY <3>1, <3>2
  <2>2. CASE x \in (o + z)..(o + a - 1)
    <3> PICK k : k = x - (o + z) + 1
      OBVIOUS
    <3>0. /\ k \in 1..(a - z) /\ o + z + (k - 1) = x
          /\ (o - q) + k \in 1..((o - q) + (a - z))
      BY <1>1, <1>3, <2>2
    <3>1. k \in 1..(a - z) /\ o + z + (k - 1) = x /\ (o - q) + k \in 1..Len(g)
      BY <1>3, <3>0, Zenon
    <3>2. g[(o - q) + k] = Slot(i - 1, o + z + (k - 1), o + a)
      BY <1>2, <3>1
    <3> QED
      BY <3>1, <3>2
  <2> QED
    BY <1>5, <2>1, <2>2, <1>6
<1> QED
  BY <1>4, <1>5 DEF PadCovered

FlatPads(f, o, a, n, m, T) ==
  /\ f \in Seq(Int) /\ Len(f) = (T * o - n) + (T * a - m)
  /\ \A k \in 1..Len(f) : \E i \in 1..T : \E x \in 0..(o + a - 1) :
       Unused(i, x, o, a, n, m) /\ f[k] = Slot(i - 1, x, o + a)
  /\ \A i \in 1..T : \A x \in Int : Unused(i, x, o, a, n, m) =>
       \E k \in 1..Len(f) : f[k] = Slot(i - 1, x, o + a)

LEMMA PadFlat ==
  ASSUME NEW o, NEW a, NEW n, NEW m, NEW T, Fits(o, a, n, m, T)
  PROVE  FlatPads(SH!FlattenSeq(PadRuns(o, a, n, m, T)), o, a, n, m, T)
<1>1. o \in Nat /\ a \in Nat /\ n \in Nat /\ m \in Nat /\ T \in Nat \ {0} /\ n <= T * o /\ m <= T * a
  BY DEF Fits
<1>0. o \in Nat /\ a \in Nat /\ T \in Nat \ {0}
  BY <1>1
<1> PICK f : f = SH!FlattenSeq(PadRuns(o, a, n, m, T))
  OBVIOUS
<1> PICK e, p : e = Slacks(o, a, n, m, T) /\ p = PadRuns(o, a, n, m, T)
  OBVIOUS
<1>2. Pieces(p, e, T)
  BY RunsFit
<1>3. /\ f \in Seq(Int) /\ Len(f) = e[T]
      /\ \A i \in 1..T : \A k \in 1..Len(p[i]) : f[e[i - 1] + k] = p[i][k]
      /\ \A k \in 1..e[T] : \E i \in 1..T :
              /\ e[i - 1] < k /\ k <= e[i] /\ k - e[i - 1] \in 1..Len(p[i])
              /\ f[k] = p[i][k - e[i - 1]]
  <2>1. f = SH!FlattenSeq(p)
    OBVIOUS
  <2>2. IsFlat(SH!FlattenSeq(p), p, e, T)
    BY <1>2, Flattened, Zenon
  <2>3. IsFlat(f, p, e, T)
    BY <2>1, <2>2, Zenon
  <2> QED
    BY <2>3 DEF IsFlat
<1>4. e[T] = (T * o - n) + (T * a - m)
  <2>1. T \in 0..T /\ Cut(T, o, n) = n /\ Cut(T, a, m) = m
    BY <1>1, CutLast
  <2> QED
    BY <2>1 DEF Slacks, Slack
<1>5. \A i \in 1..T : p[i] = PadRun(i, o, a, n, m)
  BY DEF PadRuns
<1>6. ASSUME NEW i \in 1..T
      PROVE  /\ Part(i, o, n) \in 0..o /\ Part(i, a, m) \in 0..a
             /\ Len(p[i]) = (o - Part(i, o, n)) + (a - Part(i, a, m))
             /\ \A k \in 1..(o - Part(i, o, n)) :
                  p[i][k] = Slot(i - 1, Part(i, o, n) + (k - 1), o + a)
             /\ \A k \in 1..(a - Part(i, a, m)) :
                  p[i][(o - Part(i, o, n)) + k]
                    = Slot(i - 1, o + Part(i, a, m) + (k - 1), o + a)
  <2>1. i \in Nat \ {0}
    OBVIOUS
  <2>2. Part(i, o, n) \in 0..o /\ Part(i, a, m) \in 0..a
    BY <1>1, <2>1, PartIs
  <2>3. IsPad(PadRun(i, o, a, n, m), i, o, a, n, m)
    BY PadRunIs, Zenon
  <2>4. IsPad(p[i], i, o, a, n, m)
    BY <1>5, <2>3, Zenon
  <2> QED
    BY <2>2, <2>4 DEF IsPad
<1>7. ASSUME NEW i \in 1..T
      PROVE  /\ \A j \in 1..Len(p[i]) : \E x \in 0..(o + a - 1) :
                   Unused(i, x, o, a, n, m) /\ p[i][j] = Slot(i - 1, x, o + a)
             /\ \A x \in Int : Unused(i, x, o, a, n, m) =>
                   \E j \in 1..Len(p[i]) : p[i][j] = Slot(i - 1, x, o + a)
  <2>1. IsPad(PadRun(i, o, a, n, m), i, o, a, n, m)
    BY PadRunIs, Zenon
  <2>2. IsPad(p[i], i, o, a, n, m)
    BY <1>5, <2>1, Zenon
  <2>3. Part(i, o, n) \in 0..o /\ Part(i, a, m) \in 0..a
    BY <1>6
  <2> QED
    <3>1. PadCovered(p[i], i, o, a, n, m)
      BY <1>0, <2>2, <2>3, PadCovers, Zenon
    <3> QED
      BY <3>1 DEF PadCovered
<1>8. ASSUME NEW k \in 1..e[T]
      PROVE  \E i \in 1..T : \E x \in 0..(o + a - 1) :
                 Unused(i, x, o, a, n, m) /\ f[k] = Slot(i - 1, x, o + a)
  <2>1. PICK i \in 1..T : k - e[i - 1] \in 1..Len(p[i]) /\ f[k] = p[i][k - e[i - 1]]
    BY <1>3
  <2>2. PICK x \in 0..(o + a - 1) :
           Unused(i, x, o, a, n, m) /\ p[i][k - e[i - 1]] = Slot(i - 1, x, o + a)
    BY <1>7, <2>1
  <2> QED
    BY <2>1, <2>2
<1>9. ASSUME NEW i \in 1..T, NEW x \in Int, Unused(i, x, o, a, n, m)
      PROVE  \E k \in 1..e[T] : f[k] = Slot(i - 1, x, o + a)
  <2>2. PICK j \in 1..Len(p[i]) : p[i][j] = Slot(i - 1, x, o + a)
    BY <1>7, <1>9
  <2>3. f[e[i - 1] + j] = p[i][j]
    BY <1>3
  <2>4. /\ e[i - 1] \in Nat /\ e[i] \in Nat /\ e[T] \in Nat /\ e[i] <= e[T]
        /\ Len(p[i]) = e[i] - e[i - 1]
    <3>1. i \in 0..T /\ T \in 0..T /\ i - 1 \in 0..T
      BY <1>0
    <3> QED
      BY <1>2, <3>1, PiecesAre
  <2>5. e[i - 1] + j \in 1..e[T]
    BY <2>4
  <2> QED
    BY <2>2, <2>3, <2>5
<1>10. FlatPads(f, o, a, n, m, T)
  BY <1>3, <1>4, <1>8, <1>9 DEF FlatPads
<1> QED
  BY <1>10

(* Where the mapping finds every slot.                                      *)
Mapped(M, o, a, n, m, T) ==
  /\ M \in Seq(Int) /\ Len(M) = T * (o + a)
  /\ \A i \in 1..T : \A t \in Int : InRun(i, t, o, n) =>
       M[t + 1] = Slot(i - 1, t - Cut(i - 1, o, n), o + a)
  /\ \A i \in 1..T : \A t \in Int : InRun(i, t, a, m) =>
       M[n + t + 1] = Slot(i - 1, o + (t - Cut(i - 1, a, m)), o + a)
  /\ \A k \in (n + m + 1)..(T * (o + a)) : \E i \in 1..T : \E x \in 0..(o + a - 1) :
       Unused(i, x, o, a, n, m) /\ M[k] = Slot(i - 1, x, o + a)
  /\ \A i \in 1..T : \A x \in Int : Unused(i, x, o, a, n, m) =>
       \E k \in 1..(T * (o + a)) : M[k] = Slot(i - 1, x, o + a)

LEMMA Total ==
  ASSUME NEW o, NEW a, NEW n, NEW m, NEW T, Fits(o, a, n, m, T)
  PROVE  /\ T * o \in Nat /\ T * a \in Nat /\ T * (o + a) = T * o + T * a
         /\ T * (o + a) \in Nat /\ n + m <= T * (o + a)
         /\ n + m + ((T * o - n) + (T * a - m)) = T * (o + a)
<1>1. o \in Nat /\ a \in Nat /\ n \in Nat /\ m \in Nat /\ T \in Nat /\ n <= T * o /\ m <= T * a
  BY DEF Fits
<1>2. T * o \in Nat /\ T * a \in Nat /\ T * (o + a) = T * o + T * a
  BY <1>1
<1> QED
  BY <1>1, <1>2

LEMMA MappedIs ==
  ASSUME NEW o, NEW a, NEW n, NEW m, NEW T, Fits(o, a, n, m, T)
  PROVE  Mapped(SH!FlattenSeq(OrgRuns(o, a, n, T)) \o SH!FlattenSeq(AddedRuns(o, a, m, T))
                  \o SH!FlattenSeq(PadRuns(o, a, n, m, T)), o, a, n, m, T)
<1>1. o \in Nat /\ a \in Nat /\ n \in Nat /\ m \in Nat /\ T \in Nat \ {0}
  BY DEF Fits
<1>2. PICK l : l = T * (o + a)
  OBVIOUS
<1>3. PICK u : u = (T * o - n) + (T * a - m)
  OBVIOUS
<1>4. l \in Nat /\ n + m + u = l /\ u \in Nat
  <2>1. T * o \in Nat /\ T * a \in Nat /\ n <= T * o /\ m <= T * a
    BY Total DEF Fits
  <2>2. u \in Nat
    BY <1>1, <1>3, <2>1
  <2> QED
    BY <1>2, <1>3, <2>2, Total
<1>5. PICK f : f = SH!FlattenSeq(OrgRuns(o, a, n, T))
  OBVIOUS
<1>6. PICK g : g = SH!FlattenSeq(AddedRuns(o, a, m, T))
  OBVIOUS
<1>7. PICK h : h = SH!FlattenSeq(PadRuns(o, a, n, m, T))
  OBVIOUS
<1>8. /\ f \in Seq(Int) /\ Len(f) = n
      /\ \A i \in 1..T : \A t \in Int : InRun(i, t, o, n) =>
           f[t + 1] = Slot(i - 1, t - Cut(i - 1, o, n), o + a)
  BY <1>5, OrgFlat
<1>9. /\ g \in Seq(Int) /\ Len(g) = m
      /\ \A i \in 1..T : \A t \in Int : InRun(i, t, a, m) =>
           g[t + 1] = Slot(i - 1, o + (t - Cut(i - 1, a, m)), o + a)
  BY <1>6, AddedFlat
<1>10. /\ h \in Seq(Int) /\ Len(h) = u
       /\ \A k \in 1..Len(h) : \E i \in 1..T : \E x \in 0..(o + a - 1) :
            Unused(i, x, o, a, n, m) /\ h[k] = Slot(i - 1, x, o + a)
       /\ \A i \in 1..T : \A x \in Int : Unused(i, x, o, a, n, m) =>
            \E k \in 1..Len(h) : h[k] = Slot(i - 1, x, o + a)
  <2>1. FlatPads(SH!FlattenSeq(PadRuns(o, a, n, m, T)), o, a, n, m, T)
    BY PadFlat, Zenon
  <2>2. FlatPads(h, o, a, n, m, T)
    BY <1>7, <2>1, Zenon
  <2> QED
    BY <1>3, <2>2 DEF FlatPads
<1>11. PICK M : M = f \o g \o h
  OBVIOUS
<1>12. /\ M \in Seq(Int) /\ Len(M) = Len(f) + Len(g) + Len(h)
       /\ \A k \in 1..Len(f) : M[k] = f[k]
       /\ \A k \in 1..Len(g) : M[Len(f) + k] = g[k]
       /\ \A k \in 1..Len(h) : M[Len(f) + Len(g) + k] = h[k]
  <2>1. f \in Seq(Int) /\ g \in Seq(Int) /\ h \in Seq(Int)
    BY <1>8, <1>9, <1>10
  <2>2. ThreePieces(f \o g \o h, f, g, h)
    BY <2>1, Concat3, Zenon
  <2>3. ThreePieces(M, f, g, h)
    BY <1>11, <2>2, Zenon
  <2> QED
    BY <2>3 DEF ThreePieces
<1>13. Len(M) = l
  BY <1>4, <1>8, <1>9, <1>10, <1>12
<1>14. ASSUME NEW i \in 1..T, NEW t \in Int, InRun(i, t, o, n)
       PROVE  M[t + 1] = Slot(i - 1, t - Cut(i - 1, o, n), o + a)
  <2>1. t \in 0..(n - 1)
    <3>1. i \in Nat \ {0}
      OBVIOUS
    <3> QED
      BY <1>1, <1>14, <3>1, InRunIs
  <2>2. t + 1 \in 1..Len(f)
    BY <1>1, <1>8, <2>1
  <2>3. M[t + 1] = f[t + 1]
    BY <1>12, <2>2
  <2>4. f[t + 1] = Slot(i - 1, t - Cut(i - 1, o, n), o + a)
    BY <1>8, <1>14
  <2> QED
    BY <2>3, <2>4
<1>15. ASSUME NEW i \in 1..T, NEW t \in Int, InRun(i, t, a, m)
       PROVE  M[n + t + 1] = Slot(i - 1, o + (t - Cut(i - 1, a, m)), o + a)
  <2>1. t \in 0..(m - 1)
    <3>1. i \in Nat \ {0}
      OBVIOUS
    <3> QED
      BY <1>1, <1>15, <3>1, InRunIs
  <2>2. t + 1 \in 1..Len(g)
    BY <1>1, <1>9, <2>1
  <2>3. M[Len(f) + (t + 1)] = g[t + 1]
    BY <1>12, <2>2
  <2>4. g[t + 1] = Slot(i - 1, o + (t - Cut(i - 1, a, m)), o + a)
    BY <1>9, <1>15
  <2>5. Len(f) + (t + 1) = n + t + 1
    BY <1>1, <1>8, <2>1
  <2> QED
    BY <2>3, <2>4, <2>5
<1>16. ASSUME NEW k \in (n + m + 1)..l
       PROVE  \E i \in 1..T : \E x \in 0..(o + a - 1) :
                Unused(i, x, o, a, n, m) /\ M[k] = Slot(i - 1, x, o + a)
  <2>1. PICK j : j = k - (n + m)
    OBVIOUS
  <2>2. j \in 1..u /\ n + m + j = k
    BY <1>1, <1>4, <2>1
  <2>3. M[Len(f) + Len(g) + j] = h[j]
    BY <1>10, <1>12, <2>2
  <2>4. Len(f) + Len(g) + j = k
    BY <1>8, <1>9, <2>2
  <2>5. M[k] = h[j]
    BY <2>3, <2>4
  <2>6. j \in 1..Len(h)
    BY <1>10, <2>2
  <2> QED
    BY <1>10, <2>5, <2>6
<1>17. ASSUME NEW i \in 1..T, NEW x \in Int, Unused(i, x, o, a, n, m)
       PROVE  \E k \in 1..l : M[k] = Slot(i - 1, x, o + a)
  <2>1. PICK j \in 1..Len(h) : h[j] = Slot(i - 1, x, o + a)
    BY <1>10, <1>17
  <2>2. M[Len(f) + Len(g) + j] = h[j]
    BY <1>12
  <2>3. Len(f) + Len(g) + j \in 1..l
    BY <1>1, <1>4, <1>8, <1>9, <1>10
  <2> QED
    BY <2>1, <2>2, <2>3
<1>18. Mapped(M, o, a, n, m, T)
  BY <1>2, <1>12, <1>13, <1>14, <1>15, <1>16, <1>17 DEF Mapped
<1> QED
  BY <1>5, <1>6, <1>7, <1>11, <1>18

(* Every slot of every rank is there.                                       *)
LEMMA EverySlot ==
  ASSUME NEW o, NEW a, NEW n, NEW m, NEW T, Fits(o, a, n, m, T),
         NEW M, Mapped(M, o, a, n, m, T)
  PROVE  {M[k] : k \in DOMAIN M} = 0..(T * (o + a) - 1)
<1>1. o \in Nat /\ a \in Nat /\ n \in Nat /\ m \in Nat /\ T \in Nat \ {0} /\ o + a \in Nat
  BY DEF Fits
<1>0. n <= T * o /\ m <= T * a
  BY DEF Fits
<1>2. PICK l : l = T * (o + a)
  OBVIOUS
<1>3. l \in Nat /\ n + m <= l
  BY <1>2, Total
<1>4. DOMAIN M = 1..l
  BY <1>2 DEF Mapped
<1>5. ASSUME NEW i \in 1..T, NEW x \in 0..(o + a - 1)
      PROVE  Slot(i - 1, x, o + a) \in 0..(l - 1)
  <2>1. i - 1 \in 0..(T - 1)
    BY <1>1
  <2> QED
    BY <1>1, <1>2, <2>1, SlotIs
<1>6. ASSUME NEW k \in 1..l PROVE M[k] \in 0..(l - 1)
  <2>1. CASE k <= n
    <3>1. PICK t : t = k - 1
      OBVIOUS
    <3>2. t \in 0..(n - 1) /\ t + 1 = k /\ t \in Int
      BY <1>1, <2>1, <3>1
    <3>3. PICK i \in 1..T : InRun(i, t, o, n)
      BY <1>0, <1>1, <3>2, RunOf
    <3>4. M[k] = Slot(i - 1, t - Cut(i - 1, o, n), o + a)
      BY <3>2, <3>3 DEF Mapped
    <3>5. t - Cut(i - 1, o, n) \in 0..(Part(i, o, n) - 1) /\ Part(i, o, n) \in 0..o
      <4>1. i \in Nat \ {0}
        OBVIOUS
      <4> QED
        BY <1>1, <3>2, <3>3, <4>1, InRunIs
    <3>6. t - Cut(i - 1, o, n) \in 0..(o + a - 1)
      BY <1>1, <3>5
    <3> QED
      BY <1>5, <3>4, <3>6
  <2>2. CASE n < k /\ k <= n + m
    <3>1. PICK t : t = k - n - 1
      OBVIOUS
    <3>2. t \in 0..(m - 1) /\ n + t + 1 = k /\ t \in Int
      BY <1>1, <2>2, <3>1
    <3>3. PICK i \in 1..T : InRun(i, t, a, m)
      BY <1>0, <1>1, <3>2, RunOf
    <3>4. M[k] = Slot(i - 1, o + (t - Cut(i - 1, a, m)), o + a)
      <4>1. M[n + t + 1] = Slot(i - 1, o + (t - Cut(i - 1, a, m)), o + a)
        BY <3>2, <3>3 DEF Mapped
      <4> QED
        BY <3>2, <4>1
    <3>5. t - Cut(i - 1, a, m) \in 0..(Part(i, a, m) - 1) /\ Part(i, a, m) \in 0..a
      <4>1. i \in Nat \ {0}
        OBVIOUS
      <4> QED
        BY <1>1, <3>2, <3>3, <4>1, InRunIs
    <3>6. o + (t - Cut(i - 1, a, m)) \in 0..(o + a - 1)
      BY <1>1, <3>5
    <3> QED
      BY <1>5, <3>4, <3>6
  <2>3. CASE n + m < k
    <3>1. k \in (n + m + 1)..(T * (o + a))
      BY <1>1, <1>2, <1>3, <2>3
    <3>2. PICK i \in 1..T, x \in 0..(o + a - 1) : M[k] = Slot(i - 1, x, o + a)
      BY <3>1 DEF Mapped
    <3> QED
      BY <1>5, <3>2
  <2> QED
    BY <1>1, <2>1, <2>2, <2>3
<1>7. ASSUME NEW v \in 0..(l - 1) PROVE \E k \in 1..l : M[k] = v
  <2>0. PICK r \in 0..(T - 1) : \E x \in 0..(o + a - 1) : v = Slot(r, x, o + a)
    <3>1. T \in Nat /\ o + a \in Nat
      BY <1>1
    <3>2. v \in 0..(T * (o + a) - 1)
      BY <1>2
    <3>3. HasSlot(v, T, o + a)
      BY <3>1, <3>2, SlotOf, Zenon
    <3> QED
      BY <1>1, <3>3 DEF HasSlot
  <2>1. PICK x \in 0..(o + a - 1) : v = Slot(r, x, o + a)
    BY <2>0
  <2>2. PICK i : i = r + 1
    OBVIOUS
  <2>3. i \in 1..T /\ i - 1 = r /\ i \in Nat \ {0} /\ i - 1 \in Nat /\ i \in Nat
    BY <1>1, <2>1, <2>2
  <2>4. /\ Part(i, o, n) \in 0..o /\ Cut(i, o, n) = Cut(i - 1, o, n) + Part(i, o, n)
        /\ Part(i, a, m) \in 0..a /\ Cut(i, a, m) = Cut(i - 1, a, m) + Part(i, a, m)
    <3>1. i \in Nat \ {0}
      BY <2>3
    <3>2. PartOf(i, o, n) /\ PartOf(i, a, m)
      BY <1>1, <3>1, PartsAre, Zenon
    <3> QED
      BY <3>2 DEF PartOf
  <2>5. /\ Cut(i - 1, o, n) \in Nat /\ Cut(i, o, n) \in Nat /\ Cut(i, o, n) <= n
        /\ Cut(i - 1, a, m) \in Nat /\ Cut(i, a, m) \in Nat /\ Cut(i, a, m) <= m
    BY <1>1, <2>3, CutIs
  <2>6. CASE x < Part(i, o, n)
    <3>1. PICK t : t = Cut(i - 1, o, n) + x
      OBVIOUS
    <3>2. t \in Int /\ InRun(i, t, o, n) /\ t + 1 \in 1..l /\ t - Cut(i - 1, o, n) = x
      BY <1>1, <1>3, <2>4, <2>5, <2>6, <3>1 DEF InRun
    <3>3. M[t + 1] = Slot(i - 1, t - Cut(i - 1, o, n), o + a)
      BY <2>3, <3>2 DEF Mapped
    <3> QED
      BY <2>1, <2>3, <3>2, <3>3
  <2>7. CASE x >= o /\ x - o < Part(i, a, m)
    <3>1. PICK t : t = Cut(i - 1, a, m) + (x - o)
      OBVIOUS
    <3>2. /\ t \in Int /\ InRun(i, t, a, m) /\ n + t + 1 \in 1..l
          /\ o + (t - Cut(i - 1, a, m)) = x
      BY <1>1, <1>3, <2>4, <2>5, <2>7, <3>1 DEF InRun
    <3>3. M[n + t + 1] = Slot(i - 1, o + (t - Cut(i - 1, a, m)), o + a)
      BY <2>3, <3>2 DEF Mapped
    <3> QED
      BY <2>1, <2>3, <3>2, <3>3
  <2>8. CASE Unused(i, x, o, a, n, m)
    <3>1. x \in Int
      BY <1>1
    <3>2. \E k \in 1..(T * (o + a)) : M[k] = Slot(i - 1, x, o + a)
      BY <2>3, <2>8, <3>1 DEF Mapped
    <3> QED
      BY <1>2, <2>1, <2>3, <3>2
  <2>9. \/ x < Part(i, o, n) \/ (x >= o /\ x - o < Part(i, a, m)) \/ Unused(i, x, o, a, n, m)
    BY <1>1, <2>4 DEF Unused
  <2> QED
    BY <2>6, <2>7, <2>8, <2>9
<1> QED
  BY <1>2, <1>4, <1>6, <1>7

(****************************************************************************)
(* The layout of the vocabulary                                             *)
(****************************************************************************)

ShardTyped ==
  /\ tp \in Nat \ {0} /\ vocab.pad \in Nat \ {0}
  /\ vocab.org \in Nat /\ vocab.added \in Nat /\ width \in Nat

LEMMA Associates ==
  ASSUME NEW x \in Int, NEW y \in Int, NEW z \in Int
  PROVE  x * (y * z) = (x * y) * z /\ x * y \in Int
OBVIOUS

LEMMA Minus ==
  ASSUME NEW x \in Int, NEW y \in Int, NEW z \in Int
  PROVE  (x - y) * z = x * z - y * z
OBVIOUS

LEMMA Exactly ==
  ASSUME NEW q \in Int, NEW u \in Nat \ {0}
  PROVE  (q * u) \div u = q /\ (q * u) % u = 0
<1>1. 0 \in 0..(u - 1) /\ q * u \in Int /\ q * u + 0 = q * u
  OBVIOUS
<1>2. (q * u + 0) \div u = q /\ (q * u + 0) % u = 0
  BY <1>1, DivMod
<1> QED
  BY <1>1, <1>2

LEMMA NotNegative ==
  ASSUME NEW q \in Int, NEW u \in Nat \ {0}, q * u >= 0
  PROVE  q \in Nat
<1> SUFFICES ASSUME q < 0 PROVE FALSE
  OBVIOUS
<1>1. q * u + u <= 0 * u
  BY Grows
<1>2. q * u \in Int /\ 0 * u = 0
  OBVIOUS
<1> QED
  BY <1>1, <1>2

(* Rounding up to a multiple.                                               *)
IsCeil(c, n, u) == \E q \in Nat : c = q * u /\ n <= q * u /\ q * u < n + u

LEMMA CeilIs ==
  ASSUME NEW n \in Nat, NEW u \in Nat \ {0}
  PROVE  IsCeil(SH!CeilTo(n, u), n, u)
<1>1. PICK x : x = n + u - 1
  OBVIOUS
<1>2. x \in Nat /\ x >= n /\ x - (u - 1) = n
  BY <1>1
<1>3. PICK q, y : q = x \div u /\ y = x % u
  OBVIOUS
<1>4. q \in Int /\ y \in 0..(u - 1) /\ x = q * u + y
  BY <1>2, <1>3, Divided
<1>5. q * u \in Int
  BY <1>4
<1>6. n <= q * u /\ q * u < n + u
  BY <1>2, <1>4, <1>5
<1>7. q \in Nat
  <2>1. q * u >= 0
    BY <1>5, <1>6
  <2> QED
    BY <1>4, <2>1, NotNegative
<1>8. SH!CeilTo(n, u) = q * u
  BY <1>1, <1>3 DEF SH!CeilTo
<1> QED
  BY <1>6, <1>7, <1>8 DEF IsCeil

LEMMA CeilOf ==
  ASSUME NEW q \in Nat, NEW u \in Nat \ {0}
  PROVE  SH!CeilTo(q * u, u) = q * u
<1>1. u - 1 \in 0..(u - 1) /\ q * u \in Int
  OBVIOUS
<1>2. (q * u + (u - 1)) \div u = q
  BY <1>1, DivMod
<1>3. q * u + u - 1 = q * u + (u - 1)
  BY <1>1
<1> QED
  BY <1>2, <1>3 DEF SH!CeilTo

LEMMA MinOf ==
  ASSUME NEW x \in Int, NEW y \in Int
  PROVE  SH!Min({x, y}) = IF x <= y THEN x ELSE y
<1>1. \E p \in {x, y} : \A q \in {x, y} : p <= q
  OBVIOUS
<1>2. SH!Min({x, y}) \in {x, y} /\ \A q \in {x, y} : SH!Min({x, y}) <= q
  BY <1>1 DEF SH!Min
<1> QED
  BY <1>2

LEMMA LeastShared ==
  ASSUME NEW S \in SUBSET Nat, S # {}
  PROVE  SH!Min(S) \in S
<1>1. \E n \in S : \A m \in S : n <= m
  BY Lowest
<1> QED
  BY <1>1 DEF SH!Min

LEMMA WholeIs ==
  ASSUME NEW t \in Nat \ {0}, NEW u \in Nat \ {0}, u % t = 0
  PROVE  \E k \in Nat \ {0} : u = k * t
<1>1. PICK q, y : q = u \div t /\ y = u % t
  OBVIOUS
<1>2. q \in Int /\ u = q * t + y /\ y = 0
  BY <1>1, Divided
<1>3. q * t \in Int
  BY <1>2
<1>4. u = q * t
  BY <1>2, <1>3
<1>5. q \in Nat
  <2>1. q * t >= 0
    BY <1>4
  <2> QED
    BY <1>2, <2>1, NotNegative
<1>6. q # 0
  <2> SUFFICES ASSUME q = 0 PROVE FALSE
    OBVIOUS
  <2>1. q * t = 0
    OBVIOUS
  <2> QED
    BY <1>4, <2>1
<1> QED
  BY <1>4, <1>5, <1>6

(* The padding unit is a multiple of the number of ranks.                   *)
LEMMA UnitIs ==
  ASSUME ShardTyped
  PROVE  \E k \in Nat \ {0} : SH!Unit = k * tp
<1>1. tp \in Nat \ {0} /\ vocab.pad \in Nat \ {0}
  BY DEF ShardTyped
<1>2. ASSUME NEW u \in Nat \ {0}, u % tp = 0
      PROVE  \E k \in Nat \ {0} : u = k * tp
  BY <1>1, <1>2, WholeIs, Zenon
<1>3. CASE tp > 1 /\ ~SH!Divides(tp, vocab.pad)
  <2>1. PICK S : S = {n \in 1..(vocab.pad * tp) : SH!Divides(vocab.pad, n) /\ SH!Divides(tp, n)}
    OBVIOUS
  <2>2. SH!Unit = SH!Min(S)
    BY <1>3, <2>1 DEF SH!Unit, SH!Lcm
  <2>3. vocab.pad * tp \in S
    <3>1. PICK x, y : x = vocab.pad /\ y = tp
      OBVIOUS
    <3>2. x \in Nat \ {0} /\ y \in Nat \ {0}
      BY <1>1, <3>1
    <3>3. x * y \in Nat /\ x * y = y * x
      BY <3>2
    <3>4. x * y >= 1
      <4>1. 0 * y + y <= x * y
        BY <3>2, Grows
      <4>2. 0 * y = 0
        BY <3>2
      <4> QED
        BY <3>2, <3>3, <4>1, <4>2
    <3>5. (x * y) % y = 0 /\ (y * x) % x = 0
      BY <3>2, Exactly
    <3>6. x * y \in 1..(x * y) /\ SH!Divides(x, x * y) /\ SH!Divides(y, x * y)
      BY <3>3, <3>4, <3>5 DEF SH!Divides
    <3> QED
      BY <2>1, <3>1, <3>6
  <2>4. S \in SUBSET Nat
    BY <2>1
  <2>5. SH!Min(S) \in S
    BY <2>3, <2>4, LeastShared
  <2>6. SH!Unit \in Nat \ {0} /\ SH!Unit % tp = 0
    BY <2>1, <2>2, <2>5 DEF SH!Divides
  <2> QED
    BY <1>2, <2>6
<1>4. CASE ~(tp > 1 /\ ~SH!Divides(tp, vocab.pad))
  <2>1. SH!Unit = vocab.pad
    BY <1>4 DEF SH!Unit
  <2>2. CASE SH!Divides(tp, vocab.pad)
    BY <1>1, <1>2, <2>1, <2>2 DEF SH!Divides
  <2>3. CASE ~SH!Divides(tp, vocab.pad)
    <3>1. tp = 1
      BY <1>1, <1>4, <2>3
    <3>2. vocab.pad = vocab.pad * tp
      BY <1>1, <3>1
    <3> QED
      BY <1>1, <2>1, <3>2
  <2> QED
    BY <2>2, <2>3
<1> QED
  BY <1>3, <1>4

(* Every rank has the same number of rows for tokens of the checkpoint and  *)
(* for added ones, and they suffice.                                        *)
LaysOut(o, a) ==
  /\ SH!OrgPadded \div tp = o /\ (SH!FullPadded - SH!OrgPadded) \div tp = a
  /\ SH!PerRank = o + a /\ SH!FullPadded = tp * (o + a)
  /\ Fits(o, a, vocab.org, vocab.added, tp)

LEMMA LaidOut ==
  ASSUME ShardTyped
  PROVE  \E o, a : LaysOut(o, a)
<1>1. tp \in Nat \ {0} /\ vocab.org \in Nat /\ vocab.added \in Nat
  BY DEF ShardTyped
<1>2. PICK k \in Nat \ {0} : SH!Unit = k * tp
  BY UnitIs
<1>3. PICK u : u = SH!Unit
  OBVIOUS
<1>4. u \in Nat \ {0}
  <2>1. k * tp \in Nat /\ 0 * tp + tp <= k * tp /\ 0 * tp = 0
    BY <1>1, Grows
  <2> QED
    BY <1>1, <1>2, <1>3, <2>1
<1>5. PICK g : g = SH!OrgPadded
  OBVIOUS
<1>6. PICK q \in Nat : g = q * u /\ vocab.org <= q * u
  <2>1. IsCeil(SH!CeilTo(vocab.org, u), vocab.org, u)
    BY <1>1, <1>4, CeilIs
  <2> QED
    BY <1>3, <1>5, <2>1 DEF SH!OrgPadded, IsCeil
<1>7. g \in Nat /\ g + vocab.added \in Nat
  <2>1. q * u \in Nat
    BY <1>4
  <2> QED
    BY <1>1, <1>6, <2>1
<1>8. PICK f : f = SH!FullPadded
  OBVIOUS
<1>9. PICK p \in Nat : f = p * u /\ g + vocab.added <= p * u
  <2>1. IsCeil(SH!CeilTo(g + vocab.added, u), g + vocab.added, u)
    BY <1>4, <1>7, CeilIs
  <2>2. f = SH!CeilTo(g + vocab.added, u)
    BY <1>3, <1>5, <1>8 DEF SH!FullPadded
  <2> QED
    BY <2>1, <2>2 DEF IsCeil
<1>10. PICK o, b : o = q * k /\ b = p * k
  OBVIOUS
<1>11. o \in Nat /\ b \in Nat /\ g = o * tp /\ f = b * tp
  <2>1. q \in Int /\ p \in Int /\ k \in Int /\ tp \in Int
    BY <1>1
  <2>2. q * (k * tp) = (q * k) * tp /\ p * (k * tp) = (p * k) * tp
    BY <2>1, Associates
  <2>3. o \in Nat /\ b \in Nat
    BY <1>10
  <2> QED
    BY <1>2, <1>3, <1>6, <1>9, <1>10, <2>2, <2>3
<1>12. PICK a : a = b - o
  OBVIOUS
<1>13. a \in Int /\ o + a = b /\ a * tp = f - g /\ f \in Nat
  <2>1. a \in Int /\ o + a = b
    BY <1>11, <1>12
  <2>2. (b - o) * tp = b * tp - o * tp
    BY <1>1, <1>11, Minus
  <2>3. b * tp \in Nat
    BY <1>1, <1>11
  <2> QED
    BY <1>11, <1>12, <2>1, <2>2, <2>3
<1>14. a \in Nat
  <2>1. a * tp >= 0
    BY <1>1, <1>7, <1>9, <1>13
  <2> QED
    BY <1>1, <1>13, <2>1, NotNegative
<1>15. (o * tp) \div tp = o /\ (a * tp) \div tp = a /\ (b * tp) \div tp = b
  <2>1. o \in Int /\ a \in Int /\ b \in Int
    BY <1>11, <1>13
  <2> QED
    BY <1>1, <2>1, Exactly
<1>16. SH!OrgPadded \div tp = o /\ (SH!FullPadded - SH!OrgPadded) \div tp = a
  <2>1. g \div tp = o /\ (f - g) \div tp = a
    BY <1>11, <1>13, <1>15
  <2> QED
    BY <1>5, <1>8, <2>1
<1>17. SH!PerRank = o + a
  BY <1>8, <1>11, <1>13, <1>15 DEF SH!PerRank
<1>18. SH!FullPadded = tp * (o + a)
  <2>1. b * tp = tp * b
    BY <1>1, <1>11
  <2> QED
    BY <1>8, <1>11, <1>13, <2>1
<1>19. Fits(o, a, vocab.org, vocab.added, tp)
  <2>1. tp * o = o * tp /\ tp * a = a * tp
    BY <1>1, <1>11, <1>14
  <2>2. vocab.org <= tp * o
    BY <1>6, <1>11, <2>1
  <2>3. vocab.added <= tp * a
    BY <1>1, <1>7, <1>9, <1>13, <2>1
  <2> QED
    BY <1>1, <1>11, <1>14, <2>2, <2>3 DEF Fits
<1> QED
  BY <1>16, <1>17, <1>18, <1>19 DEF LaysOut

(* The indices of the i-th rank are cuts.                                   *)
IndexOf(i, o, a) ==
  /\ SH!Indices(i - 1).orgFirst = Cut(i - 1, o, vocab.org)
  /\ SH!Indices(i - 1).orgEnd = Cut(i, o, vocab.org)
  /\ SH!Indices(i - 1).addedFirst = vocab.org + Cut(i - 1, a, vocab.added)
  /\ SH!Indices(i - 1).addedEnd = vocab.org + Cut(i, a, vocab.added)
  /\ SH!Indices(i - 1).orgRows = o /\ SH!Indices(i - 1).addedRows = a

LEMMA IndicesAre ==
  ASSUME ShardTyped, NEW o, NEW a, LaysOut(o, a), NEW i \in 1..tp
  PROVE  IndexOf(i, o, a)
<1>1. /\ tp \in Nat /\ vocab.org \in Nat /\ vocab.added \in Nat
      /\ o \in Nat /\ a \in Nat
  BY DEF ShardTyped, LaysOut, Fits
<1>2. PICK r : r = i - 1
  OBVIOUS
<1>3. r \in Nat /\ i = r + 1 /\ i \in Nat
  BY <1>1, <1>2
<1>4. PICK n, m : n = vocab.org /\ m = vocab.added
  OBVIOUS
<1>5. /\ SH!Indices(r).orgFirst = SH!Min({r * o, n})
      /\ SH!Indices(r).orgEnd = SH!Min({(r + 1) * o, n})
      /\ SH!Indices(r).addedFirst = SH!Min({n + r * a, n + m})
      /\ SH!Indices(r).addedEnd = SH!Min({n + r * a + a, n + m})
      /\ SH!Indices(r).orgRows = o /\ SH!Indices(r).addedRows = a
  <2>1. SH!OrgPadded \div tp = o /\ (SH!FullPadded - SH!OrgPadded) \div tp = a
    BY DEF LaysOut
  <2> QED
    BY <1>4, <2>1 DEF SH!Indices, SH!Full
<1>6. /\ n \in Nat /\ m \in Nat /\ r * o \in Nat /\ i * o \in Nat /\ r * a \in Nat
      /\ i * a = r * a + a
  BY <1>1, <1>3, <1>4
<1>7. SH!Min({r * o, n}) = Cut(r, o, n)
  BY <1>6, MinOf DEF Cut
<1>8. SH!Min({i * o, n}) = Cut(i, o, n)
  BY <1>6, MinOf DEF Cut
<1>9. SH!Min({n + r * a, n + m}) = n + Cut(r, a, m)
  <2>1. SH!Min({n + r * a, n + m}) = IF n + r * a <= n + m THEN n + r * a ELSE n + m
    BY <1>6, MinOf
  <2>2. n + r * a <= n + m <=> r * a <= m
    BY <1>6
  <2> QED
    BY <2>1, <2>2 DEF Cut
<1>10. SH!Min({n + r * a + a, n + m}) = n + Cut(i, a, m)
  <2>1. PICK z : z = r * a
    OBVIOUS
  <2>2. z \in Nat /\ i * a = z + a
    BY <1>6, <2>1
  <2>3. SH!Min({n + z + a, n + m}) = IF n + z + a <= n + m THEN n + z + a ELSE n + m
    BY <1>1, <1>6, <2>2, MinOf
  <2>4. (n + z + a <= n + m <=> z + a <= m) /\ n + z + a = n + (z + a)
    BY <1>1, <1>6, <2>2
  <2> QED
    BY <2>1, <2>2, <2>3, <2>4 DEF Cut
<1>11. /\ SH!Indices(r).orgFirst = Cut(r, o, n)
       /\ SH!Indices(r).orgEnd = Cut(i, o, n)
       /\ SH!Indices(r).addedFirst = n + Cut(r, a, m)
       /\ SH!Indices(r).addedEnd = n + Cut(i, a, m)
       /\ SH!Indices(r).orgRows = o /\ SH!Indices(r).addedRows = a
  BY <1>3, <1>5, <1>7, <1>8, <1>9, <1>10, Zenon
<1> QED
  BY <1>2, <1>4, <1>11, Zenon DEF IndexOf

(* Where the i-th rank looks a token up.                                    *)
RowsOf(i, o, a) ==
  \A t \in Int :
    /\ InRun(i, t, o, vocab.org) =>
         SH!RowOf(i - 1, t) = t - Cut(i - 1, o, vocab.org)
    /\ InRun(i, t - vocab.org, a, vocab.added) =>
         SH!RowOf(i - 1, t) = o + ((t - vocab.org) - Cut(i - 1, a, vocab.added))
    /\ ~InRun(i, t, o, vocab.org) /\ ~InRun(i, t - vocab.org, a, vocab.added) =>
         SH!RowOf(i - 1, t) = -1

LEMMA RowsAre ==
  ASSUME ShardTyped, NEW o, NEW a, LaysOut(o, a), NEW i \in 1..tp
  PROVE  RowsOf(i, o, a)
<1>1. /\ tp \in Nat /\ vocab.org \in Nat /\ vocab.added \in Nat
      /\ o \in Nat /\ a \in Nat
  BY DEF ShardTyped, LaysOut, Fits
<1>2. PICK n, m : n = vocab.org /\ m = vocab.added
  OBVIOUS
<1>3. PICK d, e, f, g : /\ d = Cut(i - 1, o, n) /\ e = Cut(i, o, n)
                        /\ f = Cut(i - 1, a, m) /\ g = Cut(i, a, m)
  OBVIOUS
<1>4. /\ d \in Nat /\ e \in Nat /\ f \in Nat /\ g \in Nat /\ e <= n
  <2>1. i \in Nat /\ i - 1 \in Nat /\ n \in Nat /\ m \in Nat
    BY <1>1, <1>2
  <2> QED
    BY <1>1, <1>3, <2>1, CutIs
<1>5. PICK x : x = SH!Indices(i - 1)
  OBVIOUS
<1>6. /\ x.orgFirst = d /\ x.orgEnd = e /\ x.addedFirst = n + f /\ x.addedEnd = n + g
      /\ x.orgRows = o
  <2>1. IndexOf(i, o, a)
    BY IndicesAre, Zenon
  <2> QED
    BY <1>2, <1>3, <1>5, <2>1 DEF IndexOf
<1>7. ASSUME NEW t \in Int
      PROVE  /\ d <= t /\ t < e => SH!RowOf(i - 1, t) = t - d
             /\ f <= t - n /\ t - n < g => SH!RowOf(i - 1, t) = o + ((t - n) - f)
             /\ ~(d <= t /\ t < e) /\ ~(f <= t - n /\ t - n < g) => SH!RowOf(i - 1, t) = -1
  <2>2. SH!RowOf(i - 1, t)
          = IF (t >= x.orgFirst /\ t < x.orgEnd) \/ (t >= x.addedFirst /\ t < x.addedEnd)
            THEN t - ((IF t >= x.orgFirst /\ t < x.orgEnd THEN x.orgFirst ELSE 0)
                      + (IF t >= x.addedFirst /\ t < x.addedEnd
                         THEN x.addedFirst - (x.orgEnd - x.orgFirst)
                                - (x.orgRows - (x.orgEnd - x.orgFirst))
                         ELSE 0))
            ELSE -1
    BY <1>5 DEF SH!RowOf
  <2>3. SH!RowOf(i - 1, t)
          = IF (t >= d /\ t < e) \/ (t >= n + f /\ t < n + g)
            THEN t - ((IF t >= d /\ t < e THEN d ELSE 0)
                      + (IF t >= n + f /\ t < n + g
                         THEN (n + f) - (e - d) - (o - (e - d)) ELSE 0))
            ELSE -1
    BY <1>6, <2>2, Zenon
  <2> QED
    BY <1>1, <1>2, <1>4, <2>3
<1> QED
  BY <1>2, <1>3, <1>7 DEF RowsOf, InRun

(* What the ranks have loaded, all of them.                                 *)
Loaded ==
  /\ tables = [i \in 1..tp |-> SH!LoadedTable(i - 1)]
  /\ shards = [i \in 1..tp |-> SH!LoadedShard(i - 1)]

(* What the x-th slot of the i-th rank holds.                               *)
Holds(i, x, o) ==
  IF x < Part(i, o, vocab.org) THEN Cut(i - 1, o, vocab.org) + x + 1 ELSE 0

At(y) == tables[1 + (y \div SH!PerRank)][y % SH!PerRank]

LEMMA Gathers ==
  ASSUME ShardTyped, Loaded, NEW o, NEW a, LaysOut(o, a), NEW i \in 1..tp,
         NEW x \in 0..(o + a - 1)
  PROVE  At(Slot(i - 1, x, o + a)) = Holds(i, x, o)
<1>1. /\ tp \in Nat /\ vocab.org \in Nat /\ o \in Nat /\ a \in Nat /\ SH!PerRank = o + a
  BY DEF ShardTyped, LaysOut, Fits
<1>2. PICK r : r = i - 1
  OBVIOUS
<1>3. r \in 0..(tp - 1) /\ 1 + r = i /\ i - 1 = r /\ o + a \in Nat
  BY <1>1, <1>2
<1>4. Slot(r, x, o + a) \div (o + a) = r /\ Slot(r, x, o + a) % (o + a) = x
  BY <1>1, <1>3, SlotIs
<1>5. At(Slot(r, x, o + a)) = tables[1 + r][x]
  BY <1>1, <1>4 DEF At
<1>6. tables[1 + r] = SH!LoadedTable(r)
  BY <1>3 DEF Loaded
<1>7. SH!LoadedTable(r)[x] = IF SH!Indices(r).orgFirst + x < SH!Indices(r).orgEnd
                             THEN SH!Indices(r).orgFirst + x + 1 ELSE 0
  BY <1>1 DEF SH!LoadedTable
<1>8. SH!Indices(r).orgFirst = Cut(r, o, vocab.org) /\ SH!Indices(r).orgEnd = Cut(i, o, vocab.org)
  <2>1. IndexOf(i, o, a)
    BY IndicesAre, Zenon
  <2> QED
    BY <1>2, <2>1 DEF IndexOf
<1>9. Cut(r, o, vocab.org) \in Nat /\ Cut(i, o, vocab.org) \in Nat
  <2>1. r \in Nat /\ i \in Nat
    BY <1>3
  <2> QED
    BY <1>1, <2>1, CutIs
<1>10. Cut(r, o, vocab.org) + x < Cut(i, o, vocab.org) <=> x < Part(i, o, vocab.org)
  BY <1>1, <1>2, <1>9 DEF Part
<1>11. SH!LoadedTable(r)[x] = Holds(i, x, o)
  BY <1>2, <1>7, <1>8, <1>10 DEF Holds
<1> QED
  BY <1>2, <1>5, <1>6, <1>11

(* The mapping is put together from the runs of the ranks.                  *)
OrgSaid(r) == Run(SH!PerRank * r, SH!Indices(r).orgEnd - SH!Indices(r).orgFirst)
AddedSaid(r) ==
  Run(SH!PerRank * r + SH!Indices(r).orgRows,
      SH!Indices(r).addedEnd - SH!Indices(r).addedFirst)
PadSaid(r) ==
  Run(SH!PerRank * r + (SH!Indices(r).orgEnd - SH!Indices(r).orgFirst),
      SH!Indices(r).orgRows - (SH!Indices(r).orgEnd - SH!Indices(r).orgFirst))
    \o Run(SH!PerRank * r + SH!Indices(r).orgRows
             + (SH!Indices(r).addedEnd - SH!Indices(r).addedFirst),
           SH!Indices(r).addedRows - (SH!Indices(r).addedEnd - SH!Indices(r).addedFirst))

LEMMA MappingSaid ==
  SH!Mapping = SH!FlattenSeq([i \in 1..tp |-> OrgSaid(i - 1)])
                 \o SH!FlattenSeq([i \in 1..tp |-> AddedSaid(i - 1)])
                 \o SH!FlattenSeq([i \in 1..tp |-> PadSaid(i - 1)])
BY DEF SH!Mapping, OrgSaid, AddedSaid, PadSaid, Run

LEMMA RunsAre ==
  ASSUME ShardTyped, NEW o, NEW a, LaysOut(o, a), NEW i \in 1..tp
  PROVE  /\ OrgSaid(i - 1) = OrgRun(i, o, a, vocab.org)
         /\ AddedSaid(i - 1) = AddedRun(i, o, a, vocab.added)
         /\ PadSaid(i - 1) = PadRun(i, o, a, vocab.org, vocab.added)
<1>1. /\ tp \in Nat /\ vocab.org \in Nat /\ vocab.added \in Nat
      /\ o \in Nat /\ a \in Nat /\ SH!PerRank = o + a
  BY DEF ShardTyped, LaysOut, Fits
<1>2. PICK r, n, m : r = i - 1 /\ n = vocab.org /\ m = vocab.added
  OBVIOUS
<1>3. PICK p, q : p = Part(i, o, n) /\ q = Part(i, a, m)
  OBVIOUS
<1>4. /\ SH!Indices(r).orgRows = o /\ SH!Indices(r).addedRows = a
      /\ SH!Indices(r).orgEnd - SH!Indices(r).orgFirst = p
      /\ SH!Indices(r).addedEnd - SH!Indices(r).addedFirst = q
      /\ p \in Int /\ q \in Int
  <2>1. PICK d, e, f, g : /\ d = Cut(i - 1, o, n) /\ e = Cut(i, o, n)
                          /\ f = Cut(i - 1, a, m) /\ g = Cut(i, a, m)
    OBVIOUS
  <2>2. IndexOf(i, o, a)
    BY IndicesAre, Zenon
  <2>3. /\ SH!Indices(r).orgFirst = d /\ SH!Indices(r).orgEnd = e
        /\ SH!Indices(r).addedFirst = n + f /\ SH!Indices(r).addedEnd = n + g
        /\ SH!Indices(r).orgRows = o /\ SH!Indices(r).addedRows = a
    BY <1>2, <2>1, <2>2 DEF IndexOf
  <2>4. /\ d \in Nat /\ e \in Nat /\ f \in Nat /\ g \in Nat /\ n \in Nat
    <3>1. i \in Nat /\ i - 1 \in Nat /\ n \in Nat /\ m \in Nat
      BY <1>1, <1>2
    <3> QED
      BY <1>1, <2>1, <3>1, CutIs
  <2>5. p = e - d /\ q = g - f
    BY <1>3, <2>1 DEF Part
  <2> QED
    BY <2>3, <2>4, <2>5
<1>5. PICK b : b = (o + a) * r
  OBVIOUS
<1>6. b \in Int /\ SH!PerRank * r = b
  <2>1. r \in Int /\ o + a \in Int
    BY <1>1, <1>2
  <2> QED
    BY <1>1, <1>5, <2>1
<1>7. \A x \in Int : Slot(r, x, o + a) = b + x
  BY <1>5 DEF Slot
<1>8. OrgSaid(r) = OrgRun(i, o, a, n)
  <2>1. Slot(r, 0, o + a) = b
    BY <1>6, <1>7
  <2>2. OrgSaid(r) = Run(b, p)
    BY <1>4, <1>6, Zenon DEF OrgSaid
  <2> QED
    BY <1>2, <1>3, <2>1, <2>2, Zenon DEF OrgRun
<1>9. AddedSaid(r) = AddedRun(i, o, a, m)
  <2>1. Slot(r, o, o + a) = b + o
    BY <1>1, <1>7
  <2>2. AddedSaid(r) = Run(b + o, q)
    BY <1>4, <1>6, Zenon DEF AddedSaid
  <2> QED
    BY <1>2, <1>3, <2>1, <2>2, Zenon DEF AddedRun
<1>10. PadSaid(r) = PadRun(i, o, a, n, m)
  <2>1. Slot(r, p, o + a) = b + p
    BY <1>4, <1>7
  <2>2. Slot(r, o + q, o + a) = b + o + q
    BY <1>1, <1>4, <1>6, <1>7
  <2>3. PadSaid(r) = Run(b + p, o - p) \o Run(b + o + q, a - q)
    BY <1>4, <1>6, Zenon DEF PadSaid
  <2>4. PadRun(i, o, a, n, m)
          = Run(Slot(r, p, o + a), o - p) \o Run(Slot(r, o + q, o + a), a - q)
    BY <1>2, <1>3, Zenon DEF PadRun
  <2> QED
    BY <2>1, <2>2, <2>3, <2>4, Zenon
<1> QED
  BY <1>2, <1>8, <1>9, <1>10, Zenon

LEMMA MappingIs ==
  ASSUME ShardTyped, NEW o, NEW a, LaysOut(o, a)
  PROVE  Mapped(SH!Mapping, o, a, vocab.org, vocab.added, tp)
<1>1. /\ [i \in 1..tp |-> OrgSaid(i - 1)] = OrgRuns(o, a, vocab.org, tp)
      /\ [i \in 1..tp |-> AddedSaid(i - 1)] = AddedRuns(o, a, vocab.added, tp)
      /\ [i \in 1..tp |-> PadSaid(i - 1)] = PadRuns(o, a, vocab.org, vocab.added, tp)
  BY RunsAre, Zenon DEF OrgRuns, AddedRuns, PadRuns
<1>2. Fits(o, a, vocab.org, vocab.added, tp)
  BY DEF LaysOut
<1> QED
  BY <1>1, <1>2, MappingSaid, MappedIs, Zenon

(****************************************************************************)
(* The tokens                                                               *)
(****************************************************************************)

Holders(t) == {r \in SH!Ranks : SH!RowOf(r, t) >= 0}

(* One rank serves the token, in the slot where its logit is found.         *)
Served(t) ==
  \E r \in SH!Ranks :
    /\ Holders(t) = {r}
    /\ SH!RowOf(r, t) < SH!PerRank
    /\ SH!Mapping[t + 1] = r * SH!PerRank + SH!RowOf(r, t)
    /\ At(SH!Mapping[t + 1]) = (IF t < vocab.org THEN t + 1 ELSE 0)

LEMMA OrgServed ==
  ASSUME ShardTyped, Loaded, NEW o, NEW a, LaysOut(o, a), NEW t \in 0..(vocab.org - 1)
  PROVE  Served(t)
<1>1. /\ tp \in Nat \ {0} /\ vocab.org \in Nat /\ vocab.added \in Nat
      /\ o \in Nat /\ a \in Nat /\ SH!PerRank = o + a /\ vocab.org <= tp * o
  BY DEF ShardTyped, LaysOut, Fits
<1>2. PICK i \in 1..tp : InRun(i, t, o, vocab.org)
  BY <1>1, RunOf
<1>3. PICK r, x : r = i - 1 /\ x = t - Cut(i - 1, o, vocab.org)
  OBVIOUS
<1>4. r \in SH!Ranks /\ i = r + 1 /\ r \in Int /\ t \in Int /\ i \in Nat \ {0}
  BY <1>1, <1>3 DEF SH!Ranks
<1>5. SH!RowOf(r, t) = x
  <2>1. RowsOf(i, o, a)
    BY RowsAre, Zenon
  <2> QED
    BY <1>2, <1>3, <1>4, <2>1, Zenon DEF RowsOf
<1>6. x \in 0..(Part(i, o, vocab.org) - 1) /\ Part(i, o, vocab.org) \in 0..o
  BY <1>1, <1>2, <1>3, <1>4, InRunIs
<1>7. x \in 0..(o + a - 1) /\ x \in Nat /\ x < o + a
  BY <1>1, <1>6
<1>8. ASSUME NEW q \in SH!Ranks, q # r PROVE ~(SH!RowOf(q, t) >= 0)
  <2>1. PICK j : j = q + 1
    OBVIOUS
  <2>2. j \in 1..tp /\ j - 1 = q /\ j \in Nat \ {0} /\ j # i /\ j - 1 \in Nat
    BY <1>1, <1>4, <1>8, <2>1 DEF SH!Ranks
  <2>3. ~InRun(j, t, o, vocab.org)
    BY <1>1, <1>2, <1>4, <2>2, OneRun
  <2>4. ~InRun(j, t - vocab.org, a, vocab.added)
    <3>1. Cut(j - 1, a, vocab.added) \in Nat
      BY <1>1, <2>2, CutIs
    <3> QED
      BY <1>1, <3>1 DEF InRun
  <2>5. RowsOf(j, o, a)
    BY <2>2, RowsAre, Zenon
  <2>6. SH!RowOf(j - 1, t) = -1
    BY <1>4, <2>3, <2>4, <2>5, Zenon DEF RowsOf
  <2>7. SH!RowOf(q, t) = -1
    BY <2>2, <2>6, Zenon
  <2>8. ~(-1 >= 0)
    OBVIOUS
  <2> QED
    BY <2>7, <2>8, Zenon
<1>9. Holders(t) = {r}
  <2>1. x >= 0
    BY <1>7
  <2>2. SH!RowOf(r, t) >= 0
    BY <1>5, <2>1, Zenon
  <2>3. r \in Holders(t)
    BY <1>4, <2>2, Zenon DEF Holders
  <2>4. \A q \in Holders(t) : q = r
    BY <1>8, Zenon DEF Holders
  <2> QED
    BY <2>3, <2>4, Zenon
<1>10. SH!Mapping[t + 1] = Slot(r, x, o + a)
  <2>1. Mapped(SH!Mapping, o, a, vocab.org, vocab.added, tp)
    BY MappingIs, Zenon
  <2> QED
    BY <1>2, <1>3, <1>4, <2>1, Zenon DEF Mapped
<1>11. Slot(r, x, o + a) = r * SH!PerRank + SH!RowOf(r, t)
  <2>1. (o + a) * r = r * (o + a)
    BY <1>1, <1>4
  <2> QED
    BY <1>1, <1>5, <2>1 DEF Slot
<1>12. At(Slot(r, x, o + a)) = t + 1
  <2>1. At(Slot(i - 1, x, o + a)) = Holds(i, x, o)
    BY <1>7, Gathers, Zenon
  <2>2. x < Part(i, o, vocab.org)
    BY <1>6
  <2>3. Cut(i - 1, o, vocab.org) + x = t
    <3>1. i - 1 \in Nat
      BY <1>4
    <3>2. Cut(i - 1, o, vocab.org) \in Nat
      BY <1>1, <3>1, CutIs
    <3> QED
      BY <1>3, <1>4, <3>2
  <2>4. Holds(i, x, o) = t + 1
    BY <2>2, <2>3, Zenon DEF Holds
  <2> QED
    BY <1>3, <2>1, <2>4
<1>13. t < vocab.org
  BY <1>1
<1> QED
  BY <1>4, <1>1, <1>5, <1>7, <1>9, <1>10, <1>11, <1>12, <1>13 DEF Served

LEMMA AddedServed ==
  ASSUME ShardTyped, Loaded, NEW o, NEW a, LaysOut(o, a), NEW t \in vocab.org..(SH!Full - 1)
  PROVE  Served(t)
<1>1. /\ tp \in Nat \ {0} /\ vocab.org \in Nat /\ vocab.added \in Nat
      /\ o \in Nat /\ a \in Nat /\ SH!PerRank = o + a /\ vocab.added <= tp * a
  BY DEF ShardTyped, LaysOut, Fits
<1>0. PICK u : u = t - vocab.org
  OBVIOUS
<1>00. u \in 0..(vocab.added - 1) /\ t \in Int /\ u \in Int /\ vocab.org + u + 1 = t + 1
  BY <1>0, <1>1 DEF SH!Full
<1>2. PICK i \in 1..tp : InRun(i, u, a, vocab.added)
  BY <1>00, <1>1, RunOf
<1>3. PICK r, y, x : r = i - 1 /\ y = u - Cut(i - 1, a, vocab.added) /\ x = o + y
  OBVIOUS
<1>4. r \in SH!Ranks /\ i = r + 1 /\ r \in Int /\ t \in Int /\ i \in Nat \ {0}
  BY <1>00, <1>1, <1>3 DEF SH!Ranks
<1>5. SH!RowOf(r, t) = x
  <2>1. RowsOf(i, o, a)
    BY RowsAre, Zenon
  <2> QED
    BY <1>0, <1>2, <1>3, <1>4, <2>1, Zenon DEF RowsOf
<1>6. y \in 0..(Part(i, a, vocab.added) - 1) /\ Part(i, a, vocab.added) \in 0..a
  BY <1>00, <1>1, <1>2, <1>3, <1>4, InRunIs
<1>7. x \in 0..(o + a - 1) /\ x \in Nat /\ x < o + a /\ x >= o
  BY <1>1, <1>3, <1>6
<1>8. ASSUME NEW q \in SH!Ranks, q # r PROVE ~(SH!RowOf(q, t) >= 0)
  <2>1. PICK j : j = q + 1
    OBVIOUS
  <2>2. j \in 1..tp /\ j - 1 = q /\ j \in Nat \ {0} /\ j # i /\ j \in Nat
    BY <1>1, <1>4, <1>8, <2>1 DEF SH!Ranks
  <2>3. ~InRun(j, u, a, vocab.added)
    BY <1>00, <1>1, <1>2, <1>4, <2>2, OneRun
  <2>4. ~InRun(j, t, o, vocab.org)
    <3>1. Cut(j, o, vocab.org) \in Nat /\ Cut(j, o, vocab.org) <= vocab.org
      BY <1>1, <2>2, CutIs
    <3> QED
      BY <1>0, <1>00, <1>1, <3>1 DEF InRun
  <2>5. RowsOf(j, o, a)
    BY <2>2, RowsAre, Zenon
  <2>6. SH!RowOf(j - 1, t) = -1
    BY <1>0, <1>4, <2>3, <2>4, <2>5, Zenon DEF RowsOf
  <2>7. SH!RowOf(q, t) = -1
    BY <2>2, <2>6, Zenon
  <2>8. ~(-1 >= 0)
    OBVIOUS
  <2> QED
    BY <2>7, <2>8, Zenon
<1>9. Holders(t) = {r}
  <2>1. x >= 0
    BY <1>7
  <2>2. SH!RowOf(r, t) >= 0
    BY <1>5, <2>1, Zenon
  <2>3. r \in Holders(t)
    BY <1>4, <2>2, Zenon DEF Holders
  <2>4. \A q \in Holders(t) : q = r
    BY <1>8, Zenon DEF Holders
  <2> QED
    BY <2>3, <2>4, Zenon
<1>10. SH!Mapping[t + 1] = Slot(r, x, o + a)
  <2>1. Mapped(SH!Mapping, o, a, vocab.org, vocab.added, tp)
    BY MappingIs, Zenon
  <2>2. SH!Mapping[vocab.org + u + 1] = Slot(i - 1, o + (u - Cut(i - 1, a, vocab.added)), o + a)
    BY <1>00, <1>2, <2>1, Zenon DEF Mapped
  <2> QED
    BY <1>00, <1>3, <2>2, Zenon
<1>11. Slot(r, x, o + a) = r * SH!PerRank + SH!RowOf(r, t)
  <2>1. (o + a) * r = r * (o + a)
    BY <1>1, <1>4
  <2> QED
    BY <1>1, <1>5, <2>1 DEF Slot
<1>12. At(Slot(r, x, o + a)) = 0
  <2>1. At(Slot(i - 1, x, o + a)) = Holds(i, x, o)
    BY <1>7, Gathers, Zenon
  <2>2. Part(i, o, vocab.org) \in 0..o
    BY <1>1, <1>4, PartIs
  <2>3. ~(x < Part(i, o, vocab.org))
    BY <1>1, <1>7, <2>2
  <2>4. Holds(i, x, o) = 0
    BY <2>3, Zenon DEF Holds
  <2> QED
    BY <1>3, <2>1, <2>4
<1>13. ~(t < vocab.org)
  BY <1>0, <1>00, <1>1
<1> QED
  BY <1>4, <1>1, <1>5, <1>7, <1>9, <1>10, <1>11, <1>12, <1>13 DEF Served

(* Behind the tokens the gathered rows are padding.                         *)
LEMMA PaddingLast ==
  ASSUME ShardTyped, Loaded, NEW o, NEW a, LaysOut(o, a),
         NEW k \in (SH!Full + 1)..SH!FullPadded
  PROVE  At(SH!Mapping[k]) = 0
<1>1. /\ tp \in Nat \ {0} /\ vocab.org \in Nat /\ vocab.added \in Nat
      /\ o \in Nat /\ a \in Nat /\ SH!FullPadded = tp * (o + a)
  BY DEF ShardTyped, LaysOut, Fits
<1>2. Mapped(SH!Mapping, o, a, vocab.org, vocab.added, tp)
  BY MappingIs, Zenon
<1>3. k \in (vocab.org + vocab.added + 1)..(tp * (o + a))
  BY <1>1 DEF SH!Full
<1>4. PICK i \in 1..tp : \E x \in 0..(o + a - 1) :
         /\ Unused(i, x, o, a, vocab.org, vocab.added)
         /\ SH!Mapping[k] = Slot(i - 1, x, o + a)
  BY <1>2, <1>3, Zenon DEF Mapped
<1>5. PICK x \in 0..(o + a - 1) :
         /\ Unused(i, x, o, a, vocab.org, vocab.added)
         /\ SH!Mapping[k] = Slot(i - 1, x, o + a)
  BY <1>4, Zenon
<1>6. At(Slot(i - 1, x, o + a)) = Holds(i, x, o)
  BY Gathers, Zenon
<1>7. Part(i, o, vocab.org) \in 0..o /\ Part(i, a, vocab.added) \in 0..a
  <2>1. i \in Nat \ {0}
    OBVIOUS
  <2> QED
    BY <1>1, <2>1, PartIs
<1>8. ~(x < Part(i, o, vocab.org))
  BY <1>1, <1>5, <1>7 DEF Unused
<1>9. Holds(i, x, o) = 0
  BY <1>8, Zenon DEF Holds
<1> QED
  BY <1>5, <1>6, <1>9, Zenon

LEMMA VocabularyIs ==
  ASSUME ShardTyped, Loaded
  PROVE  SH!VocabularyServed
<1>1. PICK o : \E a : LaysOut(o, a)
  BY LaidOut
<1>2. PICK a : LaysOut(o, a)
  BY <1>1
<1>3. /\ tp \in Nat \ {0} /\ vocab.org \in Nat /\ vocab.added \in Nat
      /\ o \in Nat /\ a \in Nat /\ SH!FullPadded = tp * (o + a)
      /\ Fits(o, a, vocab.org, vocab.added, tp)
  BY <1>2 DEF ShardTyped, LaysOut, Fits
<1>4. Mapped(SH!Mapping, o, a, vocab.org, vocab.added, tp)
  BY <1>2, MappingIs, Zenon
<1>5. Len(SH!Mapping) = SH!FullPadded
  BY <1>3, <1>4 DEF Mapped
<1>6. SH!ToSet(SH!Mapping) = 0..(SH!FullPadded - 1)
  <2>1. PICK f : f = SH!Mapping
    OBVIOUS
  <2>2. Mapped(f, o, a, vocab.org, vocab.added, tp)
    BY <1>4, <2>1, Zenon
  <2>3. {f[k] : k \in DOMAIN f} = 0..(tp * (o + a) - 1)
    BY <1>3, <2>2, EverySlot
  <2>4. SH!ToSet(f) = 0..(tp * (o + a) - 1)
    BY <2>3 DEF SH!ToSet
  <2> QED
    BY <1>3, <2>1, <2>4, Zenon
<1>7. \A t \in 0..(SH!Full - 1) : Served(t)
  <2> SUFFICES ASSUME NEW t \in 0..(SH!Full - 1) PROVE Served(t)
    OBVIOUS
  <2>1. t \in 0..(vocab.org - 1) \/ t \in vocab.org..(SH!Full - 1)
    BY <1>3 DEF SH!Full
  <2> QED
    BY <1>2, <2>1, OrgServed, AddedServed, Zenon
<1>8. \A k \in (SH!Full + 1)..SH!FullPadded : At(SH!Mapping[k]) = 0
  BY <1>2, PaddingLast, Zenon
<1> QED
  BY <1>5, <1>6, <1>7, <1>8 DEF SH!VocabularyServed, Served, Holders, At

(****************************************************************************)
(* The shards of a linear layer                                             *)
(****************************************************************************)

(* The checkpoint's rows and zeros behind them.                             *)
Row(k, w) == IF k <= w THEN k ELSE 0

LEMMA ShardsAre ==
  ASSUME ShardTyped, Loaded
  PROVE  SH!ShardsConcatenate
<1>1. tp \in Nat \ {0} /\ width \in Nat /\ tp \in Nat
  BY DEF ShardTyped
<1>2. PICK c : c = SH!CeilTo(width, tp)
  OBVIOUS
<1>3. PICK q \in Nat : c = q * tp
  <2>1. IsCeil(SH!CeilTo(width, tp), width, tp)
    BY <1>1, CeilIs, Zenon
  <2> QED
    BY <1>2, <2>1 DEF IsCeil
<1>4. c \div tp = q
  <2>1. q \in Int
    OBVIOUS
  <2> QED
    BY <1>1, <1>3, <2>1, Exactly
<1>5. PICK e : e = [i \in 0..tp |-> i * q]
  OBVIOUS
<1>6. \A i \in 0..tp : e[i] \in Nat /\ e[i] = i * q
  BY <1>1, <1>5
<1>7. e \in [0..tp -> Nat] /\ e[0] = 0 /\ e[tp] = c
  <2>1. 0 \in 0..tp /\ tp \in 0..tp /\ 0 * q = 0 /\ tp * q = q * tp
    BY <1>1
  <2>2. e[0] = 0 /\ e[tp] = c
    BY <1>3, <1>5, <2>1
  <2>3. e \in [0..tp -> Nat]
    BY <1>5, <1>6
  <2> QED
    BY <2>2, <2>3
<1>8. \A i, j \in 0..tp : i <= j => e[i] <= e[j]
  <2> SUFFICES ASSUME NEW i \in 0..tp, NEW j \in 0..tp, i <= j PROVE e[i] <= e[j]
    OBVIOUS
  <2>1. i \in Nat /\ j \in Nat
    BY <1>1
  <2>2. i * q <= j * q
    BY <2>1, CutGrows
  <2> QED
    BY <1>6, <2>2
<1>9. \A i \in 1..tp : e[i - 1] = (i - 1) * q /\ e[i] = e[i - 1] + q /\ e[i - 1] \in Nat
  <2> SUFFICES ASSUME NEW i \in 1..tp
               PROVE  e[i - 1] = (i - 1) * q /\ e[i] = e[i - 1] + q /\ e[i - 1] \in Nat
    OBVIOUS
  <2>1. PICK j : j = i - 1
    OBVIOUS
  <2>2. j \in 0..tp /\ i = j + 1 /\ i \in 0..tp /\ j \in Nat
    BY <1>1, <2>1
  <2>3. i * q = j * q + q
    BY <2>2
  <2> QED
    BY <1>6, <2>1, <2>2, <2>3
<1>10. ASSUME NEW i \in 1..tp
       PROVE  /\ shards[i] \in Seq(Int) /\ Len(shards[i]) = e[i] - e[i - 1]
              /\ Len(shards[i]) = q
              /\ \A k \in 1..q : shards[i][k] = Row(e[i - 1] + k, width)
  <2>1. shards[i] = SH!LoadedShard(i - 1)
    BY DEF Loaded
  <2>2. SH!LoadedShard(i - 1) = SH!PadThenNarrow(width, (i - 1) * q, q)
    BY <1>2, <1>4 DEF SH!LoadedShard
  <2>3. SH!LoadedShard(i - 1) = SH!PadThenNarrow(width, e[i - 1], q)
    BY <1>9, <2>2
  <2>4. shards[i] = [k \in 1..q |-> Row(e[i - 1] + k, width)]
    BY <2>1, <2>3 DEF SH!PadThenNarrow, Row
  <2>5. e[i - 1] \in Nat /\ e[i] - e[i - 1] = q
    BY <1>9
  <2>6. \A k \in 1..q : Row(e[i - 1] + k, width) \in Int
    BY <1>1, <2>5 DEF Row
  <2> QED
    BY <2>4, <2>5, <2>6
<1>11. Pieces(shards, e, tp)
  <2>1. DOMAIN shards = 1..tp /\ shards = [i \in 1..tp |-> shards[i]]
    BY DEF Loaded
  <2>2. \A i \in 1..tp : shards[i] \in Seq(Int) /\ Len(shards[i]) = e[i] - e[i - 1]
    BY <1>10
  <2> QED
    BY <1>1, <1>7, <1>8, <2>1, <2>2 DEF Pieces
<1>12. PICK f : f = SH!FlattenSeq(shards)
  OBVIOUS
<1>13. IsFlat(f, shards, e, tp)
  <2>1. IsFlat(SH!FlattenSeq(shards), shards, e, tp)
    BY <1>11, Flattened, Zenon
  <2> QED
    BY <1>12, <2>1, Zenon
<1>14. f \in Seq(Int) /\ Len(f) = c
  BY <1>7, <1>13 DEF IsFlat
<1>15. ASSUME NEW k \in 1..c PROVE f[k] = Row(k, width)
  <2>1. PICK i \in 1..tp :
          k - e[i - 1] \in 1..Len(shards[i]) /\ f[k] = shards[i][k - e[i - 1]]
    BY <1>7, <1>13 DEF IsFlat
  <2>2. PICK j : j = k - e[i - 1]
    OBVIOUS
  <2>3. Len(shards[i]) = q
    BY <1>10, Zenon
  <2>4. j \in 1..q /\ e[i - 1] + j = k
    BY <1>9, <2>1, <2>2, <2>3
  <2>5. shards[i][j] = Row(e[i - 1] + j, width)
    BY <1>10, <2>4
  <2> QED
    BY <2>1, <2>2, <2>4, <2>5
<1>16. f = [k \in 1..c |-> Row(k, width)]
  <2>1. f = [k \in 1..c |-> f[k]]
    BY <1>14
  <2> QED
    BY <1>15, <2>1
<1> QED
  BY <1>2, <1>12, <1>16 DEF SH!ShardsConcatenate, Row

(****************************************************************************)
(* The drafter's heads                                                      *)
(****************************************************************************)

LEMMA MaxOf ==
  ASSUME NEW x \in Int, NEW y \in Int, x <= y
  PROVE  SH!Max({x, y}) = y
<1>1. \E p \in {x, y} : \A q \in {x, y} : p >= q
  OBVIOUS
<1>2. SH!Max({x, y}) \in {x, y} /\ \A q \in {x, y} : SH!Max({x, y}) >= q
  BY <1>1 DEF SH!Max
<1> QED
  BY <1>2

(* Each rank has m key heads and four times as many query heads.            *)
Headed(m) ==
  /\ m \in Nat \ {0}
  /\ SH!DraftKV = m * tp /\ SH!DraftQ = (4 * m) * tp
  /\ SH!DraftKV \div tp = m /\ SH!DraftQ \div tp = 4 * m
  /\ SH!DraftKV % tp = 0 /\ SH!DraftQ % tp = 0

LEMMA HeadsDivide ==
  ASSUME ShardTyped
  PROVE  \E m : Headed(m)
<1>1. tp \in Nat \ {0} /\ tp \in Nat
  BY DEF ShardTyped
<1>2. SH!StockQ = 32 /\ SH!StockKV = 8 /\ SH!Ratio = 4
  BY DEF SH!StockQ, SH!StockKV, SH!Ratio
<1>3. PICK m \in Nat : SH!CeilTo(8, tp) = m * tp /\ 8 <= m * tp
  <2>1. IsCeil(SH!CeilTo(8, tp), 8, tp)
    BY <1>1, CeilIs
  <2> QED
    BY <2>1 DEF IsCeil
<1>4. PICK q \in Nat : SH!CeilTo(32, tp) = q * tp /\ q * tp < 32 + tp
  <2>1. IsCeil(SH!CeilTo(32, tp), 32, tp)
    BY <1>1, CeilIs
  <2> QED
    BY <2>1 DEF IsCeil
<1>5. PICK u, v : u = m * tp /\ v = q * tp
  OBVIOUS
<1>6. u \in Nat /\ v \in Nat /\ 8 <= u /\ v < 32 + tp
  BY <1>1, <1>3, <1>4, <1>5
<1>7. (4 * m) * tp = 4 * u /\ u * 4 = 4 * u /\ 4 * m \in Nat
  <2>1. 4 * (m * tp) = (4 * m) * tp
    BY <1>1, Associates
  <2> QED
    BY <1>5, <1>6, <2>1
<1>8. v <= 4 * u
  <2>1. CASE q <= 4 * m
    <3>1. q * tp <= (4 * m) * tp
      BY <1>1, <1>7, <2>1, CutGrows
    <3> QED
      BY <1>5, <1>7, <3>1
  <2>2. CASE 4 * m < q
    <3>1. (4 * m) * tp + tp <= q * tp
      BY <1>1, <1>7, <2>2, Grows
    <3>2. 4 * u + tp <= v
      BY <1>5, <1>7, <3>1
    <3> QED
      BY <1>1, <1>6, <3>2
  <2> QED
    BY <1>7, <2>1, <2>2
<1>9. SH!DraftKV = u
  BY <1>2, <1>3, <1>5 DEF SH!DraftKV
<1>10. SH!DraftQ = 4 * u
  <2>1. SH!Max({v, 4 * u}) = 4 * u
    BY <1>6, <1>8, MaxOf
  <2>2. SH!CeilTo((4 * m) * tp, tp) = (4 * m) * tp
    BY <1>1, <1>7, CeilOf
  <2>3. SH!DraftQ = SH!CeilTo(SH!Max({v, u * 4}), tp)
    BY <1>2, <1>4, <1>5, <1>9 DEF SH!DraftQ
  <2> QED
    BY <1>7, <2>1, <2>2, <2>3, Zenon
<1>11. m # 0
  <2> SUFFICES ASSUME m = 0 PROVE FALSE
    OBVIOUS
  <2>1. m * tp = 0
    BY <1>1
  <2> QED
    BY <1>5, <1>6, <2>1
<1>12. /\ (m * tp) \div tp = m /\ (m * tp) % tp = 0
       /\ ((4 * m) * tp) \div tp = 4 * m /\ ((4 * m) * tp) % tp = 0
  <2>1. m \in Int /\ 4 * m \in Int
    OBVIOUS
  <2> QED
    BY <1>1, <2>1, Exactly
<1> QED
  BY <1>5, <1>7, <1>9, <1>10, <1>11, <1>12, Zenon DEF Headed

(* A query head counted on its rank, four to a key head.                    *)
LEMMA HeadOf ==
  ASSUME NEW m \in Nat \ {0}, NEW h \in 0..31
  PROVE  /\ (h % (4 * m)) \div 4 \in 0..(m - 1)
         /\ (h \div (4 * m)) * m + (h % (4 * m)) \div 4 = h \div 4
         /\ h \div 4 \in 0..7
<1>1. PICK l : l = 4 * m
  OBVIOUS
<1>2. l \in Nat \ {0} /\ h \in Int
  BY <1>1
<1>3. PICK r, q : r = h \div l /\ q = h % l
  OBVIOUS
<1>4. r \in Int /\ q \in 0..(l - 1) /\ h = r * l + q
  BY <1>2, <1>3, Divided
<1>5. PICK x, y : x = q \div 4 /\ y = q % 4
  OBVIOUS
<1>6. x \in Int /\ y \in 0..3 /\ q = x * 4 + y
  BY <1>2, <1>4, <1>5
<1>7. PICK z : z = r * m
  OBVIOUS
<1>8. z \in Int /\ r * l = 4 * z
  <2>1. l = m * 4
    BY <1>1
  <2>2. r * (m * 4) = (r * m) * 4 /\ r * m \in Int
    BY <1>4, Associates
  <2> QED
    BY <1>7, <2>1, <2>2
<1>9. h = (z + x) * 4 + y
  <2>1. h = 4 * z + q
    BY <1>4, <1>8
  <2> QED
    BY <1>6, <1>8, <2>1
<1>10. h \div 4 = z + x
  BY <1>6, <1>8, <1>9
<1>11. x \in 0..(m - 1)
  BY <1>1, <1>2, <1>4, <1>6
<1>12. h \div 4 \in 0..7
  OBVIOUS
<1> QED
  BY <1>1, <1>3, <1>5, <1>7, <1>10, <1>11, <1>12

LEMMA HeadsAre ==
  ASSUME ShardTyped
  PROVE  SH!HeadsKeepTheirKeys
<1>1. PICK m : Headed(m)
  BY HeadsDivide
<1>2. /\ m \in Nat \ {0} /\ SH!DraftKV \div tp = m /\ SH!DraftQ \div tp = 4 * m
      /\ SH!DraftKV % tp = 0 /\ SH!DraftQ % tp = 0
  BY <1>1 DEF Headed
<1>3. SH!StockQ = 32 /\ SH!StockKV = 8 /\ SH!Ratio = 4
  BY DEF SH!StockQ, SH!StockKV, SH!Ratio
<1>4. (4 * m) % m = 0 /\ (4 * m) \div m = 4
  <2>1. 4 \in Int
    OBVIOUS
  <2> QED
    BY <1>2, <2>1, Exactly
<1>5. ASSUME NEW h \in 0..31
      PROVE  SH!KeyOf(h \div (4 * m), h % (4 * m)) = (h \div 4) + 1
  <2>1. PICK r, q, x : r = h \div (4 * m) /\ q = h % (4 * m) /\ x = q \div 4
    OBVIOUS
  <2>2. x \in 0..(m - 1) /\ r * m + x = h \div 4 /\ h \div 4 \in 0..7
    BY <1>2, <2>1, HeadOf
  <2>3. r \in Int /\ r \div 1 = r
    <3>1. 4 * m \in Nat \ {0} /\ h \in Int
      BY <1>2
    <3>2. r \in Int
      BY <2>1, <3>1, Divided
    <3> QED
      BY <3>2
  <2>4. SH!KeyOf(r, q) = SH!LoadedKeys(r, 8, m, 1)[1 + x]
    BY <1>2, <1>3, <1>4, <2>1 DEF SH!KeyOf
  <2>5. SH!LoadedKeys(r, 8, m, 1) = SH!PadThenNarrow(8, r * m, m)
    BY <2>3 DEF SH!LoadedKeys
  <2>6. PICK z : z = r * m
    OBVIOUS
  <2>7. SH!PadThenNarrow(8, z, m)[1 + x] = IF z + (1 + x) <= 8 THEN z + (1 + x) ELSE 0
    <3>1. 1 + x \in 1..m
      BY <1>2, <2>2
    <3> QED
      BY <3>1 DEF SH!PadThenNarrow
  <2>8. z \in Int /\ x \in Int
    BY <1>2, <2>2, <2>3, <2>6
  <2>9. z + (1 + x) = (h \div 4) + 1 /\ z + (1 + x) <= 8
    BY <2>2, <2>6, <2>8
  <2>10. SH!PadThenNarrow(8, z, m)[1 + x] = (h \div 4) + 1
    BY <2>7, <2>9, Zenon
  <2> QED
    BY <2>1, <2>4, <2>5, <2>6, <2>10, Zenon
<1>6. \A h \in 0..(SH!StockQ - 1) : SH!KeyOf(h \div (SH!DraftQ \div tp), h % (SH!DraftQ \div tp))
                                      = (h \div SH!Ratio) + 1
  <2>1. SH!StockQ - 1 = 31
    BY <1>3
  <2> QED
    BY <1>2, <1>3, <1>5, <2>1, Zenon
<1> QED
  BY <1>2, <1>4, <1>6 DEF SH!HeadsKeepTheirKeys, SH!Divides

(****************************************************************************)
(* The ranks load                                                           *)
(****************************************************************************)

LoadedTables == {SH!LoadedTable(r) : r \in Int}
LoadedShards == {SH!LoadedShard(r) : r \in Int}

(* Each rank that has loaded holds its own part, and no other does.         *)
ShardInv ==
  /\ ShardTyped
  /\ tables \in Seq(LoadedTables) /\ shards \in Seq(LoadedShards)
  /\ Len(shards) = Len(tables) /\ Len(tables) <= tp
  /\ \A i \in 1..Len(tables) :
       tables[i] = SH!LoadedTable(i - 1) /\ shards[i] = SH!LoadedShard(i - 1)

LEMMA SizesKept ==
  ASSUME tp' = tp, vocab' = vocab, width' = width
  PROVE  /\ \A r \in Int : (SH!LoadedTable(r))' = SH!LoadedTable(r)
         /\ \A r \in Int : (SH!LoadedShard(r))' = SH!LoadedShard(r)
<1>1. /\ (SH!OrgPadded)' = SH!OrgPadded /\ (SH!FullPadded)' = SH!FullPadded
      /\ (SH!PerRank)' = SH!PerRank
  BY DEF SH!OrgPadded, SH!FullPadded, SH!PerRank, SH!Unit, SH!CeilTo, SH!Divides, SH!Lcm
<1>2. ASSUME NEW r \in Int PROVE (SH!Indices(r))' = SH!Indices(r)
  BY <1>1 DEF SH!Indices, SH!Full
<1>3. ASSUME NEW r \in Int PROVE (SH!LoadedTable(r))' = SH!LoadedTable(r)
  BY <1>1, <1>2 DEF SH!LoadedTable
<1>4. ASSUME NEW r \in Int PROVE (SH!LoadedShard(r))' = SH!LoadedShard(r)
  BY DEF SH!LoadedShard, SH!CeilTo, SH!PadThenNarrow
<1> QED
  BY <1>3, <1>4

LEMMA Appended ==
  ASSUME NEW S, NEW s \in Seq(S), NEW e \in S
  PROVE  /\ Append(s, e) \in Seq(S) /\ Len(Append(s, e)) = Len(s) + 1 /\ Len(s) \in Nat
         /\ \A i \in 1..Len(s) : Append(s, e)[i] = s[i]
         /\ Append(s, e)[Len(s) + 1] = e
OBVIOUS

LEMMA ShardInitInv ==
  ASSUME SH!ShardInit
  PROVE  ShardInv
<1>1. /\ ShardSizes \subseteq Nat \ {0} /\ ShardPads \subseteq Nat \ {0}
      /\ ShardWidths \subseteq Nat /\ ShardVocabularies \subseteq Nat \X Nat
  BY ServingAssumption DEF SH!ShardAssumption
<1>2. PICK pad \in ShardPads, v \in ShardVocabularies :
        vocab = [pad |-> pad, org |-> v[1], added |-> v[2]]
  BY DEF SH!ShardInit
<1>3. ShardTyped
  <2>1. v[1] \in Nat /\ v[2] \in Nat /\ pad \in Nat \ {0}
    BY <1>1
  <2>2. tp \in Nat \ {0} /\ width \in Nat
    BY <1>1 DEF SH!ShardInit
  <2> QED
    BY <1>2, <2>1, <2>2 DEF ShardTyped
<1>4. tables = <<>> /\ shards = <<>> /\ tp \in Nat
  BY <1>3 DEF SH!ShardInit, ShardTyped
<1> QED
  BY <1>3, <1>4 DEF ShardInv

LEMMA ShardNextInv ==
  ASSUME ShardInv, [SH!ShardNext]_shardvars
  PROVE  ShardInv'
<1>1. tp' = tp /\ vocab' = vocab /\ width' = width
  BY DEF SH!ShardNext, SH!LoadRank, shardvars
<1>2. ShardTyped'
  BY <1>1 DEF ShardInv, ShardTyped
<1>3. /\ \A r \in Int : (SH!LoadedTable(r))' = SH!LoadedTable(r)
      /\ \A r \in Int : (SH!LoadedShard(r))' = SH!LoadedShard(r)
  BY <1>1, SizesKept
<1>4. LoadedTables' = LoadedTables /\ LoadedShards' = LoadedShards
  BY <1>3 DEF LoadedTables, LoadedShards
<1>5. PICK n : n = Len(tables)
  OBVIOUS
<1>6. /\ n \in Nat /\ tp \in Nat /\ n <= tp /\ Len(shards) = n
      /\ tables \in Seq(LoadedTables) /\ shards \in Seq(LoadedShards)
      /\ \A i \in 1..n : tables[i] = SH!LoadedTable(i - 1) /\ shards[i] = SH!LoadedShard(i - 1)
  BY <1>5 DEF ShardInv, ShardTyped
<1>7. CASE UNCHANGED <<tables, shards>>
  <2>1. \A i \in 1..n : /\ tables'[i] = (SH!LoadedTable(i - 1))'
                        /\ shards'[i] = (SH!LoadedShard(i - 1))'
    BY <1>3, <1>6, <1>7
  <2> QED
    BY <1>1, <1>2, <1>4, <1>5, <1>6, <1>7, <2>1 DEF ShardInv
<1>8. CASE SH!LoadRank
  <2>1. /\ n < tp
        /\ tables' = Append(tables, SH!LoadedTable(n))
        /\ shards' = Append(shards, SH!LoadedShard(n))
    BY <1>5, <1>8 DEF SH!LoadRank
  <2>2. SH!LoadedTable(n) \in LoadedTables /\ SH!LoadedShard(n) \in LoadedShards
    BY <1>6 DEF LoadedTables, LoadedShards
  <2>3. /\ tables' \in Seq(LoadedTables) /\ Len(tables') = n + 1
        /\ \A i \in 1..n : tables'[i] = tables[i]
        /\ tables'[n + 1] = SH!LoadedTable(n)
    BY <1>5, <1>6, <2>1, <2>2, Appended
  <2>4. /\ shards' \in Seq(LoadedShards) /\ Len(shards') = n + 1
        /\ \A i \in 1..n : shards'[i] = shards[i]
        /\ shards'[n + 1] = SH!LoadedShard(n)
    BY <1>6, <2>1, <2>2, Appended
  <2>5. ASSUME NEW i \in 1..(n + 1)
        PROVE  tables'[i] = SH!LoadedTable(i - 1) /\ shards'[i] = SH!LoadedShard(i - 1)
    <3>1. CASE i \in 1..n
      BY <1>6, <2>3, <2>4, <3>1, Zenon
    <3>2. CASE i = n + 1
      <4>1. i - 1 = n
        BY <1>6, <3>2
      <4> QED
        BY <2>3, <2>4, <3>2, <4>1, Zenon
    <3> QED
      BY <1>6, <3>1, <3>2
  <2>6. ASSUME NEW i \in 1..(n + 1)
        PROVE  /\ tables'[i] = (SH!LoadedTable(i - 1))'
               /\ shards'[i] = (SH!LoadedShard(i - 1))'
    BY <1>3, <1>6, <2>5
  <2>7. n + 1 <= tp
    BY <1>6, <2>1
  <2> QED
    BY <1>1, <1>2, <1>4, <2>3, <2>4, <2>6, <2>7 DEF ShardInv
<1> QED
  BY <1>7, <1>8 DEF SH!ShardNext, shardvars

LEMMA ShardInvServed ==
  ASSUME ShardInv
  PROVE  SH!VocabularyServed /\ SH!ShardsConcatenate /\ SH!HeadsKeepTheirKeys
<1>1. ShardTyped
  BY DEF ShardInv
<1>2. CASE SH!AllLoaded
  <2>1. /\ tables = [i \in 1..tp |-> tables[i]] /\ shards = [i \in 1..tp |-> shards[i]]
        /\ \A i \in 1..tp : tables[i] = SH!LoadedTable(i - 1) /\ shards[i] = SH!LoadedShard(i - 1)
    BY <1>2 DEF SH!AllLoaded, ShardInv
  <2>2. Loaded
    BY <2>1 DEF Loaded
  <2> QED
    BY <1>1, <2>2, VocabularyIs, ShardsAre, HeadsAre, Zenon
<1>3. CASE ~SH!AllLoaded
  BY <1>3 DEF SH!VocabularyServed, SH!ShardsConcatenate, SH!HeadsKeepTheirKeys
<1> QED
  BY <1>2, <1>3

(* Whatever the number of ranks, the unit of padding and the sizes: one     *)
(* rank serves a token, from the slot where its logit is found; the shards  *)
(* of a linear layer are the checkpoint's weight; and a query head of the   *)
(* drafter meets the key head it was trained with                           *)
(* (tp3/.../vocab_parallel_embedding.py, parameter.py, pad-tp3-config.py).  *)
THEOREM LayoutStaysServed == MCSpec => []LayoutServed
<1> DEFINE Inv == part = "shard" => ShardInv
<1>1. MCInit => Inv
  BY ShardInitInv DEF MCInit, ShardPart
<1>2. Inv /\ [MCNext]_<<part, vars, shardvars, densevars, moevars, akvars, coopvars,
                        gbvars, mavars, kpvars>> => Inv'
  BY ShardNextInv, OnlyItsPart
<1>3. Inv => LayoutServed
  BY ShardInvServed DEF LayoutServed
<1> QED
  BY <1>1, <1>2, <1>3, PTL DEF MCSpec
=============================================================================
