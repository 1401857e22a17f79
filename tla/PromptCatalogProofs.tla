------------------------- MODULE PromptCatalogProofs -------------------------
(***************************************************************************)
(* PromptCatalog for every set of types and every body that a request may  *)
(* have: the seed is in step with itself, and what the descriptors make of *)
(* an accepted body is a prompt as it should be.                           *)
(*                                                                         *)
(* A prompt is a concatenation of as many sequences of tokens as its       *)
(* template has places.  What is shown of each of them, and is kept when   *)
(* two are joined, holds of the prompt.                                    *)
(***************************************************************************)
EXTENDS PromptCatalog, SequenceTheorems, WellFoundedInduction, TLAPS

------------------------------------------------------------------------------
(* Positions *)

\* Any set of numbers that is not empty has a least one.
LEMMA LeastNumber ==
    ASSUME NEW S \in SUBSET Nat, S # {}
    PROVE  \E i \in S : \A j \in S : i <= j
  <1> DEFINE R == OpToRel(<, Nat)
  <1>1. PICK i \in S : \A j \in S : << j, i >> \notin R
    <2>1. IsWellFoundedOn(R, Nat)
      BY NatLessThanWellFounded
    <2> HIDE DEF R
    <2> QED
      BY <2>1, WFMin
  <1>2. \A j \in S : ~(j < i)
    BY <1>1 DEF OpToRel
  <1> QED
    BY <1>2

\* A set of positions that holds the first and with each the next holds all.
LEMMA AllPositions ==
    ASSUME NEW n \in Nat \ {0}, NEW S \in SUBSET (1 .. n), 1 \in S,
           \A i \in 1 .. (n - 1) : i \in S => i + 1 \in S
    PROVE  S = 1 .. n
  <1> DEFINE missing == (1 .. n) \ S
  <1>1. SUFFICES ASSUME missing # {} PROVE FALSE
    OBVIOUS
  <1>2. missing \in SUBSET Nat
    OBVIOUS
  <1>3. PICK k \in missing : \A m \in missing : k <= m
    <2> HIDE DEF missing
    <2> QED
      BY <1>1, <1>2, LeastNumber
  <1>4. k \in 1 .. n /\ k \notin S /\ k # 1
    BY <1>3
  <1>5. k - 1 \in 1 .. (n - 1) /\ k - 1 \in 1 .. n /\ (k - 1) + 1 = k
    BY <1>4
  <1>6. k - 1 \notin missing
    BY <1>3, <1>5
  <1> QED
    BY <1>4, <1>5, <1>6

------------------------------------------------------------------------------
(* Concatenation *)

Join(a, b) == a \o b

LEMMA JoinType ==
    ASSUME NEW T, NEW a \in Seq(T), NEW b \in Seq(T)
    PROVE  Join(a, b) \in Seq(T)
  BY DEF Join

\* g are the concatenations of the first of the n sequences segs over T, the
\* first two, and so on.
Joins(n, segs, T, g) ==
    /\ n \in Nat \ {0}
    /\ segs \in [1 .. n -> Seq(T)]
    /\ g \in [1 .. n -> Seq(T)]
    /\ g[1] = segs[1]
    /\ \A i \in 2 .. n : g[i] = Join(g[i - 1], segs[i])

\* The first k of them.
JoinsOf(k, segs, T, f) ==
    /\ f \in [1 .. k -> Seq(T)]
    /\ f[1] = segs[1]
    /\ \A i \in 2 .. k : f[i] = Join(f[i - 1], segs[i])

\* Those of the first k are extended to those of one more.
LEMMA JoinsExtend ==
    ASSUME NEW T, NEW n \in Nat \ {0}, NEW segs \in [1 .. n -> Seq(T)],
           NEW k \in 1 .. (n - 1), NEW f, JoinsOf(k, segs, T, f)
    PROVE  \E g : JoinsOf(k + 1, segs, T, g)
  <1>0. /\ f \in [1 .. k -> Seq(T)] /\ f[1] = segs[1]
        /\ \A i \in 2 .. k : f[i] = Join(f[i - 1], segs[i])
    BY DEF JoinsOf
  <1>1. k + 1 \in 1 .. n /\ segs[k + 1] \in Seq(T) /\ k \in 1 .. k /\ f[k] \in Seq(T)
    BY <1>0
  <1>2. PICK s \in Seq(T) : s = Join(f[k], segs[k + 1])
    BY <1>1, JoinType
  <1> DEFINE g == [i \in 1 .. (k + 1) |-> IF i = k + 1 THEN s ELSE f[i]]
  <1>3. g \in [1 .. (k + 1) -> Seq(T)]
    BY <1>0, <1>1
  <1>4. g[1] = segs[1]
    BY <1>0, <1>1
  <1>5. \A i \in 2 .. (k + 1) : g[i] = Join(g[i - 1], segs[i])
    <2>1. ASSUME NEW i \in 2 .. k
          PROVE  g[i] = Join(g[i - 1], segs[i])
      <3>1. g[i] = f[i] /\ g[i - 1] = f[i - 1]
        BY <2>1
      <3> QED
        BY <1>0, <2>1, <3>1
    <2>2. ASSUME NEW i \in 2 .. (k + 1), i = k + 1
          PROVE  g[i] = Join(g[i - 1], segs[i])
      <3>1. i - 1 = k /\ k \in 1 .. (k + 1) /\ k # k + 1 /\ i \in 1 .. (k + 1)
        BY <2>2
      <3>2. g[i] = s /\ g[i - 1] = f[k]
        BY <2>2, <3>1
      <3> HIDE DEF g
      <3> QED
        BY <1>2, <2>2, <3>2
    <2>3. \A i \in 2 .. (k + 1) : i \in 2 .. k \/ i = k + 1
      OBVIOUS
    <2> HIDE DEF g
    <2> QED
      BY <2>1, <2>2, <2>3
  <1> HIDE DEF g
  <1>6. JoinsOf(k + 1, segs, T, g)
    BY <1>3, <1>4, <1>5 DEF JoinsOf
  <1> QED
    BY <1>6

\* So they exist for all.
LEMMA JoinsExist ==
    ASSUME NEW T, NEW n \in Nat \ {0}, NEW segs \in [1 .. n -> Seq(T)]
    PROVE  \E g : Joins(n, segs, T, g)
  <1> DEFINE S == {k \in 1 .. n : \E f : JoinsOf(k, segs, T, f)}
  <1>1. 1 \in S
    <2> DEFINE f == [i \in 1 .. 1 |-> segs[1]]
    <2>1. f \in [1 .. 1 -> Seq(T)] /\ f[1] = segs[1]
      OBVIOUS
    <2> HIDE DEF f
    <2>2. JoinsOf(1, segs, T, f)
      BY <2>1 DEF JoinsOf
    <2> QED
      BY <2>2
  <1>2. ASSUME NEW k \in 1 .. (n - 1), k \in S
        PROVE  k + 1 \in S
    <2>1. PICK f : JoinsOf(k, segs, T, f)
      BY <1>2
    <2>2. \E g : JoinsOf(k + 1, segs, T, g)
      BY <2>1, JoinsExtend
    <2>3. k + 1 \in 1 .. n
      BY <1>2
    <2> QED
      BY <2>2, <2>3
  <1>3. S \in SUBSET (1 .. n)
    OBVIOUS
  <1>4. n \in S
    <2>1. n \in 1 .. n
      OBVIOUS
    <2> HIDE DEF S
    <2>2. S = 1 .. n
      BY <1>1, <1>2, <1>3, AllPositions
    <2> QED
      BY <2>1, <2>2
  <1>5. PICK g : JoinsOf(n, segs, T, g)
    BY <1>4
  <1>6. Joins(n, segs, T, g)
    BY <1>5 DEF Joins, JoinsOf
  <1> QED
    BY <1>6

\* FlattenSeq ends with the last of them.
LEMMA FlattenJoins ==
    ASSUME NEW T, NEW n \in Nat \ {0}, NEW segs \in [1 .. n -> Seq(T)]
    PROVE  \E g : Joins(n, segs, T, g) /\ FlattenSeq(segs) = g[n]
  <1>1. Len(segs) = n
    OBVIOUS
  <1> DEFINE Step(f) == [i \in 1 .. n |-> IF i = 1 THEN segs[i]
                                          ELSE Join(f[i - 1], segs[i])]
             flat == CHOOSE f : f = Step(f)
  <1>2. FlattenSeq(segs) = flat[n]
    BY <1>1 DEF FlattenSeq, Join
  <1>3. PICK f : Joins(n, segs, T, f)
    BY JoinsExist
  <1>4. f = Step(f)
    BY <1>3 DEF Joins
  <1>5. PICK g : g = flat /\ g = Step(g)
    <2> HIDE DEF Step
    <2> QED
      BY <1>4
  <1>6. \A i \in 1 .. n : g[i] = IF i = 1 THEN segs[i] ELSE Join(g[i - 1], segs[i])
    BY <1>5
  <1> DEFINE S == {k \in 1 .. n : g[k] \in Seq(T)}
  <1>7. 1 \in S
    BY <1>6
  <1>8. ASSUME NEW k \in 1 .. (n - 1), k \in S
        PROVE  k + 1 \in S
    <2>1. k + 1 \in 1 .. n /\ k + 1 # 1 /\ (k + 1) - 1 = k
      BY <1>8
    <2>2. g[k + 1] = Join(g[k], segs[k + 1])
      BY <1>6, <2>1
    <2> QED
      BY <1>8, <2>1, <2>2, JoinType
  <1>9. S \in SUBSET (1 .. n)
    OBVIOUS
  <1> HIDE DEF S
  <1>10. S = 1 .. n
    BY <1>7, <1>8, <1>9, AllPositions
  <1>11. g \in [1 .. n -> Seq(T)]
    BY <1>5, <1>10 DEF S
  <1>12. Joins(n, segs, T, g)
    BY <1>6, <1>11 DEF Joins
  <1> QED
    BY <1>2, <1>5, <1>12


\* What stands where in a concatenation.
Follows(a, b, c) ==
    /\ Len(c) = Len(a) + Len(b)
    /\ \A i \in 1 .. Len(a) : c[i] = a[i]
    /\ \A i \in 1 .. Len(b) : c[Len(a) + i] = b[i]

LEMMA JoinShape ==
    ASSUME NEW T, NEW a \in Seq(T), NEW b \in Seq(T)
    PROVE  Join(a, b) \in Seq(T) /\ Follows(a, b, Join(a, b))
  BY ConcatProperties DEF Join, Follows

\* off[i] is where the first i of the sequences segs end.  Their tokens are in
\* s, and nothing else is before off[k].
Holds(k, segs, s, off) ==
    \A i \in 1 .. k : \A j \in 1 .. Len(segs[i]) :
        off[i - 1] + j \in 1 .. off[k] /\ s[off[i - 1] + j] = segs[i][j]

Covers(k, segs, off) ==
    \A p \in 1 .. off[k] : \E i \in 1 .. k : \E j \in 1 .. Len(segs[i]) :
        p = off[i - 1] + j

\* s is made of the n sequences.
LaidOut(n, segs, s, off) ==
    /\ off \in [0 .. n -> Nat]
    /\ Len(s) = off[n]
    /\ Holds(n, segs, s, off)
    /\ Covers(n, segs, off)
    /\ \A k \in 1 .. n : \A i \in 1 .. k : \A j \in 1 .. Len(segs[i]) :
          off[i - 1] + j \in 1 .. off[k]

\* One more sequence leaves those before it where they were.
LEMMA JoinLaid ==
    ASSUME NEW T, NEW k \in Nat \ {0}, NEW a \in Seq(T), NEW segs,
           segs[k + 1] \in Seq(T), NEW off, off[k] = Len(a),
           off[k + 1] = Len(Join(a, segs[k + 1])),
           Holds(k, segs, a, off), Covers(k, segs, off)
    PROVE  /\ Holds(k + 1, segs, Join(a, segs[k + 1]), off)
           /\ Covers(k + 1, segs, off)
  <1>1. PICK s, b : s \in Seq(T) /\ s = segs[k + 1] /\ b = Join(a, s)
    OBVIOUS
  <1>2. PICK m \in Nat, l \in Nat : m = Len(a) /\ l = Len(s)
    OBVIOUS
  <1>3. /\ Len(b) = m + l
        /\ \A p \in 1 .. m : b[p] = a[p]
        /\ \A j \in 1 .. l : b[m + j] = s[j]
    <2>1. Follows(a, s, Join(a, s))
      BY <1>1, JoinShape
    <2> QED
      BY <1>1, <1>2, <2>1 DEF Follows
  <1>4. off[k] = m /\ off[k + 1] = m + l
    BY <1>1, <1>2, <1>3
  <1>5. ASSUME NEW i \in 1 .. (k + 1), NEW j \in 1 .. Len(segs[i])
        PROVE  off[i - 1] + j \in 1 .. off[k + 1] /\ b[off[i - 1] + j] = segs[i][j]
    <2>1. CASE i = k + 1
      <3>1. i - 1 = k /\ segs[i] = s
        BY <1>1, <2>1
      <3>2. j \in 1 .. l /\ off[i - 1] = m
        BY <1>2, <1>4, <3>1
      <3>3. m + j \in 1 .. (m + l)
        BY <3>2
      <3>4. b[m + j] = s[j]
        BY <1>3, <3>2
      <3> QED
        BY <1>4, <3>1, <3>2, <3>3, <3>4
    <2>2. CASE i \in 1 .. k
      <3>1. off[i - 1] + j \in 1 .. off[k] /\ a[off[i - 1] + j] = segs[i][j]
        BY <2>2 DEF Holds
      <3>2. PICK p \in 1 .. m : p = off[i - 1] + j
        BY <1>4, <3>1
      <3>3. p \in 1 .. (m + l) /\ b[p] = a[p]
        BY <1>3
      <3> QED
        BY <1>4, <3>1, <3>2, <3>3
    <2> QED
      BY <2>1, <2>2
  <1>6. ASSUME NEW p \in 1 .. off[k + 1]
        PROVE  \E i \in 1 .. (k + 1) : \E j \in 1 .. Len(segs[i]) :
                   p = off[i - 1] + j
    <2>1. CASE p <= m
      <3>1. p \in 1 .. off[k]
        BY <1>4, <2>1
      <3>2. PICK i \in 1 .. k : \E j \in 1 .. Len(segs[i]) : p = off[i - 1] + j
        BY <3>1 DEF Covers
      <3>3. i \in 1 .. (k + 1)
        OBVIOUS
      <3> QED
        BY <3>2, <3>3
    <2>2. CASE ~(p <= m)
      <3>1. p \in 1 .. (m + l)
        BY <1>4
      <3>2. PICK j \in 1 .. l : p = m + j
        <4>1. p - m \in 1 .. l /\ p = m + (p - m)
          BY <2>2, <3>1
        <4> QED
          BY <4>1
      <3>3. PICK i \in 1 .. (k + 1) : i = k + 1 /\ i - 1 = k
        OBVIOUS
      <3>4. j \in 1 .. Len(segs[i]) /\ p = off[i - 1] + j
        BY <1>1, <1>2, <1>4, <3>2, <3>3
      <3> QED
        BY <3>4
    <2> QED
      BY <1>4, <2>1, <2>2
  <1>7. Holds(k + 1, segs, b, off)
    BY <1>5 DEF Holds
  <1>8. Covers(k + 1, segs, off)
    BY <1>6 DEF Covers
  <1> QED
    BY <1>1, <1>7, <1>8

\* Each token of a concatenation comes from one of the sequences, and each of
\* theirs goes there, in order.
LEMMA JoinsLaid ==
    ASSUME NEW T, NEW n, NEW segs, NEW g, Joins(n, segs, T, g)
    PROVE  \E off : LaidOut(n, segs, g[n], off)
  <1> DEFINE o == [k \in 0 .. n |-> IF k = 0 THEN 0 ELSE Len(g[k])]
  <1>1. PICK off : off = o
    OBVIOUS
  <1>2. /\ n \in Nat \ {0} /\ segs \in [1 .. n -> Seq(T)] /\ g \in [1 .. n -> Seq(T)]
        /\ g[1] = segs[1]
    BY DEF Joins
  <1>3. /\ off \in [0 .. n -> Nat] /\ off[0] = 0
        /\ \A k \in 1 .. n : off[k] = Len(g[k])
    <2>1. \A k \in 1 .. n : g[k] \in Seq(T) /\ Len(g[k]) \in Nat
      BY <1>2
    <2> QED
      BY <1>1, <1>2, <2>1
  <1> HIDE DEF o
  <1> DEFINE S == {k \in 1 .. n : Holds(k, segs, g[k], off) /\ Covers(k, segs, off)}
  <1>4. 1 \in S
    <2>1. 1 \in 1 .. n /\ off[1] = Len(segs[1]) /\ Len(segs[1]) \in Nat /\ 1 - 1 = 0
      BY <1>2, <1>3
    <2>2. Holds(1, segs, g[1], off)
      BY <1>2, <1>3, <2>1 DEF Holds
    <2>3. Covers(1, segs, off)
      <3>1. ASSUME NEW p \in 1 .. off[1]
            PROVE  \E i \in 1 .. 1 : \E j \in 1 .. Len(segs[i]) : p = off[i - 1] + j
        <4>1. p \in 1 .. Len(segs[1]) /\ p = off[1 - 1] + p /\ 1 \in 1 .. 1
          BY <1>3, <2>1
        <4> QED
          BY <4>1
      <3> QED
        BY <3>1 DEF Covers
    <2> QED
      BY <2>1, <2>2, <2>3
  <1>5. ASSUME NEW k \in 1 .. (n - 1), k \in S
        PROVE  k + 1 \in S
    <2>1. Holds(k, segs, g[k], off) /\ Covers(k, segs, off)
      BY <1>5
    <2>2. k \in Nat \ {0} /\ k \in 1 .. n /\ k + 1 \in 1 .. n /\ k + 1 \in 2 .. n
      BY <1>2
    <2>3. g[k] \in Seq(T) /\ segs[k + 1] \in Seq(T)
      BY <1>2, <2>2
    <2>4. g[k + 1] = Join(g[k], segs[k + 1])
      <3>1. (k + 1) - 1 = k
        OBVIOUS
      <3> QED
        BY <2>2, <3>1 DEF Joins
    <2>5. off[k] = Len(g[k]) /\ off[k + 1] = Len(Join(g[k], segs[k + 1]))
      BY <1>3, <2>2, <2>4
    <2>6. /\ Holds(k + 1, segs, Join(g[k], segs[k + 1]), off)
          /\ Covers(k + 1, segs, off)
      BY <2>1, <2>2, <2>3, <2>5, JoinLaid
    <2> QED
      BY <2>2, <2>4, <2>6
  <1>6. S \in SUBSET (1 .. n)
    OBVIOUS
  <1>7. \A k \in 1 .. n : Holds(k, segs, g[k], off) /\ Covers(k, segs, off)
    <2>1. S = 1 .. n
      <3> HIDE DEF S
      <3> QED
        BY <1>2, <1>4, <1>5, <1>6, AllPositions
    <2> QED
      BY <2>1
  <1> HIDE DEF S
  <1>8. n \in 1 .. n /\ Len(g[n]) = off[n]
    BY <1>2, <1>3
  <1>9. \A k \in 1 .. n : \A i \in 1 .. k : \A j \in 1 .. Len(segs[i]) :
           off[i - 1] + j \in 1 .. off[k]
    BY <1>7 DEF Holds
  <1>10. LaidOut(n, segs, g[n], off)
    BY <1>3, <1>7, <1>8, <1>9 DEF LaidOut
  <1> QED
    BY <1>10

LEMMA FlattenLaid ==
    ASSUME NEW T, NEW n \in Nat \ {0}, NEW segs \in [1 .. n -> Seq(T)]
    PROVE  /\ FlattenSeq(segs) \in Seq(T)
           /\ \E off : LaidOut(n, segs, FlattenSeq(segs), off)
  <1>1. PICK g : Joins(n, segs, T, g) /\ FlattenSeq(segs) = g[n]
    BY FlattenJoins
  <1>2. g[n] \in Seq(T)
    BY <1>1 DEF Joins
  <1>3. \E off : LaidOut(n, segs, g[n], off)
    BY <1>1, JoinsLaid
  <1> QED
    BY <1>1, <1>2, <1>3

\* There is only one way to concatenate.
LEMMA JoinsUnique ==
    ASSUME NEW T, NEW n, NEW segs, NEW g, Joins(n, segs, T, g),
           NEW h, Joins(n, segs, T, h)
    PROVE  g[n] = h[n]
  <1>1. /\ n \in Nat \ {0} /\ g[1] = h[1]
        /\ \A i \in 2 .. n : g[i] = Join(g[i - 1], segs[i])
        /\ \A i \in 2 .. n : h[i] = Join(h[i - 1], segs[i])
    BY DEF Joins
  <1> DEFINE S == {k \in 1 .. n : g[k] = h[k]}
  <1>2. 1 \in S
    BY <1>1
  <1>3. ASSUME NEW k \in 1 .. (n - 1), k \in S
        PROVE  k + 1 \in S
    <2>1. k + 1 \in 2 .. n /\ (k + 1) - 1 = k /\ k + 1 \in 1 .. n
      BY <1>1
    <2>2. g[k + 1] = Join(g[k], segs[k + 1]) /\ h[k + 1] = Join(h[k], segs[k + 1])
      BY <1>1, <2>1
    <2> QED
      BY <1>3, <2>1, <2>2
  <1>4. S \in SUBSET (1 .. n)
    OBVIOUS
  <1>5. n \in S
    <2>1. n \in 1 .. n
      BY <1>1
    <2> HIDE DEF S
    <2>2. S = 1 .. n
      BY <1>1, <1>2, <1>3, <1>4, AllPositions
    <2> QED
      BY <2>1, <2>2
  <1> QED
    BY <1>5

LEMMA FlattenIs ==
    ASSUME NEW T, NEW n, NEW segs, NEW g, Joins(n, segs, T, g)
    PROVE  FlattenSeq(segs) = g[n]
  <1>1. n \in Nat \ {0} /\ segs \in [1 .. n -> Seq(T)]
    BY DEF Joins
  <1>2. PICK h : Joins(n, segs, T, h) /\ FlattenSeq(segs) = h[n]
    BY <1>1, FlattenJoins
  <1> QED
    BY <1>2, JoinsUnique

LEMMA JoinAssociative ==
    ASSUME NEW T, NEW a \in Seq(T), NEW b \in Seq(T), NEW c \in Seq(T)
    PROVE  Join(a, Join(b, c)) = Join(Join(a, b), c)
  BY ConcatAssociative DEF Join

LEMMA JoinEmpty ==
    ASSUME NEW T, NEW a \in Seq(T)
    PROVE  Join(a, << >>) = a /\ Join(<< >>, a) = a
  BY ConcatEmptySeq DEF Join

\* To concatenate many is to concatenate the first and the rest.
LEMMA FlattenConcat ==
    ASSUME NEW T, NEW s \in Seq(Seq(T)), NEW t \in Seq(Seq(T)),
           s # << >>, t # << >>
    PROVE  FlattenSeq(Join(s, t)) = Join(FlattenSeq(s), FlattenSeq(t))
  <1>1. PICK m \in Nat \ {0}, l \in Nat \ {0} :
           /\ m = Len(s) /\ l = Len(t)
           /\ s \in [1 .. m -> Seq(T)] /\ t \in [1 .. l -> Seq(T)]
    <2>1. Len(s) \in Nat \ {0} /\ Len(t) \in Nat \ {0}
      BY EmptySeq
    <2>2. s \in [1 .. Len(s) -> Seq(T)] /\ t \in [1 .. Len(t) -> Seq(T)]
      BY LenProperties
    <2> QED
      BY <2>1, <2>2
  <1>2. PICK c \in Seq(Seq(T)) : c = Join(s, t) /\ Follows(s, t, c)
    BY JoinShape
  <1>3. /\ c \in [1 .. (m + l) -> Seq(T)]
        /\ \A i \in 1 .. m : c[i] = s[i]
        /\ \A i \in 1 .. l : c[m + i] = t[i]
    <2>1. c \in [1 .. Len(c) -> Seq(T)]
      BY LenProperties
    <2> QED
      BY <1>1, <1>2, <2>1 DEF Follows
  <1>4. PICK g : Joins(m, s, T, g) /\ FlattenSeq(s) = g[m]
    BY <1>1, FlattenJoins
  <1>5. PICK h : Joins(l, t, T, h) /\ FlattenSeq(t) = h[l]
    BY <1>1, FlattenJoins
  <1>6. PICK a \in Seq(T) : a = g[m]
    BY <1>4 DEF Joins
  <1>7. /\ g \in [1 .. m -> Seq(T)] /\ h \in [1 .. l -> Seq(T)]
        /\ g[1] = s[1] /\ h[1] = t[1]
        /\ \A i \in 2 .. m : g[i] = Join(g[i - 1], s[i])
        /\ \A i \in 2 .. l : h[i] = Join(h[i - 1], t[i])
    BY <1>4, <1>5 DEF Joins
  <1> DEFINE E == [i \in 1 .. (m + l) |->
                      IF i \in 1 .. m THEN g[i] ELSE Join(a, h[i - m])]
  <1>8. PICK e : e = E
    OBVIOUS
  <1>9. /\ e \in [1 .. (m + l) -> Seq(T)]
        /\ \A i \in 1 .. m : e[i] = g[i]
        /\ \A i \in 1 .. l : e[m + i] = Join(a, h[i])
    <2>1. ASSUME NEW i \in 1 .. (m + l)
          PROVE  E[i] \in Seq(T)
      <3>1. CASE i \in 1 .. m
        BY <1>7, <3>1
      <3>2. CASE i \notin 1 .. m
        <4>1. i - m \in 1 .. l
          BY <3>2
        <4>2. h[i - m] \in Seq(T)
          BY <1>7, <4>1
        <4>3. E[i] = Join(a, h[i - m])
          BY <3>2
        <4> QED
          BY <4>2, <4>3, JoinType
      <3> QED
        BY <3>1, <3>2
    <2>2. \A i \in 1 .. m : E[i] = g[i]
      OBVIOUS
    <2>3. ASSUME NEW i \in 1 .. l
          PROVE  E[m + i] = Join(a, h[i])
      <3>1. m + i \in 1 .. (m + l) /\ m + i \notin 1 .. m /\ (m + i) - m = i
        OBVIOUS
      <3> QED
        BY <3>1
    <2>4. E \in [1 .. (m + l) -> Seq(T)]
      BY <2>1
    <2> HIDE DEF E
    <2> QED
      BY <1>8, <2>2, <2>3, <2>4
  <1> HIDE DEF E
  <1>10. ASSUME NEW i \in 2 .. (m + l)
         PROVE  e[i] = Join(e[i - 1], c[i])
    <2>1. CASE i \in 2 .. m
      <3>1. i \in 1 .. m /\ i - 1 \in 1 .. m
        BY <2>1
      <3> QED
        BY <1>3, <1>7, <1>9, <2>1, <3>1
    <2>2. CASE i = m + 1
      <3>1. 1 \in 1 .. l /\ m \in 1 .. m /\ i - 1 = m
        BY <2>2
      <3>2. e[i] = Join(a, h[1]) /\ e[i - 1] = g[m] /\ c[i] = t[1]
        BY <1>3, <1>9, <2>2, <3>1
      <3> QED
        BY <1>6, <1>7, <3>2
    <2>3. CASE i \in (m + 2) .. (m + l)
      <3>1. PICK j \in 2 .. l : i = m + j
        <4>1. i - m \in 2 .. l /\ i = m + (i - m)
          BY <2>3
        <4> QED
          BY <4>1
      <3>2. /\ j \in 1 .. l /\ j - 1 \in 1 .. l /\ i - 1 = m + (j - 1)
            /\ h[j - 1] \in Seq(T) /\ t[j] \in Seq(T)
        <4>1. j \in 1 .. l /\ j - 1 \in 1 .. l /\ i - 1 = m + (j - 1)
          BY <3>1
        <4>2. h[j - 1] \in Seq(T)
          BY <1>7, <4>1
        <4>3. t[j] \in Seq(T)
          BY <1>1, <4>1
        <4> QED
          BY <4>1, <4>2, <4>3
      <3>3. /\ e[i] = Join(a, h[j]) /\ e[i - 1] = Join(a, h[j - 1])
            /\ c[i] = t[j] /\ h[j] = Join(h[j - 1], t[j])
        BY <1>3, <1>7, <1>9, <3>1, <3>2
      <3>4. Join(a, Join(h[j - 1], t[j])) = Join(Join(a, h[j - 1]), t[j])
        BY <3>2, JoinAssociative
      <3> QED
        BY <3>3, <3>4
    <2> QED
      BY <2>1, <2>2, <2>3
  <1>11. Joins(m + l, c, T, e)
    <2>1. m + l \in Nat \ {0} /\ 1 \in 1 .. m
      OBVIOUS
    <2> QED
      BY <1>3, <1>7, <1>9, <1>10, <2>1 DEF Joins
  <1>12. FlattenSeq(c) = e[m + l]
    BY <1>11, FlattenIs
  <1>13. e[m + l] = Join(a, h[l])
    <2>1. l \in 1 .. l
      OBVIOUS
    <2> QED
      BY <1>9, <2>1
  <1> QED
    BY <1>2, <1>4, <1>5, <1>6, <1>12, <1>13

------------------------------------------------------------------------------
(* What is left without quotations *)

\* The tokens that are left, each as a sequence.
Kept(tokens) ==
    [i \in DOMAIN tokens |->
        IF tokens[i][1] = "placeholder" THEN << >> ELSE << tokens[i] >>]

LEMMA KeptShape ==
    ASSUME NEW T, NEW a \in Seq(T)
    PROVE  /\ Kept(a) \in Seq(Seq(T)) /\ Len(Kept(a)) = Len(a)
           /\ \A i \in 1 .. Len(a) :
                 Kept(a)[i] = IF a[i][1] = "placeholder" THEN << >> ELSE << a[i] >>
           /\ Unquoted(a) = FlattenSeq(Kept(a))
  <1>1. PICK n \in Nat : n = Len(a) /\ a \in [1 .. n -> T] /\ DOMAIN a = 1 .. n
    BY LenProperties
  <1>2. ASSUME NEW i \in 1 .. n
        PROVE  (IF a[i][1] = "placeholder" THEN << >> ELSE << a[i] >>) \in Seq(T)
    <2>1. a[i] \in T
      BY <1>1
    <2> QED
      BY <2>1
  <1>3. Kept(a) \in [1 .. n -> Seq(T)]
    BY <1>1, <1>2 DEF Kept
  <1>4. Kept(a) \in Seq(Seq(T)) /\ Len(Kept(a)) = n
    BY <1>3
  <1> QED
    BY <1>1, <1>4 DEF Kept, Unquoted

LEMMA UnquotedEmpty == Unquoted(<< >>) = << >>
  BY DEF Unquoted, FlattenSeq

LEMMA UnquotedType ==
    ASSUME NEW T, NEW a \in Seq(T)
    PROVE  Unquoted(a) \in Seq(T)
  <1>1. CASE a = << >>
    BY <1>1, UnquotedEmpty
  <1>2. CASE a # << >>
    <2>1. PICK n \in Nat \ {0} : n = Len(a)
      BY <1>2, EmptySeq
    <2>2. Kept(a) \in [1 .. n -> Seq(T)]
      BY <2>1, KeptShape, LenProperties
    <2>3. FlattenSeq(Kept(a)) \in Seq(T)
      BY <2>2, FlattenLaid
    <2> QED
      BY <2>3, KeptShape
  <1> QED
    BY <1>1, <1>2

LEMMA KeptJoin ==
    ASSUME NEW T, NEW a \in Seq(T), NEW b \in Seq(T)
    PROVE  Kept(Join(a, b)) = Join(Kept(a), Kept(b))
  <1>1. PICK c \in Seq(T) : c = Join(a, b) /\ Follows(a, b, c)
    BY JoinShape
  <1>2. PICK k \in Seq(Seq(T)), l \in Seq(Seq(T)) : k = Kept(a) /\ l = Kept(b)
    BY KeptShape
  <1>3. PICK d \in Seq(Seq(T)) : d = Join(k, l) /\ Follows(k, l, d)
    BY JoinShape
  <1>4. PICK e \in Seq(Seq(T)) : e = Kept(c)
    BY KeptShape
  <1>5. PICK m \in Nat, n \in Nat : m = Len(a) /\ n = Len(b)
    OBVIOUS
  <1>6. /\ Len(k) = m /\ Len(l) = n /\ Len(c) = m + n
        /\ Len(d) = m + n /\ Len(e) = m + n
    BY <1>1, <1>2, <1>3, <1>4, <1>5, KeptShape DEF Follows
  <1>7. ASSUME NEW i \in 1 .. (m + n)
        PROVE  d[i] = e[i]
    <2>1. e[i] = IF c[i][1] = "placeholder" THEN << >> ELSE << c[i] >>
      BY <1>4, <1>6, KeptShape
    <2>2. CASE i \in 1 .. m
      <3>1. d[i] = k[i] /\ c[i] = a[i]
        BY <1>1, <1>3, <1>5, <1>6, <2>2 DEF Follows
      <3>2. k[i] = IF a[i][1] = "placeholder" THEN << >> ELSE << a[i] >>
        BY <1>2, <1>5, <2>2, KeptShape
      <3> QED
        BY <2>1, <3>1, <3>2
    <2>3. CASE i \notin 1 .. m
      <3>1. PICK j \in 1 .. n : i = m + j
        <4>1. i - m \in 1 .. n /\ i = m + (i - m)
          BY <2>3
        <4> QED
          BY <4>1
      <3>2. d[i] = l[j] /\ c[i] = b[j]
        BY <1>1, <1>3, <1>5, <1>6, <3>1 DEF Follows
      <3>3. l[j] = IF b[j][1] = "placeholder" THEN << >> ELSE << b[j] >>
        BY <1>2, <1>5, KeptShape
      <3> QED
        BY <2>1, <3>2, <3>3
    <2> QED
      BY <2>2, <2>3
  <1>8. d = e
    BY <1>6, <1>7, SeqEqual
  <1> QED
    BY <1>1, <1>2, <1>3, <1>4, <1>8

\* To leave the quotations out of both is to leave them out of the whole.
LEMMA UnquotedJoin ==
    ASSUME NEW T, NEW a \in Seq(T), NEW b \in Seq(T)
    PROVE  Unquoted(Join(a, b)) = Join(Unquoted(a), Unquoted(b))
  <1>1. CASE a = << >>
    BY <1>1, JoinEmpty, UnquotedEmpty, UnquotedType
  <1>2. CASE b = << >>
    BY <1>2, JoinEmpty, UnquotedEmpty, UnquotedType
  <1>3. CASE a # << >> /\ b # << >>
    <2>1. PICK k \in Seq(Seq(T)), l \in Seq(Seq(T)) : k = Kept(a) /\ l = Kept(b)
      BY KeptShape
    <2>2. k # << >> /\ l # << >>
      BY <1>3, <2>1, KeptShape, EmptySeq
    <2>3. FlattenSeq(Join(k, l)) = Join(FlattenSeq(k), FlattenSeq(l))
      BY <2>2, FlattenConcat
    <2>4. Join(a, b) \in Seq(T)
      BY JoinType
    <2>5. /\ Unquoted(a) = FlattenSeq(k) /\ Unquoted(b) = FlattenSeq(l)
          /\ Unquoted(Join(a, b)) = FlattenSeq(Kept(Join(a, b)))
      BY <2>1, <2>4, KeptShape
    <2> QED
      BY <2>1, <2>3, <2>5, KeptJoin
  <1> QED
    BY <1>1, <1>2, <1>3

\* Two sequences of sequences that are the same without their quotations, are
\* so when they are concatenated.
LEMMA UnquotedFlatten ==
    ASSUME NEW T, NEW n \in Nat \ {0},
           NEW s \in [1 .. n -> Seq(T)], NEW t \in [1 .. n -> Seq(T)],
           \A i \in 1 .. n : Unquoted(s[i]) = Unquoted(t[i])
    PROVE  Unquoted(FlattenSeq(s)) = Unquoted(FlattenSeq(t))
  <1>1. PICK g : Joins(n, s, T, g) /\ FlattenSeq(s) = g[n]
    BY FlattenJoins
  <1>2. PICK h : Joins(n, t, T, h) /\ FlattenSeq(t) = h[n]
    BY FlattenJoins
  <1> DEFINE S == {k \in 1 .. n : Unquoted(g[k]) = Unquoted(h[k])}
  <1>3. 1 \in S
    BY <1>1, <1>2 DEF Joins
  <1>4. ASSUME NEW k \in 1 .. (n - 1), k \in S
        PROVE  k + 1 \in S
    <2>1. k + 1 \in 2 .. n /\ (k + 1) - 1 = k /\ k + 1 \in 1 .. n /\ k \in 1 .. n
      OBVIOUS
    <2>2. /\ g[k + 1] = Join(g[k], s[k + 1]) /\ h[k + 1] = Join(h[k], t[k + 1])
          /\ g[k] \in Seq(T) /\ h[k] \in Seq(T)
      BY <1>1, <1>2, <2>1 DEF Joins
    <2>3. s[k + 1] \in Seq(T) /\ t[k + 1] \in Seq(T)
      BY <2>1
    <2>4. /\ Unquoted(g[k + 1]) = Join(Unquoted(g[k]), Unquoted(s[k + 1]))
          /\ Unquoted(h[k + 1]) = Join(Unquoted(h[k]), Unquoted(t[k + 1]))
      BY <2>2, <2>3, UnquotedJoin
    <2>5. Unquoted(g[k]) = Unquoted(h[k]) /\ Unquoted(s[k + 1]) = Unquoted(t[k + 1])
      BY <1>4, <2>1
    <2> QED
      BY <2>1, <2>4, <2>5
  <1>5. S \in SUBSET (1 .. n)
    OBVIOUS
  <1>6. n \in S
    <2>1. n \in 1 .. n
      OBVIOUS
    <2> HIDE DEF S
    <2>2. S = 1 .. n
      BY <1>3, <1>4, <1>5, AllPositions
    <2> QED
      BY <2>1, <2>2
  <1> QED
    BY <1>1, <1>2, <1>6

------------------------------------------------------------------------------
(* A template filled in *)

Has(tokens, token) == \E i \in DOMAIN tokens : tokens[i] = token

\* What a prompt for r may be made of: nothing that failed, and a missing value
\* only where a list of objects has a list among them.
Written(r) ==
    {Value(f) : f \in DOMAIN r.body} \cup {Hole(r.quote), Words, << Notice >>}
    \cup {token \in {Undefined} : \E f \in DOMAIN r.body : r.body[f] = "listEntry"}

\* No placeholder but those that a value quotes.
Sound(r, tokens) ==
    /\ tokens \in Seq(Written(r))
    /\ \A i \in DOMAIN tokens :
          tokens[i][1] = "placeholder" =>
              i > 1 /\ \E f \in Quoting(r) : tokens[i - 1] = Value(f)

\* The variables that r puts into a text of n placeholders and notices.
Fills(r, n, text, variables) ==
    /\ n \in Nat \ {0}
    /\ DOMAIN text = 1 .. n
    /\ \A i \in 1 .. n : text[i] # Notice => text[i] \in DOMAIN variables
    /\ \A v \in DOMAIN variables : Sound(r, variables[v])

Parts(text, variables) ==
    [i \in DOMAIN text |-> IF text[i] = Notice THEN << << Notice >> >>
                           ELSE variables[text[i]]]

\* Every placeholder has a variable, and what is put in for one is not looked
\* at again.
LEMMA FillInParts ==
    ASSUME NEW r, NEW n, NEW text, NEW variables, Fills(r, n, text, variables)
    PROVE  FillIn(Tokens(text), variables) = FlattenSeq(Parts(text, variables))
  <1> DEFINE tokens == Tokens(text)
             filled == [i \in DOMAIN tokens |->
                           IF tokens[i][1] = "placeholder" /\ tokens[i][2] \in DOMAIN variables
                           THEN variables[tokens[i][2]] ELSE << tokens[i] >>]
  <1>1. DOMAIN text = 1 .. n /\ DOMAIN tokens = 1 .. n
    BY DEF Fills, Tokens
  <1>2. ASSUME NEW i \in 1 .. n
        PROVE  filled[i] = Parts(text, variables)[i]
    <2>1. CASE text[i] = Notice
      <3>1. tokens[i] = << Notice >>
        BY <1>1, <2>1 DEF Tokens
      <3>2. tokens[i][1] # "placeholder"
        <4>1. tokens[i][1] = Notice
          BY <3>1
        <4>2. Notice # "placeholder"
          BY DEF Notice
        <4> QED
          BY <4>1, <4>2
      <3> QED
        BY <1>1, <2>1, <3>1, <3>2 DEF Parts
    <2>2. CASE text[i] # Notice
      <3>1. tokens[i] = Hole(text[i])
        BY <1>1, <2>2 DEF Tokens
      <3>2. tokens[i][1] = "placeholder" /\ tokens[i][2] = text[i]
        BY <3>1 DEF Hole
      <3>3. text[i] \in DOMAIN variables
        BY <2>2 DEF Fills
      <3> QED
        BY <1>1, <2>2, <3>2, <3>3 DEF Parts
    <2> QED
      BY <2>1, <2>2
  <1>3. /\ filled = [i \in 1 .. n |-> filled[i]]
        /\ Parts(text, variables) = [i \in 1 .. n |-> Parts(text, variables)[i]]
    BY <1>1 DEF Parts
  <1>4. filled = Parts(text, variables)
    <2> HIDE DEF filled
    <2> QED
      BY <1>2, <1>3
  <1> QED
    BY <1>4 DEF FillIn

LEMMA PartsType ==
    ASSUME NEW r, NEW n, NEW text, NEW variables, Fills(r, n, text, variables)
    PROVE  /\ n \in Nat \ {0}
           /\ Parts(text, variables) \in [1 .. n -> Seq(Written(r))]
           /\ \A i \in 1 .. n :
                 /\ text[i] = Notice => Parts(text, variables)[i] = << << Notice >> >>
                 /\ text[i] # Notice => /\ Parts(text, variables)[i] = variables[text[i]]
                                        /\ Sound(r, variables[text[i]])
  <1>1. DOMAIN text = 1 .. n
    BY DEF Fills
  <1>2. << Notice >> \in Written(r)
    BY DEF Written
  <1>3. ASSUME NEW i \in 1 .. n
        PROVE  /\ text[i] = Notice => Parts(text, variables)[i] = << << Notice >> >>
               /\ text[i] # Notice => /\ Parts(text, variables)[i] = variables[text[i]]
                                      /\ Sound(r, variables[text[i]])
               /\ Parts(text, variables)[i] \in Seq(Written(r))
    <2>1. CASE text[i] = Notice
      <3>1. Parts(text, variables)[i] = << << Notice >> >>
        BY <1>1, <2>1 DEF Parts
      <3>2. << << Notice >> >> \in Seq(Written(r))
        BY <1>2
      <3> QED
        BY <2>1, <3>1, <3>2
    <2>2. CASE text[i] # Notice
      <3>1. Parts(text, variables)[i] = variables[text[i]]
        BY <1>1, <2>2 DEF Parts
      <3>2. Sound(r, variables[text[i]])
        BY <2>2 DEF Fills
      <3>3. variables[text[i]] \in Seq(Written(r))
        BY <3>2 DEF Sound
      <3> QED
        BY <2>2, <3>1, <3>2, <3>3
    <2> QED
      BY <2>1, <2>2
  <1>4. Parts(text, variables) = [i \in 1 .. n |-> Parts(text, variables)[i]]
    BY <1>1 DEF Parts
  <1>5. Parts(text, variables) \in [1 .. n -> Seq(Written(r))]
    BY <1>3, <1>4
  <1> QED
    BY <1>3, <1>5 DEF Fills

\* What it is filled in with is sound, and so is the whole.
LEMMA FilledSound ==
    ASSUME NEW r, NEW n, NEW text, NEW variables, Fills(r, n, text, variables)
    PROVE  Sound(r, FillIn(Tokens(text), variables))
  <1>1. PICK parts : parts = Parts(text, variables)
    OBVIOUS
  <1>2. n \in Nat \ {0} /\ parts \in [1 .. n -> Seq(Written(r))]
    BY <1>1, PartsType
  <1>3. PICK s \in Seq(Written(r)) : s = FlattenSeq(parts)
    BY <1>2, FlattenLaid
  <1>4. PICK off : LaidOut(n, parts, s, off)
    BY <1>2, <1>3, FlattenLaid
  <1>5. ASSUME NEW p \in DOMAIN s, s[p][1] = "placeholder"
        PROVE  p > 1 /\ \E f \in Quoting(r) : s[p - 1] = Value(f)
    <2>1. p \in 1 .. Len(s)
      BY LenProperties
    <2>2. PICK i \in 1 .. n : \E j \in 1 .. Len(parts[i]) : p = off[i - 1] + j
      BY <1>4, <2>1 DEF LaidOut, Covers
    <2>3. PICK j \in 1 .. Len(parts[i]) : p = off[i - 1] + j
      BY <2>2
    <2>4. PICK part \in Seq(Written(r)) : part = parts[i]
      BY <1>2
    <2>5. \A l \in 1 .. Len(part) : s[off[i - 1] + l] = part[l]
      BY <1>4, <2>4 DEF LaidOut, Holds
    <2>6. part[j][1] = "placeholder"
      BY <1>5, <2>3, <2>4, <2>5
    <2>7. text[i] # Notice
      <3>1. text[i] = Notice => part = << << Notice >> >>
        BY <1>1, <2>4, PartsType
      <3>2. SUFFICES ASSUME part = << << Notice >> >> PROVE FALSE
        BY <3>1
      <3>3. j = 1
        BY <2>3, <2>4, <3>2
      <3>4. part[j][1] = Notice
        BY <3>2, <3>3
      <3> QED
        BY <2>6, <3>4 DEF Notice
    <2>8. Sound(r, part)
      BY <1>1, <2>4, <2>7, PartsType
    <2>9. j \in DOMAIN part /\ DOMAIN part = 1 .. Len(part)
      BY <2>3, <2>4, LenProperties
    <2>10. PICK f \in Quoting(r) : j > 1 /\ part[j - 1] = Value(f)
      BY <2>6, <2>8, <2>9 DEF Sound
    <2>11. PICK b \in Nat : b = off[i - 1]
      <3>1. i - 1 \in 0 .. n
        BY <1>2
      <3> QED
        BY <1>4, <3>1 DEF LaidOut
    <2>12. j - 1 \in 1 .. Len(part) /\ p > 1 /\ p - 1 = b + (j - 1)
      <3>1. PICK l \in Nat : l = Len(part)
        BY LenProperties
      <3>2. j \in 1 .. l /\ p = b + j
        BY <2>3, <2>4, <2>11, <3>1
      <3> QED
        BY <2>10, <3>1, <3>2
    <2>13. s[p - 1] = Value(f)
      BY <2>5, <2>10, <2>11, <2>12
    <2> QED
      BY <2>12, <2>13
  <1>6. Sound(r, s)
    BY <1>5 DEF Sound
  <1> QED
    BY <1>1, <1>3, <1>6, FillInParts

\* What a variable shows, the whole shows.
LEMMA FilledHas ==
    ASSUME NEW r, NEW n, NEW text, NEW variables, Fills(r, n, text, variables),
           NEW i \in 1 .. n, text[i] # Notice,
           NEW token, Has(variables[text[i]], token)
    PROVE  Has(FillIn(Tokens(text), variables), token)
  <1>1. PICK parts : parts = Parts(text, variables)
    OBVIOUS
  <1>2. n \in Nat \ {0} /\ parts \in [1 .. n -> Seq(Written(r))]
    BY <1>1, PartsType
  <1>3. PICK s \in Seq(Written(r)) : s = FlattenSeq(parts)
    BY <1>2, FlattenLaid
  <1>4. PICK off : LaidOut(n, parts, s, off)
    BY <1>2, <1>3, FlattenLaid
  <1>5. PICK part \in Seq(Written(r)) : part = parts[i]
    BY <1>2
  <1>6. Has(part, token)
    BY <1>1, <1>5, PartsType
  <1>7. PICK j \in 1 .. Len(part) : part[j] = token
    BY <1>6, LenProperties DEF Has
  <1>8. /\ off[i - 1] + j \in 1 .. off[n]
        /\ s[off[i - 1] + j] = part[j]
    BY <1>4, <1>5 DEF LaidOut, Holds
  <1>9. off[i - 1] + j \in DOMAIN s
    BY <1>4, <1>8, LenProperties DEF LaidOut
  <1>10. Has(s, token)
    BY <1>7, <1>8, <1>9 DEF Has
  <1> QED
    BY <1>1, <1>3, <1>10, FillInParts

\* What no variable above the notice shows, stands below it.
LEMMA FilledBelow ==
    ASSUME NEW r, NEW n, NEW text, NEW variables, Fills(r, n, text, variables),
           NEW k \in 1 .. n, text[k] = Notice, NEW token, token # << Notice >>,
           \A i \in 1 .. (k - 1) :
               text[i] # Notice => ~Has(variables[text[i]], token),
           NEW p \in DOMAIN FillIn(Tokens(text), variables),
           FillIn(Tokens(text), variables)[p] = token
    PROVE  \E q \in 1 .. (p - 1) : FillIn(Tokens(text), variables)[q] = << Notice >>
  <1>1. PICK parts : parts = Parts(text, variables)
    OBVIOUS
  <1>2. n \in Nat \ {0} /\ parts \in [1 .. n -> Seq(Written(r))]
    BY <1>1, PartsType
  <1>3. PICK s \in Seq(Written(r)) : s = FlattenSeq(parts)
    BY <1>2, FlattenLaid
  <1>4. PICK off : LaidOut(n, parts, s, off)
    BY <1>2, <1>3, FlattenLaid
  <1>5. s = FillIn(Tokens(text), variables)
    BY <1>1, <1>3, FillInParts
  <1>6. p \in 1 .. Len(s) /\ s[p] = token
    BY <1>5, LenProperties
  <1>7. PICK i \in 1 .. n : \E j \in 1 .. Len(parts[i]) : p = off[i - 1] + j
    BY <1>4, <1>6 DEF LaidOut, Covers
  <1>8. PICK j \in 1 .. Len(parts[i]) : p = off[i - 1] + j
    BY <1>7
  <1>9. PICK part \in Seq(Written(r)) : part = parts[i]
    BY <1>2
  <1>10. part[j] = token
    BY <1>4, <1>6, <1>8, <1>9 DEF LaidOut, Holds
  <1>11. j \in DOMAIN part
    BY <1>8, <1>9, LenProperties
  <1>12. text[i] # Notice
    <2>1. text[i] = Notice => part = << << Notice >> >>
      BY <1>1, <1>9, PartsType
    <2>2. SUFFICES ASSUME part = << << Notice >> >> PROVE FALSE
      BY <2>1
    <2>3. j = 1
      BY <1>8, <1>9, <2>2
    <2> QED
      BY <1>10, <2>2, <2>3
  <1>13. Has(variables[text[i]], token)
    BY <1>1, <1>9, <1>10, <1>11, <1>12, PartsType DEF Has
  <1>14. i > k
    <2>1. ~(i \in 1 .. (k - 1))
      BY <1>12, <1>13
    <2>2. i # k
      BY <1>12
    <2> QED
      BY <1>2, <2>1, <2>2
  <1>15. PICK m \in 1 .. n : m = i - 1 /\ k \in 1 .. m
    <2>1. i - 1 \in 1 .. n /\ k \in 1 .. (i - 1)
      BY <1>2, <1>14
    <2> QED
      BY <2>1
  <1>16. parts[k] = << << Notice >> >>
    BY <1>1, PartsType
  <1>17. 1 \in 1 .. Len(parts[k]) /\ parts[k][1] = << Notice >>
    BY <1>16
  <1>18. off[k - 1] + 1 \in 1 .. off[m] /\ s[off[k - 1] + 1] = << Notice >>
    <2>1. off[k - 1] + 1 \in 1 .. off[m]
      BY <1>4, <1>15, <1>17 DEF LaidOut
    <2>2. s[off[k - 1] + 1] = << Notice >>
      BY <1>4, <1>17 DEF LaidOut, Holds
    <2> QED
      BY <2>1, <2>2
  <1>19. PICK b \in Nat : b = off[m]
    <2>1. m \in 0 .. n
      BY <1>2
    <2> QED
      BY <1>4, <2>1 DEF LaidOut
  <1>20. p = b + j /\ j \in Nat /\ j >= 1
    BY <1>8, <1>9, <1>15, <1>19
  <1>21. off[k - 1] + 1 \in 1 .. (p - 1)
    <2>1. PICK c \in 1 .. b : c = off[k - 1] + 1
      BY <1>18, <1>19
    <2>2. c \in 1 .. (p - 1)
      BY <1>20
    <2> QED
      BY <2>1, <2>2
  <1> QED
    BY <1>5, <1>18, <1>21

\* Two fillings that are the same but for quotations.
LEMMA FilledUnquoted ==
    ASSUME NEW r, NEW q, NEW n, NEW text, NEW variables, NEW others,
           Fills(r, n, text, variables), Fills(q, n, text, others),
           Written(q) = Written(r), DOMAIN others = DOMAIN variables,
           \A v \in DOMAIN variables : Unquoted(variables[v]) = Unquoted(others[v])
    PROVE  Unquoted(FillIn(Tokens(text), variables))
              = Unquoted(FillIn(Tokens(text), others))
  <1>1. PICK s, t : s = Parts(text, variables) /\ t = Parts(text, others)
    OBVIOUS
  <1>2. /\ n \in Nat \ {0} /\ s \in [1 .. n -> Seq(Written(r))]
        /\ t \in [1 .. n -> Seq(Written(r))]
    BY <1>1, PartsType
  <1>3. ASSUME NEW i \in 1 .. n
        PROVE  Unquoted(s[i]) = Unquoted(t[i])
    <2>1. CASE text[i] = Notice
      <3>1. s[i] = << << Notice >> >>
        BY <1>1, <2>1, PartsType
      <3>2. t[i] = << << Notice >> >>
        BY <1>1, <2>1, PartsType
      <3> QED
        BY <3>1, <3>2
    <2>2. CASE text[i] # Notice
      <3>1. s[i] = variables[text[i]]
        BY <1>1, <2>2, PartsType
      <3>2. t[i] = others[text[i]]
        BY <1>1, <2>2, PartsType
      <3>3. text[i] \in DOMAIN variables
        BY <2>2 DEF Fills
      <3> QED
        BY <3>1, <3>2, <3>3
    <2> QED
      BY <2>1, <2>2
  <1>4. Unquoted(FlattenSeq(s)) = Unquoted(FlattenSeq(t))
    <2>1. PICK T : T = Written(r)
      OBVIOUS
    <2>2. /\ n \in Nat \ {0} /\ s \in [1 .. n -> Seq(T)]
          /\ t \in [1 .. n -> Seq(T)]
      BY <1>2, <2>1
    <2> QED
      BY <1>3, <2>2, UnquotedFlatten
  <1>5. /\ FillIn(Tokens(text), variables) = FlattenSeq(s)
        /\ FillIn(Tokens(text), others) = FlattenSeq(t)
    BY <1>1, FillInParts
  <1> QED
    BY <1>4, <1>5

------------------------------------------------------------------------------
(* How a request's values are rendered *)

Said == {"spaces", "given", "quoting"}

IsRequest(r) ==
    /\ r = [endpoint |-> r.endpoint, body |-> r.body, suffix |-> r.suffix,
            quote |-> r.quote]
    /\ r.endpoint \in Endpoints
    /\ r.body \in [DOMAIN Dto[r.endpoint] -> Sorts]
    /\ r.suffix \in Types(r.endpoint)

\* The same request, quoting nothing.
LEMMA PlainlyIs ==
    ASSUME NEW r, IsRequest(r)
    PROVE  /\ IsRequest(Plainly(r))
           /\ Plainly(r).endpoint = r.endpoint /\ Plainly(r).suffix = r.suffix
           /\ Plainly(r).quote = r.quote
           /\ DOMAIN Plainly(r).body = DOMAIN r.body
           /\ DOMAIN r.body = DOMAIN Dto[r.endpoint]
           /\ \A f \in DOMAIN r.body :
                 Plainly(r).body[f] = IF r.body[f] = "quoting" THEN "given"
                                      ELSE r.body[f]
           /\ Written(Plainly(r)) = Written(r)
  <1>1. PICK e, b, x, q : r = [endpoint |-> e, body |-> b, suffix |-> x, quote |-> q]
    BY DEF IsRequest
  <1>2. PICK p : p = [f \in DOMAIN b |-> IF b[f] = "quoting" THEN "given" ELSE b[f]]
    OBVIOUS
  <1>3. r.endpoint = e /\ r.body = b /\ r.suffix = x /\ r.quote = q
    BY <1>1
  <1>4. Plainly(r) = [endpoint |-> e, body |-> p, suffix |-> x, quote |-> q]
    BY <1>1, <1>2 DEF Plainly
  <1>5. /\ Plainly(r).endpoint = e /\ Plainly(r).body = p
        /\ Plainly(r).suffix = x /\ Plainly(r).quote = q
    BY <1>4
  <1>6. e \in Endpoints /\ b \in [DOMAIN Dto[e] -> Sorts] /\ x \in Types(e)
    BY <1>3 DEF IsRequest
  <1>7. DOMAIN p = DOMAIN b /\ DOMAIN b = DOMAIN Dto[e]
    BY <1>2, <1>6
  <1>8. p \in [DOMAIN Dto[e] -> Sorts]
    BY <1>2, <1>6 DEF Sorts
  <1>9. IsRequest(Plainly(r))
    BY <1>4, <1>5, <1>6, <1>8 DEF IsRequest
  <1>10. Written(Plainly(r)) = Written(r)
    <2>1. \A f \in DOMAIN b : p[f] = "listEntry" <=> b[f] = "listEntry"
      BY <1>2
    <2> QED
      BY <1>3, <1>5, <1>7, <2>1 DEF Written
  <1> QED
    BY <1>2, <1>3, <1>5, <1>7, <1>9, <1>10

\* A value and what it may quote.
LEMMA TokensOf ==
    ASSUME NEW r, NEW f \in DOMAIN r.body
    PROVE  /\ Value(f) \in Written(r) /\ Hole(r.quote) \in Written(r)
           /\ Words \in Written(r)
           /\ Value(f)[1] # "placeholder" /\ Hole(r.quote)[1] = "placeholder"
           /\ Words[1] # "placeholder"
  BY DEF Written, Value, Hole, Words

LEMMA TokensDiffer ==
    ASSUME NEW f, NEW g, NEW v
    PROVE  /\ Value(f) = Value(g) => f = g
           /\ Value(f) # Hole(v) /\ Value(f) # Words /\ Value(f) # << Notice >>
           /\ Hole(v) # << Notice >> /\ Words # << Notice >>
  BY DEF Value, Hole, Words, Notice

\* What stands for the fields F.
Shows(s, F) ==
    /\ \A f : Has(s, Value(f)) => f \in F
    /\ ~Has(s, << Notice >>)

LEMMA NothingSaid ==
    ASSUME NEW r
    PROVE  Sound(r, << >>) /\ Shows(<< >>, {})
  BY EmptySeq DEF Sound, Shows, Has

LEMMA WordsSaid ==
    ASSUME NEW r
    PROVE  Sound(r, << Words >>) /\ Shows(<< Words >>, {})
  <1>1. Words \in Written(r) /\ Words[1] # "placeholder"
    BY DEF Written, Words
  <1>2. Sound(r, << Words >>)
    BY <1>1 DEF Sound
  <1>3. Shows(<< Words >>, {})
    BY TokensDiffer DEF Shows, Has
  <1> QED
    BY <1>2, <1>3

\* A value as it stands, if there is one.
LEMMA BareSays ==
    ASSUME NEW r, NEW f \in DOMAIN r.body, r.body[f] # "absent"
    PROVE  /\ Sound(r, Bare(r, f)) /\ Shows(Bare(r, f), {f})
           /\ r.body[f] \in Said => Has(Bare(r, f), Value(f))
  <1>1. CASE r.body[f] = "empty"
    <2>1. Bare(r, f) = << >>
      BY <1>1 DEF Bare
    <2>2. Shows(<< >>, {f})
      BY DEF Shows, Has
    <2> QED
      BY <1>1, <2>1, <2>2, NothingSaid DEF Said
  <1>2. CASE r.body[f] = "quoting"
    <2>1. Bare(r, f) = << Value(f), Hole(r.quote) >>
      BY <1>2 DEF Bare
    <2>2. f \in Quoting(r)
      BY <1>2 DEF Quoting
    <2>3. PICK s : s = << Value(f), Hole(r.quote) >>
      OBVIOUS
    <2>4. /\ s \in Seq(Written(r)) /\ DOMAIN s = 1 .. 2
          /\ s[1] = Value(f) /\ s[2] = Hole(r.quote)
      BY <2>3, TokensOf
    <2>5. Sound(r, s)
      <3>1. ASSUME NEW i \in 1 .. 2, s[i][1] = "placeholder"
            PROVE  i > 1 /\ \E g \in Quoting(r) : s[i - 1] = Value(g)
        <4>1. i # 1
          BY <2>4, <3>1, TokensOf
        <4>2. i = 2 /\ i - 1 = 1
          BY <4>1
        <4> QED
          BY <2>2, <2>4, <4>2
      <3> QED
        BY <2>4, <3>1 DEF Sound
    <2>6. Shows(s, {f})
      <3>1. \A i \in DOMAIN s : s[i] = Value(f) \/ s[i] = Hole(r.quote)
        BY <2>4
      <3>2. ASSUME NEW g, Has(s, Value(g))
            PROVE  g = f
        BY <3>1, <3>2, TokensDiffer DEF Has
      <3>3. ~Has(s, << Notice >>)
        BY <3>1, TokensDiffer DEF Has
      <3> QED
        BY <3>2, <3>3 DEF Shows
    <2>7. Has(s, Value(f))
      BY <2>4 DEF Has
    <2> QED
      BY <2>1, <2>3, <2>5, <2>6, <2>7
  <1>3. CASE r.body[f] \notin {"empty", "quoting"}
    <2>1. Bare(r, f) = << Value(f) >>
      BY <1>3 DEF Bare
    <2>2. PICK s : s = << Value(f) >>
      OBVIOUS
    <2>3. s \in Seq(Written(r)) /\ DOMAIN s = 1 .. 1 /\ s[1] = Value(f)
      BY <2>2, TokensOf
    <2>4. Sound(r, s)
      BY <2>3, TokensOf DEF Sound
    <2>5. Shows(s, {f}) /\ Has(s, Value(f))
      BY <2>3, TokensDiffer DEF Shows, Has
    <2> QED
      BY <2>1, <2>2, <2>4, <2>5
  <1> QED
    BY <1>1, <1>2, <1>3

LEMMA UnquotedOne ==
    ASSUME NEW x
    PROVE  Unquoted(<< x >>) = IF x[1] = "placeholder" THEN << >> ELSE << x >>
  <1>1. PICK T : T = {x}
    OBVIOUS
  <1>2. PICK a : a = << x >>
    OBVIOUS
  <1>3. x \in T /\ a \in Seq(T) /\ Len(a) = 1 /\ a[1] = x
    BY <1>1, <1>2
  <1>4. PICK k : k = Kept(a)
    OBVIOUS
  <1>0. PICK n \in Nat \ {0} : n = 1
    OBVIOUS
  <1>5. k \in Seq(Seq(T)) /\ Len(k) = n /\ Unquoted(a) = FlattenSeq(k)
    BY <1>3, <1>4, <1>0, KeptShape
  <1>6. k[1] = IF x[1] = "placeholder" THEN << >> ELSE << x >>
    <2>1. 1 \in 1 .. Len(a)
      BY <1>3
    <2>2. k[1] = IF a[1][1] = "placeholder" THEN << >> ELSE << a[1] >>
      BY <1>3, <1>4, <2>1, KeptShape
    <2> QED
      BY <1>3, <2>2
  <1>7. k \in [1 .. n -> Seq(T)]
    BY <1>5, LenProperties
  <1>8. PICK g : Joins(n, k, T, g) /\ FlattenSeq(k) = g[n]
    BY <1>7, FlattenJoins
  <1>9. g[1] = k[1]
    BY <1>8 DEF Joins
  <1> QED
    BY <1>2, <1>4, <1>5, <1>6, <1>8, <1>9, <1>0

LEMMA UnquotedPair ==
    ASSUME NEW x, NEW y, x[1] # "placeholder", y[1] = "placeholder"
    PROVE  Unquoted(<< x, y >>) = << x >>
  <1>1. PICK T : T = {x, y}
    OBVIOUS
  <1>2. PICK a, b, c : a = << x >> /\ b = << y >> /\ c = << x, y >>
    OBVIOUS
  <1>0. a \in Seq(T) /\ b \in Seq(T) /\ c \in Seq(T)
    BY <1>1, <1>2
  <1>3. c = Join(a, b)
    <2>1. PICK d \in Seq(T) : d = Join(a, b) /\ Follows(a, b, d)
      BY <1>0, JoinShape
    <2>2. /\ Len(a) = 1 /\ Len(b) = 1 /\ Len(c) = 2
          /\ a[1] = x /\ b[1] = y /\ c[1] = x /\ c[2] = y
      BY <1>2
    <2>3. Len(d) = 2 /\ d[1] = x /\ d[2] = y
      <3>1. Len(d) = 1 + 1 /\ \A i \in 1 .. 1 : d[i] = a[i] /\ d[1 + i] = b[i]
        BY <2>1, <2>2 DEF Follows
      <3>2. 1 \in 1 .. 1 /\ 1 + 1 = 2
        OBVIOUS
      <3> QED
        BY <2>2, <3>1, <3>2
    <2>4. \A i \in 1 .. Len(c) : c[i] = d[i]
      BY <2>2, <2>3
    <2>5. c = d
      BY <1>0, <2>2, <2>3, <2>4, SeqEqual
    <2> QED
      BY <2>1, <2>5
  <1>4. Unquoted(c) = Join(Unquoted(a), Unquoted(b))
    BY <1>3, <1>0, UnquotedJoin
  <1>5. Unquoted(a) = a /\ Unquoted(b) = << >>
    BY <1>2, UnquotedOne
  <1> QED
    BY <1>2, <1>4, <1>5, <1>0, JoinEmpty

\* s is sound, and without quotations what p, the same of the plain request, is.
Proper(r, s, p) ==
    Sound(r, s) /\ Sound(Plainly(r), p) /\ Unquoted(s) = Unquoted(p)

\* ... and stands for the field f.
Renders(r, s, p, f) ==
    /\ Proper(r, s, p)
    /\ Shows(s, {f})
    /\ r.body[f] \in Said => Has(s, Value(f))

LEMMA NothingProper ==
    ASSUME NEW r
    PROVE  Proper(r, << >>, << >>) /\ Shows(<< >>, {})
  BY NothingSaid DEF Proper

LEMMA WordsProper ==
    ASSUME NEW r
    PROVE  Proper(r, << Words >>, << Words >>) /\ Shows(<< Words >>, {})
  BY WordsSaid DEF Proper

LEMMA BareRenders ==
    ASSUME NEW r, IsRequest(r), NEW f \in DOMAIN r.body, r.body[f] # "absent"
    PROVE  Renders(r, Bare(r, f), Bare(Plainly(r), f), f)
  <1>1. PICK q : q = Plainly(r)
    OBVIOUS
  <1>2. /\ f \in DOMAIN q.body
        /\ q.body[f] = IF r.body[f] = "quoting" THEN "given" ELSE r.body[f]
    BY <1>1, PlainlyIs
  <1>3. q.body[f] # "absent" /\ q.body[f] # "quoting"
    BY <1>2
  <1>4. Sound(r, Bare(r, f)) /\ Sound(q, Bare(q, f))
    BY <1>2, <1>3, BareSays
  <1>5. Unquoted(Bare(r, f)) = Unquoted(Bare(q, f))
    <2>1. CASE r.body[f] = "quoting"
      <3>1. Bare(r, f) = << Value(f), Hole(r.quote) >>
        BY <2>1 DEF Bare
      <3>2. q.body[f] = "given"
        BY <1>2, <2>1
      <3>3. Bare(q, f) = << Value(f) >>
        BY <3>2 DEF Bare
      <3>4. Value(f)[1] # "placeholder" /\ Hole(r.quote)[1] = "placeholder"
        BY TokensOf
      <3> QED
        BY <3>1, <3>3, <3>4, UnquotedOne, UnquotedPair
    <2>2. CASE r.body[f] # "quoting"
      <3>1. q.body[f] = r.body[f]
        BY <1>2, <2>2
      <3>2. Bare(q, f) = Bare(r, f)
        BY <2>2, <3>1 DEF Bare
      <3> QED
        BY <3>2
    <2> QED
      BY <2>1, <2>2
  <1>6. Proper(r, Bare(r, f), Bare(q, f))
    BY <1>1, <1>4, <1>5 DEF Proper
  <1> QED
    BY <1>1, <1>6, BareSays DEF Renders

LEMMA IfGivenRenders ==
    ASSUME NEW r, IsRequest(r), NEW f \in DOMAIN r.body
    PROVE  Renders(r, IfGiven(r, f), IfGiven(Plainly(r), f), f)
  <1>1. Plainly(r).body[f] = IF r.body[f] = "quoting" THEN "given" ELSE r.body[f]
    BY PlainlyIs
  <1>2. CASE r.body[f] \in {"absent", "empty"}
    <2>1. IfGiven(r, f) = << >> /\ IfGiven(Plainly(r), f) = << >>
      BY <1>1, <1>2 DEF IfGiven
    <2>2. Proper(r, << >>, << >>) /\ Shows(<< >>, {f})
      BY NothingProper DEF Shows
    <2>3. r.body[f] \notin Said
      BY <1>2 DEF Said
    <2> QED
      BY <2>1, <2>2, <2>3 DEF Renders
  <1>3. CASE r.body[f] \notin {"absent", "empty"}
    <2>1. IfGiven(r, f) = Bare(r, f)
      BY <1>3 DEF IfGiven
    <2>2. IfGiven(Plainly(r), f) = Bare(Plainly(r), f)
      BY <1>1, <1>3 DEF IfGiven
    <2> QED
      BY <1>3, <2>1, <2>2, BareRenders
  <1> QED
    BY <1>2, <1>3

LEMMA JoinedRenders ==
    ASSUME NEW r, IsRequest(r), NEW f \in DOMAIN r.body, r.body[f] # "absent"
    PROVE  Renders(r, Joined(r, f), Joined(Plainly(r), f), f)
  <1>1. Plainly(r).body[f] # "absent"
    BY PlainlyIs
  <1>2. Joined(r, f) = Bare(r, f) /\ Joined(Plainly(r), f) = Bare(Plainly(r), f)
    BY <1>1 DEF Joined
  <1> QED
    BY <1>2, BareRenders

LEMMA JoinedOrRenders ==
    ASSUME NEW r, IsRequest(r), NEW f \in DOMAIN r.body, r.body[f] # "absent",
           NEW otherwise \in {<< >>, << Words >>}
    PROVE  Renders(r, JoinedOr(r, f, otherwise), JoinedOr(Plainly(r), f, otherwise), f)
  <1>1. Plainly(r).body[f] = IF r.body[f] = "quoting" THEN "given" ELSE r.body[f]
    BY PlainlyIs
  <1>2. CASE r.body[f] = "empty"
    <2>1. /\ JoinedOr(r, f, otherwise) = otherwise
          /\ JoinedOr(Plainly(r), f, otherwise) = otherwise
      BY <1>1, <1>2 DEF JoinedOr
    <2>2. Proper(r, otherwise, otherwise) /\ Shows(otherwise, {f})
      BY NothingProper, WordsProper DEF Shows
    <2>3. r.body[f] \notin Said
      BY <1>2 DEF Said
    <2> QED
      BY <2>1, <2>2, <2>3 DEF Renders
  <1>3. CASE r.body[f] # "empty"
    <2>1. Plainly(r).body[f] # "empty"
      BY <1>1, <1>3
    <2>2. /\ JoinedOr(r, f, otherwise) = Joined(r, f)
          /\ JoinedOr(Plainly(r), f, otherwise) = Joined(Plainly(r), f)
      BY <1>3, <2>1 DEF JoinedOr
    <2> QED
      BY <2>2, JoinedRenders
  <1> QED
    BY <1>2, <1>3

\* No list of objects has a null among them.
NoNull(r) == \A f \in DOMAIN r.body : r.body[f] # "nullEntry"

LEMMA MappedRenders ==
    ASSUME NEW r, IsRequest(r), NEW f \in DOMAIN r.body, r.body[f] # "absent",
           NoNull(r)
    PROVE  Renders(r, Mapped(r, f), Mapped(Plainly(r), f), f)
  <1>1. Plainly(r).body[f] = IF r.body[f] = "quoting" THEN "given" ELSE r.body[f]
    BY PlainlyIs
  <1>2. r.body[f] # "nullEntry" /\ Plainly(r).body[f] # "nullEntry"
    BY <1>1 DEF NoNull
  <1>3. CASE r.body[f] = "listEntry"
    <2>1. PICK s : s = << Undefined >>
      OBVIOUS
    <2>2. Mapped(r, f) = s /\ Mapped(Plainly(r), f) = s
      BY <1>1, <1>3, <2>1 DEF Mapped
    <2>3. /\ Undefined \in Written(r) /\ Written(Plainly(r)) = Written(r)
          /\ Undefined[1] # "placeholder"
      BY <1>3, PlainlyIs DEF Written, Undefined
    <2>4. s \in Seq(Written(r)) /\ DOMAIN s = 1 .. 1 /\ s[1] = Undefined
      BY <2>1, <2>3
    <2>5. Proper(r, s, s)
      BY <2>3, <2>4 DEF Proper, Sound
    <2>6. Shows(s, {f})
      <3>1. ASSUME NEW g
            PROVE  Undefined # Value(g) /\ Undefined # << Notice >>
        BY DEF Undefined, Value, Notice
      <3> QED
        BY <2>4, <3>1 DEF Shows, Has
    <2>7. r.body[f] \notin Said
      BY <1>3 DEF Said
    <2> QED
      BY <2>2, <2>5, <2>6, <2>7 DEF Renders
  <1>4. CASE r.body[f] # "listEntry"
    <2>1. /\ Mapped(r, f) = Joined(r, f)
          /\ Mapped(Plainly(r), f) = Joined(Plainly(r), f)
      BY <1>1, <1>2, <1>4 DEF Mapped
    <2> QED
      BY <2>1, JoinedRenders
  <1> QED
    BY <1>3, <1>4

\* Two of them, one after the other.
LEMMA RendersBoth ==
    ASSUME NEW r, IsRequest(r), NEW f, NEW g, NEW s, NEW p, NEW t, NEW q,
           Renders(r, s, p, f), Renders(r, t, q, g)
    PROVE  /\ Proper(r, Join(s, t), Join(p, q))
           /\ Shows(Join(s, t), {f, g})
           /\ r.body[f] \in Said => Has(Join(s, t), Value(f))
           /\ r.body[g] \in Said => Has(Join(s, t), Value(g))
  <1>1. /\ s \in Seq(Written(r)) /\ t \in Seq(Written(r))
        /\ p \in Seq(Written(r)) /\ q \in Seq(Written(r))
    BY PlainlyIs DEF Renders, Proper, Sound
  <1>2. ASSUME NEW w, IsRequest(w), NEW a, NEW b, Sound(w, a), Sound(w, b)
        PROVE  Sound(w, Join(a, b))
    <2>1. PICK A \in Seq(Written(w)), B \in Seq(Written(w)) : A = a /\ B = b
      BY <1>2 DEF Sound
    <2>2. PICK C \in Seq(Written(w)) : C = Join(A, B) /\ Follows(A, B, C)
      BY JoinShape
    <2>3. PICK m \in Nat, n \in Nat : m = Len(A) /\ n = Len(B)
      OBVIOUS
    <2>4. /\ Len(C) = m + n /\ DOMAIN C = 1 .. (m + n)
          /\ DOMAIN A = 1 .. m /\ DOMAIN B = 1 .. n
          /\ \A i \in 1 .. m : C[i] = A[i]
          /\ \A i \in 1 .. n : C[m + i] = B[i]
      BY <2>2, <2>3, LenProperties DEF Follows
    <2>5. ASSUME NEW i \in 1 .. (m + n), C[i][1] = "placeholder"
          PROVE  i > 1 /\ \E h \in Quoting(w) : C[i - 1] = Value(h)
      <3>1. CASE i \in 1 .. m
        <4>1. PICK h \in Quoting(w) : i > 1 /\ A[i - 1] = Value(h)
          BY <1>2, <2>1, <2>4, <2>5, <3>1 DEF Sound
        <4>2. i - 1 \in 1 .. m
          BY <3>1, <4>1
        <4> QED
          BY <2>4, <4>1, <4>2
      <3>2. CASE i \notin 1 .. m
        <4>1. PICK j \in 1 .. n : i = m + j
          <5>1. i - m \in 1 .. n /\ i = m + (i - m)
            BY <3>2
          <5> QED
            BY <5>1
        <4>2. B[j][1] = "placeholder"
          BY <2>4, <2>5, <4>1
        <4>3. PICK h \in Quoting(w) : j > 1 /\ B[j - 1] = Value(h)
          BY <1>2, <2>1, <2>4, <4>2 DEF Sound
        <4>4. j - 1 \in 1 .. n /\ i - 1 = m + (j - 1) /\ i > 1
          BY <4>1, <4>3
        <4> QED
          BY <2>4, <4>3, <4>4
      <3> QED
        BY <3>1, <3>2
    <2> QED
      BY <2>1, <2>2, <2>4, <2>5 DEF Sound
  <1>3. Sound(r, Join(s, t)) /\ Sound(Plainly(r), Join(p, q))
    BY <1>2, PlainlyIs DEF Renders, Proper
  <1>4. Unquoted(Join(s, t)) = Unquoted(Join(p, q))
    <2>1. /\ Unquoted(Join(s, t)) = Join(Unquoted(s), Unquoted(t))
          /\ Unquoted(Join(p, q)) = Join(Unquoted(p), Unquoted(q))
      BY <1>1, UnquotedJoin
    <2> QED
      BY <2>1 DEF Renders, Proper
  <1>5. PICK c \in Seq(Written(r)) : c = Join(s, t) /\ Follows(s, t, c)
    BY <1>1, JoinShape
  <1>6. \A x : Has(c, x) <=> Has(s, x) \/ Has(t, x)
    <2>1. PICK m \in Nat, n \in Nat : m = Len(s) /\ n = Len(t)
      BY <1>1
    <2>2. /\ DOMAIN c = 1 .. (m + n) /\ DOMAIN s = 1 .. m /\ DOMAIN t = 1 .. n
          /\ \A i \in 1 .. m : c[i] = s[i]
          /\ \A i \in 1 .. n : c[m + i] = t[i]
      BY <1>1, <1>5, <2>1, LenProperties DEF Follows
    <2>3. ASSUME NEW x, Has(s, x)
          PROVE  Has(c, x)
      <3>1. PICK i \in 1 .. m : s[i] = x
        BY <2>2, <2>3 DEF Has
      <3>2. i \in 1 .. (m + n) /\ c[i] = x
        BY <2>2, <3>1
      <3> QED
        BY <2>2, <3>2 DEF Has
    <2>4. ASSUME NEW x, Has(t, x)
          PROVE  Has(c, x)
      <3>1. PICK i \in 1 .. n : t[i] = x
        BY <2>2, <2>4 DEF Has
      <3>2. m + i \in 1 .. (m + n) /\ c[m + i] = x
        BY <2>2, <3>1
      <3> QED
        BY <2>2, <3>2 DEF Has
    <2>5. ASSUME NEW x, Has(c, x)
          PROVE  Has(s, x) \/ Has(t, x)
      <3>1. PICK i \in 1 .. (m + n) : c[i] = x
        BY <2>2, <2>5 DEF Has
      <3>2. CASE i \in 1 .. m
        BY <2>2, <3>1, <3>2 DEF Has
      <3>3. CASE i \notin 1 .. m
        <4>1. PICK j \in 1 .. n : i = m + j
          <5>1. i - m \in 1 .. n /\ i = m + (i - m)
            BY <3>3
          <5> QED
            BY <5>1
        <4> QED
          BY <2>2, <3>1, <4>1 DEF Has
      <3> QED
        BY <3>2, <3>3
    <2> QED
      BY <2>3, <2>4, <2>5
  <1> QED
    BY <1>3, <1>4, <1>5, <1>6 DEF Renders, Proper, Shows

\* A fiscal impact: the level, and beside it the summary.
LEMMA FiscalRenders ==
    ASSUME NEW r, IsRequest(r),
           "fiscalImpactLevel" \in DOMAIN r.body,
           "fiscalImpactSummary" \in DOMAIN r.body
    PROVE  /\ Proper(r, FiscalImpactLine(r), FiscalImpactLine(Plainly(r)))
           /\ Shows(FiscalImpactLine(r), {"fiscalImpactLevel", "fiscalImpactSummary"})
           /\ r.body["fiscalImpactLevel"] \in Said =>
                 /\ Has(FiscalImpactLine(r), Value("fiscalImpactLevel"))
                 /\ r.body["fiscalImpactSummary"] \in Said =>
                       Has(FiscalImpactLine(r), Value("fiscalImpactSummary"))
  <1>1. PICK f \in DOMAIN r.body, g \in DOMAIN r.body :
           f = "fiscalImpactLevel" /\ g = "fiscalImpactSummary"
    OBVIOUS
  <1>2. Plainly(r).body[f] = IF r.body[f] = "quoting" THEN "given" ELSE r.body[f]
    BY PlainlyIs
  <1>3. CASE r.body[f] \in {"absent", "empty"}
    <2>1. FiscalImpactLine(r) = << >> /\ FiscalImpactLine(Plainly(r)) = << >>
      BY <1>1, <1>2, <1>3 DEF FiscalImpactLine
    <2>2. Proper(r, << >>, << >>) /\ Shows(<< >>, {f, g})
      BY NothingProper DEF Shows
    <2>3. r.body[f] \notin Said
      BY <1>3 DEF Said
    <2> QED
      BY <1>1, <2>1, <2>2, <2>3
  <1>4. CASE r.body[f] \notin {"absent", "empty"}
    <2>1. FiscalImpactLine(r) = Join(Bare(r, f), IfGiven(r, g))
      BY <1>1, <1>4 DEF FiscalImpactLine, Join
    <2>2. FiscalImpactLine(Plainly(r))
             = Join(Bare(Plainly(r), f), IfGiven(Plainly(r), g))
      BY <1>1, <1>2, <1>4 DEF FiscalImpactLine, Join
    <2>3. /\ Renders(r, Bare(r, f), Bare(Plainly(r), f), f)
          /\ Renders(r, IfGiven(r, g), IfGiven(Plainly(r), g), g)
      BY <1>4, BareRenders, IfGivenRenders
    <2>4. PICK s, p, t, q :
             /\ s = Bare(r, f) /\ p = Bare(Plainly(r), f)
             /\ t = IfGiven(r, g) /\ q = IfGiven(Plainly(r), g)
      OBVIOUS
    <2>5. /\ Proper(r, Join(s, t), Join(p, q))
          /\ Shows(Join(s, t), {f, g})
          /\ r.body[f] \in Said => Has(Join(s, t), Value(f))
          /\ r.body[g] \in Said => Has(Join(s, t), Value(g))
      BY <2>3, <2>4, RendersBoth
    <2> QED
      BY <1>1, <2>1, <2>2, <2>4, <2>5
  <1> QED
    BY <1>3, <1>4

------------------------------------------------------------------------------
(* The seed *)

\* A template's text has n placeholders and notices, and the former are those
\* that it declares.
Spelled(t, n) ==
    /\ n \in Nat \ {0}
    /\ DOMAIN t.text = 1 .. n
    /\ ToSet(t.text) \ {Notice} = t.variables

\* The two texts for a document, with a notice and without one.
Noticed == Prompt(<< Notice, "TEXT" >>, {"TEXT"})
Unnoticed == Prompt(<< "TEXT" >>, {"TEXT"})

LEMMA NoticeUndeclared ==
    /\ Notice \notin StructuralAnalysis.variables
    /\ Notice \notin PdfTextRules.variables
    /\ Notice \notin PdfFieldsDefault.variables
    /\ Notice \notin Rag.variables
    /\ Notice \notin BillExtraction.variables
    /\ Notice \notin BillVotesExtraction.variables
    /\ Notice \notin CivicsExtraction.variables
    /\ Notice \notin CivicsExtractionCompact.variables
    /\ Notice \notin BillAnalysis.variables
    /\ Notice \notin BillRelevanceExplanation.variables
    /\ Notice \notin BillStatusSummary.variables
    /\ Notice \notin PropositionRelevanceExplanation.variables
    /\ Notice \notin RepresentativeRelevanceExplanation.variables
    /\ Notice \notin CommitteeRelevanceExplanation.variables
    /\ Notice \notin BriefingSummary.variables
    /\ Notice \notin PersonalizedImpact.variables
    /\ Notice \notin Noticed.variables
    /\ Notice \notin Unnoticed.variables
  BY DEF Prompt, Notice, Noticed, Unnoticed, StructuralAnalysis,
     PdfTextRules, PdfFieldsDefault, Rag, BillExtraction,
     BillVotesExtraction, CivicsExtraction, CivicsExtractionCompact,
     BillAnalysis, BillRelevanceExplanation, BillStatusSummary,
     PropositionRelevanceExplanation, RepresentativeRelevanceExplanation,
     CommitteeRelevanceExplanation, BriefingSummary, PersonalizedImpact

LEMMA TextsSpelled ==
    /\ Spelled(StructuralAnalysis, 6)
    /\ Spelled(PdfTextRules, 6)
    /\ Spelled(PdfFieldsDefault, 1)
    /\ Spelled(Rag, 2)
    /\ Spelled(BillExtraction, 7)
    /\ Spelled(BillVotesExtraction, 8)
    /\ Spelled(CivicsExtraction, 10)
    /\ Spelled(CivicsExtractionCompact, 10)
    /\ Spelled(BillAnalysis, 11)
    /\ Spelled(BillRelevanceExplanation, 14)
    /\ Spelled(BillStatusSummary, 10)
    /\ Spelled(PropositionRelevanceExplanation, 14)
    /\ Spelled(RepresentativeRelevanceExplanation, 14)
    /\ Spelled(CommitteeRelevanceExplanation, 13)
    /\ Spelled(BriefingSummary, 16)
    /\ Spelled(PersonalizedImpact, 11)
    /\ Spelled(Noticed, 2)
    /\ Spelled(Unnoticed, 1)
  <1>1. Spelled(StructuralAnalysis, 6)
    BY NoticeUndeclared DEF StructuralAnalysis, Prompt, ToSet, Spelled
  <1>2. Spelled(PdfTextRules, 6)
    BY NoticeUndeclared DEF PdfTextRules, Prompt, ToSet, Spelled
  <1>3. Spelled(PdfFieldsDefault, 1)
    BY NoticeUndeclared DEF PdfFieldsDefault, Prompt, ToSet, Spelled
  <1>4. Spelled(Rag, 2)
    BY NoticeUndeclared DEF Rag, Prompt, ToSet, Spelled
  <1>5. Spelled(BillExtraction, 7)
    BY NoticeUndeclared DEF BillExtraction, Prompt, ToSet, Spelled
  <1>6. Spelled(BillVotesExtraction, 8)
    BY NoticeUndeclared DEF BillVotesExtraction, Prompt, ToSet, Spelled
  <1>7. Spelled(CivicsExtraction, 10)
    BY NoticeUndeclared DEF CivicsExtraction, Prompt, ToSet, Spelled
  <1>8. Spelled(CivicsExtractionCompact, 10)
    BY NoticeUndeclared DEF CivicsExtractionCompact, Prompt, ToSet, Spelled
  <1>9. Spelled(BillAnalysis, 11)
    BY NoticeUndeclared DEF BillAnalysis, Prompt, ToSet, Spelled
  <1>10. Spelled(BillRelevanceExplanation, 14)
    BY NoticeUndeclared DEF BillRelevanceExplanation, Prompt, ToSet, Spelled
  <1>11. Spelled(BillStatusSummary, 10)
    BY NoticeUndeclared DEF BillStatusSummary, Prompt, ToSet, Spelled
  <1>12. Spelled(PropositionRelevanceExplanation, 14)
    BY NoticeUndeclared DEF PropositionRelevanceExplanation, Prompt, ToSet, Spelled
  <1>13. Spelled(RepresentativeRelevanceExplanation, 14)
    BY NoticeUndeclared DEF RepresentativeRelevanceExplanation, Prompt, ToSet, Spelled
  <1>14. Spelled(CommitteeRelevanceExplanation, 13)
    BY NoticeUndeclared DEF CommitteeRelevanceExplanation, Prompt, ToSet, Spelled
  <1>15. Spelled(BriefingSummary, 16)
    BY NoticeUndeclared DEF BriefingSummary, Prompt, ToSet, Spelled
  <1>16. Spelled(PersonalizedImpact, 11)
    BY NoticeUndeclared DEF PersonalizedImpact, Prompt, ToSet, Spelled
  <1>17. Spelled(Noticed, 2)
    BY NoticeUndeclared DEF Noticed, Prompt, ToSet, Spelled
  <1>18. Spelled(Unnoticed, 1)
    BY NoticeUndeclared DEF Unnoticed, Prompt, ToSet, Spelled
  <1> QED
    BY <1>1, <1>2, <1>3, <1>4, <1>5, <1>6, <1>7, <1>8, <1>9, <1>10, <1>11,
       <1>12, <1>13, <1>14, <1>15, <1>16, <1>17, <1>18

\* The templates by their names.
LEMMA SchemaPrompts == \A name \in SchemaTemplates : prompts[name] = Plain
  <1>1. /\ prompts["structural-schema-propositions"] = SchemaPropositions
        /\ prompts["structural-schema-meetings"] = SchemaMeetings
        /\ prompts["structural-schema-representatives"] = SchemaRepresentatives
        /\ prompts["structural-schema-default"] = SchemaDefault
        /\ prompts["structural-schema-campaign_finance"] = SchemaCampaignFinance
        /\ prompts["structural-schema-lobbying"] = SchemaLobbying
    BY DEF prompts, PromptNames, SchemaTemplates
  <1>2. /\ SchemaPropositions = Plain /\ SchemaMeetings = Plain
        /\ SchemaRepresentatives = Plain /\ SchemaDefault = Plain
        /\ SchemaCampaignFinance = Plain /\ SchemaLobbying = Plain
    BY DEF SchemaPropositions, SchemaMeetings, SchemaRepresentatives,
           SchemaDefault, SchemaCampaignFinance, SchemaLobbying
  <1> QED
    BY <1>1, <1>2 DEF SchemaTemplates

LEMMA DocumentPrompts ==
    \A name \in DocumentTemplates :
        IF name = "document-analysis-base-instructions" THEN prompts[name] = Plain
        ELSE prompts[name] \in {Noticed, Unnoticed}
  <1>1. /\ prompts["document-analysis-base-instructions"] = BaseInstructions
        /\ prompts["document-analysis-generic"] = Generic
        /\ prompts["document-analysis-petition"] = Petition
        /\ prompts["document-analysis-representative-bio"] = RepresentativeBio
        /\ prompts["document-analysis-representative-committees-summary"] =
              RepresentativeCommitteesSummary
        /\ prompts["document-analysis-representative-activity-summary"] =
              RepresentativeActivitySummary
        /\ prompts["document-analysis-committee-activity-summary"] =
              CommitteeActivitySummary
    BY DEF prompts, PromptNames, DocumentTemplates
  <1>2. /\ prompts["document-analysis-minutes-summary"] = MinutesSummary
        /\ prompts["document-analysis-legislative-committee-description"] =
              LegislativeCommitteeDescription
        /\ prompts["document-analysis-proposition"] = Proposition
        /\ prompts["document-analysis-proposition-analysis"] = PropositionAnalysis
        /\ prompts["document-analysis-contract"] = Contract
        /\ prompts["document-analysis-form"] = Form
    BY DEF prompts, PromptNames, DocumentTemplates
  <1>3. /\ BaseInstructions = Plain
        /\ Generic = Noticed /\ Petition = Noticed /\ MinutesSummary = Noticed
        /\ Proposition = Noticed /\ Contract = Noticed /\ Form = Noticed
    BY DEF BaseInstructions, Generic, Petition, MinutesSummary, Proposition,
           Contract, Form, Noticed
  <1>4. /\ RepresentativeBio = Unnoticed
        /\ RepresentativeCommitteesSummary = Unnoticed
        /\ RepresentativeActivitySummary = Unnoticed
        /\ CommitteeActivitySummary = Unnoticed
        /\ LegislativeCommitteeDescription = Unnoticed
        /\ PropositionAnalysis = Unnoticed
    BY DEF RepresentativeBio, RepresentativeCommitteesSummary,
           RepresentativeActivitySummary, CommitteeActivitySummary,
           LegislativeCommitteeDescription, PropositionAnalysis, Unnoticed
  <1> QED
    BY <1>1, <1>2, <1>3, <1>4 DEF DocumentTemplates

LEMMA OtherPrompts ==
    /\ prompts["structural-analysis"] = StructuralAnalysis
    /\ prompts["pdf-text-rules"] = PdfTextRules
    /\ prompts["pdf-text-rules-fields-meetings"] = PdfFieldsMeetings
    /\ prompts["pdf-text-rules-fields-propositions"] = PdfFieldsPropositions
    /\ prompts["pdf-text-rules-fields-representatives"] = PdfFieldsRepresentatives
    /\ prompts["pdf-text-rules-fields-default"] = PdfFieldsDefault
    /\ prompts["rag"] = Rag
    /\ prompts["bill-extraction"] = BillExtraction
    /\ prompts["bill-votes-extraction"] = BillVotesExtraction
    /\ prompts["civics-extraction"] = CivicsExtraction
    /\ prompts["civics-extraction-compact"] = CivicsExtractionCompact
    /\ prompts["bill-analysis"] = BillAnalysis
    /\ prompts["bill-relevance-explanation"] = BillRelevanceExplanation
    /\ prompts["bill-status-summary"] = BillStatusSummary
    /\ prompts["proposition-relevance-explanation"] =
          PropositionRelevanceExplanation
    /\ prompts["representative-relevance-explanation"] =
          RepresentativeRelevanceExplanation
    /\ prompts["committee-relevance-explanation"] = CommitteeRelevanceExplanation
    /\ prompts["briefing-summary"] = BriefingSummary
    /\ prompts["personalized-impact"] = PersonalizedImpact
    /\ prompts["ocr-transcription"] = OcrTranscription
    /\ prompts["ocr-transcription-document"] = OcrTranscriptionDocument
  BY DEF prompts, PromptNames

\* The seed is in step with itself.
LEMMA NoDrift == \A name \in DOMAIN prompts : Drift(name) = {}
  <1> DEFINE InStep(t) == ToSet(t.text) \ {Notice} = t.variables
  <1>1. InStep(Plain)
    BY DEF Plain, Prompt, ToSet
  <1>2. \A t, n : Spelled(t, n) => InStep(t)
    BY DEF Spelled
  <1>3. \A name \in SchemaTemplates \cup DocumentTemplates : InStep(prompts[name])
    <2>1. InStep(Noticed) /\ InStep(Unnoticed)
      BY <1>2, TextsSpelled
    <2> HIDE DEF InStep
    <2>2. \A name \in SchemaTemplates : InStep(prompts[name])
      BY <1>1, SchemaPrompts
    <2>3. \A name \in DocumentTemplates : InStep(prompts[name])
      BY <1>1, <2>1, DocumentPrompts
    <2> QED
      BY <2>2, <2>3
  <1>4. /\ PdfFieldsMeetings = Plain /\ PdfFieldsPropositions = Plain
        /\ PdfFieldsRepresentatives = Plain
        /\ OcrTranscription = Plain /\ OcrTranscriptionDocument = Plain
    BY DEF PdfFieldsMeetings, PdfFieldsPropositions, PdfFieldsRepresentatives,
           OcrTranscription, OcrTranscriptionDocument
  <1>5. \A name \in PromptNames \ (SchemaTemplates \cup DocumentTemplates) :
           InStep(prompts[name])
    <2>1. /\ InStep(StructuralAnalysis) /\ InStep(PdfTextRules)
          /\ InStep(PdfFieldsDefault) /\ InStep(Rag) /\ InStep(BillExtraction)
          /\ InStep(BillVotesExtraction) /\ InStep(CivicsExtraction)
          /\ InStep(CivicsExtractionCompact) /\ InStep(BillAnalysis)
          /\ InStep(BillRelevanceExplanation) /\ InStep(BillStatusSummary)
          /\ InStep(PropositionRelevanceExplanation)
          /\ InStep(RepresentativeRelevanceExplanation)
          /\ InStep(CommitteeRelevanceExplanation)
          /\ InStep(BriefingSummary) /\ InStep(PersonalizedImpact)
      <3> HIDE DEF InStep
      <3> QED
        BY <1>2, TextsSpelled
    <2> HIDE DEF InStep
    <2> QED
      BY <1>1, <1>4, <2>1, OtherPrompts DEF PromptNames
  <1>6. \A name \in PromptNames : InStep(prompts[name])
    <2> HIDE DEF InStep
    <2> QED
      BY <1>3, <1>5
  <1>7. DOMAIN prompts = PromptNames
    BY DEF prompts
  <1> QED
    BY <1>6, <1>7 DEF Drift, extractPlaceholders

------------------------------------------------------------------------------
(* What each endpoint makes of a body *)

\* What a request says and does not lose by the exceptions of NothingLost.
Due(r, f) ==
    /\ r.body[f] \in Said
    /\ f # "compact"
    /\ ~(f = "documentType" /\ r.endpoint = "document-analysis")
    /\ ~(f = "firstName" /\ r.body[f] = "spaces")
    /\ ~(/\ f = "fiscalImpactSummary"
         /\ "fiscalImpactLevel" \in DOMAIN r.body
         /\ r.body["fiscalImpactLevel"] \notin Said)
    /\ ~(f = "text" /\ r.suffix = "base-instructions")

\* What no prompt has above its notice.
Fenced(endpoint) == Untrusted(endpoint) \ Exposed(endpoint)

\* s, the prompt for r, beside p, the prompt for the plain request.
Answers(r, s, p) ==
    /\ Sound(r, s)
    /\ \A f \in DOMAIN r.body : Due(r, f) => Has(s, Value(f))
    /\ Unquoted(s) = Unquoted(p)
    /\ Has(s, << Notice >>) =>
          \A i \in DOMAIN s, f \in Fenced(r.endpoint) :
              s[i] = Value(f) => \E j \in 1 .. (i - 1) : s[j] = << Notice >>

\* The notice stands above all of this.
Guarded(r, t, variables) ==
    \E k \in DOMAIN t.text :
        /\ t.text[k] = Notice
        /\ \A i \in 1 .. (k - 1), f \in Fenced(r.endpoint) :
              ~Has(variables[t.text[i]], Value(f))

\* The variables for r, and those for the plain request, go with the template
\* t.
Serves(r, t, variables, others) ==
    /\ DOMAIN variables = t.variables /\ DOMAIN others = t.variables
    /\ \A v \in t.variables : Proper(r, variables[v], others[v])
    /\ \A f \in DOMAIN r.body :
          Due(r, f) => \E v \in t.variables : Has(variables[v], Value(f))

\* Then the text filled in is a prompt as it should be.
LEMMA ServesAnswers ==
    ASSUME NEW r, IsRequest(r), NEW t, NEW n, Spelled(t, n),
           NEW variables, NEW others, Serves(r, t, variables, others),
           \/ Fenced(r.endpoint) = {}
           \/ Guarded(r, t, variables)
           \/ ~Has(FillIn(Tokens(t.text), variables), << Notice >>)
    PROVE  Answers(r, FillIn(Tokens(t.text), variables),
                      FillIn(Tokens(t.text), others))
  <1>1. PICK text, s, p : /\ text = t.text
                          /\ s = FillIn(Tokens(text), variables)
                          /\ p = FillIn(Tokens(text), others)
    OBVIOUS
  <1>2. /\ n \in Nat \ {0} /\ DOMAIN text = 1 .. n
        /\ \A v : v \in t.variables <=>
              v # Notice /\ \E i \in 1 .. n : text[i] = v
    BY <1>1 DEF Spelled, ToSet
  <1>3. Fills(r, n, text, variables) /\ Fills(Plainly(r), n, text, others)
    BY <1>2 DEF Fills, Serves, Proper
  <1>4. Sound(r, s)
    BY <1>1, <1>3, FilledSound
  <1>5. ASSUME NEW f \in DOMAIN r.body, Due(r, f)
        PROVE  Has(s, Value(f))
    <2>1. PICK v \in t.variables : Has(variables[v], Value(f))
      BY <1>5 DEF Serves
    <2>2. PICK i \in 1 .. n : text[i] = v /\ text[i] # Notice
      BY <1>2
    <2> QED
      BY <1>1, <1>3, <2>1, <2>2, FilledHas
  <1>6. Unquoted(s) = Unquoted(p)
    <2>1. Written(Plainly(r)) = Written(r)
      BY PlainlyIs
    <2>2. /\ DOMAIN others = DOMAIN variables
          /\ \A v \in DOMAIN variables : Unquoted(variables[v]) = Unquoted(others[v])
      BY DEF Serves, Proper
    <2> QED
      BY <1>1, <1>3, <2>1, <2>2, FilledUnquoted
  <1>7. ASSUME Has(s, << Notice >>), NEW i \in DOMAIN s,
               NEW f \in Fenced(r.endpoint), s[i] = Value(f)
        PROVE  \E j \in 1 .. (i - 1) : s[j] = << Notice >>
    <2>1. Guarded(r, t, variables)
      BY <1>1, <1>7
    <2>2. PICK k \in 1 .. n :
             /\ text[k] = Notice
             /\ \A l \in 1 .. (k - 1) : ~Has(variables[text[l]], Value(f))
      BY <1>1, <1>2, <2>1 DEF Guarded
    <2>3. Value(f) # << Notice >>
      BY TokensDiffer
    <2>4. PICK token : token = Value(f)
      OBVIOUS
    <2>5. /\ Fills(r, n, text, variables)
          /\ k \in 1 .. n /\ text[k] = Notice /\ token # << Notice >>
          /\ \A l \in 1 .. (k - 1) :
                text[l] # Notice => ~Has(variables[text[l]], token)
          /\ i \in DOMAIN FillIn(Tokens(text), variables)
          /\ FillIn(Tokens(text), variables)[i] = token
      BY <1>1, <1>3, <1>7, <2>2, <2>3, <2>4
    <2>6. \E q \in 1 .. (i - 1) :
             FillIn(Tokens(text), variables)[q] = << Notice >>
      BY <2>5, FilledBelow
    <2> QED
      BY <1>1, <2>6
  <1> QED
    BY <1>1, <1>4, <1>5, <1>6, <1>7 DEF Answers

\* The first name, but for one of blanks.
LEMMA FirstNameRenders ==
    ASSUME NEW r, IsRequest(r), "firstName" \in DOMAIN r.body
    PROVE  /\ Proper(r, FirstName(r), FirstName(Plainly(r)))
           /\ Shows(FirstName(r), {"firstName"})
           /\ r.body["firstName"] \in Said \ {"spaces"} =>
                 Has(FirstName(r), Value("firstName"))
  <1>1. PICK f \in DOMAIN r.body : f = "firstName"
    OBVIOUS
  <1>2. Plainly(r).body[f] = IF r.body[f] = "quoting" THEN "given" ELSE r.body[f]
    BY PlainlyIs
  <1>3. CASE r.body[f] = "spaces"
    <2>1. FirstName(r) = << >> /\ FirstName(Plainly(r)) = << >>
      BY <1>1, <1>2, <1>3 DEF FirstName
    <2>2. Proper(r, << >>, << >>) /\ Shows(<< >>, {f})
      BY NothingProper DEF Shows
    <2> QED
      BY <1>1, <1>3, <2>1, <2>2
  <1>4. CASE r.body[f] # "spaces"
    <2>1. /\ FirstName(r) = IfGiven(r, f)
          /\ FirstName(Plainly(r)) = IfGiven(Plainly(r), f)
      BY <1>1, <1>2, <1>4 DEF FirstName
    <2> QED
      BY <1>1, <2>1, IfGivenRenders DEF Renders
  <1> QED
    BY <1>3, <1>4

\* A choice, or words in its place.
LEMMA AxisRenders ==
    ASSUME NEW r, IsRequest(r), NEW f \in DOMAIN r.body
    PROVE  Renders(r, IF r.body[f] = "absent" THEN << Words >> ELSE Bare(r, f),
                   IF Plainly(r).body[f] = "absent" THEN << Words >>
                   ELSE Bare(Plainly(r), f), f)
  <1>1. Plainly(r).body[f] = "absent" <=> r.body[f] = "absent"
    BY PlainlyIs
  <1>2. CASE r.body[f] = "absent"
    <2>1. Proper(r, << Words >>, << Words >>) /\ Shows(<< Words >>, {f})
      BY WordsProper DEF Shows
    <2>2. r.body[f] \notin Said
      BY <1>2 DEF Said
    <2>3. Renders(r, << Words >>, << Words >>, f)
      BY <2>1, <2>2 DEF Renders
    <2> QED
      BY <1>1, <1>2, <2>3
  <1>3. CASE r.body[f] # "absent"
    BY <1>1, <1>3, BareRenders
  <1> QED
    BY <1>2, <1>3

\* One lemma for each endpoint.
LEMMA BillExtractionServes ==
    ASSUME NEW r, IsRequest(r), Valid(r), r.endpoint = "bill-extraction"
    PROVE  /\ Serves(r, BillExtraction,
                     BillExtractionVariables(r),
                     BillExtractionVariables(Plainly(r)))
           /\ Guarded(r, BillExtraction, BillExtractionVariables(r))
  <1> DEFINE t == BillExtraction
             X == BillExtractionVariables(r)
             Y == BillExtractionVariables(Plainly(r))
  <1>1. DOMAIN r.body =
           {"regionId", "sourceUrl", "html", "sessionYear"}
    BY PlainlyIs DEF Endpoints, Dto, BillExtractionDto
  <1>2. \A f \in {"regionId", "sourceUrl", "sessionYear", "html"} :
           r.body[f] # "absent"
    BY <1>1 DEF Valid, Endpoints, Dto, BillExtractionDto, Choice, NonEmptyText
  <1>3. \A f \in {"regionId", "sourceUrl", "sessionYear", "html"} :
           Renders(r, Bare(r, f), Bare(Plainly(r), f), f)
    BY <1>1, <1>2, BareRenders
  <1>4. DOMAIN X = t.variables /\ DOMAIN Y = t.variables
    BY DEF BillExtractionVariables, BillExtraction, Prompt
  <1>5. \A v \in t.variables : Proper(r, X[v], Y[v])
    BY <1>3
       DEF BillExtractionVariables, BillExtraction, Prompt, Renders
  <1>6. ASSUME NEW f \in DOMAIN r.body, Due(r, f)
         PROVE  \E v \in t.variables : Has(X[v], Value(f))
    BY <1>1, <1>3, <1>6
       DEF BillExtractionVariables, BillExtraction, Prompt, Renders, Due
  <1>7. /\ t.text[4] = Notice
         /\ \A i \in 1 .. 3 :
               ~Has(X[t.text[i]], Value("html"))
    BY <1>3
       DEF BillExtractionVariables, BillExtraction, Prompt, Renders, Shows
  <1>8. Fenced(r.endpoint) = {"html"}
    BY DEF Fenced, Untrusted, Exposed
  <1>9. 4 \in DOMAIN t.text
    BY TextsSpelled DEF Spelled
  <1> QED
    BY <1>4, <1>5, <1>6, <1>7, <1>8, <1>9 DEF Serves, Guarded

LEMMA BillVotesExtractionServes ==
    ASSUME NEW r, IsRequest(r), Valid(r), r.endpoint = "bill-votes-extraction"
    PROVE  /\ Serves(r, BillVotesExtraction,
                     BillVotesExtractionVariables(r),
                     BillVotesExtractionVariables(Plainly(r)))
           /\ Guarded(r, BillVotesExtraction,
                      BillVotesExtractionVariables(r))
  <1> DEFINE t == BillVotesExtraction
             X == BillVotesExtractionVariables(r)
             Y == BillVotesExtractionVariables(Plainly(r))
  <1>1. DOMAIN r.body =
           {"regionId", "sourceUrl", "billId", "html", "sessionYear"}
    BY PlainlyIs DEF Endpoints, Dto, BillVotesExtractionDto
  <1>2. \A f \in {"regionId", "sourceUrl", "sessionYear", "billId", "html"} :
           r.body[f] # "absent"
    BY <1>1 DEF Valid, Endpoints, Dto, BillVotesExtractionDto, Choice,
           NonEmptyText
  <1>3. \A f \in {"regionId", "sourceUrl", "sessionYear", "billId", "html"} :
           Renders(r, Bare(r, f), Bare(Plainly(r), f), f)
    BY <1>1, <1>2, BareRenders
  <1>4. DOMAIN X = t.variables /\ DOMAIN Y = t.variables
    BY DEF BillVotesExtractionVariables, BillVotesExtraction, Prompt
  <1>5. \A v \in t.variables : Proper(r, X[v], Y[v])
    BY <1>3
       DEF BillVotesExtractionVariables, BillVotesExtraction, Prompt, Renders
  <1>6. ASSUME NEW f \in DOMAIN r.body, Due(r, f)
         PROVE  \E v \in t.variables : Has(X[v], Value(f))
    BY <1>1, <1>3, <1>6
       DEF BillVotesExtractionVariables, BillVotesExtraction, Prompt, Renders,
           Due
  <1>7. /\ t.text[5] = Notice
         /\ \A i \in 1 .. 4 :
               ~Has(X[t.text[i]], Value("html"))
    BY <1>3
       DEF BillVotesExtractionVariables, BillVotesExtraction, Prompt, Renders,
           Shows
  <1>8. Fenced(r.endpoint) = {"html"}
    BY DEF Fenced, Untrusted, Exposed
  <1>9. 5 \in DOMAIN t.text
    BY TextsSpelled DEF Spelled
  <1> QED
    BY <1>4, <1>5, <1>6, <1>7, <1>8, <1>9 DEF Serves, Guarded

LEMMA CivicsExtractionServes ==
    ASSUME NEW r, IsRequest(r), Valid(r), r.endpoint = "civics-extraction"
    PROVE  /\ Serves(r, CivicsExtraction,
                     CivicsExtractionVariables(r),
                     CivicsExtractionVariables(Plainly(r)))
           /\ Guarded(r, CivicsExtraction, CivicsExtractionVariables(r))
  <1> DEFINE t == CivicsExtraction
             X == CivicsExtractionVariables(r)
             Y == CivicsExtractionVariables(Plainly(r))
  <1>1. DOMAIN r.body =
           {"regionId", "sourceUrl", "contentGoal", "html", "category",
            "hints", "compact"}
    BY PlainlyIs DEF Endpoints, Dto, CivicsExtractionDto
  <1>2. \A f \in {"regionId", "sourceUrl", "contentGoal", "html"} :
           r.body[f] # "absent"
    BY <1>1 DEF Valid, Endpoints, Dto, CivicsExtractionDto, Text
  <1>3. \A f \in {"regionId", "sourceUrl", "contentGoal", "html"} :
           Renders(r, Bare(r, f), Bare(Plainly(r), f), f)
    BY <1>1, <1>2, BareRenders
  <1>4. \A f \in {"category", "hints"} :
           Renders(r, IfGiven(r, f), IfGiven(Plainly(r), f), f)
    BY <1>1, IfGivenRenders
  <1>5. DOMAIN X = t.variables /\ DOMAIN Y = t.variables
    BY DEF CivicsExtractionVariables, CivicsExtraction, Prompt
  <1>6. \A v \in t.variables : Proper(r, X[v], Y[v])
    BY <1>3, <1>4
       DEF CivicsExtractionVariables, CivicsExtraction, Prompt, Hints, Renders
  <1>7. ASSUME NEW f \in DOMAIN r.body, Due(r, f)
         PROVE  \E v \in t.variables : Has(X[v], Value(f))
    BY <1>1, <1>3, <1>4, <1>7
       DEF CivicsExtractionVariables, CivicsExtraction, Prompt, Hints,
           Renders, Due
  <1>8. /\ t.text[6] = Notice
         /\ \A i \in 1 .. 5 :
               ~Has(X[t.text[i]], Value("html"))
    BY <1>3, <1>4
       DEF CivicsExtractionVariables, CivicsExtraction, Prompt, Hints,
           Renders, Shows
  <1>9. Fenced(r.endpoint) = {"html"}
    BY DEF Fenced, Untrusted, Exposed
  <1>10. 6 \in DOMAIN t.text
    BY TextsSpelled DEF Spelled
  <1> QED
    BY <1>5, <1>6, <1>7, <1>8, <1>9, <1>10 DEF Serves, Guarded

LEMMA BillAnalysisServes ==
    ASSUME NEW r, IsRequest(r), Valid(r), r.endpoint = "bill-analysis"
    PROVE  /\ Serves(r, BillAnalysis,
                     BillAnalysisVariables(r),
                     BillAnalysisVariables(Plainly(r)))
           /\ Guarded(r, BillAnalysis, BillAnalysisVariables(r))
  <1> DEFINE t == BillAnalysis
             X == BillAnalysisVariables(r)
             Y == BillAnalysisVariables(Plainly(r))
  <1>1. DOMAIN r.body =
           {"regionId", "billNumber", "title", "fullText", "sessionYear",
            "subject", "status", "authorName", "officialSummary",
            "fiscalImpactSummary"}
    BY PlainlyIs DEF Endpoints, Dto, BillAnalysisDto
  <1>2. \A f \in {"regionId", "billNumber", "sessionYear", "title",
                  "fullText"} :
           r.body[f] # "absent"
    BY <1>1 DEF Valid, Endpoints, Dto, BillAnalysisDto, Choice, NonEmptyText
  <1>3. \A f \in {"regionId", "billNumber", "sessionYear", "title", "fullText"} :
           Renders(r, Bare(r, f), Bare(Plainly(r), f), f)
    BY <1>1, <1>2, BareRenders
  <1>4. \A f \in {"subject", "status", "authorName", "officialSummary",
                  "fiscalImpactSummary"} :
           Renders(r, IfGiven(r, f), IfGiven(Plainly(r), f), f)
    BY <1>1, IfGivenRenders
  <1>5. DOMAIN X = t.variables /\ DOMAIN Y = t.variables
    BY DEF BillAnalysisVariables, BillAnalysis, Prompt
  <1>6. \A v \in t.variables : Proper(r, X[v], Y[v])
    BY <1>3, <1>4
       DEF BillAnalysisVariables, BillAnalysis, Prompt, Renders
  <1>7. ASSUME NEW f \in DOMAIN r.body, Due(r, f)
         PROVE  \E v \in t.variables : Has(X[v], Value(f))
    BY <1>1, <1>3, <1>4, <1>7
       DEF BillAnalysisVariables, BillAnalysis, Prompt, Renders, Due
  <1>8. /\ t.text[8] = Notice
         /\ \A i \in 1 .. 7, f \in {"officialSummary", "fiscalImpactSummary", "fullText"}
                                :
               ~Has(X[t.text[i]], Value(f))
    BY <1>3, <1>4
       DEF BillAnalysisVariables, BillAnalysis, Prompt, Renders, Shows
  <1>9. Fenced(r.endpoint) = {"officialSummary", "fiscalImpactSummary",
            "fullText"}
    BY DEF Fenced, Untrusted, Exposed
  <1>10. 8 \in DOMAIN t.text
    BY TextsSpelled DEF Spelled
  <1> QED
    BY <1>5, <1>6, <1>7, <1>8, <1>9, <1>10 DEF Serves, Guarded

LEMMA BillRelevanceExplanationServes ==
    ASSUME NEW r, IsRequest(r), Valid(r), r.endpoint = "bill-relevance-explanation"
    PROVE  /\ Serves(r, BillRelevanceExplanation,
                     BillRelevanceExplanationVariables(r),
                     BillRelevanceExplanationVariables(Plainly(r)))
           /\ Guarded(r, BillRelevanceExplanation,
                      BillRelevanceExplanationVariables(r))
  <1> DEFINE t == BillRelevanceExplanation
             X == BillRelevanceExplanationVariables(r)
             Y == BillRelevanceExplanationVariables(Plainly(r))
  <1>1. DOMAIN r.body =
           {"regionId", "billNumber", "title", "plainEnglishSummary",
            "sessionYear", "topics", "whoItAffects", "userInterestTags",
            "userRankingFlags", "fiscalImpactLevel", "fiscalImpactSummary",
            "stakeholderImpact", "billSectionHint", "userRegionLabel"}
    BY PlainlyIs DEF Endpoints, Dto, BillRelevanceExplanationDto
  <1>2. \A f \in {"regionId", "billNumber", "sessionYear", "title",
                  "plainEnglishSummary", "topics", "whoItAffects",
                  "userInterestTags", "userRankingFlags"} :
           r.body[f] # "absent"
    BY <1>1 DEF Valid, Endpoints, Dto, BillRelevanceExplanationDto, Choice,
           List, NonEmptyText
  <1>3. \A f \in {"regionId", "billNumber", "sessionYear", "title",
                  "plainEnglishSummary"} :
           Renders(r, Bare(r, f), Bare(Plainly(r), f), f)
    BY <1>1, <1>2, BareRenders
  <1>4. \A f \in {"stakeholderImpact", "billSectionHint", "userRegionLabel"} :
           Renders(r, IfGiven(r, f), IfGiven(Plainly(r), f), f)
    BY <1>1, IfGivenRenders
  <1>5. Renders(r, Joined(r, "topics"), Joined(Plainly(r), "topics"), "topics")
    BY <1>1, <1>2, JoinedRenders
  <1>6. \A f \in {"whoItAffects", "userInterestTags", "userRankingFlags"} :
           Renders(r, JoinedOr(r, f, << Words >>),
                   JoinedOr(Plainly(r), f, << Words >>), f)
    BY <1>1, <1>2, JoinedOrRenders
  <1>7. /\ Proper(r, FiscalImpactLine(r), FiscalImpactLine(Plainly(r)))
        /\ Shows(FiscalImpactLine(r),
                 {"fiscalImpactLevel", "fiscalImpactSummary"})
        /\ r.body["fiscalImpactLevel"] \in Said =>
              /\ Has(FiscalImpactLine(r), Value("fiscalImpactLevel"))
              /\ r.body["fiscalImpactSummary"] \in Said =>
                    Has(FiscalImpactLine(r), Value("fiscalImpactSummary"))
    BY <1>1, FiscalRenders
  <1>8. DOMAIN X = t.variables /\ DOMAIN Y = t.variables
    BY DEF BillRelevanceExplanationVariables, BillRelevanceExplanation, Prompt
  <1>9. \A v \in t.variables : Proper(r, X[v], Y[v])
    BY <1>3, <1>4, <1>5, <1>6, <1>7
       DEF BillRelevanceExplanationVariables, BillRelevanceExplanation,
           Prompt, UserTags, UserFlags, UserRegion, Renders
  <1>10. ASSUME NEW f \in DOMAIN r.body, Due(r, f)
         PROVE  \E v \in t.variables : Has(X[v], Value(f))
    BY <1>1, <1>3, <1>4, <1>5, <1>6, <1>7, <1>10
       DEF BillRelevanceExplanationVariables, BillRelevanceExplanation,
           Prompt, UserTags, UserFlags, UserRegion, Renders, Due
  <1>11. /\ t.text[13] = Notice
         /\ \A i \in 1 .. 12 :
               ~Has(X[t.text[i]], Value("plainEnglishSummary"))
    BY <1>3, <1>4, <1>5, <1>6, <1>7
       DEF BillRelevanceExplanationVariables, BillRelevanceExplanation,
           Prompt, UserTags, UserFlags, UserRegion, Renders, Shows
  <1>12. Fenced(r.endpoint) = {"plainEnglishSummary"}
    BY DEF Fenced, Untrusted, Exposed
  <1>13. 13 \in DOMAIN t.text
    BY TextsSpelled DEF Spelled
  <1> QED
    BY <1>8, <1>9, <1>10, <1>11, <1>12, <1>13 DEF Serves, Guarded

LEMMA BillStatusSummaryServes ==
    ASSUME NEW r, IsRequest(r), Valid(r), NoNull(r),
           r.endpoint = "bill-status-summary"
    PROVE  /\ Serves(r, BillStatusSummary,
                     BillStatusSummaryVariables(r),
                     BillStatusSummaryVariables(Plainly(r)))
           /\ Guarded(r, BillStatusSummary, BillStatusSummaryVariables(r))
  <1> DEFINE t == BillStatusSummary
             X == BillStatusSummaryVariables(r)
             Y == BillStatusSummaryVariables(Plainly(r))
  <1>1. DOMAIN r.body =
           {"regionId", "billNumber", "title", "html", "sessionYear",
            "lifecycleStages", "priorStatus", "priorStage"}
    BY PlainlyIs DEF Endpoints, Dto, BillStatusSummaryDto
  <1>2. \A f \in {"regionId", "billNumber", "sessionYear", "title", "html",
                  "lifecycleStages"} :
           r.body[f] # "absent"
    BY <1>1 DEF Valid, Endpoints, Dto, BillStatusSummaryDto, Choice,
           NonEmptyList, NonEmptyNestedList, Unchecked, NonEmptyText
  <1>3. \A f \in {"regionId", "billNumber", "sessionYear", "title", "html"} :
           Renders(r, Bare(r, f), Bare(Plainly(r), f), f)
    BY <1>1, <1>2, BareRenders
  <1>4. \A f \in {"priorStatus", "priorStage"} :
           Renders(r, IfGiven(r, f), IfGiven(Plainly(r), f), f)
    BY <1>1, IfGivenRenders
  <1>5. Renders(r, Mapped(r, "lifecycleStages"),
                Mapped(Plainly(r), "lifecycleStages"), "lifecycleStages")
    BY <1>1, <1>2, MappedRenders
  <1>6. DOMAIN X = t.variables /\ DOMAIN Y = t.variables
    BY DEF BillStatusSummaryVariables, BillStatusSummary, Prompt
  <1>7. \A v \in t.variables : Proper(r, X[v], Y[v])
    BY <1>3, <1>4, <1>5
       DEF BillStatusSummaryVariables, BillStatusSummary, Prompt, Renders
  <1>8. ASSUME NEW f \in DOMAIN r.body, Due(r, f)
         PROVE  \E v \in t.variables : Has(X[v], Value(f))
    BY <1>1, <1>3, <1>4, <1>5, <1>8
       DEF BillStatusSummaryVariables, BillStatusSummary, Prompt, Renders, Due
  <1>9. /\ t.text[9] = Notice
         /\ \A i \in 1 .. 8 :
               ~Has(X[t.text[i]], Value("html"))
    BY <1>3, <1>4, <1>5
       DEF BillStatusSummaryVariables, BillStatusSummary, Prompt, Renders,
           Shows
  <1>10. Fenced(r.endpoint) = {"html"}
    BY DEF Fenced, Untrusted, Exposed
  <1>11. 9 \in DOMAIN t.text
    BY TextsSpelled DEF Spelled
  <1> QED
    BY <1>6, <1>7, <1>8, <1>9, <1>10, <1>11 DEF Serves, Guarded

LEMMA PropositionRelevanceExplanationServes ==
    ASSUME NEW r, IsRequest(r), Valid(r),
           r.endpoint = "proposition-relevance-explanation"
    PROVE  /\ Serves(r, PropositionRelevanceExplanation,
                     PropositionRelevanceExplanationVariables(r),
                     PropositionRelevanceExplanationVariables(Plainly(r)))
           /\ Guarded(r, PropositionRelevanceExplanation,
                      PropositionRelevanceExplanationVariables(r))
  <1> DEFINE t == PropositionRelevanceExplanation
             X == PropositionRelevanceExplanationVariables(r)
             Y == PropositionRelevanceExplanationVariables(Plainly(r))
  <1>1. DOMAIN r.body =
           {"regionId", "propositionNumber", "title", "plainEnglishSummary",
            "electionDate", "topics", "whoItAffects", "userInterestTags",
            "userRankingFlags", "fiscalImpactLevel", "fiscalImpactSummary",
            "stakeholderImpact", "provisionHint", "userRegionLabel"}
    BY PlainlyIs DEF Endpoints, Dto, PropositionRelevanceExplanationDto
  <1>2. \A f \in {"regionId", "propositionNumber", "electionDate", "title",
                  "plainEnglishSummary", "topics", "whoItAffects",
                  "userInterestTags", "userRankingFlags"} :
           r.body[f] # "absent"
    BY <1>1 DEF Valid, Endpoints, Dto, PropositionRelevanceExplanationDto,
           Choice, List, NonEmptyText
  <1>3. \A f \in {"regionId", "propositionNumber", "electionDate", "title",
                  "plainEnglishSummary"} :
           Renders(r, Bare(r, f), Bare(Plainly(r), f), f)
    BY <1>1, <1>2, BareRenders
  <1>4. \A f \in {"stakeholderImpact", "provisionHint", "userRegionLabel"} :
           Renders(r, IfGiven(r, f), IfGiven(Plainly(r), f), f)
    BY <1>1, IfGivenRenders
  <1>5. Renders(r, Joined(r, "topics"), Joined(Plainly(r), "topics"), "topics")
    BY <1>1, <1>2, JoinedRenders
  <1>6. \A f \in {"whoItAffects", "userInterestTags", "userRankingFlags"} :
           Renders(r, JoinedOr(r, f, << Words >>),
                   JoinedOr(Plainly(r), f, << Words >>), f)
    BY <1>1, <1>2, JoinedOrRenders
  <1>7. /\ Proper(r, FiscalImpactLine(r), FiscalImpactLine(Plainly(r)))
        /\ Shows(FiscalImpactLine(r),
                 {"fiscalImpactLevel", "fiscalImpactSummary"})
        /\ r.body["fiscalImpactLevel"] \in Said =>
              /\ Has(FiscalImpactLine(r), Value("fiscalImpactLevel"))
              /\ r.body["fiscalImpactSummary"] \in Said =>
                    Has(FiscalImpactLine(r), Value("fiscalImpactSummary"))
    BY <1>1, FiscalRenders
  <1>8. DOMAIN X = t.variables /\ DOMAIN Y = t.variables
    BY DEF PropositionRelevanceExplanationVariables,
           PropositionRelevanceExplanation, Prompt
  <1>9. \A v \in t.variables : Proper(r, X[v], Y[v])
    BY <1>3, <1>4, <1>5, <1>6, <1>7
       DEF PropositionRelevanceExplanationVariables,
           PropositionRelevanceExplanation, Prompt, UserTags, UserFlags,
           UserRegion, Renders
  <1>10. ASSUME NEW f \in DOMAIN r.body, Due(r, f)
         PROVE  \E v \in t.variables : Has(X[v], Value(f))
    BY <1>1, <1>3, <1>4, <1>5, <1>6, <1>7, <1>10
       DEF PropositionRelevanceExplanationVariables,
           PropositionRelevanceExplanation, Prompt, UserTags, UserFlags,
           UserRegion, Renders, Due
  <1>11. /\ t.text[13] = Notice
         /\ \A i \in 1 .. 12 :
               ~Has(X[t.text[i]], Value("plainEnglishSummary"))
    BY <1>3, <1>4, <1>5, <1>6, <1>7
       DEF PropositionRelevanceExplanationVariables,
           PropositionRelevanceExplanation, Prompt, UserTags, UserFlags,
           UserRegion, Renders, Shows
  <1>12. Fenced(r.endpoint) = {"plainEnglishSummary"}
    BY DEF Fenced, Untrusted, Exposed
  <1>13. 13 \in DOMAIN t.text
    BY TextsSpelled DEF Spelled
  <1> QED
    BY <1>8, <1>9, <1>10, <1>11, <1>12, <1>13 DEF Serves, Guarded

LEMMA RepresentativeRelevanceExplanationServes ==
    ASSUME NEW r, IsRequest(r), Valid(r),
           r.endpoint = "representative-relevance-explanation"
    PROVE  /\ Serves(r, RepresentativeRelevanceExplanation,
                     RepresentativeRelevanceExplanationVariables(r),
                     RepresentativeRelevanceExplanationVariables(Plainly(r)))
           /\ Guarded(r, RepresentativeRelevanceExplanation,
                      RepresentativeRelevanceExplanationVariables(r))
  <1> DEFINE t == RepresentativeRelevanceExplanation
             X == RepresentativeRelevanceExplanationVariables(r)
             Y == RepresentativeRelevanceExplanationVariables(Plainly(r))
  <1>1. DOMAIN r.body =
           {"regionId", "repName", "officeTitle", "mandateSummary",
            "jurisdiction", "party", "topicsOfFocus", "committeeMemberships",
            "userInterestTags", "userRankingFlags", "recentLegislativeAction",
            "upcomingEvent", "userRegionLabel"}
    BY PlainlyIs DEF Endpoints, Dto, RepresentativeRelevanceExplanationDto
  <1>2. \A f \in {"regionId", "repName", "officeTitle", "jurisdiction",
                  "mandateSummary", "topicsOfFocus", "committeeMemberships",
                  "userInterestTags", "userRankingFlags"} :
           r.body[f] # "absent"
    BY <1>1 DEF Valid, Endpoints, Dto, RepresentativeRelevanceExplanationDto,
           Choice, List, NonEmptyText
  <1>3. \A f \in {"regionId", "repName", "officeTitle", "jurisdiction",
                  "mandateSummary"} :
           Renders(r, Bare(r, f), Bare(Plainly(r), f), f)
    BY <1>1, <1>2, BareRenders
  <1>4. \A f \in {"party", "recentLegislativeAction", "upcomingEvent",
                  "userRegionLabel"} :
           Renders(r, IfGiven(r, f), IfGiven(Plainly(r), f), f)
    BY <1>1, IfGivenRenders
  <1>5. \A f \in {"topicsOfFocus", "committeeMemberships", "userInterestTags",
                  "userRankingFlags"} :
           Renders(r, JoinedOr(r, f, << Words >>),
                   JoinedOr(Plainly(r), f, << Words >>), f)
    BY <1>1, <1>2, JoinedOrRenders
  <1>6. DOMAIN X = t.variables /\ DOMAIN Y = t.variables
    BY DEF RepresentativeRelevanceExplanationVariables,
           RepresentativeRelevanceExplanation, Prompt
  <1>7. \A v \in t.variables : Proper(r, X[v], Y[v])
    BY <1>3, <1>4, <1>5
       DEF RepresentativeRelevanceExplanationVariables,
           RepresentativeRelevanceExplanation, Prompt, UserTags, UserFlags,
           UserRegion, Renders
  <1>8. ASSUME NEW f \in DOMAIN r.body, Due(r, f)
         PROVE  \E v \in t.variables : Has(X[v], Value(f))
    BY <1>1, <1>3, <1>4, <1>5, <1>8
       DEF RepresentativeRelevanceExplanationVariables,
           RepresentativeRelevanceExplanation, Prompt, UserTags, UserFlags,
           UserRegion, Renders, Due
  <1>9. /\ t.text[13] = Notice
         /\ \A i \in 1 .. 12 :
               ~Has(X[t.text[i]], Value("mandateSummary"))
    BY <1>3, <1>4, <1>5
       DEF RepresentativeRelevanceExplanationVariables,
           RepresentativeRelevanceExplanation, Prompt, UserTags, UserFlags,
           UserRegion, Renders, Shows
  <1>10. Fenced(r.endpoint) = {"mandateSummary"}
    BY DEF Fenced, Untrusted, Exposed
  <1>11. 13 \in DOMAIN t.text
    BY TextsSpelled DEF Spelled
  <1> QED
    BY <1>6, <1>7, <1>8, <1>9, <1>10, <1>11 DEF Serves, Guarded

LEMMA CommitteeRelevanceExplanationServes ==
    ASSUME NEW r, IsRequest(r), Valid(r), NoNull(r),
           r.endpoint = "committee-relevance-explanation"
    PROVE  /\ Serves(r, CommitteeRelevanceExplanation,
                     CommitteeRelevanceExplanationVariables(r),
                     CommitteeRelevanceExplanationVariables(Plainly(r)))
           /\ Guarded(r, CommitteeRelevanceExplanation,
                      CommitteeRelevanceExplanationVariables(r))
  <1> DEFINE t == CommitteeRelevanceExplanation
             X == CommitteeRelevanceExplanationVariables(r)
             Y == CommitteeRelevanceExplanationVariables(Plainly(r))
  <1>1. DOMAIN r.body =
           {"regionId", "committeeName", "mandateSummary", "jurisdiction",
            "committeeType", "topics", "membersOnUserSlate",
            "recentBillTopicsTouched", "upcomingHearings", "userInterestTags",
            "userRankingFlags", "userRegionLabel"}
    BY PlainlyIs DEF Endpoints, Dto, CommitteeRelevanceExplanationDto
  <1>2. \A f \in {"regionId", "committeeName", "jurisdiction",
                  "mandateSummary", "topics", "membersOnUserSlate",
                  "userInterestTags", "userRankingFlags",
                  "recentBillTopicsTouched", "upcomingHearings"} :
           r.body[f] # "absent"
    BY <1>1 DEF Valid, Endpoints, Dto, CommitteeRelevanceExplanationDto,
           Choice, List, NestedList, Unchecked, NonEmptyText
  <1>3. \A f \in {"regionId", "committeeName", "jurisdiction", "mandateSummary"} :
           Renders(r, Bare(r, f), Bare(Plainly(r), f), f)
    BY <1>1, <1>2, BareRenders
  <1>4. \A f \in {"committeeType", "userRegionLabel"} :
           Renders(r, IfGiven(r, f), IfGiven(Plainly(r), f), f)
    BY <1>1, IfGivenRenders
  <1>5. \A f \in {"topics", "membersOnUserSlate", "userInterestTags",
                  "userRankingFlags"} :
           Renders(r, JoinedOr(r, f, << Words >>),
                   JoinedOr(Plainly(r), f, << Words >>), f)
    BY <1>1, <1>2, JoinedOrRenders
  <1>6. Renders(r, JoinedOr(r, "recentBillTopicsTouched", << >>),
                JoinedOr(Plainly(r), "recentBillTopicsTouched", << >>),
                "recentBillTopicsTouched")
    BY <1>1, <1>2, JoinedOrRenders
  <1>7. Renders(r, Mapped(r, "upcomingHearings"),
                 Mapped(Plainly(r), "upcomingHearings"), "upcomingHearings")
    BY <1>1, <1>2, MappedRenders
  <1>8. DOMAIN X = t.variables /\ DOMAIN Y = t.variables
    BY DEF CommitteeRelevanceExplanationVariables,
           CommitteeRelevanceExplanation, Prompt
  <1>9. \A v \in t.variables : Proper(r, X[v], Y[v])
    BY <1>3, <1>4, <1>5, <1>6, <1>7
       DEF CommitteeRelevanceExplanationVariables,
           CommitteeRelevanceExplanation, Prompt, UserTags, UserFlags,
           UserRegion, Renders
  <1>10. ASSUME NEW f \in DOMAIN r.body, Due(r, f)
         PROVE  \E v \in t.variables : Has(X[v], Value(f))
    BY <1>1, <1>3, <1>4, <1>5, <1>6, <1>7, <1>10
       DEF CommitteeRelevanceExplanationVariables,
           CommitteeRelevanceExplanation, Prompt, UserTags, UserFlags,
           UserRegion, Renders, Due
  <1>11. /\ t.text[12] = Notice
         /\ \A i \in 1 .. 11 :
               ~Has(X[t.text[i]], Value("mandateSummary"))
    BY <1>3, <1>4, <1>5, <1>6, <1>7
       DEF CommitteeRelevanceExplanationVariables,
           CommitteeRelevanceExplanation, Prompt, UserTags, UserFlags,
           UserRegion, Renders, Shows
  <1>12. Fenced(r.endpoint) = {"mandateSummary"}
    BY DEF Fenced, Untrusted, Exposed
  <1>13. 12 \in DOMAIN t.text
    BY TextsSpelled DEF Spelled
  <1> QED
    BY <1>8, <1>9, <1>10, <1>11, <1>12, <1>13 DEF Serves, Guarded

LEMMA BriefingSummaryServes ==
    ASSUME NEW r, IsRequest(r), Valid(r), r.endpoint = "briefing-summary"
    PROVE  /\ Serves(r, BriefingSummary,
                     BriefingSummaryVariables(r),
                     BriefingSummaryVariables(Plainly(r)))
           /\ Guarded(r, BriefingSummary, BriefingSummaryVariables(r))
  <1> DEFINE t == BriefingSummary
             X == BriefingSummaryVariables(r)
             Y == BriefingSummaryVariables(Plainly(r))
  <1>1. DOMAIN r.body =
           {"language", "billCount", "repCount", "committeeCount",
            "propositionCount", "urgentBillCount", "firstName",
            "topBillTopAxis"}
    BY PlainlyIs DEF Endpoints, Dto, BriefingSummaryDto
  <1>2. \A f \in {"language", "billCount", "repCount", "committeeCount",
                  "propositionCount", "urgentBillCount"} :
           r.body[f] # "absent"
    BY <1>1 DEF Valid, Endpoints, Dto, BriefingSummaryDto, Choice
  <1>3. \A f \in {"language", "billCount", "repCount", "committeeCount",
                  "propositionCount", "urgentBillCount"} :
           Renders(r, Bare(r, f), Bare(Plainly(r), f), f)
    BY <1>1, <1>2, BareRenders
  <1>4. /\ Proper(r, FirstName(r), FirstName(Plainly(r)))
        /\ Shows(FirstName(r), {"firstName"})
        /\ r.body["firstName"] \in Said \ {"spaces"} =>
              Has(FirstName(r), Value("firstName"))
    BY <1>1, FirstNameRenders
  <1>5. Renders(r, X.TOP_BILL_TOP_AXIS, Y.TOP_BILL_TOP_AXIS, "topBillTopAxis")
    BY <1>1, AxisRenders DEF BriefingSummaryVariables
  <1>6. Proper(r, << Words >>, << Words >>) /\ Shows(<< Words >>, {})
    BY WordsProper
  <1>7. DOMAIN X = t.variables /\ DOMAIN Y = t.variables
    BY DEF BriefingSummaryVariables, BriefingSummary, Prompt
  <1>8. \A v \in t.variables : Proper(r, X[v], Y[v])
    BY <1>3, <1>4, <1>5, <1>6
       DEF BriefingSummaryVariables, BriefingSummary, Prompt, Renders
  <1>9. ASSUME NEW f \in DOMAIN r.body, Due(r, f)
         PROVE  \E v \in t.variables : Has(X[v], Value(f))
    BY <1>1, <1>3, <1>4, <1>5, <1>6, <1>9
       DEF BriefingSummaryVariables, BriefingSummary, Prompt, Renders, Due
  <1>10. /\ t.text[9] = Notice
         /\ \A i \in 1 .. 8 :
               ~Has(X[t.text[i]], Value("firstName"))
    BY <1>3, <1>4, <1>5, <1>6
       DEF BriefingSummaryVariables, BriefingSummary, Prompt, Renders, Shows
  <1>11. Fenced(r.endpoint) = {"firstName"}
    BY DEF Fenced, Untrusted, Exposed
  <1>12. 9 \in DOMAIN t.text
    BY TextsSpelled DEF Spelled
  <1> QED
    BY <1>7, <1>8, <1>9, <1>10, <1>11, <1>12 DEF Serves, Guarded

LEMMA PersonalizedImpactServes ==
    ASSUME NEW r, IsRequest(r), Valid(r), r.endpoint = "personalized-impact"
    PROVE  /\ Serves(r, PersonalizedImpact,
                     PersonalizedImpactVariables(r),
                     PersonalizedImpactVariables(Plainly(r)))
           /\ Guarded(r, PersonalizedImpact, PersonalizedImpactVariables(r))
  <1> DEFINE t == PersonalizedImpact
             X == PersonalizedImpactVariables(r)
             Y == PersonalizedImpactVariables(Plainly(r))
  <1>1. DOMAIN r.body =
           {"summary", "documentType", "actualEffect", "matchedMeasureTitle",
            "userRegionLabel", "beneficiaries", "potentiallyHarmed",
            "userInterestTags", "userRankingFlags"}
    BY PlainlyIs DEF Endpoints, Dto, PersonalizedImpactDto
  <1>2. \A f \in {"documentType", "summary", "beneficiaries",
                  "potentiallyHarmed", "userInterestTags", "userRankingFlags"}
                  :
           r.body[f] # "absent"
    BY <1>1 DEF Valid, Endpoints, Dto, PersonalizedImpactDto, Choice, List,
           NonEmptyText
  <1>3. \A f \in {"documentType", "summary"} :
           Renders(r, Bare(r, f), Bare(Plainly(r), f), f)
    BY <1>1, <1>2, BareRenders
  <1>4. \A f \in {"actualEffect", "matchedMeasureTitle", "userRegionLabel"} :
           Renders(r, IfGiven(r, f), IfGiven(Plainly(r), f), f)
    BY <1>1, IfGivenRenders
  <1>5. \A f \in {"beneficiaries", "potentiallyHarmed", "userInterestTags",
                  "userRankingFlags"} :
           Renders(r, JoinedOr(r, f, << Words >>),
                   JoinedOr(Plainly(r), f, << Words >>), f)
    BY <1>1, <1>2, JoinedOrRenders
  <1>6. DOMAIN X = t.variables /\ DOMAIN Y = t.variables
    BY DEF PersonalizedImpactVariables, PersonalizedImpact, Prompt
  <1>7. \A v \in t.variables : Proper(r, X[v], Y[v])
    BY <1>3, <1>4, <1>5
       DEF PersonalizedImpactVariables, PersonalizedImpact, Prompt, UserTags,
           UserFlags, UserRegion, Renders
  <1>8. ASSUME NEW f \in DOMAIN r.body, Due(r, f)
         PROVE  \E v \in t.variables : Has(X[v], Value(f))
    BY <1>1, <1>3, <1>4, <1>5, <1>8
       DEF PersonalizedImpactVariables, PersonalizedImpact, Prompt, UserTags,
           UserFlags, UserRegion, Renders, Due
  <1>9. /\ t.text[7] = Notice
         /\ \A i \in 1 .. 6, f \in {"actualEffect", "beneficiaries", "potentiallyHarmed",
                                "summary"} :
               ~Has(X[t.text[i]], Value(f))
    BY <1>3, <1>4, <1>5
       DEF PersonalizedImpactVariables, PersonalizedImpact, Prompt, UserTags,
           UserFlags, UserRegion, Renders, Shows
  <1>10. Fenced(r.endpoint) = {"actualEffect", "beneficiaries",
            "potentiallyHarmed", "summary"}
    BY DEF Fenced, Untrusted, Exposed
  <1>11. 7 \in DOMAIN t.text
    BY TextsSpelled DEF Spelled
  <1> QED
    BY <1>6, <1>7, <1>8, <1>9, <1>10, <1>11 DEF Serves, Guarded

LEMMA RagServes ==
    ASSUME NEW r, IsRequest(r), Valid(r), r.endpoint = "rag"
    PROVE  Serves(r, Rag, RagVariables(r), RagVariables(Plainly(r)))
  <1> DEFINE t == Rag
             X == RagVariables(r)
             Y == RagVariables(Plainly(r))
  <1>1. DOMAIN r.body =
           {"context", "query"}
    BY PlainlyIs DEF Endpoints, Dto, RagDto
  <1>2. \A f \in {"context", "query"} :
           r.body[f] # "absent"
    BY <1>1 DEF Valid, Endpoints, Dto, RagDto, Text
  <1>3. \A f \in {"context", "query"} :
           Renders(r, Bare(r, f), Bare(Plainly(r), f), f)
    BY <1>1, <1>2, BareRenders
  <1>4. DOMAIN X = t.variables /\ DOMAIN Y = t.variables
    BY DEF RagVariables, Rag, Prompt
  <1>5. \A v \in t.variables : Proper(r, X[v], Y[v])
    BY <1>3
       DEF RagVariables, Rag, Prompt, Renders
  <1>6. ASSUME NEW f \in DOMAIN r.body, Due(r, f)
         PROVE  \E v \in t.variables : Has(X[v], Value(f))
    BY <1>1, <1>3, <1>6
       DEF RagVariables, Rag, Prompt, Renders, Due
  <1> QED
    BY <1>4, <1>5, <1>6 DEF Serves

\* The auxiliary template of an analysis has no placeholder.
LEMMA SchemaEmpty ==
    ASSUME NEW r, r.endpoint = "structural-analysis", r.suffix \in Types(r.endpoint)
    PROVE  SchemaDescription(r) = << >>
  <1>1. r.suffix \in DataTypes \cup {Unlisted}
    BY DEF Types
  <1>2. DOMAIN prompts = PromptNames
    BY DEF prompts
  <1>3. PICK name : name = Find(auxiliaryName(r), "structural-schema-default")
    OBVIOUS
  <1>4. name \in SchemaTemplates
    <2>1. CASE auxiliaryName(r) \in PromptNames
      BY <1>1, <1>2, <1>3, <2>1, CatalogAssumption DEF Find, auxiliaryName
    <2>2. CASE auxiliaryName(r) \notin PromptNames
      BY <1>2, <1>3, <2>2 DEF Find, SchemaTemplates
    <2> QED
      BY <2>1, <2>2
  <1>5. prompts[name].text = << >>
    BY <1>4, SchemaPrompts DEF Plain, Prompt
  <1>6. Tokens(<< >>) = << >>
    BY DEF Tokens
  <1> QED
    BY <1>3, <1>5, <1>6 DEF SchemaDescription

\* The variables of a structural analysis, the auxiliary template among them.
WithSchema(r) ==
    [v \in DOMAIN buildVariables(r) \cup {"SCHEMA_DESCRIPTION"} |->
        IF v = "SCHEMA_DESCRIPTION" THEN SchemaDescription(r)
        ELSE buildVariables(r)[v]]

LEMMA StructuralAnalysisServes ==
    ASSUME NEW r, IsRequest(r), Valid(r), r.endpoint = "structural-analysis"
    PROVE  Serves(r, StructuralAnalysis, WithSchema(r), WithSchema(Plainly(r)))
  <1> DEFINE t == StructuralAnalysis
             V == StructuralAnalysisVariables(r)
             W == StructuralAnalysisVariables(Plainly(r))
             X == WithSchema(r)
             Y == WithSchema(Plainly(r))
  <1>1. DOMAIN r.body =
           {"dataType", "contentGoal", "html", "category", "hints"}
    BY PlainlyIs DEF Endpoints, Dto, StructuralAnalysisDto
  <1>2. \A f \in {"dataType", "contentGoal", "html"} : r.body[f] # "absent"
    BY <1>1 DEF Valid, Endpoints, Dto, StructuralAnalysisDto, Text
  <1>3. \A f \in {"dataType", "contentGoal", "html"} :
           Renders(r, Bare(r, f), Bare(Plainly(r), f), f)
    BY <1>1, <1>2, BareRenders
  <1>4. \A f \in {"category", "hints"} :
           Renders(r, IfGiven(r, f), IfGiven(Plainly(r), f), f)
    BY <1>1, IfGivenRenders
  <1>5. Proper(r, << >>, << >>) /\ Shows(<< >>, {})
    BY NothingProper
  <1>6. buildVariables(r) = V /\ buildVariables(Plainly(r)) = W
    BY PlainlyIs DEF buildVariables
  <1>7. SchemaDescription(r) = << >> /\ SchemaDescription(Plainly(r)) = << >>
    BY PlainlyIs, SchemaEmpty DEF IsRequest
  <1>8. DOMAIN V = {"DATA_TYPE", "CONTENT_GOAL", "CATEGORY", "HINTS_SECTION", "HTML"}
    BY DEF StructuralAnalysisVariables
  <1>9. DOMAIN W = DOMAIN V
    BY DEF StructuralAnalysisVariables
  <1>10. t.variables = DOMAIN V \cup {"SCHEMA_DESCRIPTION"}
    BY <1>8 DEF StructuralAnalysis, Prompt
  <1>11. /\ DOMAIN X = t.variables /\ DOMAIN Y = t.variables
         /\ X["SCHEMA_DESCRIPTION"] = << >> /\ Y["SCHEMA_DESCRIPTION"] = << >>
         /\ \A v \in DOMAIN V : X[v] = V[v] /\ Y[v] = W[v]
    <2>1. "SCHEMA_DESCRIPTION" \notin DOMAIN V
      BY <1>8
    <2> QED
      BY <1>6, <1>7, <1>9, <1>10, <2>1 DEF WithSchema
  <1>12. \A v \in DOMAIN V : Proper(r, V[v], W[v])
    BY <1>3, <1>4 DEF StructuralAnalysisVariables, Hints, Renders
  <1>13. \A v \in t.variables : Proper(r, X[v], Y[v])
    BY <1>5, <1>10, <1>11, <1>12
  <1>14. ASSUME NEW f \in DOMAIN r.body, Due(r, f)
         PROVE  \E v \in t.variables : Has(X[v], Value(f))
    <2>1. \E v \in DOMAIN V : Has(V[v], Value(f))
      BY <1>1, <1>3, <1>4, <1>14
         DEF StructuralAnalysisVariables, Hints, Renders, Due
    <2> QED
      BY <1>10, <1>11, <2>1
  <1> QED
    BY <1>11, <1>13, <1>14 DEF Serves

\* A document, but for the template that has no place for one.
LEMMA DocumentAnalysisServes ==
    ASSUME NEW r, IsRequest(r), Valid(r), r.endpoint = "document-analysis",
           NEW t \in {Noticed, Unnoticed}
    PROVE  /\ Serves(r, t, [TEXT |-> Bare(r, "text")],
                     [TEXT |-> Bare(Plainly(r), "text")])
           /\ t = Noticed => Guarded(r, t, [TEXT |-> Bare(r, "text")])
           /\ ~Has(Bare(r, "text"), << Notice >>)
  <1> DEFINE X == [TEXT |-> Bare(r, "text")]
             Y == [TEXT |-> Bare(Plainly(r), "text")]
  <1>1. DOMAIN r.body = {"documentType", "text"}
    BY PlainlyIs DEF Endpoints, Dto, DocumentAnalysisDto
  <1>2. r.body["text"] # "absent"
    BY <1>1 DEF Valid, Endpoints, Dto, DocumentAnalysisDto, Text
  <1>3. Renders(r, Bare(r, "text"), Bare(Plainly(r), "text"), "text")
    BY <1>1, <1>2, BareRenders
  <1>4. t.variables = {"TEXT"}
    BY DEF Noticed, Unnoticed, Prompt
  <1>5. DOMAIN X = t.variables /\ DOMAIN Y = t.variables
    BY <1>4
  <1>6. \A v \in t.variables : Proper(r, X[v], Y[v])
    BY <1>3, <1>4 DEF Renders
  <1>7. ASSUME NEW f \in DOMAIN r.body, Due(r, f)
        PROVE  \E v \in t.variables : Has(X[v], Value(f))
    BY <1>1, <1>3, <1>4, <1>7 DEF Renders, Due
  <1>8. ASSUME t = Noticed
        PROVE  Guarded(r, t, X)
    <2>1. t.text[1] = Notice
      BY <1>8 DEF Noticed, Prompt
    <2>2. 1 \in DOMAIN t.text
      BY <1>8, TextsSpelled DEF Spelled
    <2> QED
      BY <2>1, <2>2 DEF Guarded
  <1> QED
    BY <1>3, <1>5, <1>6, <1>7, <1>8 DEF Serves, Renders, Shows

\* A text that consists of one placeholder becomes what is put in for it.
LEMMA FilledOne ==
    ASSUME NEW r, NEW x, Sound(r, x)
    PROVE  FillIn(Tokens(Unnoticed.text), [TEXT |-> x]) = x
  <1>1. PICK text, variables : text = Unnoticed.text /\ variables = [TEXT |-> x]
    OBVIOUS
  <1>2. PICK n \in Nat \ {0} : n = 1
    OBVIOUS
  <1>3. DOMAIN text = 1 .. n /\ text[1] = "TEXT" /\ "TEXT" # Notice
    BY <1>1, <1>2 DEF Unnoticed, Prompt, Notice
  <1>4. DOMAIN variables = {"TEXT"} /\ variables["TEXT"] = x
    BY <1>1
  <1>5. Fills(r, n, text, variables)
    BY <1>2, <1>3, <1>4 DEF Fills
  <1>6. PICK parts : parts = Parts(text, variables)
    OBVIOUS
  <1>7. parts \in [1 .. n -> Seq(Written(r))] /\ parts[1] = x
    BY <1>2, <1>3, <1>4, <1>5, <1>6, PartsType
  <1>8. PICK g : Joins(n, parts, Written(r), g) /\ FlattenSeq(parts) = g[n]
    BY <1>7, FlattenJoins
  <1>9. g[1] = parts[1]
    BY <1>8 DEF Joins
  <1> QED
    BY <1>1, <1>2, <1>5, <1>6, <1>7, <1>8, <1>9, FillInParts

\* A text without placeholders becomes nothing.
LEMMA FilledNothing ==
    ASSUME NEW variables
    PROVE  FillIn(Tokens(Plain.text), variables) = << >>
  <1>1. Plain.text = << >>
    BY DEF Plain, Prompt
  <1>2. Tokens(<< >>) = << >>
    BY DEF Tokens
  <1> QED
    BY <1>1, <1>2 DEF FillIn, FlattenSeq

------------------------------------------------------------------------------
(* The prompt for a request *)

LEMMA MainTemplatePlainly ==
    ASSUME NEW r, IsRequest(r), Valid(r)
    PROVE  MainTemplate(Plainly(r)) = MainTemplate(r)
  <1>1. Plainly(r).endpoint = r.endpoint /\ Plainly(r).suffix = r.suffix
    BY PlainlyIs
  <1>2. CASE r.endpoint = "document-analysis"
    <2>1. resolveTemplateName(Plainly(r)) = resolveTemplateName(r)
      BY <1>1, <1>2 DEF resolveTemplateName
    <2> QED
      BY <2>1 DEF MainTemplate
  <1>3. CASE r.endpoint = "civics-extraction"
    <2>1. "compact" \in DOMAIN r.body
      BY <1>3, PlainlyIs DEF Endpoints, Dto, CivicsExtractionDto
    <2>2. r.body["compact"] # "quoting"
      BY <1>3, <2>1
         DEF Valid, Endpoints, Dto, CivicsExtractionDto, OptionalFlag
    <2>3. Plainly(r).body["compact"] = r.body["compact"]
      BY <2>1, <2>2, PlainlyIs
    <2>4. resolveTemplateName(Plainly(r)) = resolveTemplateName(r)
      BY <1>1, <1>3, <2>3 DEF resolveTemplateName
    <2> QED
      BY <2>4 DEF MainTemplate
  <1>4. CASE r.endpoint \notin {"document-analysis", "civics-extraction"}
    <2>1. resolveTemplateName(Plainly(r)) = resolveTemplateName(r)
      BY <1>1, <1>4 DEF resolveTemplateName
    <2> QED
      BY <2>1 DEF MainTemplate
  <1> QED
    BY <1>2, <1>3, <1>4

\* What is proper did not fail.
LEMMA ProperBuilds ==
    ASSUME NEW r,
           \A v \in DOMAIN buildVariables(r) :
               \E p : Proper(r, buildVariables(r)[v], p)
    PROVE  ~buildFails(r)
  <1>1. SUFFICES ASSUME NEW v \in DOMAIN buildVariables(r),
                        NEW x \in Seq(Written(r)), x = buildVariables(r)[v],
                        Failed \in ToSet(x)
                 PROVE  FALSE
    BY DEF buildFails, Proper, Sound
  <1>2. PICK i \in DOMAIN x : x[i] = Failed
    BY <1>1 DEF ToSet
  <1>3. Failed \in Written(r)
    BY <1>2, LenProperties
  <1>4. Failed \notin Written(r)
    BY DEF Written, Failed, Undefined, Value, Hole, Words, Notice
  <1> QED
    BY <1>3, <1>4

\* What fails has a null among its stages or hearings, and fails of that.
LEMMA NullFails ==
    ASSUME NEW r, IsRequest(r), Valid(r)
    PROVE  ~NoNull(r) => buildFails(r)
  <1>1. SUFFICES ASSUME NEW f \in DOMAIN r.body, r.body[f] = "nullEntry"
                 PROVE  buildFails(r)
    BY DEF NoNull
  <1>2. r.endpoint \in Endpoints /\ DOMAIN r.body = DOMAIN Dto[r.endpoint]
    BY PlainlyIs DEF IsRequest
  <1>3. "nullEntry" \in Dto[r.endpoint][f]
    BY <1>1 DEF Valid
  <1>4. \/ r.endpoint = "bill-status-summary" /\ f = "lifecycleStages"
        \/ r.endpoint = "committee-relevance-explanation" /\ f = "upcomingHearings"
    <2> USE DEF Text, NonEmptyText, OptionalText, Choice, OptionalChoice,
            OptionalFlag, List, OptionalList, NonEmptyList
    <2>1. CASE r.endpoint \in {"structural-analysis", "document-analysis", "rag",
                               "civics-extraction", "bill-extraction"}
      BY <1>2, <1>3, <2>1
         DEF Dto, Endpoints, StructuralAnalysisDto, DocumentAnalysisDto, RagDto,
             CivicsExtractionDto, BillExtractionDto
    <2>2. CASE r.endpoint \in {"bill-votes-extraction", "bill-analysis",
                               "briefing-summary", "personalized-impact"}
      BY <1>2, <1>3, <2>2
         DEF Dto, Endpoints, BillVotesExtractionDto, BillAnalysisDto,
             BriefingSummaryDto, PersonalizedImpactDto
    <2>3. CASE r.endpoint = "bill-relevance-explanation"
      BY <1>2, <1>3, <2>3 DEF Dto, Endpoints, BillRelevanceExplanationDto
    <2>4. CASE r.endpoint = "proposition-relevance-explanation"
      BY <1>2, <1>3, <2>4 DEF Dto, Endpoints, PropositionRelevanceExplanationDto
    <2>5. CASE r.endpoint = "representative-relevance-explanation"
      BY <1>2, <1>3, <2>5 DEF Dto, Endpoints, RepresentativeRelevanceExplanationDto
    <2>6. CASE r.endpoint = "bill-status-summary"
      BY <1>2, <1>3, <2>6 DEF Dto, Endpoints, BillStatusSummaryDto
    <2>7. CASE r.endpoint = "committee-relevance-explanation"
      BY <1>2, <1>3, <2>7 DEF Dto, Endpoints, CommitteeRelevanceExplanationDto
    <2> QED
      BY <1>2, <2>1, <2>2, <2>3, <2>4, <2>5, <2>6, <2>7 DEF Endpoints
  <1>5. Mapped(r, f) = << Failed >>
    BY <1>1 DEF Mapped
  <1>6. \E v \in DOMAIN buildVariables(r) : buildVariables(r)[v] = Mapped(r, f)
    <2>1. CASE r.endpoint = "bill-status-summary" /\ f = "lifecycleStages"
      <3>1. buildVariables(r) = BillStatusSummaryVariables(r)
        BY <2>1 DEF buildVariables
      <3> QED
        BY <2>1, <3>1 DEF BillStatusSummaryVariables
    <2>2. CASE /\ r.endpoint = "committee-relevance-explanation"
               /\ f = "upcomingHearings"
      <3>1. buildVariables(r) = CommitteeRelevanceExplanationVariables(r)
        BY <2>2 DEF buildVariables
      <3> QED
        BY <2>2, <3>1 DEF CommitteeRelevanceExplanationVariables
    <2> QED
      BY <1>4, <2>1, <2>2
  <1>7. Failed \in ToSet(<< Failed >>)
    BY DEF ToSet
  <1> QED
    BY <1>5, <1>6, <1>7 DEF buildFails

\* Most endpoints fill in the template of their own name.
LEMMA OwnTemplate ==
    ASSUME NEW r, r.endpoint \in Endpoints,
           r.endpoint \notin {"structural-analysis", "document-analysis"}
    PROVE  /\ composed(r) = FillIn(Tokens(prompts[MainTemplate(r)].text),
                                   buildVariables(r))
           /\ r.endpoint # "civics-extraction" => MainTemplate(r) = r.endpoint
  <1>1. composed(r) = FillIn(Tokens(prompts[MainTemplate(r)].text),
                             buildVariables(r))
    BY DEF composed, interpolate
  <1>2. ASSUME r.endpoint # "civics-extraction"
        PROVE  MainTemplate(r) = r.endpoint
    <2>1. resolveTemplateName(r) = r.endpoint
      BY <1>2 DEF resolveTemplateName
    <2>2. r.endpoint \in PromptNames
      BY <1>2 DEF Endpoints, PromptNames
    <2>3. DOMAIN prompts = PromptNames
      BY DEF prompts
    <2> QED
      BY <2>1, <2>2, <2>3 DEF MainTemplate, Find
  <1> QED
    BY <1>1, <1>2

\* The variables of r are built, and its prompt is as it should be.
Served(r) == Answers(r, composed(r), composed(Plainly(r))) /\ ~buildFails(r)

LEMMA ServedByOwn ==
    ASSUME NEW r, IsRequest(r), Valid(r),
           r.endpoint \notin {"structural-analysis", "document-analysis"},
           NEW n, Spelled(prompts[MainTemplate(r)], n),
           Serves(r, prompts[MainTemplate(r)], buildVariables(r),
                  buildVariables(Plainly(r))),
           \/ Fenced(r.endpoint) = {}
           \/ Guarded(r, prompts[MainTemplate(r)], buildVariables(r))
    PROVE  Served(r)
  <1>1. /\ Plainly(r).endpoint = r.endpoint /\ r.endpoint \in Endpoints
        /\ MainTemplate(Plainly(r)) = MainTemplate(r)
    BY PlainlyIs, MainTemplatePlainly DEF IsRequest
  <1>2. PICK t, variables, others :
           /\ t = prompts[MainTemplate(r)]
           /\ variables = buildVariables(r) /\ others = buildVariables(Plainly(r))
    OBVIOUS
  <1>3. /\ composed(r) = FillIn(Tokens(t.text), variables)
        /\ composed(Plainly(r)) = FillIn(Tokens(t.text), others)
    BY <1>1, <1>2, OwnTemplate
  <1>4. Answers(r, FillIn(Tokens(t.text), variables), FillIn(Tokens(t.text), others))
    BY <1>2, ServesAnswers
  <1>5. ~buildFails(r)
    BY ProperBuilds DEF Serves
  <1> QED
    BY <1>3, <1>4, <1>5 DEF Served

LEMMA CivicsAnswers ==
    ASSUME NEW r, IsRequest(r), Valid(r), r.endpoint = "civics-extraction"
    PROVE  Served(r)
  <1>1. CivicsExtractionCompact = CivicsExtraction
    BY DEF CivicsExtractionCompact, CivicsExtraction
  <1>2. MainTemplate(r) \in {"civics-extraction", "civics-extraction-compact"}
    <2>1. resolveTemplateName(r) \in {"civics-extraction", "civics-extraction-compact"}
      BY DEF resolveTemplateName
    <2>2. {"civics-extraction", "civics-extraction-compact"} \subseteq DOMAIN prompts
      BY DEF prompts, PromptNames
    <2> QED
      BY <2>1, <2>2 DEF MainTemplate, Find
  <1>3. prompts[MainTemplate(r)] = CivicsExtraction
    BY <1>1, <1>2, OtherPrompts
  <1>4. /\ buildVariables(r) = CivicsExtractionVariables(r)
        /\ buildVariables(Plainly(r)) = CivicsExtractionVariables(Plainly(r))
    BY PlainlyIs DEF buildVariables
  <1>5. Spelled(CivicsExtraction, 10)
    BY TextsSpelled
  <1> QED
    BY <1>3, <1>4, <1>5, CivicsExtractionServes, ServedByOwn

LEMMA StructuralAnswers ==
    ASSUME NEW r, IsRequest(r), Valid(r), r.endpoint = "structural-analysis"
    PROVE  Served(r)
  <1>1. /\ Plainly(r).endpoint = r.endpoint
        /\ MainTemplate(Plainly(r)) = MainTemplate(r)
    BY PlainlyIs, MainTemplatePlainly
  <1>2. prompts[MainTemplate(r)] = StructuralAnalysis
    <2>1. resolveTemplateName(r) = "structural-analysis"
      BY DEF resolveTemplateName
    <2>2. "structural-analysis" \in DOMAIN prompts
      BY DEF prompts, PromptNames
    <2> QED
      BY <2>1, <2>2, OtherPrompts DEF MainTemplate, Find
  <1>3. /\ composed(r) = FillIn(Tokens(StructuralAnalysis.text), WithSchema(r))
        /\ composed(Plainly(r)) =
              FillIn(Tokens(StructuralAnalysis.text), WithSchema(Plainly(r)))
    BY <1>1, <1>2 DEF composed, interpolate, WithSchema
  <1>4. Fenced(r.endpoint) = {}
    BY DEF Fenced, Untrusted, Exposed
  <1>5. Spelled(StructuralAnalysis, 6)
    BY TextsSpelled
  <1>6. Serves(r, StructuralAnalysis, WithSchema(r), WithSchema(Plainly(r)))
    BY StructuralAnalysisServes
  <1>7. PICK t, n, variables, others :
           /\ t = StructuralAnalysis /\ n = 6
           /\ variables = WithSchema(r) /\ others = WithSchema(Plainly(r))
    OBVIOUS
  <1>8. Answers(r, FillIn(Tokens(t.text), variables), FillIn(Tokens(t.text), others))
    BY <1>4, <1>5, <1>6, <1>7, ServesAnswers
  <1>9. ~buildFails(r)
    <2>1. \A v \in DOMAIN buildVariables(r) :
             v # "SCHEMA_DESCRIPTION" =>
                 /\ v \in StructuralAnalysis.variables
                 /\ WithSchema(r)[v] = buildVariables(r)[v]
      BY <1>6 DEF WithSchema, Serves
    <2>2. "SCHEMA_DESCRIPTION" \notin DOMAIN buildVariables(r)
      BY DEF buildVariables, StructuralAnalysisVariables
    <2> QED
      BY <1>6, <2>1, <2>2, ProperBuilds DEF Serves
  <1> QED
    BY <1>3, <1>7, <1>8, <1>9 DEF Served

LEMMA DocumentAnswers ==
    ASSUME NEW r, IsRequest(r), Valid(r), r.endpoint = "document-analysis"
    PROVE  Served(r)
  <1> DEFINE name == MainTemplate(r)
             X == [TEXT |-> Bare(r, "text")]
             Y == [TEXT |-> Bare(Plainly(r), "text")]
  <1>1. /\ Plainly(r).endpoint = r.endpoint
        /\ MainTemplate(Plainly(r)) = name
    BY PlainlyIs, MainTemplatePlainly
  <1>2. DOMAIN prompts = PromptNames /\ r.suffix \in DocumentTypes \cup {Unlisted}
    BY DEF prompts, IsRequest, Types
  <1>3. resolveTemplateName(r) = DocumentTemplate(r.suffix)
    BY DEF resolveTemplateName
  <1>4. /\ name \in DocumentTemplates
        /\ name = "document-analysis-base-instructions" =>
              r.suffix = "base-instructions"
    <2>1. CASE DocumentTemplate(r.suffix) \in PromptNames
      <3>1. name = DocumentTemplate(r.suffix)
        BY <1>2, <1>3, <2>1 DEF MainTemplate, Find
      <3> QED
        BY <1>2, <2>1, <3>1, CatalogAssumption
    <2>2. CASE DocumentTemplate(r.suffix) \notin PromptNames
      <3>1. name = "document-analysis-generic"
        BY <1>2, <1>3, <2>2 DEF MainTemplate, Find
      <3> QED
        BY <3>1 DEF DocumentTemplates
    <2> QED
      BY <2>1, <2>2
  <1>5. buildVariables(r) = X /\ buildVariables(Plainly(r)) = Y
    BY <1>1 DEF buildVariables
  <1>6. Tokens(BaseInstructions.text) = << >>
    BY DEF Tokens, BaseInstructions, Plain, Prompt
  <1>7. /\ composed(r) = Join(FillIn(Tokens(prompts[name].text), X), << >>)
        /\ composed(Plainly(r)) = Join(FillIn(Tokens(prompts[name].text), Y), << >>)
    BY <1>1, <1>5, <1>6 DEF composed, interpolate, Join
  <1>8. ~buildFails(r)
    <2>1. Serves(r, Unnoticed, X, Y)
      BY DocumentAnalysisServes
    <2> QED
      BY <1>5, <2>1, ProperBuilds DEF Serves
  <1>9. CASE name = "document-analysis-base-instructions"
    <2>1. prompts[name] = Plain
      BY <1>4, <1>9, DocumentPrompts
    <2>2. /\ FillIn(Tokens(prompts[name].text), X) = << >>
          /\ FillIn(Tokens(prompts[name].text), Y) = << >>
      BY <2>1, FilledNothing
    <2>3. Join(<< >>, << >>) = << >>
      BY EmptySeq, JoinEmpty
    <2>4. composed(r) = << >> /\ composed(Plainly(r)) = << >>
      BY <1>7, <2>2, <2>3
    <2>5. DOMAIN r.body = {"documentType", "text"}
      BY PlainlyIs DEF Endpoints, Dto, DocumentAnalysisDto
    <2>6. \A f \in DOMAIN r.body : ~Due(r, f)
      BY <1>4, <1>9, <2>5 DEF Due
    <2>7. Answers(r, << >>, << >>)
      BY <2>6, NothingSaid DEF Answers, Has
    <2> QED
      BY <1>8, <2>4, <2>7 DEF Served
  <1>10. CASE name # "document-analysis-base-instructions"
    <2>1. PICK t \in {Noticed, Unnoticed} : t = prompts[name]
      BY <1>4, <1>10, DocumentPrompts
    <2>2. PICK n : Spelled(t, n)
      BY TextsSpelled
    <2>3. /\ Serves(r, t, X, Y)
          /\ t = Noticed => Guarded(r, t, X)
          /\ ~Has(Bare(r, "text"), << Notice >>)
      BY DocumentAnalysisServes
    <2>4. \/ Guarded(r, t, X)
          \/ ~Has(FillIn(Tokens(t.text), X), << Notice >>)
      <3>1. CASE t = Noticed
        BY <2>3, <3>1
      <3>2. CASE t = Unnoticed
        <4>1. DOMAIN X = t.variables /\ X["TEXT"] = Bare(r, "text")
          BY <2>3 DEF Serves
        <4>2. "TEXT" \in t.variables
          BY <3>2 DEF Unnoticed, Prompt
        <4>3. Sound(r, Bare(r, "text"))
          BY <2>3, <4>1, <4>2 DEF Serves, Proper
        <4>4. FillIn(Tokens(t.text), X) = Bare(r, "text")
          BY <3>2, <4>3, FilledOne
        <4> QED
          BY <2>3, <4>4
      <3> QED
        BY <3>1, <3>2
    <2>5. PICK variables, others : variables = X /\ others = Y
      OBVIOUS
    <2>6. Answers(r, FillIn(Tokens(t.text), variables),
                     FillIn(Tokens(t.text), others))
      <3> HIDE DEF X, Y
      <3> QED
        BY <2>2, <2>3, <2>4, <2>5, ServesAnswers
    <2>7. /\ FillIn(Tokens(t.text), variables) \in Seq(Written(r))
          /\ FillIn(Tokens(t.text), others) \in Seq(Written(Plainly(r)))
      <3>1. Fills(Plainly(r), n, t.text, others)
        BY <2>2, <2>3, <2>5 DEF Spelled, ToSet, Fills, Serves, Proper
      <3>2. Sound(Plainly(r), FillIn(Tokens(t.text), others))
        BY <3>1, FilledSound
      <3> QED
        BY <2>6, <3>2 DEF Answers, Sound
    <2>8. /\ composed(r) = FillIn(Tokens(t.text), variables)
          /\ composed(Plainly(r)) = FillIn(Tokens(t.text), others)
      BY <1>7, <2>1, <2>5, <2>7, JoinEmpty
    <2> QED
      BY <1>8, <2>6, <2>8 DEF Served
  <1> QED
    BY <1>9, <1>10

\* Whatever body is accepted that has no null among the entries of a list, at
\* whatever endpoint, the prompt is as it should be.
LEMMA ComposedAnswers ==
    ASSUME NEW r, IsRequest(r), Valid(r), NoNull(r)
    PROVE  Served(r)
  <1>1. r.endpoint \in Endpoints /\ Plainly(r).endpoint = r.endpoint
    BY PlainlyIs DEF IsRequest
  <1>2. CASE r.endpoint = "structural-analysis"
    BY <1>2, StructuralAnswers
  <1>3. CASE r.endpoint = "document-analysis"
    BY <1>3, DocumentAnswers
  <1>4. CASE r.endpoint = "civics-extraction"
    BY <1>4, CivicsAnswers
  <1>5. CASE r.endpoint = "rag"
    <2>1. prompts[MainTemplate(r)] = Rag
      BY <1>1, <1>5, OwnTemplate, OtherPrompts
    <2>2. /\ buildVariables(r) = RagVariables(r)
          /\ buildVariables(Plainly(r)) = RagVariables(Plainly(r))
      BY <1>1, <1>5 DEF buildVariables
    <2>3. Spelled(Rag, 2)
      BY TextsSpelled
    <2>4. Fenced(r.endpoint) = {}
      BY <1>5 DEF Fenced, Untrusted, Exposed
    <2> QED
      BY <1>5, <2>1, <2>2, <2>3, <2>4, RagServes, ServedByOwn
  <1>6. CASE r.endpoint = "bill-extraction"
    <2>1. prompts[MainTemplate(r)] = BillExtraction
      BY <1>1, <1>6, OwnTemplate, OtherPrompts
    <2>2. /\ buildVariables(r) = BillExtractionVariables(r)
          /\ buildVariables(Plainly(r)) = BillExtractionVariables(Plainly(r))
      BY <1>1, <1>6 DEF buildVariables
    <2>3. Spelled(BillExtraction, 7)
      BY TextsSpelled
    <2> QED
      BY <1>6, <2>1, <2>2, <2>3, BillExtractionServes, ServedByOwn
  <1>7. CASE r.endpoint = "bill-votes-extraction"
    <2>1. prompts[MainTemplate(r)] = BillVotesExtraction
      BY <1>1, <1>7, OwnTemplate, OtherPrompts
    <2>2. /\ buildVariables(r) = BillVotesExtractionVariables(r)
          /\ buildVariables(Plainly(r)) = BillVotesExtractionVariables(Plainly(r))
      BY <1>1, <1>7 DEF buildVariables
    <2>3. Spelled(BillVotesExtraction, 8)
      BY TextsSpelled
    <2> QED
      BY <1>7, <2>1, <2>2, <2>3, BillVotesExtractionServes, ServedByOwn
  <1>8. CASE r.endpoint = "bill-analysis"
    <2>1. prompts[MainTemplate(r)] = BillAnalysis
      BY <1>1, <1>8, OwnTemplate, OtherPrompts
    <2>2. /\ buildVariables(r) = BillAnalysisVariables(r)
          /\ buildVariables(Plainly(r)) = BillAnalysisVariables(Plainly(r))
      BY <1>1, <1>8 DEF buildVariables
    <2>3. Spelled(BillAnalysis, 11)
      BY TextsSpelled
    <2> QED
      BY <1>8, <2>1, <2>2, <2>3, BillAnalysisServes, ServedByOwn
  <1>9. CASE r.endpoint = "bill-relevance-explanation"
    <2>1. prompts[MainTemplate(r)] = BillRelevanceExplanation
      BY <1>1, <1>9, OwnTemplate, OtherPrompts
    <2>2. /\ buildVariables(r) = BillRelevanceExplanationVariables(r)
          /\ buildVariables(Plainly(r)) = BillRelevanceExplanationVariables(Plainly(r))
      BY <1>1, <1>9 DEF buildVariables
    <2>3. Spelled(BillRelevanceExplanation, 14)
      BY TextsSpelled
    <2> QED
      BY <1>9, <2>1, <2>2, <2>3, BillRelevanceExplanationServes, ServedByOwn
  <1>10. CASE r.endpoint = "personalized-impact"
    <2>1. prompts[MainTemplate(r)] = PersonalizedImpact
      BY <1>1, <1>10, OwnTemplate, OtherPrompts
    <2>2. /\ buildVariables(r) = PersonalizedImpactVariables(r)
          /\ buildVariables(Plainly(r)) = PersonalizedImpactVariables(Plainly(r))
      BY <1>1, <1>10 DEF buildVariables
    <2>3. Spelled(PersonalizedImpact, 11)
      BY TextsSpelled
    <2> QED
      BY <1>10, <2>1, <2>2, <2>3, PersonalizedImpactServes, ServedByOwn
  <1>11. CASE r.endpoint = "bill-status-summary"
    <2>1. prompts[MainTemplate(r)] = BillStatusSummary
      BY <1>1, <1>11, OwnTemplate, OtherPrompts
    <2>2. /\ buildVariables(r) = BillStatusSummaryVariables(r)
          /\ buildVariables(Plainly(r)) = BillStatusSummaryVariables(Plainly(r))
      BY <1>1, <1>11 DEF buildVariables
    <2>3. Spelled(BillStatusSummary, 10)
      BY TextsSpelled
    <2> QED
      BY <1>11, <2>1, <2>2, <2>3, BillStatusSummaryServes, ServedByOwn
  <1>12. CASE r.endpoint = "briefing-summary"
    <2>1. prompts[MainTemplate(r)] = BriefingSummary
      BY <1>1, <1>12, OwnTemplate, OtherPrompts
    <2>2. /\ buildVariables(r) = BriefingSummaryVariables(r)
          /\ buildVariables(Plainly(r)) = BriefingSummaryVariables(Plainly(r))
      BY <1>1, <1>12 DEF buildVariables
    <2>3. Spelled(BriefingSummary, 16)
      BY TextsSpelled
    <2> QED
      BY <1>12, <2>1, <2>2, <2>3, BriefingSummaryServes, ServedByOwn
  <1>13. CASE r.endpoint = "proposition-relevance-explanation"
    <2>1. prompts[MainTemplate(r)] = PropositionRelevanceExplanation
      BY <1>1, <1>13, OwnTemplate, OtherPrompts
    <2>2. /\ buildVariables(r) = PropositionRelevanceExplanationVariables(r)
          /\ buildVariables(Plainly(r)) =
                PropositionRelevanceExplanationVariables(Plainly(r))
      BY <1>1, <1>13 DEF buildVariables
    <2>3. Spelled(PropositionRelevanceExplanation, 14)
      BY TextsSpelled
    <2> QED
      BY <1>13, <2>1, <2>2, <2>3, PropositionRelevanceExplanationServes, ServedByOwn
  <1>14. CASE r.endpoint = "representative-relevance-explanation"
    <2>1. prompts[MainTemplate(r)] = RepresentativeRelevanceExplanation
      BY <1>1, <1>14, OwnTemplate, OtherPrompts
    <2>2. /\ buildVariables(r) = RepresentativeRelevanceExplanationVariables(r)
          /\ buildVariables(Plainly(r)) =
                RepresentativeRelevanceExplanationVariables(Plainly(r))
      BY <1>1, <1>14 DEF buildVariables
    <2>3. Spelled(RepresentativeRelevanceExplanation, 14)
      BY TextsSpelled
    <2> QED
      BY <1>14, <2>1, <2>2, <2>3, RepresentativeRelevanceExplanationServes, ServedByOwn
  <1>15. CASE r.endpoint = "committee-relevance-explanation"
    <2>1. prompts[MainTemplate(r)] = CommitteeRelevanceExplanation
      BY <1>1, <1>15, OwnTemplate, OtherPrompts
    <2>2. /\ buildVariables(r) = CommitteeRelevanceExplanationVariables(r)
          /\ buildVariables(Plainly(r)) =
                CommitteeRelevanceExplanationVariables(Plainly(r))
      BY <1>1, <1>15 DEF buildVariables
    <2>3. Spelled(CommitteeRelevanceExplanation, 13)
      BY TextsSpelled
    <2> QED
      BY <1>15, <2>1, <2>2, <2>3, CommitteeRelevanceExplanationServes, ServedByOwn
  <1> QED
    BY <1>1, <1>2, <1>3, <1>4, <1>5, <1>6, <1>7, <1>8, <1>9, <1>10, <1>11,
       <1>12, <1>13, <1>14, <1>15 DEF Endpoints

------------------------------------------------------------------------------
(* The service *)

\* The inductive invariant: an accepted request is one that the pipe lets
\* pass, and it is answered with what its endpoint composes if the variables
\* can be built.
CatalogInv ==
    /\ warnings = {}
    /\ stage \in {"received", "accepted", "answered", "failed"} =>
          IsRequest(request)
    /\ stage \in {"accepted", "answered", "failed"} => Valid(request)
    /\ stage = "failed" => buildFails(request)
    /\ stage = "answered" => ~buildFails(request) /\ prompt = composed(request)

\* A body that comes in has the fields of its endpoint.
LEMMA BodiesType ==
    ASSUME NEW dto, NEW body \in Bodies(dto)
    PROVE  body \in [DOMAIN dto -> Sorts]
  <1>1. \A f \in DOMAIN dto : Full(dto)[f] \in Sorts /\ Sparse(dto)[f] \in Sorts
    <2>1. \A f \in DOMAIN dto : Full(dto)[f] = "given"
      BY DEF Full
    <2>2. \A f \in DOMAIN dto : Sparse(dto)[f] \in {"absent", "empty", "given"}
      BY DEF Sparse
    <2> QED
      BY <2>1, <2>2 DEF Sorts
  <1>2. PICK base \in {Full(dto), Sparse(dto)} :
           \E S : \E odd \in [S -> Sorts] :
              body = [f \in DOMAIN dto |->
                         IF f \in DOMAIN odd THEN odd[f] ELSE base[f]]
    BY DEF Bodies
  <1>3. PICK S : \E odd \in [S -> Sorts] :
           body = [f \in DOMAIN dto |->
                      IF f \in DOMAIN odd THEN odd[f] ELSE base[f]]
    BY <1>2
  <1>4. PICK odd \in [S -> Sorts] :
           body = [f \in DOMAIN dto |->
                      IF f \in DOMAIN odd THEN odd[f] ELSE base[f]]
    BY <1>3
  <1>5. \A f \in DOMAIN dto :
           (IF f \in DOMAIN odd THEN odd[f] ELSE base[f]) \in Sorts
    BY <1>1, <1>2, <1>4
  <1> QED
    BY <1>4, <1>5

LEMMA ReceiveRequest ==
    ASSUME Receive
    PROVE  IsRequest(request')
  <1>1. PICK endpoint \in DOMAIN Dto :
        \E body \in Bodies(Dto[endpoint]), suffix \in Types(endpoint) :
           \E quote : request' = [[endpoint |-> endpoint, body |-> body,
                                   suffix |-> suffix, quote |-> Unlisted]
                                     EXCEPT !.quote = quote]
    BY DEF Receive
  <1>2. PICK body \in Bodies(Dto[endpoint]), suffix \in Types(endpoint) :
        \E quote : request' = [[endpoint |-> endpoint, body |-> body,
                                suffix |-> suffix, quote |-> Unlisted]
                                  EXCEPT !.quote = quote]
    BY <1>1
  <1>3. PICK quote : request' = [endpoint |-> endpoint, body |-> body,
                                 suffix |-> suffix, quote |-> quote]
    BY <1>2
  <1>4. endpoint \in Endpoints
    BY DEF Dto
  <1>5. body \in [DOMAIN Dto[endpoint] -> Sorts]
    BY BodiesType
  <1>6. PICK r : r = request'
    OBVIOUS
  <1>7. IsRequest(r)
    BY <1>3, <1>4, <1>5, <1>6 DEF IsRequest
  <1> QED
    BY <1>6, <1>7

LEMMA CatalogInvInit == CatalogInit => CatalogInv
  BY DEF CatalogInit, CatalogInv

LEMMA CatalogInvNext == CatalogInv /\ [CatalogNext]_catalogVars => CatalogInv'
  <1> SUFFICES ASSUME CatalogInv, [CatalogNext]_catalogVars PROVE CatalogInv'
    OBVIOUS
  <1>1. CASE runVariableDriftCheck
    <2>1. Warnings = {}
      BY NoDrift DEF Warnings
    <2> QED
      BY <1>1, <2>1 DEF runVariableDriftCheck, CatalogInv
  <1>2. CASE Receive
    <2>1. IsRequest(request')
      BY <1>2, ReceiveRequest
    <2>2. warnings' = warnings /\ stage' = "received"
      BY <1>2 DEF Receive
    <2>3. IsRequest(request)'
      BY <2>1 DEF IsRequest
    <2> QED
      BY <2>2, <2>3 DEF CatalogInv
  <1>3. CASE Validate
    <2>1. /\ request' = request /\ warnings' = warnings /\ prompt' = prompt
          /\ stage = "received" /\ stage' \in {"accepted", "refused"}
          /\ stage' = "accepted" => Valid(request)
      BY <1>3 DEF Validate
    <2>2. IsRequest(request)' <=> IsRequest(request)
      BY <2>1 DEF IsRequest
    <2>3. Valid(request)' <=> Valid(request)
      BY <2>1 DEF Valid
    <2> QED
      BY <2>1, <2>2, <2>3 DEF CatalogInv
  <1>4. CASE composePrompt
    <2>1. /\ request' = request /\ warnings' = warnings
          /\ stage = "accepted"
          /\ \/ stage' = "failed" /\ buildFails(request)
             \/ /\ stage' = "answered" /\ ~buildFails(request)
                /\ prompt' = composed(request)
      BY <1>4 DEF composePrompt
    <2>2. IsRequest(request)' <=> IsRequest(request)
      BY <2>1 DEF IsRequest
    <2>3. Valid(request)' <=> Valid(request)
      BY <2>1 DEF Valid
    <2>4. /\ composed(request)' = composed(request')
          /\ buildFails(request)' <=> buildFails(request')
      OBVIOUS
    <2> QED
      BY <2>1, <2>2, <2>3, <2>4 DEF CatalogInv
  <1>5. CASE UNCHANGED catalogVars
    <2>1. /\ request' = request /\ warnings' = warnings
          /\ stage' = stage /\ prompt' = prompt
      BY <1>5 DEF catalogVars
    <2>2. IsRequest(request)' <=> IsRequest(request)
      BY <2>1 DEF IsRequest
    <2>3. Valid(request)' <=> Valid(request)
      BY <2>1 DEF Valid
    <2>4. /\ composed(request)' = composed(request')
          /\ buildFails(request)' <=> buildFails(request')
      OBVIOUS
    <2> QED
      BY <2>1, <2>2, <2>3, <2>4 DEF CatalogInv
  <1> QED
    BY <1>1, <1>2, <1>3, <1>4, <1>5 DEF CatalogNext

\* An accepted request is answered as its endpoint composes it.
THEOREM CatalogInvariant == CatalogSpec => []CatalogInv
  BY CatalogInvInit, CatalogInvNext, PTL DEF CatalogSpec

\* The drift check at start has nothing to say of the seed.
THEOREM CatalogDriftSilent == CatalogSpec => []DriftSilent
  <1>1. CatalogInv => DriftSilent
    BY DEF CatalogInv, DriftSilent
  <1> QED
    BY <1>1, CatalogInvariant, PTL

LEMMA AnswerHolds ==
    ASSUME CatalogInv, Answered
    PROVE  /\ prompt = composed(request) /\ IsRequest(request)
           /\ Answers(request, prompt, composed(Plainly(request)))
  <1>1. /\ IsRequest(request) /\ Valid(request) /\ ~buildFails(request)
        /\ prompt = composed(request)
    BY DEF CatalogInv, Answered
  <1>2. Served(request)
    BY <1>1, NullFails, ComposedAnswers
  <1> QED
    BY <1>1, <1>2 DEF Served

\* Of the bodies that the pipe lets pass, building the prompt fails for those
\* alone whose stages or hearings have a null among them; a missing value is
\* written for those alone where a list is among them, and no placeholder is
\* left open but those that a value quotes.
THEOREM CatalogWellFormed == CatalogSpec => []WellFormed
  <1>1. ASSUME CatalogInv, stage = "failed"
        PROVE  HasEntry("nullEntry")
    <2>1. IsRequest(request) /\ Valid(request) /\ buildFails(request)
      BY <1>1 DEF CatalogInv
    <2>2. ~NoNull(request)
      BY <2>1, ComposedAnswers DEF Served
    <2> QED
      BY <2>2 DEF NoNull, HasEntry
  <1>2. ASSUME CatalogInv, Answered
        PROVE  /\ InPrompt(Undefined) => HasEntry("listEntry")
               /\ \A i \in DOMAIN prompt :
                     prompt[i][1] = "placeholder" =>
                        /\ i > 1
                        /\ \E f \in Quoting(request) : prompt[i - 1] = Value(f)
    <2>1. Sound(request, prompt)
      BY <1>2, AnswerHolds DEF Answers
    <2>2. \A i \in DOMAIN prompt : prompt[i] \in Written(request)
      BY <2>1, LenProperties DEF Sound
    <2>3. Undefined \in Written(request) => HasEntry("listEntry")
      BY DEF Written, HasEntry, Undefined, Value, Hole, Words, Notice
    <2> QED
      BY <2>1, <2>2, <2>3 DEF Sound, InPrompt
  <1>3. CatalogInv => WellFormed
    BY <1>1, <1>2 DEF WellFormed
  <1> QED
    BY <1>3, CatalogInvariant, PTL

\* What a request says is in its prompt, but for the exceptions named.
THEOREM CatalogNothingLost == CatalogSpec => []NothingLost
  <1>1. CatalogInv => NothingLost
    <2> SUFFICES ASSUME CatalogInv, Answered, NEW f \in DOMAIN request.body,
                        Says(f), ~Selects(f), ~Dropped(f)
                 PROVE  InPrompt(Value(f))
      BY DEF NothingLost
    <2>1. Due(request, f)
      BY DEF Due, Said, Says, Selects, Dropped
    <2>2. Has(prompt, Value(f))
      BY <2>1, AnswerHolds DEF Answers
    <2> QED
      BY <2>2 DEF Has, InPrompt
  <1> QED
    BY <1>1, CatalogInvariant, PTL

\* A value that quotes a placeholder brings nothing else into the prompt.
THEOREM CatalogQuotesInert == CatalogSpec => []QuotesInert
  <1>1. CatalogInv => QuotesInert
    BY AnswerHolds DEF QuotesInert, Answers
  <1> QED
    BY <1>1, CatalogInvariant, PTL

\* But for the lines of the two prompts on relevance, what is untrusted stands
\* below the notice.
THEOREM CatalogBelowNotice == CatalogSpec => []BelowNotice
  <1>1. CatalogInv => BelowNotice
    <2> SUFFICES ASSUME CatalogInv, Answered, InPrompt(<< Notice >>),
                        NEW i \in DOMAIN prompt,
                        NEW f \in Untrusted(request.endpoint),
                        prompt[i] = Value(f), f \notin Exposed(request.endpoint)
                 PROVE  \E j \in 1 .. (i - 1) : prompt[j] = << Notice >>
      BY DEF BelowNotice
    <2>1. Has(prompt, << Notice >>)
      BY DEF Has, InPrompt
    <2>2. f \in Fenced(request.endpoint)
      BY DEF Fenced
    <2> QED
      BY <2>1, <2>2, AnswerHolds DEF Answers
  <1> QED
    BY <1>1, CatalogInvariant, PTL
==============================================================================
