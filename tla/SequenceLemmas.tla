--------------------------- MODULE SequenceLemmas ---------------------------
(***************************************************************************)
(* Facts about sequences, above all about FlattenSeq, the operator with    *)
(* which the modules write down what the code's comprehensions and nested  *)
(* loops append.  It is defined by recursion; that the recursion has a     *)
(* solution and what it computes is proved by induction on the number of   *)
(* sequences.                                                              *)
(***************************************************************************)
EXTENDS Integers, Sequences, SequencesExt, SequenceTheorems, WellFoundedInduction, TLAPS

\* The order on numbers as a set of pairs.
Less == {ss \in Nat \X Nat : ss[1] < ss[2]}

\* A set of numbers has a least one.
LEMMA LeastNumber ==
  ASSUME NEW T, T \subseteq Nat, T # {}
  PROVE  \E x \in T : \A y \in T : x <= y
<1>1. IsWellFoundedOn(Less, Nat)
  BY NatLessThanWellFounded DEF OpToRel, Less
<1>2. PICK x \in T : \A y \in T : <<y, x>> \notin Less
  BY <1>1, WFMin
<1>3. ASSUME NEW y \in T PROVE x <= y
  <2>1. x \in Nat /\ y \in Nat
    OBVIOUS
  <2>2. <<y, x>> \in Nat \X Nat /\ <<y, x>>[1] = y /\ <<y, x>>[2] = x
    BY <2>1
  <2>3. ~ (y < x)
    BY <1>2, <2>2 DEF Less
  <2> QED
    BY <2>1, <2>3
<1> QED
  BY <1>3

\* The greatest of finitely many places.
LEMMA GreatestNumber ==
  ASSUME NEW n \in Nat, NEW T, T \subseteq 1 .. n, T # {}
  PROVE  \E x \in T : \A y \in T : y <= x
<1> DEFINE U == {i \in Nat : n - i \in T}
<1>1. U \subseteq Nat /\ U # {}
  <2>1. PICK y \in T : TRUE
    OBVIOUS
  <2>2. y \in 1 .. n
    OBVIOUS
  <2>3. n - y \in Nat /\ n - (n - y) = y
    BY <2>2
  <2>4. n - y \in U
    BY <2>3
  <2> QED
    BY <2>4
<1>2. PICK i \in U : \A j \in U : i <= j
  <2> HIDE DEF U
  <2> QED
    BY <1>1, LeastNumber
<1>3. n - i \in T
  OBVIOUS
<1>4. ASSUME NEW y \in T PROVE y <= n - i
  <2>1. y \in 1 .. n /\ i \in Nat
    BY <1>1
  <2>2. n - y \in Nat /\ n - (n - y) = y
    BY <2>1
  <2>3. n - y \in U
    BY <2>2
  <2>4. i <= n - y
    BY <1>2, <2>3
  <2> QED
    BY <2>1, <2>4
<1> QED
  BY <1>3, <1>4

\* Induction, about a set and not about an operator.
LEMMA InductionOnNat ==
  ASSUME NEW S, 0 \in S, \A n \in Nat : n \in S => n + 1 \in S
  PROVE  Nat \subseteq S
<1>1. SUFFICES ASSUME Nat \ S # {} PROVE FALSE
  OBVIOUS
<1>2. PICK x \in Nat \ S : \A y \in Nat \ S : x <= y
  BY <1>1, LeastNumber
<1>3. x # 0 /\ x - 1 \in Nat /\ x - 1 \in S
  BY <1>2
<1> QED
  BY <1>2, <1>3

-----------------------------------------------------------------------------
\* The equation of the function in FlattenSeq, up to n.
Flattens(f, seqs, n) ==
  f = [i \in 1 .. n |-> IF i = 1 THEN seqs[i] ELSE f[i - 1] \o seqs[i]]

\* That equation has a solution.
LEMMA FlattensExists ==
  ASSUME NEW seqs, NEW n \in Nat
  PROVE  \E f : Flattens(f, seqs, n)
<1> DEFINE S == {m \in Nat : \E f : Flattens(f, seqs, m)}
<1>1. 0 \in S
  <2>1. Flattens(<<>>, seqs, 0)
    BY DEF Flattens
  <2> QED
    BY <2>1
<1>2. ASSUME NEW m \in Nat, m \in S PROVE m + 1 \in S
  <2>1. PICK f : Flattens(f, seqs, m)
    BY <1>2
  <2> DEFINE next == IF m = 0 THEN seqs[1] ELSE f[m] \o seqs[m + 1]
             g    == [i \in 1 .. m + 1 |-> IF i <= m THEN f[i] ELSE next]
  <2>2. \A i \in 1 .. m : f[i] = IF i = 1 THEN seqs[i] ELSE f[i - 1] \o seqs[i]
    BY <2>1 DEF Flattens
  <2>3. ASSUME NEW i \in 1 .. m + 1
        PROVE  g[i] = IF i = 1 THEN seqs[i] ELSE g[i - 1] \o seqs[i]
    <3>1. CASE i <= m
      <4>1. i \in 1 .. m /\ g[i] = f[i] /\ (i # 1 => i - 1 \in 1 .. m + 1 /\ g[i - 1] = f[i - 1])
        BY <3>1
      <4> QED
        BY <2>2, <4>1
    <3>2. CASE i = m + 1
      <4>1. g[i] = next /\ (m # 0 => i - 1 \in 1 .. m + 1 /\ i - 1 = m /\ g[i - 1] = f[m] /\ i # 1)
        BY <3>2
      <4> QED
        BY <3>2, <4>1
    <3> QED
      BY <3>1, <3>2
  <2>4. g = [i \in 1 .. m + 1 |-> IF i = 1 THEN seqs[i] ELSE g[i - 1] \o seqs[i]]
    BY <2>3
  <2>5. Flattens(g, seqs, m + 1)
    BY <2>4 DEF Flattens
  <2> QED
    BY <2>5
<1> HIDE DEF S
<1>3. Nat \subseteq S
  BY <1>1, <1>2, InductionOnNat
<1> QED
  BY <1>3 DEF S

\* FlattenSeq is the last value of a solution.
LEMMA FlattenIsLast ==
  ASSUME NEW seqs, Len(seqs) \in Nat, Len(seqs) # 0
  PROVE  \E f : Flattens(f, seqs, Len(seqs)) /\ FlattenSeq(seqs) = f[Len(seqs)]
<1> DEFINE f == CHOOSE f : Flattens(f, seqs, Len(seqs))
<1>1. Flattens(f, seqs, Len(seqs))
  BY FlattensExists
<1>2. FlattenSeq(seqs) = f[Len(seqs)]
  BY DEF FlattenSeq, Flattens
<1> QED
  BY <1>1, <1>2

\* Where each sequence starts in the flattened one.
Starts(st, seqs) ==
  /\ st \in [1 .. Len(seqs) + 1 -> Nat]
  /\ st[1] = 0
  /\ \A i \in 1 .. Len(seqs) : st[i + 1] = st[i] + Len(seqs[i])
  /\ Len(FlattenSeq(seqs)) = st[Len(seqs) + 1]
  /\ \A i \in 1 .. Len(seqs) : \A j \in 1 .. Len(seqs[i]) :
       st[i] + j \in 1 .. Len(FlattenSeq(seqs)) /\ FlattenSeq(seqs)[st[i] + j] = seqs[i][j]
  /\ \A k \in 1 .. Len(FlattenSeq(seqs)) :
       \E i \in 1 .. Len(seqs) : \E j \in 1 .. Len(seqs[i]) : k = st[i] + j

\* q holds the first m sequences, each where st says.
PlacedIn(q, st, seqs, m) ==
  /\ \A i \in 1 .. m : \A j \in 1 .. Len(seqs[i]) :
       st[i] + j \in 1 .. Len(q) /\ q[st[i] + j] = seqs[i][j]
  /\ \A k \in 1 .. Len(q) : \E i \in 1 .. m : \E j \in 1 .. Len(seqs[i]) : k = st[i] + j

\* One more sequence is placed behind the others.
LEMMA PlacedNext ==
  ASSUME NEW S, NEW seqs, NEW st, NEW m \in Nat, NEW q \in Seq(S),
         seqs[m + 1] \in Seq(S), PlacedIn(q, st, seqs, m), st[m + 1] = Len(q)
  PROVE  PlacedIn(q \o seqs[m + 1], st, seqs, m + 1)
<1> DEFINE s == seqs[m + 1]
           r == q \o s
<1>1. Len(q) \in Nat /\ Len(s) \in Nat
  BY LenProperties
<1>2. /\ Len(r) = Len(q) + Len(s)
      /\ \A k \in 1 .. Len(q) + Len(s) : r[k] = IF k <= Len(q) THEN q[k] ELSE s[k - Len(q)]
  BY ConcatProperties
<1>3. st[m + 1] = Len(q) /\ PlacedIn(q, st, seqs, m) /\ seqs[m + 1] = s
  OBVIOUS
<1> HIDE DEF s, r
<1>4. ASSUME NEW i \in 1 .. m + 1, NEW j \in 1 .. Len(seqs[i])
      PROVE  st[i] + j \in 1 .. Len(r) /\ r[st[i] + j] = seqs[i][j]
  <2>1. CASE i \in 1 .. m
    <3>1. st[i] + j \in 1 .. Len(q) /\ q[st[i] + j] = seqs[i][j]
      BY <1>3, <2>1 DEF PlacedIn
    <3> QED
      BY <1>1, <1>2, <3>1
  <2>2. CASE i = m + 1
    <3>1. j \in 1 .. Len(s) /\ st[i] + j = Len(q) + j /\ seqs[i][j] = s[j]
      BY <1>3, <2>2
    <3>2. /\ Len(q) + j \in 1 .. Len(q) + Len(s)
          /\ ~ (Len(q) + j <= Len(q)) /\ (Len(q) + j) - Len(q) = j
      BY <1>1, <3>1
    <3> QED
      BY <1>2, <3>1, <3>2
  <2> QED
    BY <2>1, <2>2
<1>5. ASSUME NEW k \in 1 .. Len(r)
      PROVE  \E i \in 1 .. m + 1 : \E j \in 1 .. Len(seqs[i]) : k = st[i] + j
  <2>1. CASE k <= Len(q)
    <3>1. k \in 1 .. Len(q)
      BY <1>1, <1>2, <2>1
    <3>2. PICK i \in 1 .. m : \E j \in 1 .. Len(seqs[i]) : k = st[i] + j
      BY <1>3, <3>1 DEF PlacedIn
    <3> QED
      BY <3>2
  <2>2. CASE k > Len(q)
    <3>1. k - Len(q) \in 1 .. Len(s) /\ k = Len(q) + (k - Len(q)) /\ m + 1 \in 1 .. m + 1
      BY <1>1, <1>2, <2>2
    <3> QED
      BY <1>3, <3>1
  <2> QED
    BY <1>1, <1>2, <2>1, <2>2
<1> QED
  BY <1>4, <1>5 DEF PlacedIn, r, s

\* FlattenSeq lays its sequences end to end: every element of every one of them
\* has its place, and every place has an element.
LEMMA FlattenStarts ==
  ASSUME NEW S, NEW seqs \in Seq(Seq(S))
  PROVE  FlattenSeq(seqs) \in Seq(S) /\ \E st : Starts(st, seqs)
<1> DEFINE n == Len(seqs)
<1>1. n \in Nat /\ \A i \in 1 .. n : seqs[i] \in Seq(S) /\ Len(seqs[i]) \in Nat
  <2>1. n \in Nat /\ \A i \in 1 .. n : seqs[i] \in Seq(S)
    BY LenProperties, ElementOfSeq
  <2>2. ASSUME NEW i \in 1 .. n PROVE Len(seqs[i]) \in Nat
    BY <2>1, LenProperties
  <2> QED
    BY <2>1, <2>2
<1>2. CASE n = 0
  <2>1. seqs = <<>> /\ FlattenSeq(seqs) = <<>> /\ Len(<<>>) = 0
    BY <1>2, EmptySeq DEF FlattenSeq
  <2>2. Starts([i \in 1 .. 1 |-> 0], seqs)
    BY <1>2, <2>1 DEF Starts
  <2> QED
    BY <2>1, <2>2, EmptySeq
<1>3. CASE n # 0
  <2>1. PICK f : Flattens(f, seqs, n) /\ FlattenSeq(seqs) = f[n]
    BY <1>1, <1>3, FlattenIsLast
  <2>2. \A i \in 1 .. n : f[i] = IF i = 1 THEN seqs[i] ELSE f[i - 1] \o seqs[i]
    BY <2>1 DEF Flattens
  <2> DEFINE F(i) == IF i = 0 THEN <<>> ELSE f[i]
             st   == [i \in 1 .. n + 1 |-> Len(F(i - 1))]
  <2>3. ASSUME NEW i \in Nat, i + 1 \in 1 .. n, F(i) \in Seq(S)
        PROVE  F(i + 1) = F(i) \o seqs[i + 1] /\ F(i + 1) \in Seq(S)
    <3>1. seqs[i + 1] \in Seq(S)
      BY <1>1, <2>3
    <3>2. F(i + 1) = F(i) \o seqs[i + 1]
      <4>1. CASE i = 0
        <5>1. f[1] = seqs[1]
          BY <2>2, <2>3, <4>1
        <5> QED
          BY <3>1, <4>1, <5>1, ConcatEmptySeq
      <4>2. CASE i # 0
        <5>1. i + 1 # 1 /\ (i + 1) - 1 = i /\ i + 1 # 0
          BY <4>2
        <5>2. f[i + 1] = f[i] \o seqs[i + 1]
          BY <2>2, <2>3, <5>1
        <5>3. F(i + 1) = f[i + 1] /\ F(i) = f[i]
          BY <4>2, <5>1
        <5> HIDE DEF F
        <5> QED
          BY <5>2, <5>3
      <4> QED
        BY <4>1, <4>2
    <3> QED
      BY <2>3, <3>1, <3>2, ConcatProperties
  <2>4. /\ \A i \in Nat : i + 1 \in 1 .. n + 1 => st[i + 1] = Len(F(i))
        /\ F(0) = <<>> /\ F(n) = FlattenSeq(seqs)
    BY <1>1, <1>3, <2>1
  <2> HIDE DEF F, st
  <2> DEFINE P == {m \in Nat : m <= n => F(m) \in Seq(S) /\ PlacedIn(F(m), st, seqs, m)}
  <2>5. 0 \in P
    <3>1. <<>> \in Seq(S) /\ Len(<<>>) = 0
      BY EmptySeq
    <3>2. PlacedIn(<<>>, st, seqs, 0)
      BY <3>1 DEF PlacedIn
    <3> QED
      BY <2>4, <3>1, <3>2
  <2>6. ASSUME NEW m \in Nat, m \in P PROVE m + 1 \in P
    <3>1. SUFFICES ASSUME m + 1 <= n
                   PROVE  F(m + 1) \in Seq(S) /\ PlacedIn(F(m + 1), st, seqs, m + 1)
      OBVIOUS
    <3>2. m + 1 \in 1 .. n /\ F(m) \in Seq(S) /\ PlacedIn(F(m), st, seqs, m)
      BY <1>1, <2>6, <3>1
    <3>3. F(m + 1) = F(m) \o seqs[m + 1] /\ F(m + 1) \in Seq(S)
      BY <2>3, <3>2
    <3>4. st[m + 1] = Len(F(m)) /\ seqs[m + 1] \in Seq(S)
      BY <1>1, <2>4, <3>2
    <3>5. PlacedIn(F(m) \o seqs[m + 1], st, seqs, m + 1)
      BY <3>2, <3>4, PlacedNext
    <3> QED
      BY <3>3, <3>5
  <2> HIDE DEF P
  <2>7. Nat \subseteq P
    BY <2>5, <2>6, InductionOnNat
  <2>8. \A m \in 0 .. n : F(m) \in Seq(S) /\ PlacedIn(F(m), st, seqs, m)
    BY <1>1, <2>7 DEF P
  <2>9. \A m \in 0 .. n : Len(F(m)) \in Nat
    BY <2>8, LenProperties
  <2>10. st \in [1 .. n + 1 -> Nat]
    <3>1. ASSUME NEW i \in 1 .. n + 1 PROVE Len(F(i - 1)) \in Nat
      BY <1>1, <2>9
    <3> QED
      BY <3>1 DEF st
  <2>11. ASSUME NEW i \in 1 .. n PROVE st[i + 1] = st[i] + Len(seqs[i])
    <3>1. /\ i - 1 \in Nat /\ (i - 1) + 1 = i /\ i - 1 \in 0 .. n
          /\ F(i - 1) \in Seq(S) /\ i \in Nat /\ i \in 1 .. n + 1 /\ i + 1 \in 1 .. n + 1
      BY <1>1, <2>8
    <3>2. F(i) = F(i - 1) \o seqs[i] /\ seqs[i] \in Seq(S)
      BY <1>1, <2>3, <3>1
    <3>3. Len(F(i)) = Len(F(i - 1)) + Len(seqs[i])
      BY <3>1, <3>2, ConcatProperties
    <3> QED
      BY <2>4, <3>1, <3>3
  <2>12. st[1] = 0 /\ st[n + 1] = Len(FlattenSeq(seqs))
    <3>1. 0 + 1 \in 1 .. n + 1 /\ n + 1 \in 1 .. n + 1 /\ 0 + 1 = 1
      BY <1>1
    <3>2. st[1] = Len(F(0)) /\ st[n + 1] = Len(F(n))
      BY <1>1, <2>4, <3>1
    <3> QED
      BY <2>4, <3>2, EmptySeq
  <2>13. FlattenSeq(seqs) \in Seq(S) /\ PlacedIn(FlattenSeq(seqs), st, seqs, n)
    <3>1. n \in 0 .. n
      BY <1>1
    <3> QED
      BY <2>4, <2>8, <3>1
  <2>14. Starts(st, seqs)
    BY <2>10, <2>11, <2>12, <2>13 DEF Starts, PlacedIn
  <2> QED
    BY <2>13, <2>14
<1> QED
  BY <1>1, <1>2, <1>3

-----------------------------------------------------------------------------
\* What is in the flattened sequence: what is in the sequences.
LEMMA FlattenRange ==
  ASSUME NEW S, NEW seqs \in Seq(Seq(S))
  PROVE  /\ FlattenSeq(seqs) \in Seq(S)
         /\ Range(FlattenSeq(seqs)) = UNION {Range(seqs[i]) : i \in 1 .. Len(seqs)}
<1> DEFINE q == FlattenSeq(seqs)
<1>1. PICK st : q \in Seq(S) /\ Starts(st, seqs)
  BY FlattenStarts
<1>2. DOMAIN q = 1 .. Len(q) /\ \A i \in 1 .. Len(seqs) : DOMAIN seqs[i] = 1 .. Len(seqs[i])
  BY <1>1, LenProperties, ElementOfSeq
<1>3. \A i \in 1 .. Len(seqs) : \A j \in 1 .. Len(seqs[i]) :
        st[i] + j \in 1 .. Len(q) /\ q[st[i] + j] = seqs[i][j]
  BY <1>1 DEF Starts
<1>4. \A k \in 1 .. Len(q) : \E i \in 1 .. Len(seqs) : \E j \in 1 .. Len(seqs[i]) : k = st[i] + j
  BY <1>1 DEF Starts
<1> HIDE DEF q
<1>5. ASSUME NEW x \in Range(q) PROVE \E i \in 1 .. Len(seqs) : x \in Range(seqs[i])
  <2>1. PICK k \in 1 .. Len(q) : x = q[k]
    BY <1>2, <1>5 DEF Range
  <2>2. PICK i \in 1 .. Len(seqs) : \E j \in 1 .. Len(seqs[i]) : k = st[i] + j
    BY <1>4
  <2>3. PICK j \in 1 .. Len(seqs[i]) : k = st[i] + j
    BY <2>2
  <2>4. x = seqs[i][j] /\ j \in DOMAIN seqs[i]
    BY <1>2, <1>3, <2>1, <2>3
  <2> QED
    BY <2>4 DEF Range
<1>6. ASSUME NEW i \in 1 .. Len(seqs), NEW x \in Range(seqs[i]) PROVE x \in Range(q)
  <2>1. PICK j \in 1 .. Len(seqs[i]) : x = seqs[i][j]
    BY <1>2, <1>6 DEF Range
  <2> QED
    BY <1>2, <1>3, <2>1 DEF Range
<1>7. Range(q) = UNION {Range(seqs[i]) : i \in 1 .. Len(seqs)}
  BY <1>5, <1>6
<1> QED
  BY <1>1, <1>7 DEF q

\* A function on the places of a sequence is one, and has its values.
LEMMA EachOf ==
  ASSUME NEW S, NEW xs \in Seq(S), NEW T, NEW f \in [DOMAIN xs -> T]
  PROVE  f \in Seq(T) /\ Len(f) = Len(xs) /\ DOMAIN f = DOMAIN xs
<1>1. DOMAIN xs = 1 .. Len(xs) /\ Len(xs) \in Nat
  BY LenProperties
<1>2. f \in [1 .. Len(xs) -> T]
  BY <1>1
<1>3. f \in Seq(T)
  BY <1>1, <1>2, SeqDef
<1> QED
  BY <1>1, <1>2, <1>3, LenProperties

\* The sequences one gets for the elements of another, flattened.
LEMMA FlattenOf ==
  ASSUME NEW S, NEW xs \in Seq(S), NEW T, NEW f \in [DOMAIN xs -> Seq(T)]
  PROVE  /\ FlattenSeq(f) \in Seq(T)
         /\ \A x : x \in Range(FlattenSeq(f)) <=> \E i \in DOMAIN xs : x \in Range(f[i])
<1>1. f \in Seq(Seq(T)) /\ Len(f) = Len(xs) /\ DOMAIN f = DOMAIN xs
  BY EachOf
<1>2. DOMAIN xs = 1 .. Len(f)
  BY <1>1, LenProperties
<1>3. /\ FlattenSeq(f) \in Seq(T)
      /\ Range(FlattenSeq(f)) = UNION {Range(f[i]) : i \in 1 .. Len(f)}
  BY <1>1, FlattenRange
<1> HIDE DEF Range
<1> QED
  BY <1>2, <1>3

\* A sequence over a set is one over a larger set.
LEMMA SeqOfMore ==
  ASSUME NEW S, NEW T, S \subseteq T, NEW q \in Seq(S)
  PROVE  q \in Seq(T)
<1>1. Len(q) \in Nat /\ q = [i \in 1 .. Len(q) |-> q[i]] /\ \A i \in 1 .. Len(q) : q[i] \in S
  BY LenProperties, ElementOfSeq
<1>2. q \in [1 .. Len(q) -> T]
  BY <1>1
<1> QED
  BY <1>1, <1>2, SeqDef

\* A sequence is one over its own elements.
LEMMA SeqOfOwn == ASSUME NEW S, NEW q \in Seq(S) PROVE q \in Seq(Range(q))
<1>1. Len(q) \in Nat /\ q = [i \in 1 .. Len(q) |-> q[i]] /\ DOMAIN q = 1 .. Len(q)
  BY LenProperties
<1>2. q \in [1 .. Len(q) -> Range(q)]
  BY <1>1 DEF Range
<1> QED
  BY <1>1, <1>2, SeqDef

\* The elements of T, in their order.
LEMMA Filtered ==
  ASSUME NEW S, NEW xs \in Seq(S), NEW T \in SUBSET S,
         NEW seqs \in [DOMAIN xs -> Seq(S)],
         \A i \in DOMAIN xs : seqs[i] = IF xs[i] \in T THEN <<xs[i]>> ELSE <<>>
  PROVE  /\ FlattenSeq(seqs) \in Seq(T)
         /\ Range(FlattenSeq(seqs)) = Range(xs) \cap T
<1>1. \A i \in DOMAIN xs : xs[i] \in S
  BY ElementOfSeq, LenProperties
<1>2. ASSUME NEW i \in DOMAIN xs PROVE seqs[i] \in Seq(T)
  <2>1. CASE xs[i] \in T
    <3>1. xs[i] \in T /\ seqs[i] = <<xs[i]>>
      BY <1>1, <2>1
    <3> QED
      BY <3>1
  <2>2. CASE xs[i] \notin T
    BY <2>2, EmptySeq
  <2> QED
    BY <2>1, <2>2
<1>3. seqs \in Seq(Seq(T)) /\ DOMAIN seqs = DOMAIN xs /\ DOMAIN xs = 1 .. Len(seqs)
  <2>1. seqs \in [DOMAIN xs -> Seq(T)]
    BY <1>2
  <2>2. seqs \in Seq(Seq(T)) /\ DOMAIN seqs = DOMAIN xs /\ Len(seqs) = Len(xs)
    BY <2>1, EachOf
  <2> QED
    BY <2>2, LenProperties
<1>4. /\ FlattenSeq(seqs) \in Seq(T)
      /\ Range(FlattenSeq(seqs)) = UNION {Range(seqs[i]) : i \in 1 .. Len(seqs)}
  <2> HIDE DEF Range
  <2> QED
    BY <1>3, FlattenRange
<1>5. \A i \in DOMAIN xs : Range(seqs[i]) = {xs[i]} \cap T
  BY <1>1 DEF Range
<1>6. UNION {Range(seqs[i]) : i \in 1 .. Len(seqs)} = Range(xs) \cap T
  BY <1>3, <1>5 DEF Range
<1> QED
  BY <1>4, <1>6

\* What is not first is in the rest.
LEMMA TailRange ==
  ASSUME NEW S, NEW s \in Seq(S), s # <<>>
  PROVE  /\ Head(s) \in S /\ Tail(s) \in Seq(S) /\ Head(s) = s[1] /\ 1 \in DOMAIN s
         /\ Len(Tail(s)) = Len(s) - 1 /\ DOMAIN Tail(s) = 1 .. Len(s) - 1
         /\ \A i \in 1 .. Len(s) - 1 : Tail(s)[i] = s[i + 1] /\ i + 1 \in DOMAIN s
         /\ Range(s) = {Head(s)} \cup Range(Tail(s))
<1>1. Len(s) \in Nat \ {0} /\ DOMAIN s = 1 .. Len(s) /\ \A i \in 1 .. Len(s) : s[i] \in S
  BY LenProperties, ElementOfSeq, EmptySeq
<1>2. Tail(s) \in Seq(S) /\ Head(s) \in S /\ Head(s) = s[1]
      /\ Len(Tail(s)) = Len(s) - 1 /\ \A i \in 1 .. Len(Tail(s)) : Tail(s)[i] = s[i + 1]
  BY <1>1, HeadTailProperties
<1>3. DOMAIN Tail(s) = 1 .. Len(s) - 1
  BY <1>2, LenProperties
<1>4. ASSUME NEW x \in Range(s) PROVE x = s[1] \/ x \in Range(Tail(s))
  <2>1. PICK i \in 1 .. Len(s) : x = s[i]
    BY <1>1, <1>4 DEF Range
  <2>2. i # 1 => i - 1 \in 1 .. Len(s) - 1 /\ (i - 1) + 1 = i
    BY <1>1
  <2> QED
    BY <1>2, <1>3, <2>1, <2>2 DEF Range
<1>5. ASSUME NEW x \in Range(Tail(s)) PROVE x \in Range(s)
  <2>1. PICK i \in 1 .. Len(s) - 1 : x = Tail(s)[i]
    BY <1>3, <1>5 DEF Range
  <2>2. i + 1 \in 1 .. Len(s)
    BY <1>1
  <2> QED
    BY <1>1, <1>2, <2>1, <2>2 DEF Range
<1>6. 1 \in DOMAIN s /\ \A i \in 1 .. Len(s) - 1 : i + 1 \in DOMAIN s
  BY <1>1
<1>7. Range(s) = {Head(s)} \cup Range(Tail(s))
  BY <1>1, <1>2, <1>4, <1>5, <1>6 DEF Range
<1> QED
  BY <1>2, <1>3, <1>6, <1>7

\* And what two sequences hold, one behind the other.
LEMMA ConcatRange ==
  ASSUME NEW S, NEW s \in Seq(S), NEW t \in Seq(S)
  PROVE  s \o t \in Seq(S) /\ Range(s \o t) = Range(s) \cup Range(t)
<1>1. /\ Len(s) \in Nat /\ DOMAIN s = 1 .. Len(s) /\ Len(t) \in Nat /\ DOMAIN t = 1 .. Len(t)
      /\ s \o t \in Seq(S) /\ Len(s \o t) = Len(s) + Len(t) /\ DOMAIN (s \o t) = 1 .. Len(s) + Len(t)
      /\ \A i \in 1 .. Len(s) + Len(t) :
           (s \o t)[i] = IF i <= Len(s) THEN s[i] ELSE t[i - Len(s)]
  <2>1. s \o t \in Seq(S) /\ Len(s \o t) = Len(s) + Len(t)
        /\ \A i \in 1 .. Len(s) + Len(t) :
             (s \o t)[i] = IF i <= Len(s) THEN s[i] ELSE t[i - Len(s)]
    BY ConcatProperties
  <2>2. Len(s) \in Nat /\ DOMAIN s = 1 .. Len(s) /\ Len(t) \in Nat /\ DOMAIN t = 1 .. Len(t)
        /\ DOMAIN (s \o t) = 1 .. Len(s \o t)
    BY <2>1, LenProperties
  <2> QED
    BY <2>1, <2>2
<1> DEFINE r == s \o t
<1> HIDE DEF r
<1>2. ASSUME NEW x \in Range(r) PROVE x \in Range(s) \cup Range(t)
  <2>1. PICK i \in 1 .. Len(s) + Len(t) : x = r[i]
    BY <1>1, <1>2 DEF Range, r
  <2>2. CASE i <= Len(s)
    <3>1. i \in 1 .. Len(s) /\ r[i] = s[i]
      BY <1>1, <2>2 DEF r
    <3> QED
      BY <1>1, <2>1, <3>1 DEF Range
  <2>3. CASE ~ (i <= Len(s))
    <3>1. i - Len(s) \in 1 .. Len(t) /\ r[i] = t[i - Len(s)]
      BY <1>1, <2>3 DEF r
    <3> QED
      BY <1>1, <2>1, <3>1 DEF Range
  <2> QED
    BY <2>2, <2>3
<1>3. ASSUME NEW x \in Range(s) PROVE x \in Range(r)
  <2>1. PICK i \in 1 .. Len(s) : x = s[i]
    BY <1>1, <1>3 DEF Range
  <2>2. i \in 1 .. Len(s) + Len(t) /\ i <= Len(s)
    BY <1>1
  <2> QED
    BY <1>1, <2>1, <2>2 DEF Range, r
<1>4. ASSUME NEW x \in Range(t) PROVE x \in Range(r)
  <2>1. PICK i \in 1 .. Len(t) : x = t[i]
    BY <1>1, <1>4 DEF Range
  <2>2. Len(s) + i \in 1 .. Len(s) + Len(t) /\ ~ (Len(s) + i <= Len(s)) /\ (Len(s) + i) - Len(s) = i
    BY <1>1
  <2>3. r[Len(s) + i] = t[i]
    BY <1>1, <2>2 DEF r
  <2> QED
    BY <1>1, <2>1, <2>2, <2>3 DEF Range, r
<1> QED
  BY <1>1, <1>2, <1>3, <1>4 DEF r

-----------------------------------------------------------------------------
(* A sequence cut into batches of some size, the last of them shorter. *)

EndOf(i, size, n) == IF i * size <= n THEN i * size ELSE n
CutUp(xs, size) ==
  [i \in 1 .. (Len(xs) + size - 1) \div size |->
     SubSeq(xs, (i - 1) * size + 1, EndOf(i, size, Len(xs)))]

\* The last place of batch i.
LEMMA BatchPlaces ==
  ASSUME NEW n \in Nat, NEW size \in Nat \ {0}, NEW i \in 1 .. (n + size - 1) \div size
  PROVE  (i - 1) * size + 1 \in 1 .. n /\ i * size \in Nat /\ (i - 1) * size \in Nat
         /\ EndOf(i, size, n) \in (i - 1) * size + 1 .. n
<1>1. ((n + size - 1) \div size) * size <= n + size - 1 /\ (n + size - 1) \div size \in Nat
  OBVIOUS
<1>2. (i - 1) * size \in Nat /\ i * size = (i - 1) * size + size /\ i * size \in Nat
  OBVIOUS
<1>3. i * size <= ((n + size - 1) \div size) * size
  BY <1>1
<1>4. (i - 1) * size + 1 <= n
  BY <1>1, <1>2, <1>3
<1> QED
  BY <1>2, <1>4 DEF EndOf

\* Every place is in a batch.
LEMMA BatchOfPlace ==
  ASSUME NEW n \in Nat, NEW size \in Nat \ {0}, NEW k \in 1 .. n
  PROVE  \E i \in 1 .. (n + size - 1) \div size :
           k \in (i - 1) * size + 1 .. EndOf(i, size, n)
<1> DEFINE q == (k - 1) \div size
<1>1. q \in Nat /\ q * size <= k - 1 /\ k - 1 < q * size + size
  OBVIOUS
<1> HIDE DEF q
<1>2. (q + 1) * size = q * size + size /\ q * size \in Nat /\ (q + 1) - 1 = q
  BY <1>1
<1>3. q + 1 <= (n + size - 1) \div size
  <2>1. (q + 1) * size <= n + size - 1
    BY <1>1, <1>2
  <2> DEFINE d == (n + size - 1) \div size
  <2>2. d \in Nat /\ n + size - 1 < d * size + size
    OBVIOUS
  <2> HIDE DEF d
  <2>3. (d + 1) * size = d * size + size
    BY <2>2
  <2>4. (q + 1) * size < (d + 1) * size
    BY <1>1, <1>2, <2>1, <2>2, <2>3
  <2>5. q + 1 < d + 1
    BY <1>1, <2>2, <2>4
  <2> QED
    BY <1>1, <2>2, <2>5 DEF d
<1>4. q + 1 \in 1 .. (n + size - 1) \div size
  BY <1>1, <1>3
<1>5. k \in ((q + 1) - 1) * size + 1 .. EndOf(q + 1, size, n)
  BY <1>1, <1>2 DEF EndOf
<1> QED
  BY <1>4, <1>5

\* The batches together hold what the sequence holds.
LEMMA CutUpHolds ==
  ASSUME NEW S, NEW xs \in Seq(S), NEW size \in Nat \ {0}
  PROVE  /\ CutUp(xs, size) \in Seq(Seq(S))
         /\ \A b \in Range(CutUp(xs, size)) : Range(b) \subseteq Range(xs)
         /\ \A x \in Range(xs) : \E b \in Range(CutUp(xs, size)) : x \in Range(b)
<1> DEFINE n    == Len(xs)
           m    == (n + size - 1) \div size
           a(i) == (i - 1) * size + 1
           z(i) == EndOf(i, size, n)
           B    == CutUp(xs, size)
<1>1. n \in Nat /\ DOMAIN xs = 1 .. n
  BY LenProperties
<1>2. m \in Nat
  BY <1>1
<1>3. DOMAIN B = 1 .. m /\ \A i \in 1 .. m : B[i] = SubSeq(xs, a(i), z(i))
  BY DEF CutUp
<1>4. \A i \in 1 .. m : a(i) \in 1 .. n /\ z(i) \in a(i) .. n
  BY <1>1, BatchPlaces
<1>5. \A k \in 1 .. n : \E i \in 1 .. m : k \in a(i) .. z(i)
  BY <1>1, BatchOfPlace
<1>6. B = [i \in 1 .. m |-> B[i]]
  BY DEF CutUp
<1> HIDE DEF n, m, a, z, B
<1>7. ASSUME NEW i \in 1 .. m
      PROVE  /\ B[i] \in Seq(S) /\ DOMAIN B[i] = 1 .. z(i) - a(i) + 1
             /\ \A j \in 1 .. z(i) - a(i) + 1 : a(i) + j - 1 \in 1 .. n /\ B[i][j] = xs[a(i) + j - 1]
  <2>1. a(i) \in 1 .. n /\ z(i) \in a(i) .. n
    BY <1>4
  <2>2. /\ SubSeq(xs, a(i), z(i)) \in Seq(S)
        /\ Len(SubSeq(xs, a(i), z(i))) = z(i) - a(i) + 1
        /\ \A j \in 1 .. z(i) - a(i) + 1 : SubSeq(xs, a(i), z(i))[j] = xs[a(i) + j - 1]
    <3>1. \A j \in a(i) .. z(i) : xs[j] \in S
      BY <1>1, <2>1, ElementOfSeq DEF n
    <3>2. a(i) <= z(i) + 1 /\ a(i) \in Int /\ z(i) \in Int /\ a(i) <= z(i)
      BY <1>1, <2>1
    <3> QED
      BY <1>1, <2>1, <3>1, <3>2, SubSeqProperties DEF n
  <2>3. \A j \in 1 .. z(i) - a(i) + 1 : a(i) + j - 1 \in 1 .. n
    BY <1>1, <2>1
  <2> QED
    BY <1>3, <2>2, <2>3, LenProperties
<1>8. B \in Seq(Seq(S))
  <2>1. B \in [1 .. m -> Seq(S)]
    BY <1>6, <1>7
  <2> QED
    BY <1>2, <2>1, SeqDef
<1>9. ASSUME NEW i \in 1 .. m PROVE Range(B[i]) \subseteq Range(xs)
  BY <1>1, <1>7 DEF Range
<1>10. ASSUME NEW k \in 1 .. n PROVE \E i \in 1 .. m : xs[k] \in Range(B[i])
  <2>1. PICK i \in 1 .. m : k \in a(i) .. z(i)
    BY <1>5
  <2>2. a(i) \in 1 .. n /\ z(i) \in a(i) .. n
    BY <1>4
  <2>3. k - a(i) + 1 \in 1 .. z(i) - a(i) + 1 /\ a(i) + (k - a(i) + 1) - 1 = k
    BY <1>1, <2>1, <2>2
  <2>4. B[i][k - a(i) + 1] = xs[k]
    BY <1>7, <2>3
  <2> QED
    BY <1>7, <2>3, <2>4 DEF Range
<1>11. \A b \in Range(B) : Range(b) \subseteq Range(xs)
  BY <1>3, <1>9 DEF Range
<1>12. \A x \in Range(xs) : \E b \in Range(B) : x \in Range(b)
  <2>1. SUFFICES ASSUME NEW k \in 1 .. n PROVE \E b \in Range(B) : xs[k] \in Range(b)
    BY <1>1 DEF Range
  <2>2. PICK i \in 1 .. m : xs[k] \in Range(B[i])
    BY <1>10
  <2>3. B[i] \in Range(B)
    BY <1>3 DEF Range
  <2> QED
    BY <2>2, <2>3
<1> QED
  BY <1>8, <1>11, <1>12 DEF B

-----------------------------------------------------------------------------
(* Lists, whatever they are of: that one is a list, and its elements. *)

\* xs is a list.
IsList(xs) == xs \in Seq(Range(xs))

\* The elements of a list are those at its places.
LEMMA ListIs ==
  ASSUME NEW xs, IsList(xs)
  PROVE  /\ Len(xs) \in Nat /\ DOMAIN xs = 1 .. Len(xs)
         /\ \A x : x \in Range(xs) <=> \E i \in DOMAIN xs : x = xs[i]
<1>1. Len(xs) \in Nat /\ DOMAIN xs = 1 .. Len(xs)
  BY LenProperties DEF IsList
<1> QED
  BY <1>1 DEF Range

\* A sequence is a list.
LEMMA SeqIsList == ASSUME NEW S, NEW xs \in Seq(S) PROVE IsList(xs) /\ \A x \in Range(xs) : x \in S
<1>1. IsList(xs)
  BY SeqOfOwn DEF IsList
<1>2. \A i \in DOMAIN xs : xs[i] \in S
  BY ElementOfSeq, LenProperties
<1> QED
  BY <1>1, <1>2 DEF Range

\* What one gets for each place of a list is a list.
LEMMA EachIs ==
  ASSUME NEW xs, IsList(xs), NEW f, DOMAIN f = DOMAIN xs, f = [i \in DOMAIN xs |-> f[i]]
  PROVE  IsList(f) /\ \A x : x \in Range(f) <=> \E i \in DOMAIN xs : x = f[i]
<1>1. f \in [DOMAIN xs -> Range(f)]
  BY DEF Range
<1>2. f \in Seq(Range(f))
  BY <1>1, EachOf DEF IsList
<1> QED
  BY <1>2 DEF IsList, Range

\* And so are the lists one gets, one behind the other.
LEMMA AllIs ==
  ASSUME NEW xs, IsList(xs), NEW f, DOMAIN f = DOMAIN xs, f = [i \in DOMAIN xs |-> f[i]],
         \A i \in DOMAIN xs : IsList(f[i])
  PROVE  /\ IsList(FlattenSeq(f))
         /\ \A x : x \in Range(FlattenSeq(f)) <=> \E i \in DOMAIN xs : x \in Range(f[i])
<1> DEFINE T == UNION {Range(f[i]) : i \in DOMAIN xs}
<1> HIDE DEF Range
<1>1. ASSUME NEW i \in DOMAIN xs PROVE f[i] \in Seq(T)
  <2>1. Range(f[i]) \subseteq T
    OBVIOUS
  <2> HIDE DEF T
  <2> QED
    BY <2>1, SeqOfMore DEF IsList
<1> HIDE DEF T
<1>2. f \in [DOMAIN xs -> Seq(T)]
  BY <1>1
<1>3. /\ FlattenSeq(f) \in Seq(T)
      /\ \A x : x \in Range(FlattenSeq(f)) <=> \E i \in DOMAIN xs : x \in Range(f[i])
  BY <1>2, FlattenOf DEF IsList
<1> QED
  BY <1>3, SeqOfOwn DEF IsList

\* Lists that are written out.
LEMMA NoneIs == IsList(<<>>) /\ \A x : x \notin Range(<<>>)
BY EmptySeq DEF IsList, Range

LEMMA OneIs == ASSUME NEW x PROVE IsList(<<x>>) /\ \A y : y \in Range(<<x>>) <=> y = x
<1>1. <<x>> \in Seq({x}) 
  OBVIOUS
<1>2. Range(<<x>>) = {x}
  BY DEF Range
<1> QED
  BY <1>1, <1>2 DEF IsList

\* One list behind another, and one element behind a list.
LEMMA BothIs ==
  ASSUME NEW xs, IsList(xs), NEW ys, IsList(ys)
  PROVE  IsList(xs \o ys) /\ \A x : x \in Range(xs \o ys) <=> x \in Range(xs) \/ x \in Range(ys)
<1> HIDE DEF Range
<1> DEFINE T == Range(xs) \cup Range(ys)
<1>1. xs \in Seq(T) /\ ys \in Seq(T)
  <2>1. Range(xs) \subseteq T /\ Range(ys) \subseteq T
    OBVIOUS
  <2> HIDE DEF T
  <2> QED
    BY <2>1, SeqOfMore DEF IsList
<1>2. xs \o ys \in Seq(T) /\ Range(xs \o ys) = T
  <2> HIDE DEF T
  <2>1. xs \o ys \in Seq(T) /\ Range(xs \o ys) = Range(xs) \cup Range(ys)
    BY <1>1, ConcatRange
  <2> QED
    BY <2>1 DEF T
<1> QED
  BY <1>2, SeqOfOwn DEF IsList

LEMMA AppendIs ==
  ASSUME NEW xs, IsList(xs), NEW x
  PROVE  /\ IsList(Append(xs, x)) /\ \A y : y \in Range(Append(xs, x)) <=> y \in Range(xs) \/ y = x
<1> DEFINE T == Range(xs) \cup {x}
           n == Len(xs)
<1>1. xs \in Seq(T)
  <2>1. Range(xs) \subseteq T
    OBVIOUS
  <2> HIDE DEF T, Range
  <2> QED
    BY <2>1, SeqOfMore DEF IsList
<1>2. n \in Nat /\ DOMAIN xs = 1 .. n
  BY ListIs
<1>3. x \in T
  OBVIOUS
<1>4. /\ Append(xs, x) \in Seq(T) /\ Len(Append(xs, x)) = n + 1
      /\ \A i \in 1 .. n : Append(xs, x)[i] = xs[i]
      /\ Append(xs, x)[n + 1] = x
  <2> HIDE DEF T
  <2> QED
    BY <1>1, <1>3, AppendProperties
<1>5. DOMAIN Append(xs, x) = 1 .. n + 1
  <2> HIDE DEF T
  <2> QED
    BY <1>4, LenProperties
<1>6. IsList(Append(xs, x))
  <2> HIDE DEF T, Range
  <2> QED
    BY <1>4, SeqOfOwn DEF IsList
<1> DEFINE ys == Append(xs, x)
<1> HIDE DEF n, ys
<1>7. \A y : y \in Range(ys) <=> \E i \in 1 .. n + 1 : y = ys[i]
  BY <1>5 DEF Range, ys
<1>8. \A y : y \in Range(xs) <=> \E i \in 1 .. n : y = xs[i]
  BY <1>2 DEF Range
<1>9. \A i : i \in 1 .. n + 1 <=> i \in 1 .. n \/ i = n + 1
  BY <1>2
<1> QED
  BY <1>4, <1>6, <1>7, <1>8, <1>9 DEF ys

\* The last of a list replaced.
LEMMA ReplaceIs ==
  ASSUME NEW xs, IsList(xs), NEW n \in DOMAIN xs, NEW x, NEW ys, ys = [xs EXCEPT ![n] = x]
  PROVE  /\ IsList(ys) /\ x \in Range(ys)
         /\ \A y \in Range(xs) : y = xs[n] \/ y \in Range(ys)
         /\ \A y \in Range(ys) : y = x \/ y \in Range(xs)
<1>1. \A y : y \in Range(xs) <=> \E i \in DOMAIN xs : y = xs[i]
  BY ListIs
<1>2. xs = [i \in DOMAIN xs |-> xs[i]]
  BY LenProperties DEF IsList
<1>3. DOMAIN ys = DOMAIN xs /\ ys = [i \in DOMAIN xs |-> ys[i]] /\ ys[n] = x
      /\ \A i \in DOMAIN xs : i # n => ys[i] = xs[i]
  BY <1>2
<1> HIDE DEF Range
<1>4. IsList(ys) /\ \A y : y \in Range(ys) <=> \E i \in DOMAIN xs : y = ys[i]
  BY <1>3, EachIs
<1> QED
  BY <1>1, <1>3, <1>4

LEMMA TwoIs ==
  ASSUME NEW x, NEW y
  PROVE  IsList(<<x, y>>) /\ x \in Range(<<x, y>>) /\ y \in Range(<<x, y>>)
<1> DEFINE s == <<x, y>>
<1>1. DOMAIN s = 1 .. 2 /\ s[1] = x /\ s[2] = y
  OBVIOUS
<1>2. s \in Seq({x, y})
  OBVIOUS
<1> HIDE DEF s
<1>3. IsList(s)
  <2> HIDE DEF Range
  <2> QED
    BY <1>2, SeqOfOwn DEF IsList
<1>4. 1 \in DOMAIN s /\ 2 \in DOMAIN s
  BY <1>1
<1> QED
  BY <1>1, <1>3, <1>4 DEF Range, s

LEMMA ThreeIs ==
  ASSUME NEW x, NEW y, NEW z
  PROVE  /\ IsList(<<x, y, z>>)
         /\ x \in Range(<<x, y, z>>) /\ y \in Range(<<x, y, z>>) /\ z \in Range(<<x, y, z>>)
<1> DEFINE s == <<x, y, z>>
<1>1. DOMAIN s = 1 .. 3 /\ s[1] = x /\ s[2] = y /\ s[3] = z
  OBVIOUS
<1>2. s \in Seq({x, y, z})
  OBVIOUS
<1> HIDE DEF s
<1>3. IsList(s)
  <2> HIDE DEF Range
  <2> QED
    BY <1>2, SeqOfOwn DEF IsList
<1>4. 1 \in DOMAIN s /\ 2 \in DOMAIN s /\ 3 \in DOMAIN s
  BY <1>1
<1> QED
  BY <1>1, <1>3, <1>4 DEF Range, s

-----------------------------------------------------------------------------
(* Lists that begin with another list. *)

\* t begins with what is in s.
Begins(s, t) == DOMAIN s \subseteq DOMAIN t /\ \A k \in DOMAIN s : t[k] = s[k]

\* A list of lists.
LEMMA ListsAre ==
  ASSUME NEW f, IsList(f), \A i \in DOMAIN f : IsList(f[i])
  PROVE  \E S : f \in Seq(Seq(S))
<1> DEFINE S == UNION {Range(f[i]) : i \in DOMAIN f}
<1>1. DOMAIN f = 1 .. Len(f) /\ Len(f) \in Nat /\ f = [i \in DOMAIN f |-> f[i]]
  <2>1. f \in Seq(Range(f))
    BY DEF IsList
  <2>2. f = [i \in 1 .. Len(f) |-> f[i]]
    BY <2>1, LenProperties
  <2> QED
    BY <2>2, ListIs
<1> HIDE DEF Range
<1>2. ASSUME NEW i \in DOMAIN f PROVE f[i] \in Seq(S)
  <2>1. Range(f[i]) \subseteq S
    OBVIOUS
  <2> HIDE DEF S
  <2> QED
    BY <2>1, SeqOfMore DEF IsList
<1> HIDE DEF S
<1>3. f \in [1 .. Len(f) -> Seq(S)]
  BY <1>1, <1>2
<1>4. \A A : \A n \in Nat : \A h \in [1 .. n -> A] : h \in Seq(A)
  BY SeqDef
<1>5. f \in Seq(Seq(S))
  BY <1>1, <1>3, <1>4
<1> QED
  BY <1>5

\* The first m of a list.
LEMMA FirstOnes ==
  ASSUME NEW s, IsList(s), NEW m \in 0 .. Len(s)
  PROVE  /\ IsList(SubSeq(s, 1, m)) /\ DOMAIN SubSeq(s, 1, m) = 1 .. m
         /\ \A i \in 1 .. m : SubSeq(s, 1, m)[i] = s[i] /\ i \in DOMAIN s
<1>1. s \in Seq(Range(s)) /\ Len(s) \in Nat /\ DOMAIN s = 1 .. Len(s)
  BY ListIs DEF IsList
<1> HIDE DEF Range
<1>2. ASSUME NEW i \in 1 .. m PROVE s[i] \in Range(s)
  BY <1>1, ListIs
<1> DEFINE q == SubSeq(s, 1, m)
<1>3. q \in Seq(Range(s)) /\ Len(q) = m /\ \A i \in 1 .. m : q[i] = s[i]
  <2>1. /\ SubSeq(s, 1, m) \in Seq(Range(s))
        /\ Len(SubSeq(s, 1, m)) = IF 1 <= m THEN m - 1 + 1 ELSE 0
        /\ \A i \in 1 .. m - 1 + 1 : SubSeq(s, 1, m)[i] = s[1 + i - 1]
    BY <1>1, <1>2, SubSeqProperties
  <2> QED
    BY <2>1
<1> HIDE DEF q
<1>4. IsList(q)
  BY <1>3, SeqIsList
<1>5. DOMAIN q = 1 .. m
  BY <1>3, <1>4, ListIs
<1> QED
  BY <1>1, <1>3, <1>4, <1>5 DEF q

\* Lists laid end to end begin with the first of them.
LEMMA FlattenBegins ==
  ASSUME NEW f, NEW g, IsList(f), IsList(g), Begins(f, g), \A i \in DOMAIN g : IsList(g[i])
  PROVE  Begins(FlattenSeq(f), FlattenSeq(g))
<1>1. \A i \in DOMAIN f : f[i] = g[i] /\ i \in DOMAIN g /\ IsList(f[i])
  BY DEF Begins
<1>2. /\ \E S : f \in Seq(Seq(S))
      /\ \E S : g \in Seq(Seq(S))
  BY <1>1, ListsAre
<1>3. PICK a : Starts(a, f)
  BY <1>2, FlattenStarts
<1>4. PICK b : Starts(b, g)
  BY <1>2, FlattenStarts
<1>5. /\ DOMAIN f = 1 .. Len(f) /\ Len(f) \in Nat /\ DOMAIN g = 1 .. Len(g) /\ Len(g) \in Nat
      /\ DOMAIN FlattenSeq(f) = 1 .. Len(FlattenSeq(f))
      /\ DOMAIN FlattenSeq(g) = 1 .. Len(FlattenSeq(g))
  BY <1>2, ListIs, FlattenStarts, LenProperties
<1> DEFINE T == {m \in Nat : m <= Len(f) => a[m + 1] = b[m + 1]}
<1>6. 0 \in T
  BY <1>3, <1>4 DEF Starts
<1>7. ASSUME NEW m \in Nat, m \in T PROVE m + 1 \in T
  <2>1. SUFFICES ASSUME m + 1 <= Len(f) PROVE a[(m + 1) + 1] = b[(m + 1) + 1]
    BY <1>5
  <2>2. m + 1 \in 1 .. Len(f) /\ m + 1 \in 1 .. Len(g) /\ a[m + 1] = b[m + 1] /\ f[m + 1] = g[m + 1]
    BY <1>1, <1>5, <1>7, <2>1
  <2> HIDE DEF T
  <2>3. /\ a[(m + 1) + 1] = a[m + 1] + Len(f[m + 1])
        /\ b[(m + 1) + 1] = b[m + 1] + Len(g[m + 1])
    BY <1>3, <1>4, <2>2 DEF Starts
  <2> QED
    BY <2>2, <2>3
<1>8. Nat \subseteq T
  <2> HIDE DEF T
  <2> QED
    BY <1>6, <1>7, InductionOnNat
<1>9. ASSUME NEW i \in 1 .. Len(f) PROVE a[i] = b[i]
  <2>1. i - 1 \in Nat /\ i - 1 <= Len(f) /\ (i - 1) + 1 = i
    BY <1>5
  <2>2. i - 1 \in T
    BY <1>8, <2>1
  <2> QED
    BY <2>1, <2>2
<1> HIDE DEF T
<1>10. ASSUME NEW k \in 1 .. Len(FlattenSeq(f))
       PROVE  k \in 1 .. Len(FlattenSeq(g)) /\ FlattenSeq(g)[k] = FlattenSeq(f)[k]
  <2>1. PICK i \in 1 .. Len(f) : \E j \in 1 .. Len(f[i]) : k = a[i] + j
    BY <1>3 DEF Starts
  <2>2. PICK j \in 1 .. Len(f[i]) : k = a[i] + j
    BY <2>1
  <2>3. i \in 1 .. Len(g) /\ f[i] = g[i] /\ a[i] = b[i]
    BY <1>1, <1>5, <1>9
  <2>4. FlattenSeq(f)[a[i] + j] = f[i][j]
    BY <1>3 DEF Starts
  <2>5. b[i] + j \in 1 .. Len(FlattenSeq(g)) /\ FlattenSeq(g)[b[i] + j] = g[i][j]
    BY <1>4, <2>3 DEF Starts
  <2> QED
    BY <2>2, <2>3, <2>4, <2>5
<1> QED
  BY <1>5, <1>10 DEF Begins
=============================================================================
