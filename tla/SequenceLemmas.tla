--------------------------- MODULE SequenceLemmas ---------------------------
(***************************************************************************)
(* What the proofs about several components need of naturals and           *)
(* sequences: the least element of a set, induction over sets of naturals, *)
(* and FlattenSeq, which joins the payloads of transfers.                  *)
(***************************************************************************)
EXTENDS Integers, Sequences, FiniteSets, SequencesExt, SequenceTheorems,
        FiniteSetTheorems, WellFoundedInduction, TLAPS

\* A nonempty set of naturals has a least element: its initial segments are
\* finite, so one of them has no smaller one in it.
LEMMA LeastNatural ==
    ASSUME NEW S \in SUBSET Nat, S # {}
    PROVE  \E n \in S : \A m \in S : n <= m
<1> DEFINE T == {S \cap 0..n : n \in S}
<1>1. T # {}
  OBVIOUS
<1>2. T \subseteq FiniteSubsetsOf(Nat)
  <2> SUFFICES ASSUME NEW n \in S PROVE S \cap 0..n \in FiniteSubsetsOf(Nat)
    OBVIOUS
  <2>1. IsFiniteSet(S \cap 0..n)
    BY FS_BoundedSetOfNaturals, S \cap 0..n \in SUBSET Nat, n \in Nat
  <2> QED BY <2>1 DEF FiniteSubsetsOf
<1>3. PICK X \in T : \A Y \in T : <<Y, X>> \notin StrictSubsetOrdering(Nat)
  <2> HIDE DEF T
  <2> QED BY <1>1, <1>2, FS_StrictSubsetOrderingWellFounded, WFMin
<1>4. PICK n \in S : X = S \cap 0..n
  BY <1>3
<1>5. ASSUME NEW m \in S, m < n PROVE FALSE
  <2>1. S \cap 0..m \in T
    OBVIOUS
  <2>2. S \cap 0..m \subseteq X /\ S \cap 0..m # X
    BY <1>4, <1>5
  <2> QED BY <1>3, <1>4, <2>1, <2>2 DEF StrictSubsetOrdering
<1> QED BY <1>5

LEMMA MinOfNaturals ==
    ASSUME NEW S \in SUBSET Nat, S # {}
    PROVE  Min(S) \in S
BY LeastNatural DEF Min

\* A set of naturals with zero and all successors is all of them.
LEMMA SetOfNaturals ==
    ASSUME NEW S \in SUBSET Nat, 0 \in S, \A n \in S : n + 1 \in S
    PROVE  S = Nat
<1> SUFFICES ASSUME Nat \ S # {} PROVE FALSE
  OBVIOUS
<1>1. PICK n \in Nat \ S : \A m \in Nat \ S : n <= m
  BY LeastNatural, Nat \ S \in SUBSET Nat
<1>2. n - 1 \in Nat /\ n - 1 \in S
  BY <1>1
<1> QED BY <1>1, <1>2

\* A set of indices has a largest one.
LEMMA LargestIndex ==
    ASSUME NEW n \in Nat, NEW S \in SUBSET (1..n), S # {}
    PROVE  \E i \in S : \A j \in S : j <= i
<1> DEFINE T == {n - i : i \in S}
<1>1. T \in SUBSET Nat /\ T # {}
  <2>1. ASSUME NEW i \in S PROVE n - i \in Nat
    OBVIOUS
  <2> QED BY <2>1
<1>2. PICK m \in T : \A k \in T : m <= k
  <2> HIDE DEF T
  <2> QED BY <1>1, LeastNatural
<1>3. PICK i \in S : m = n - i
  BY <1>2
<1>4. ASSUME NEW j \in S PROVE j <= i
  <2>1. m <= n - j
    BY <1>2
  <2> QED BY <1>3, <2>1
<1> QED BY <1>4

\* "front" is "s" without its last element.
IsFrontOf(front, s, A) ==
    /\ Len(s) \in Nat \ {0} /\ s[Len(s)] \in A
    /\ Len(front) = Len(s) - 1
    /\ s = Append(front, s[Len(s)])
    /\ \A z \in A : [s EXCEPT ![Len(s)] = z] = Append(front, z)

LEMMA FrontAndLast ==
    ASSUME NEW A, NEW s \in Seq(A), s # <<>>
    PROVE  \E front \in Seq(A) : IsFrontOf(front, s, A)
<1>1. Len(s) \in Nat \ {0} /\ s[Len(s)] \in A
  OBVIOUS
<1> DEFINE front == [i \in 1..Len(s) - 1 |-> s[i]]
<1>2. front \in Seq(A) /\ Len(front) = Len(s) - 1
  BY <1>1
<1>3. s = Append(front, s[Len(s)])
  BY <1>1, <1>2
<1>4. ASSUME NEW z \in A PROVE [s EXCEPT ![Len(s)] = z] = Append(front, z)
  BY <1>1, <1>2
<1> HIDE DEF front
<1> QED BY <1>1, <1>2, <1>3, <1>4 DEF IsFrontOf

-----------------------------------------------------------------------------
\* The equation of the recursive function that FlattenSeq is.
FlattenStep(s, f, i) == IF i = 1 THEN s[i] ELSE f[i - 1] \o s[i]
Flattens(s, f, n) == \A i \in 1..n : f[i] = FlattenStep(s, f, i)

\* Equal up to n.
Agree(s, t, n) == \A i \in 1..n : s[i] = t[i]

\* The function exists, and its values are sequences.
LEMMA FlattenExists ==
    ASSUME NEW A, NEW s \in Seq(Seq(A))
    PROVE  \E f \in [1..Len(s) -> Seq(A)] : Flattens(s, f, Len(s))
<1> DEFINE S == {n \in Nat : n <= Len(s) =>
                    \E f \in [1..n -> Seq(A)] : Flattens(s, f, n)}
<1>1. 0 \in S
  <2>1. [i \in 1..0 |-> <<>>] \in [1..0 -> Seq(A)] /\ Flattens(s, [i \in 1..0 |-> <<>>], 0)
    BY DEF Flattens
  <2> QED BY <2>1
<1>2. ASSUME NEW n \in S PROVE n + 1 \in S
  <2> SUFFICES ASSUME n + 1 <= Len(s)
               PROVE  \E g \in [1..n+1 -> Seq(A)] : Flattens(s, g, n+1)
    OBVIOUS
  <2>1. PICK f \in [1..n -> Seq(A)] : Flattens(s, f, n)
    OBVIOUS
  <2> DEFINE g == [i \in 1..n+1 |-> IF i <= n THEN f[i] ELSE FlattenStep(s, f, i)]
  <2>2. n \in Nat /\ Len(s) \in Nat /\ s[n+1] \in Seq(A)
    OBVIOUS
  <2>3. FlattenStep(s, f, n + 1) \in Seq(A)
    BY <2>2 DEF FlattenStep
  <2>4. g \in [1..n+1 -> Seq(A)]
    BY <2>2, <2>3
  <2>5. ASSUME NEW i \in 1..n+1 PROVE g[i] = FlattenStep(s, g, i)
    <3>1. i # 1 => i - 1 \in 1..n+1 /\ g[i - 1] = f[i - 1]
      BY <2>2
    <3>2. FlattenStep(s, g, i) = FlattenStep(s, f, i)
      BY <3>1 DEF FlattenStep
    <3>3. CASE i <= n
      BY <2>1, <2>2, <3>2, <3>3 DEF Flattens
    <3>4. CASE i = n + 1
      BY <2>2, <3>2, <3>4
    <3> QED BY <2>2, <3>3, <3>4
  <2> HIDE DEF g
  <2> QED BY <2>4, <2>5 DEF Flattens
<1>3. S = Nat
  <2> HIDE DEF S
  <2>1. S \in SUBSET Nat
    BY DEF S
  <2> QED BY <1>1, <1>2, <2>1, SetOfNaturals
<1> QED BY <1>3

\* Two such functions, of sequences that agree at the beginning, agree there.
LEMMA FlattenUnique ==
    ASSUME NEW n \in Nat, NEW s, NEW t, NEW f, NEW g,
           Agree(s, t, n), Flattens(s, f, n), Flattens(t, g, n)
    PROVE  Agree(f, g, n)
<1> DEFINE S == {i \in Nat : i \in 1..n => f[i] = g[i]}
<1>1. 0 \in S
  OBVIOUS
<1>2. ASSUME NEW i \in S PROVE i + 1 \in S
  BY DEF Agree, Flattens, FlattenStep
<1>3. S = Nat
  <2> HIDE DEF S
  <2>1. S \in SUBSET Nat
    BY DEF S
  <2> QED BY <1>1, <1>2, <2>1, SetOfNaturals
<1> QED BY <1>3 DEF Agree

\* FlattenSeq is the last value of that function.
LEMMA FlattenValue ==
    ASSUME NEW A, NEW s \in Seq(Seq(A)), s # <<>>
    PROVE  \E f \in [1..Len(s) -> Seq(A)] :
              /\ Flattens(s, f, Len(s))
              /\ FlattenSeq(s) = f[Len(s)]
<1> DEFINE P(f) == f = [i \in 1..Len(s) |-> IF i = 1 THEN s[i] ELSE f[i-1] \o s[i]]
           c == CHOOSE f : P(f)
<1>1. Len(s) # 0
  OBVIOUS
<1>2. FlattenSeq(s) = c[Len(s)]
  BY <1>1 DEF FlattenSeq
<1>3. PICK f \in [1..Len(s) -> Seq(A)] : Flattens(s, f, Len(s))
  BY FlattenExists
<1>4. P(f)
  BY <1>3 DEF Flattens, FlattenStep
<1>5. P(c)
  <2> HIDE DEF P
  <2> QED BY <1>4
<1> HIDE DEF c
<1>6. Flattens(s, c, Len(s))
  BY <1>5 DEF Flattens, FlattenStep
<1>7. Len(s) \in Nat /\ Len(s) \in 1..Len(s)
  BY <1>1
<1>8. Agree(c, f, Len(s))
  BY <1>3, <1>6, <1>7, FlattenUnique DEF Agree
<1> QED BY <1>2, <1>3, <1>7, <1>8 DEF Agree

LEMMA FlattenTyped ==
    ASSUME NEW A, NEW s \in Seq(Seq(A))
    PROVE  FlattenSeq(s) \in Seq(A)
<1>1. CASE s = <<>>
  BY <1>1 DEF FlattenSeq
<1>2. CASE s # <<>>
  <2>1. Len(s) \in 1..Len(s)
    BY <1>2
  <2> QED BY SMTT(40), <1>2, <2>1, FlattenValue
<1> QED BY <1>1, <1>2

\* One more payload is joined at the end.
LEMMA FlattenAppend ==
    ASSUME NEW A, NEW s \in Seq(Seq(A)), NEW x \in Seq(A)
    PROVE  FlattenSeq(Append(s, x)) = FlattenSeq(s) \o x
<1> DEFINE t == Append(s, x)
<1>1. /\ t \in Seq(Seq(A)) /\ Len(t) = Len(s) + 1 /\ t # <<>>
      /\ t[Len(t)] = x /\ \A i \in 1..Len(s) : t[i] = s[i]
      /\ Len(s) \in Nat
  <2> DEFINE B == Seq(A)
  <2>1. s \in Seq(B) /\ x \in B
    OBVIOUS
  <2> HIDE DEF B
  <2>2. /\ t \in Seq(B) /\ Len(t) = Len(s) + 1 /\ t # <<>>
        /\ t[Len(t)] = x /\ \A i \in 1..Len(s) : t[i] = s[i]
        /\ Len(s) \in Nat
    BY <2>1
  <2> QED BY <2>2 DEF B
<1>1a. FlattenSeq(Append(s, x)) = FlattenSeq(t)
  OBVIOUS
<1> HIDE DEF t
<1>2. PICK g \in [1..Len(t) -> Seq(A)] :
              /\ Flattens(t, g, Len(t))
              /\ FlattenSeq(t) = g[Len(t)]
  BY <1>1, FlattenValue
<1>3. FlattenSeq(t) = FlattenStep(t, g, Len(t))
  BY <1>1, <1>2 DEF Flattens
<1>4. CASE s = <<>>
  <2>1. FlattenSeq(t) = x
    BY <1>1, <1>3, <1>4 DEF FlattenStep
  <2> QED BY <1>1a, <1>4, <2>1 DEF FlattenSeq
<1>5. CASE s # <<>>
  <2>1. PICK f \in [1..Len(s) -> Seq(A)] :
              /\ Flattens(s, f, Len(s))
              /\ FlattenSeq(s) = f[Len(s)]
    BY <1>5, FlattenValue
  <2>2. Len(s) \in Nat /\ Len(s) # 0
    BY <1>5
  <2>2a. Flattens(s, f, Len(s))
    BY <2>1
  <2>2b. FlattenSeq(s) = f[Len(s)]
    BY <2>1
  <2>3. Flattens(t, g, Len(s))
    BY <1>1, <1>2, <2>2 DEF Flattens
  <2>3a. Agree(t, s, Len(s))
    BY <1>1 DEF Agree
  <2>4. g[Len(s)] = f[Len(s)]
    <3>1. Agree(g, f, Len(s))
      BY <2>2, <2>2a, <2>3, <2>3a, FlattenUnique
    <3> QED BY <2>2, <3>1 DEF Agree
  <2>5. FlattenSeq(t) = g[Len(s)] \o x
    BY <1>1, <1>3, <2>2 DEF FlattenStep
  <2> QED BY <1>1a, <2>2b, <2>4, <2>5, Zenon
<1> QED BY <1>4, <1>5

\* A last payload may also be longer.
LEMMA FlattenLonger ==
    ASSUME NEW A, NEW s \in Seq(Seq(A)), NEW x \in Seq(A), NEW y \in Seq(A)
    PROVE  FlattenSeq(Append(s, x \o y)) = FlattenSeq(Append(s, x)) \o y
<1>1. FlattenSeq(Append(s, x \o y)) = FlattenSeq(s) \o (x \o y)
  <2>1. x \o y \in Seq(A)
    OBVIOUS
  <2> QED BY <2>1, FlattenAppend
<1>2. FlattenSeq(Append(s, x)) = FlattenSeq(s) \o x
  BY FlattenAppend
<1>3. FlattenSeq(s) \in Seq(A)
  BY FlattenTyped
<1> HIDE DEF FlattenSeq
<1> QED BY <1>1, <1>2, <1>3
\* Payload n of "s" with "x" added, and that nothing is in the payloads after it.
AddedAt(s, n, x) == [s EXCEPT ![n] = s[n] \o x]
EmptyAfter(s, n) == \A i \in n + 1..Len(s) : s[i] = <<>>

\* What is added to a payload with nothing but empty ones after it is joined
\* at the end.
LEMMA FlattenWithin ==
    ASSUME NEW A, NEW s \in Seq(Seq(A)), NEW n \in 1..Len(s), NEW x \in Seq(A),
           EmptyAfter(s, n)
    PROVE  FlattenSeq(AddedAt(s, n, x)) = FlattenSeq(s) \o x
<1> DEFINE y == s[n] \o x
           t == AddedAt(s, n, x)
<1>1. /\ Len(s) \in Nat /\ n \in Nat /\ n >= 1 /\ n <= Len(s)
      /\ s[n] \in Seq(A) /\ y \in Seq(A)
  OBVIOUS
<1>2. t = [s EXCEPT ![n] = y] /\ \A i \in n + 1..Len(s) : s[i] = <<>>
  BY DEF AddedAt, EmptyAfter
<1> HIDE DEF t
<1>3. /\ t \in Seq(Seq(A)) /\ Len(t) = Len(s) /\ t[n] = y
      /\ \A i \in 1..Len(s) : i # n => t[i] = s[i]
  <2> DEFINE B == Seq(A)
  <2>1. s \in Seq(B) /\ y \in B
    BY <1>1
  <2> HIDE DEF B, y
  <2> QED BY <1>1, <1>2, <2>1 DEF B
<1>4. s # <<>> /\ t # <<>>
  BY <1>1, <1>3
<1>5. PICK f \in [1..Len(s) -> Seq(A)] :
              Flattens(s, f, Len(s)) /\ FlattenSeq(s) = f[Len(s)]
  BY <1>4, FlattenValue
<1>6. PICK g \in [1..Len(s) -> Seq(A)] :
              Flattens(t, g, Len(s)) /\ FlattenSeq(t) = g[Len(s)]
  <2>1. \E g \in [1..Len(t) -> Seq(A)] : Flattens(t, g, Len(t)) /\ FlattenSeq(t) = g[Len(t)]
    BY <1>3, <1>4, FlattenValue
  <2> QED BY <1>3, <2>1, Zenon
<1> DEFINE S == {i \in Nat : n <= i /\ i <= Len(s) => g[i] = f[i] \o x}
<1>7. g[n] = f[n] \o x
  <2>1. CASE n = 1
    BY <1>1, <1>3, <1>5, <1>6, <2>1 DEF Flattens, FlattenStep
  <2>2. CASE n # 1
    <3> DEFINE m == n - 1
    <3>1. m \in Nat /\ m \in 1..m /\ m \in 1..Len(s) /\ n \in 1..Len(s)
      BY <1>1, <2>2
    <3>2. Flattens(s, f, m) /\ Flattens(t, g, m)
      <4>1. \A i \in 1..m : i \in 1..Len(s)
        BY <1>1
      <4> HIDE DEF m
      <4> QED BY <1>5, <1>6, <4>1 DEF Flattens
    <3>2a. Agree(s, t, m)
      BY <1>1, <1>3 DEF Agree
    <3>3. f[n] = f[m] \o s[n] /\ g[n] = g[m] \o y
      BY <1>3, <1>5, <1>6, <2>2, <3>1 DEF Flattens, FlattenStep
    <3> HIDE DEF m
    <3>4. f[m] = g[m]
      <4>1. Agree(f, g, m)
        BY <3>1, <3>2, <3>2a, FlattenUnique
      <4> QED BY <3>1, <4>1 DEF Agree
    <3>5. f[m] \in Seq(A)
      BY <3>1
    <3>6. f[m] \o y = (f[m] \o s[n]) \o x
      <4> DEFINE a == f[m]
                 b == s[n]
      <4>1. a \in Seq(A) /\ b \in Seq(A)
        BY <1>1, <3>5
      <4> HIDE DEF a, b
      <4>2. a \o (b \o x) = (a \o b) \o x
        BY SMTT(40), <4>1
      <4> QED BY <4>2 DEF a, b
    <3> QED BY <3>3, <3>4, <3>6
  <2> QED BY <2>1, <2>2
<1>8. ASSUME NEW i \in S PROVE i + 1 \in S
  <2> SUFFICES ASSUME n <= i + 1, i + 1 <= Len(s) PROVE g[i + 1] = f[i + 1] \o x
    OBVIOUS
  <2>1. CASE i + 1 = n
    BY <1>7, <2>1
  <2>2. CASE i + 1 # n
    <3>1. /\ i \in 1..Len(s) /\ i + 1 \in 1..Len(s) /\ i + 1 \in n + 1..Len(s)
          /\ g[i] = f[i] \o x
      BY <1>1, <2>2
    <3>2. f[i + 1] = f[i] \o s[i + 1] /\ g[i + 1] = g[i] \o t[i + 1]
      <4>1. i + 1 # 1 /\ (i + 1) - 1 = i
        BY <3>1
      <4>2. /\ f[i + 1] = FlattenStep(s, f, i + 1)
            /\ g[i + 1] = FlattenStep(t, g, i + 1)
        BY <1>5, <1>6, <3>1 DEF Flattens
      <4> QED BY <4>1, <4>2 DEF FlattenStep
    <3>3. s[i + 1] = <<>> /\ t[i + 1] = <<>>
      BY <1>1, <1>2, <1>3, <2>2, <3>1
    <3>4. f[i] \in Seq(A) /\ g[i] \in Seq(A)
      BY <3>1
    <3>5. f[i] \o <<>> = f[i] /\ g[i] \o <<>> = g[i]
      BY <3>4
    <3> QED BY <3>1, <3>2, <3>3, <3>5
  <2> QED BY <2>1, <2>2
<1>9. 0 \in S
  BY <1>1
<1>10. S = Nat
  <2> HIDE DEF S
  <2>1. S \in SUBSET Nat
    BY DEF S
  <2> QED BY <1>8, <1>9, <2>1, SetOfNaturals
<1>11. g[Len(s)] = f[Len(s)] \o x
  <2>1. Len(s) \in S
    BY <1>1, <1>10, Zenon
  <2> QED BY <1>1, <2>1
<1> QED BY <1>5, <1>6, <1>11, Zenon DEF t

\* What is put before a sequence of sequences comes out before it.
LEMMA FlattenBefore ==
    ASSUME NEW A, NEW x \in Seq(A), NEW s \in Seq(Seq(A))
    PROVE  FlattenSeq(<<x>> \o s) = x \o FlattenSeq(s)
<1> DEFINE S == {n \in Nat : \A t \in Seq(Seq(A)) :
                    Len(t) = n => FlattenSeq(<<x>> \o t) = x \o FlattenSeq(t)}
<1>1. 0 \in S
  <2> SUFFICES ASSUME NEW t \in Seq(Seq(A)), Len(t) = 0
               PROVE  FlattenSeq(<<x>> \o t) = x \o FlattenSeq(t)
    OBVIOUS
  <2>1. t = <<>> /\ <<x>> \o t = Append(<<>>, x)
    OBVIOUS
  <2>2. FlattenSeq(Append(<<>>, x)) = FlattenSeq(<<>>) \o x
    BY FlattenAppend, <<>> \in Seq(Seq(A))
  <2>3. FlattenSeq(<<>>) = <<>>
    BY DEF FlattenSeq
  <2>4. <<>> \o x = x /\ x \o <<>> = x
    OBVIOUS
  <2> QED BY <2>1, <2>2, <2>3, <2>4
<1>2. ASSUME NEW n \in S PROVE n + 1 \in S
  <2>0. n \in Nat /\ n + 1 \in Nat
    OBVIOUS
  <2> SUFFICES ASSUME NEW t \in Seq(Seq(A)), Len(t) = n + 1
               PROVE  FlattenSeq(<<x>> \o t) = x \o FlattenSeq(t)
    BY <2>0
  <2> DEFINE B == Seq(A)
  <2>1. t \in Seq(B) /\ t # <<>> /\ x \in B
    OBVIOUS
  <2>2. PICK f \in Seq(B) : IsFrontOf(f, t, B)
    BY <2>1, FrontAndLast
  <2> DEFINE y == t[Len(t)]
  <2>3. t = Append(f, y) /\ y \in B /\ Len(f) = n
    BY <2>1, <2>2 DEF IsFrontOf
  <2> HIDE DEF y, B
  <2>4. <<x>> \o t = Append(<<x>> \o f, y) /\ <<x>> \o f \in Seq(B)
    BY <2>1, <2>2, <2>3
  <2>5. /\ FlattenSeq(Append(<<x>> \o f, y)) = FlattenSeq(<<x>> \o f) \o y
        /\ FlattenSeq(t) = FlattenSeq(f) \o y
    BY <2>2, <2>3, <2>4, FlattenAppend DEF B
  <2>6. FlattenSeq(<<x>> \o f) = x \o FlattenSeq(f)
    BY <2>2, <2>3 DEF B
  <2>7. FlattenSeq(f) \in Seq(A) /\ y \in Seq(A)
    BY <2>2, <2>3, FlattenTyped DEF B
  <2> DEFINE z == FlattenSeq(f)
  <2>8. (x \o z) \o y = x \o (z \o y)
    <3> HIDE DEF z
    <3> QED BY SMTT(40), <2>7 DEF z
  <2> QED BY <2>4, <2>5, <2>6, <2>8
<1>3. S = Nat
  <2> HIDE DEF S
  <2> QED BY <1>1, <1>2, SetOfNaturals, S \in SUBSET Nat DEF S
<1>4. Len(s) \in Nat
  OBVIOUS
<1>5. Len(s) \in S
  <2> HIDE DEF S
  <2> QED BY <1>3, <1>4
<1> QED BY <1>5

-----------------------------------------------------------------------------
\* What is put between two sequences is found again where it was put.
LEMMA ConcatMiddle ==
    ASSUME NEW A, NEW s \in Seq(A), NEW t \in Seq(A), NEW u \in Seq(A)
    PROVE  /\ SubSeq((s \o t) \o u, Len(s) + 1, Len(s) + Len(t)) = t
           /\ SubSeq((s \o t) \o u, Len(s) + Len(t) + 1, Len((s \o t) \o u)) = u
<1> DEFINE c == (s \o t) \o u
<1>1. Len(s) \in Nat /\ Len(t) \in Nat /\ Len(u) \in Nat
  OBVIOUS
<1>2. /\ c \in Seq(A) /\ Len(c) = Len(s) + Len(t) + Len(u)
      /\ \A i \in 1..Len(t) : c[Len(s) + i] = t[i]
      /\ \A i \in 1..Len(u) : c[Len(s) + Len(t) + i] = u[i]
  BY <1>1
<1> HIDE DEF c
<1>3. SubSeq(c, Len(s) + 1, Len(s) + Len(t)) = t
  BY SMTT(40), <1>1, <1>2
<1>4. SubSeq(c, Len(s) + Len(t) + 1, Len(c)) = u
  BY <1>1, <1>2
<1> QED BY <1>3, <1>4 DEF c

\* The first elements of two sequences put together are those of the first one.
LEMMA ConcatFirst ==
    ASSUME NEW A, NEW s \in Seq(A), NEW t \in Seq(A)
    PROVE  /\ s \o t \in Seq(A) /\ Len(s \o t) = Len(s) + Len(t)
           /\ \A i \in 1..Len(s) : (s \o t)[i] = s[i]
OBVIOUS

\* The others are those of the second one.
LEMMA ConcatSecond ==
    ASSUME NEW A, NEW s \in Seq(A), NEW t \in Seq(A)
    PROVE  \A i \in 1..Len(t) : (s \o t)[Len(s) + i] = t[i]
OBVIOUS

\* Sequences with the same elements at the same places are the same.
LEMMA SameElements ==
    ASSUME NEW A, NEW s \in Seq(A), NEW t \in Seq(A), Len(s) = Len(t),
           \A i \in 1..Len(s) : s[i] = t[i]
    PROVE  s = t
OBVIOUS

\* What is taken from the front of a sequence and put behind another.
LEMMA MovedFront ==
    ASSUME NEW A, NEW s \in Seq(A), NEW t \in Seq(A), NEW n \in Nat, n <= Len(t)
    PROVE  (s \o SubSeq(t, 1, n)) \o SubSeq(t, n + 1, Len(t)) = s \o t
<1> DEFINE u == SubSeq(t, 1, n)
           v == SubSeq(t, n + 1, Len(t))
<1>1. /\ u \in Seq(A) /\ Len(u) = n /\ \A i \in 1..n : u[i] = t[i]
      /\ v \in Seq(A) /\ Len(v) = Len(t) - n /\ \A i \in 1..Len(v) : v[i] = t[n + i]
      /\ Len(t) \in Nat
  OBVIOUS
<1> HIDE DEF u, v
<1>2. u \o v = t
  <2>1. u \o v \in Seq(A) /\ Len(u \o v) = Len(t)
    <3>1. u \o v \in Seq(A) /\ Len(u \o v) = Len(u) + Len(v)
      BY <1>1, ConcatFirst
    <3> QED BY <1>1, <3>1
  <2>2. ASSUME NEW i \in 1..Len(t) PROVE (u \o v)[i] = t[i]
    <3>1. CASE i <= n
      BY <3>1, <1>1
    <3>2. CASE ~(i <= n)
      <4>1. i - n \in 1..Len(v) /\ n + (i - n) = i
        BY <3>2, <1>1
      <4>2. (u \o v)[n + (i - n)] = v[i - n]
        BY <1>1, <4>1
      <4> QED BY <4>1, <4>2, <1>1
    <3> QED BY <3>1, <3>2
  <2> QED BY <2>1, <2>2, SameElements
<1>3. (s \o u) \o v = s \o (u \o v)
  BY <1>1
<1> QED BY <1>2, <1>3 DEF u, v

\* Two pairs of sequences are the same sequence, divided.
SameWhole(s, t, u, v) == s \o t = u \o v
IsRest(y, s, t, u, v) == s = u \o y /\ y \o t = v

\* Of two ways to divide a sequence, the longer first part is the shorter one
\* and what the shorter one leaves to the second.
LEMMA ConcatTwice ==
    ASSUME NEW A, NEW s \in Seq(A), NEW t \in Seq(A), NEW u \in Seq(A), NEW v \in Seq(A),
           SameWhole(s, t, u, v), Len(u) <= Len(s)
    PROVE  \E y \in Seq(A) : IsRest(y, s, t, u, v)
<1> DEFINE y == SubSeq(s, Len(u) + 1, Len(s))
           c == s \o t
           d == u \o v
<1>1. Len(s) \in Nat /\ Len(t) \in Nat /\ Len(u) \in Nat /\ Len(v) \in Nat
  OBVIOUS
<1>2. y \in Seq(A) /\ Len(y) = Len(s) - Len(u) /\ \A i \in 1..Len(y) : y[i] = s[Len(u) + i]
  BY <1>1
<1>3. /\ Len(c) = Len(s) + Len(t)
      /\ \A i \in 1..Len(s) : c[i] = s[i]
      /\ \A i \in 1..Len(t) : c[Len(s) + i] = t[i]
  OBVIOUS
<1>4. /\ Len(d) = Len(u) + Len(v)
      /\ \A i \in 1..Len(u) : d[i] = u[i]
      /\ \A i \in 1..Len(v) : d[Len(u) + i] = v[i]
  OBVIOUS
<1>5. c = d
  BY DEF SameWhole
<1> HIDE DEF c, d, y
<1>6. s = u \o y
  <2>1. u \o y \in Seq(A) /\ Len(u \o y) = Len(s)
    BY <1>1, <1>2
  <2>2. ASSUME NEW i \in 1..Len(s) PROVE s[i] = (u \o y)[i]
    <3>1. CASE i \in 1..Len(u)
      BY <3>1, <1>1, <1>2, <1>3, <1>4, <1>5
    <3>2. CASE i \notin 1..Len(u)
      <4>1. i - Len(u) \in 1..Len(y) /\ Len(u) + (i - Len(u)) = i
        BY <3>2, <1>1, <1>2
      <4>2. (u \o y)[Len(u) + (i - Len(u))] = y[i - Len(u)]
        BY <4>1, <1>2
      <4> QED BY <4>1, <4>2, <1>2
    <3> QED BY <3>1, <3>2
  <2> HIDE DEF y
  <2> QED BY <2>1, <2>2, SameElements
<1>7. y \o t = v
  <2>1. y \o t \in Seq(A) /\ Len(y \o t) = Len(v)
    BY <1>1, <1>2, <1>3, <1>4, <1>5
  <2>2. ASSUME NEW i \in 1..Len(v) PROVE (y \o t)[i] = v[i]
    <3>0. v[i] = d[Len(u) + i]
      BY <1>4
    <3>1. CASE i \in 1..Len(y)
      <4>1. Len(u) + i \in 1..Len(s)
        BY <3>1, <1>1, <1>2
      <4>2. (y \o t)[i] = y[i]
        BY <3>1, <1>2
      <4> QED BY <3>0, <3>1, <4>1, <4>2, <1>2, <1>3, <1>5
    <3>2. CASE i \notin 1..Len(y)
      <4>1. /\ i - Len(y) \in 1..Len(t) /\ Len(y) + (i - Len(y)) = i
            /\ Len(s) + (i - Len(y)) = Len(u) + i
        BY <3>2, <1>1, <1>2, <1>3, <1>4, <1>5
      <4>2. (y \o t)[Len(y) + (i - Len(y))] = t[i - Len(y)]
        BY <4>1, <1>2
      <4> QED BY <3>0, <4>1, <4>2, <1>3, <1>5
    <3> QED BY <3>1, <3>2
  <2> QED BY <2>1, <2>2, SameElements
<1> QED BY <1>2, <1>6, <1>7 DEF IsRest

\* The front of two sequences put together is the first one.
LEMMA ConcatFront ==
    ASSUME NEW A, NEW s \in Seq(A), NEW t \in Seq(A)
    PROVE  SubSeq(s \o t, 1, Len(s)) = s
<1> DEFINE c == s \o t
<1>1. c \in Seq(A) /\ Len(c) = Len(s) + Len(t) /\ \A i \in 1..Len(s) : c[i] = s[i]
  BY ConcatFirst
<1>2. Len(s) \in Nat /\ Len(t) \in Nat
  OBVIOUS
<1> HIDE DEF c
<1>3. SubSeq(c, 1, Len(s)) = s
  BY <1>1, <1>2
<1> QED BY <1>3 DEF c

\* An element is appended to the second of two sequences or to both.
LEMMA AppendToSecond ==
    ASSUME NEW A, NEW s \in Seq(A), NEW t \in Seq(A), NEW x \in A
    PROVE  Append(s \o t, x) = s \o (t \o <<x>>)
<1> DEFINE c == s \o t
           y == <<x>>
<1>1. c \in Seq(A) /\ y \in Seq(A)
  OBVIOUS
<1>2. c \o y = s \o (t \o y)
  <2> HIDE DEF y
  <2> QED BY <1>1
<1>3. Append(c, x) = c \o y
  <2> HIDE DEF c
  <2> QED BY <1>1
<1> QED BY <1>2, <1>3

\* A sequence is a prefix of what it is put before.
LEMMA PrefixAfter ==
    ASSUME NEW A, NEW s \in Seq(A), NEW t \in Seq(A), NEW u \in Seq(A)
    PROVE  LET c == (s \o t) \o u IN IsPrefix(t, SubSeq(c, Len(s) + 1, Len(c)))
<1> DEFINE c == (s \o t) \o u
           d == SubSeq(c, Len(s) + 1, Len(c))
<1>1. Len(s) \in Nat /\ Len(t) \in Nat /\ Len(u) \in Nat
  OBVIOUS
<1>2. /\ c \in Seq(A) /\ Len(c) = Len(s) + Len(t) + Len(u)
      /\ \A i \in 1..Len(t) : c[Len(s) + i] = t[i]
  BY <1>1
<1> HIDE DEF c
<1>3. /\ d \in Seq(A) /\ Len(d) = Len(t) + Len(u)
      /\ \A i \in 1..Len(t) : d[i] = t[i]
  <2>1. /\ d \in Seq(A) /\ Len(d) = Len(t) + Len(u)
        /\ \A i \in 1..Len(d) : d[i] = c[Len(s) + i]
    BY <1>1, <1>2
  <2>2. \A i \in 1..Len(t) : i \in 1..Len(d)
    BY <1>1, <2>1
  <2> HIDE DEF d
  <2> QED BY <1>2, <2>1, <2>2
<1> HIDE DEF d
<1>4. SubSeq(d, 1, Len(t)) = t /\ SubSeq(t, 1, Len(t)) = t
  BY <1>1, <1>3
<1>5. IsPrefix(t, d)
  BY <1>1, <1>3, <1>4 DEF IsPrefix
<1> QED BY <1>5 DEF c, d

\* Three sequences are joined in either order.
JoinsEitherWay(s, t, u) == (s \o t) \o u = s \o (t \o u)

LEMMA ConcatThree ==
    ASSUME NEW A, NEW s \in Seq(A), NEW t \in Seq(A), NEW u \in Seq(A)
    PROVE  JoinsEitherWay(s, t, u)
<1> DEFINE c == s \o t
           d == t \o u
<1>1. Len(s) \in Nat /\ Len(t) \in Nat /\ Len(u) \in Nat
  OBVIOUS
<1>2. /\ c \in Seq(A) /\ Len(c) = Len(s) + Len(t)
      /\ \A i \in 1..Len(s) : c[i] = s[i]
      /\ \A i \in 1..Len(t) : c[Len(s) + i] = t[i]
  BY ConcatFirst, ConcatSecond
<1>3. /\ d \in Seq(A) /\ Len(d) = Len(t) + Len(u)
      /\ \A i \in 1..Len(t) : d[i] = t[i]
      /\ \A i \in 1..Len(u) : d[Len(t) + i] = u[i]
  BY ConcatFirst, ConcatSecond
<1> HIDE DEF c, d
<1> DEFINE v == c \o u
           w == s \o d
<1>4. /\ v \in Seq(A) /\ Len(v) = Len(c) + Len(u)
      /\ \A i \in 1..Len(c) : v[i] = c[i]
      /\ \A i \in 1..Len(u) : v[Len(c) + i] = u[i]
  <2>1. c \in Seq(A)
    BY <1>2
  <2> QED BY <2>1, ConcatFirst, ConcatSecond
<1>5. /\ w \in Seq(A) /\ Len(w) = Len(s) + Len(d)
      /\ \A i \in 1..Len(s) : w[i] = s[i]
      /\ \A i \in 1..Len(d) : w[Len(s) + i] = d[i]
  <2>1. d \in Seq(A)
    BY <1>3
  <2> QED BY <2>1, ConcatFirst, ConcatSecond
<1> HIDE DEF v, w
<1>6. ASSUME NEW i \in 1..Len(v) PROVE v[i] = w[i]
  <2>1. CASE i <= Len(s)
    BY <1>1, <1>2, <1>4, <1>5, <2>1
  <2>2. CASE i > Len(s) /\ i <= Len(s) + Len(t)
    <3> DEFINE j == i - Len(s)
    <3>1. j \in 1..Len(t) /\ i = Len(s) + j /\ j \in 1..Len(d) /\ i \in 1..Len(c)
      BY <1>1, <1>2, <1>3, <2>2
    <3> HIDE DEF j
    <3>2. v[i] = t[j] /\ w[i] = d[j] /\ d[j] = t[j]
      BY <1>2, <1>3, <1>4, <1>5, <3>1
    <3> QED BY <3>2
  <2>3. CASE i > Len(s) + Len(t)
    <3> DEFINE j == i - Len(s) - Len(t)
    <3>1. /\ j \in 1..Len(u) /\ i = Len(c) + j /\ i = Len(s) + (Len(t) + j)
          /\ Len(t) + j \in 1..Len(d)
      BY <1>1, <1>2, <1>3, <1>4, <2>3
    <3> HIDE DEF j
    <3>2. v[i] = u[j] /\ w[i] = d[Len(t) + j] /\ d[Len(t) + j] = u[j]
      BY <1>3, <1>4, <1>5, <3>1
    <3> QED BY <3>2
  <2> QED BY <1>1, <1>4, <2>1, <2>2, <2>3
<1>7. Len(v) = Len(w)
  BY <1>1, <1>2, <1>3, <1>4, <1>5
<1>8. v = w
  BY <1>4, <1>5, <1>6, <1>7, SameElements
<1> QED BY <1>8 DEF v, w, c, d, JoinsEitherWay

\* One element more at the end of two sequences is one more of the second.
IsAppended(s, t, x) == Append(s \o t, x) = s \o Append(t, x)

LEMMA AppendToBoth ==
    ASSUME NEW A, NEW s \in Seq(A), NEW t \in Seq(A), NEW x \in A
    PROVE  IsAppended(s, t, x)
<1>1. Append(s \o t, x) = s \o (t \o <<x>>)
  BY AppendToSecond
<1>2. Append(t, x) = t \o <<x>>
  OBVIOUS
<1> QED BY <1>1, <1>2 DEF IsAppended

\* A part of a sequence.
LEMMA PartTyped ==
    ASSUME NEW A, NEW s \in Seq(A), NEW m \in Nat \ {0}, NEW n \in Nat, n <= Len(s), m <= n + 1
    PROVE  /\ SubSeq(s, m, n) \in Seq(A) /\ Len(SubSeq(s, m, n)) = n - m + 1
           /\ \A i \in 1..(n - m + 1) : SubSeq(s, m, n)[i] = s[m + i - 1]
OBVIOUS

LEMMA LeastOfTwo ==
    ASSUME NEW m \in Nat, NEW n \in Nat
    PROVE  Min({m, n}) = IF m <= n THEN m ELSE n
BY DEF Min
LEMMA LeastIsMember ==
    ASSUME NEW S \in SUBSET Nat, S # {}
    PROVE  Min(S) \in S /\ \A n \in S : Min(S) <= n
BY LeastNatural DEF Min

\* One element more at the end.
LEMMA AppendedTo ==
    ASSUME NEW A, NEW s \in Seq(A), NEW x \in A
    PROVE  /\ Append(s, x) \in Seq(A) /\ Len(Append(s, x)) = Len(s) + 1
           /\ Append(s, x)[Len(s) + 1] = x /\ \A i \in 1..Len(s) : Append(s, x)[i] = s[i]
           /\ ToSet(Append(s, x)) = ToSet(s) \cup {x}
<1>1. /\ Append(s, x) \in Seq(A) /\ Len(Append(s, x)) = Len(s) + 1 /\ Len(s) \in Nat
      /\ Append(s, x)[Len(s) + 1] = x /\ \A i \in 1..Len(s) : Append(s, x)[i] = s[i]
  OBVIOUS
<1>2. ToSet(Append(s, x)) = ToSet(s) \cup {x}
  <2> DEFINE t == Append(s, x)
  <2>1. DOMAIN t = 1..Len(s) + 1 /\ DOMAIN s = 1..Len(s)
    BY <1>1
  <2>2. ToSet(t) = {t[i] : i \in DOMAIN t} /\ ToSet(s) = {s[i] : i \in DOMAIN s}
    BY DEF ToSet
  <2> HIDE DEF t
  <2> QED BY <1>1, <2>1, <2>2 DEF t
<1> QED BY <1>1, <1>2

\* The largest of a set of naturals with a bound.
LEMMA LargestOf ==
    ASSUME NEW n \in Nat, NEW S \in SUBSET (0..n), S # {}
    PROVE  Max(S) \in S /\ \A m \in S : Max(S) >= m
<1> DEFINE T == {d \in Nat : d <= n /\ n - d \in S}
<1>1. T \in SUBSET Nat /\ T # {}
  <2>1. PICK m \in S : TRUE
    OBVIOUS
  <2>2. m \in 0..n
    BY <2>1
  <2>3. n - m \in Nat /\ n - m <= n /\ n - (n - m) = m
    BY <2>2
  <2>4. n - m \in T
    BY <2>1, <2>3
  <2> QED BY <2>4
<1>2. Min(T) \in T /\ \A d \in T : Min(T) <= d
  <2> HIDE DEF T
  <2> QED BY <1>1, LeastIsMember
<1> DEFINE x == n - Min(T)
<1>3. x \in S /\ \A y \in S : x >= y
  <2>1. x \in S
    BY <1>2
  <2>2. ASSUME NEW y \in S PROVE x >= y
    <3>1. y \in 0..n /\ n - y \in Nat /\ n - (n - y) = y /\ n - y <= n
      OBVIOUS
    <3>2. n - y \in T
      BY <3>1
    <3>3. Min(T) <= n - y /\ Min(T) \in Nat
      BY <1>2, <3>2
    <3> HIDE DEF T
    <3> QED BY <3>1, <3>3
  <2> QED BY <2>1, <2>2
<1> HIDE DEF x
<1>4. \E z \in S : \A y \in S : z >= y
  BY <1>3
<1> QED BY <1>4 DEF Max

\* Two words and a payload, and one.
LEMMA WordsFirst ==
    ASSUME NEW s \in Seq(Nat), NEW a \in Nat, NEW b \in Nat
    PROVE  /\ Len(<<a, b>> \o s) = Len(s) + 2 /\ (<<a, b>> \o s)[1] = a /\ (<<a, b>> \o s)[2] = b
           /\ Len(<<a>> \o s) = Len(s) + 1 /\ (<<a>> \o s)[1] = a
<1>1. <<a, b>> \in Seq(Nat) /\ <<a>> \in Seq(Nat) /\ Len(<<a, b>>) = 2 /\ Len(<<a>>) = 1
  OBVIOUS
<1>2. 1 \in 1..Len(<<a, b>>) /\ 2 \in 1..Len(<<a, b>>) /\ 1 \in 1..Len(<<a>>) /\ Len(s) \in Nat
  BY <1>1
<1>3. <<a, b>>[1] = a /\ <<a, b>>[2] = b /\ <<a>>[1] = a
  OBVIOUS
<1> DEFINE p == <<a, b>>
           q == <<a>>
<1> HIDE DEF p, q
<1>4. /\ Len(p \o s) = 2 + Len(s) /\ (p \o s)[1] = p[1] /\ (p \o s)[2] = p[2]
  <2>1. p \in Seq(Nat) /\ Len(p) = 2
    BY <1>1 DEF p
  <2>2. Len(p \o s) = Len(p) + Len(s) /\ \A i \in 1..Len(p) : (p \o s)[i] = p[i]
    BY <2>1, ConcatFirst
  <2> QED BY <2>1, <2>2
<1>5. /\ Len(q \o s) = 1 + Len(s) /\ (q \o s)[1] = q[1]
  <2>1. q \in Seq(Nat) /\ Len(q) = 1
    BY <1>1 DEF q
  <2>2. Len(q \o s) = Len(q) + Len(s) /\ \A i \in 1..Len(q) : (q \o s)[i] = q[i]
    BY <2>1, ConcatFirst
  <2> QED BY <2>1, <2>2
<1>6. Len(s) + 2 = 2 + Len(s) /\ Len(s) + 1 = 1 + Len(s)
  BY <1>2
<1> QED BY <1>3, <1>4, <1>5, <1>6 DEF p, q

\* A prefix, element by element, and a longer sequence.
LEMMA PrefixElements ==
    ASSUME NEW A, NEW s \in Seq(A), NEW t \in Seq(A)
    PROVE  IsPrefix(s, t) <=> Len(s) <= Len(t) /\ \A k \in 1..Len(s) : s[k] = t[k]
<1>1. Len(s) \in Nat /\ Len(t) \in Nat
  OBVIOUS
<1>2. ASSUME IsPrefix(s, t)
      PROVE  Len(s) <= Len(t) /\ \A k \in 1..Len(s) : s[k] = t[k]
  <2>1. Len(s) <= Len(t) /\ SubSeq(s, 1, Len(s)) = SubSeq(t, 1, Len(s))
    BY <1>2 DEF IsPrefix
  <2>2. \A k \in 1..Len(s) : SubSeq(s, 1, Len(s))[k] = s[k] /\ SubSeq(t, 1, Len(s))[k] = t[k]
    BY <1>1, <2>1
  <2> QED BY <2>1, <2>2
<1>3. ASSUME Len(s) <= Len(t), \A k \in 1..Len(s) : s[k] = t[k]
      PROVE  IsPrefix(s, t)
  <2> DEFINE u == SubSeq(s, 1, Len(s))
             v == SubSeq(t, 1, Len(s))
  <2>1. u \in Seq(A) /\ Len(u) = Len(s) /\ \A k \in 1..Len(s) : u[k] = s[k]
    BY <1>1
  <2>2. v \in Seq(A) /\ Len(v) = Len(s) /\ \A k \in 1..Len(s) : v[k] = t[k]
    BY <1>1, <1>3
  <2> HIDE DEF u, v
  <2>3. u = v
    BY <1>3, <2>1, <2>2, SameElements
  <2> QED BY <1>3, <2>3 DEF IsPrefix, u, v
<1> QED BY <1>2, <1>3

LEMMA PrefixGrows ==
    ASSUME NEW A, NEW s \in Seq(A), NEW t \in Seq(A), NEW x \in A, IsPrefix(s, t)
    PROVE  IsPrefix(s, Append(t, x))
<1> DEFINE u == Append(t, x)
<1>1. u \in Seq(A) /\ Len(u) = Len(t) + 1 /\ \A k \in 1..Len(t) : u[k] = t[k]
  BY AppendedTo
<1>2. Len(s) \in Nat /\ Len(t) \in Nat
  OBVIOUS
<1>3. Len(s) <= Len(t) /\ \A k \in 1..Len(s) : s[k] = t[k]
  BY PrefixElements
<1> HIDE DEF u
<1>4. Len(s) <= Len(u) /\ \A k \in 1..Len(s) : s[k] = u[k]
  BY <1>1, <1>2, <1>3
<1>5. IsPrefix(s, u)
  BY <1>1, <1>4, PrefixElements
<1> QED BY <1>5 DEF u

LEMMA PrefixOfItself ==
    ASSUME NEW A, NEW s \in Seq(A)
    PROVE  IsPrefix(s, s)
<1>1. Len(s) \in Nat
  OBVIOUS
<1> QED BY <1>1, PrefixElements

LEMMA AppendedIsTyped ==
    ASSUME NEW A, NEW s \in Seq(A), NEW x, Append(s, x) \in Seq(A)
    PROVE  x \in A
<1>1. Len(s) \in Nat /\ Len(Append(s, x)) = Len(s) + 1 /\ Append(s, x)[Len(s) + 1] = x
  OBVIOUS
<1>2. Len(s) + 1 \in 1..Len(Append(s, x))
  BY <1>1
<1> QED BY <1>1, <1>2

-----------------------------------------------------------------------------
(* The first sequences of several, joined: where each one is.               *)

JoinedTo(s, n) == FlattenSeq(SubSeq(s, 1, n))

LEMMA JoinedTyped ==
    ASSUME NEW A, NEW s \in Seq(Seq(A)), NEW n \in 0..Len(s)
    PROVE  JoinedTo(s, n) \in Seq(A) /\ Len(JoinedTo(s, n)) \in Nat
<1> DEFINE B == Seq(A)
<1>1. s \in Seq(B) /\ Len(s) \in Nat /\ n \in Nat /\ n <= Len(s) /\ 1 <= n + 1
  OBVIOUS
<1> HIDE DEF B
<1>2. SubSeq(s, 1, n) \in Seq(B)
  BY <1>1, PartTyped
<1> DEFINE t == SubSeq(s, 1, n)
<1>3. t \in Seq(Seq(A))
  BY <1>2 DEF B
<1> HIDE DEF t
<1>4. FlattenSeq(t) \in Seq(A)
  BY <1>3, FlattenTyped
<1>5. JoinedTo(s, n) = FlattenSeq(t)
  BY DEF JoinedTo, t
<1> QED BY <1>4, <1>5

LEMMA JoinedAll ==
    ASSUME NEW A, NEW s \in Seq(Seq(A))
    PROVE  JoinedTo(s, Len(s)) = FlattenSeq(s)
<1> DEFINE B == Seq(A)
<1>1. s \in Seq(B)
  OBVIOUS
<1> HIDE DEF B
<1>2. SubSeq(s, 1, Len(s)) = s
  BY <1>1
<1> QED BY <1>2 DEF JoinedTo

LEMMA JoinedNone ==
    ASSUME NEW A, NEW s \in Seq(Seq(A))
    PROVE  JoinedTo(s, 0) = <<>>
<1>1. SubSeq(s, 1, 0) = <<>>
  OBVIOUS
<1> QED BY <1>1 DEF JoinedTo, FlattenSeq

\* What the next one adds.
IsJoinedNext(s, n) ==
    /\ Len(JoinedTo(s, n + 1)) = Len(JoinedTo(s, n)) + Len(s[n + 1])
    /\ \A k \in 1..Len(JoinedTo(s, n)) : JoinedTo(s, n + 1)[k] = JoinedTo(s, n)[k]
    /\ \A k \in 1..Len(s[n + 1]) : JoinedTo(s, n + 1)[Len(JoinedTo(s, n)) + k] = s[n + 1][k]

LEMMA JoinedNext ==
    ASSUME NEW A, NEW s \in Seq(Seq(A)), NEW n \in Nat, n + 1 <= Len(s)
    PROVE  IsJoinedNext(s, n)
<1> DEFINE B == Seq(A)
           m == n + 1
           x == s[m]
           t == SubSeq(s, 1, n)
           u == SubSeq(s, 1, m)
<1>1. s \in Seq(B) /\ Len(s) \in Nat /\ m \in Nat /\ n <= Len(s) /\ m \in 1..Len(s) /\ m <= Len(s)
  OBVIOUS
<1> HIDE DEF B, m
<1>2. x \in B
  BY <1>1
<1>3. /\ t \in Seq(B) /\ Len(t) = n
      /\ \A i \in 1..n : t[i] = s[i]
  <2>1. 1 <= n + 1 /\ n - 1 + 1 = n
    OBVIOUS
  <2>2. /\ SubSeq(s, 1, n) \in Seq(B) /\ Len(SubSeq(s, 1, n)) = n - 1 + 1
        /\ \A i \in 1..(n - 1 + 1) : SubSeq(s, 1, n)[i] = s[1 + i - 1]
    BY <1>1, <2>1, PartTyped
  <2> QED BY <2>1, <2>2
<1>4. /\ u \in Seq(B) /\ Len(u) = m
      /\ \A i \in 1..m : u[i] = s[i]
  <2>1. 1 <= m + 1 /\ m - 1 + 1 = m
    BY <1>1
  <2>2. /\ SubSeq(s, 1, m) \in Seq(B) /\ Len(SubSeq(s, 1, m)) = m - 1 + 1
        /\ \A i \in 1..(m - 1 + 1) : SubSeq(s, 1, m)[i] = s[1 + i - 1]
    BY <1>1, <2>1, PartTyped
  <2> QED BY <1>1, <2>1, <2>2
<1>5. JoinedTo(s, m) = FlattenSeq(u) /\ JoinedTo(s, n) = FlattenSeq(t)
  BY DEF JoinedTo
<1> HIDE DEF t, u, x
<1> DEFINE v == Append(t, x)
<1>6. /\ v \in Seq(B) /\ Len(v) = n + 1 /\ v[n + 1] = x /\ \A i \in 1..n : v[i] = t[i]
  BY <1>2, <1>3
<1> HIDE DEF v
<1>7. u = v
  <2>1. ASSUME NEW i \in 1..Len(u) PROVE u[i] = v[i]
    <3>1. i \in 1..n \/ i = n + 1
      BY <1>4, <2>1 DEF m
    <3> QED BY <1>3, <1>4, <1>6, <3>1 DEF m, x
  <2>2. Len(u) = Len(v)
    BY <1>4, <1>6 DEF m
  <2> QED BY <1>4, <1>6, <2>1, <2>2, SameElements
<1>8. t \in Seq(Seq(A)) /\ x \in Seq(A)
  BY <1>2, <1>3 DEF B
<1> DEFINE f == FlattenSeq(t)
<1>9. FlattenSeq(v) = f \o x
  BY <1>8, FlattenAppend DEF v
<1>10. f \in Seq(A)
  BY <1>8, FlattenTyped
<1> HIDE DEF f
<1> DEFINE w == f \o x
<1>11. /\ w \in Seq(A) /\ Len(w) = Len(f) + Len(x)
       /\ \A i \in 1..Len(f) : w[i] = f[i]
       /\ \A i \in 1..Len(x) : w[Len(f) + i] = x[i]
  BY <1>8, <1>10, ConcatFirst, ConcatSecond
<1>12. JoinedTo(s, m) = w
  BY <1>5, <1>7, <1>9
<1> HIDE DEF w
<1> QED BY <1>5, <1>11, <1>12 DEF IsJoinedNext, f, x, m

\* What is joined stays where it is.
IsJoinedFirst(s, n, m) ==
    /\ Len(JoinedTo(s, n)) <= Len(JoinedTo(s, m))
    /\ \A k \in 1..Len(JoinedTo(s, n)) : JoinedTo(s, m)[k] = JoinedTo(s, n)[k]

LEMMA JoinedStays ==
    ASSUME NEW A, NEW s \in Seq(Seq(A)), NEW n \in 0..Len(s), NEW m \in n..Len(s)
    PROVE  IsJoinedFirst(s, n, m)
<1> DEFINE S == {d \in Nat : n + d <= Len(s) => IsJoinedFirst(s, n, n + d)}
<1>0. n \in Nat /\ Len(s) \in Nat /\ m \in Nat /\ m - n \in Nat
  OBVIOUS
<1>1. 0 \in S
  <2>1. Len(JoinedTo(s, n)) \in Nat
    BY JoinedTyped
  <2>2. IsJoinedFirst(s, n, n)
    BY <2>1 DEF IsJoinedFirst
  <2> QED BY <1>0, <2>2
<1>2. ASSUME NEW d \in S PROVE d + 1 \in S
  <2> SUFFICES ASSUME n + (d + 1) <= Len(s) PROVE IsJoinedFirst(s, n, n + (d + 1))
    OBVIOUS
  <2> DEFINE p == n + d
  <2>1. p \in Nat /\ p + 1 <= Len(s) /\ n + (d + 1) = p + 1 /\ p \in 0..Len(s)
    BY <1>0, <1>2
  <2>2. IsJoinedFirst(s, n, p)
    BY <1>0, <1>2, <2>1
  <2> HIDE DEF p
  <2>3. IsJoinedNext(s, p)
    BY <2>1, JoinedNext
  <2>4. Len(JoinedTo(s, n)) \in Nat /\ Len(JoinedTo(s, p)) \in Nat /\ Len(s[p + 1]) \in Nat
    <3>1. s[p + 1] \in Seq(A)
      BY <2>1
    <3> QED BY <2>1, <3>1, JoinedTyped
  <2>5. IsJoinedFirst(s, n, p + 1)
    BY <2>2, <2>3, <2>4 DEF IsJoinedFirst, IsJoinedNext
  <2> QED BY <2>1, <2>5
<1>3. S = Nat
  <2>1. S \in SUBSET Nat
    OBVIOUS
  <2> HIDE DEF S
  <2> QED BY <1>1, <1>2, <2>1, SetOfNaturals
<1>4. n + (m - n) = m /\ m <= Len(s)
  BY <1>0
<1> QED BY <1>0, <1>3, <1>4

\* A sequence of sequences with one more.
IsFlattenedMore(s, t, x) == FlattenSeq(t) = FlattenSeq(s) \o x

LEMMA FlattenMore ==
    ASSUME NEW A, NEW s \in Seq(Seq(A)), NEW t \in Seq(Seq(A)), NEW x \in Seq(A),
           Len(t) = Len(s) + 1, t[Len(s) + 1] = x, \A i \in 1..Len(s) : t[i] = s[i]
    PROVE  IsFlattenedMore(s, t, x)
<1> DEFINE B == Seq(A)
           v == Append(s, x)
<1>1. s \in Seq(B) /\ t \in Seq(B) /\ x \in B /\ Len(s) \in Nat
  OBVIOUS
<1> HIDE DEF B
<1>2. v \in Seq(B) /\ Len(v) = Len(s) + 1 /\ v[Len(s) + 1] = x /\ \A i \in 1..Len(s) : v[i] = s[i]
  BY <1>1
<1> HIDE DEF v
<1>3. t = v
  <2>1. ASSUME NEW i \in 1..Len(t) PROVE t[i] = v[i]
    <3>1. i \in 1..Len(s) \/ i = Len(s) + 1
      BY <1>1
    <3> QED BY <1>2, <3>1
  <2> QED BY <1>1, <1>2, <2>1, SameElements
<1>4. FlattenSeq(v) = FlattenSeq(s) \o x
  BY FlattenAppend DEF v
<1> QED BY <1>3, <1>4 DEF IsFlattenedMore

\* Nothing but empty sequences.
LEMMA FlattenNothing ==
    ASSUME NEW A, NEW s \in Seq(Seq(A)), \A i \in 1..Len(s) : s[i] = <<>>
    PROVE  FlattenSeq(s) = <<>>
<1> DEFINE S == {n \in Nat : n <= Len(s) => Len(JoinedTo(s, n)) = 0}
<1>1. 0 \in S
  <2>1. Len(JoinedTo(s, 0)) = 0
    BY JoinedNone
  <2> QED BY <2>1
<1>2. ASSUME NEW n \in S PROVE n + 1 \in S
  <2> SUFFICES ASSUME n + 1 <= Len(s) PROVE Len(JoinedTo(s, n + 1)) = 0
    OBVIOUS
  <2>1. n \in Nat /\ n + 1 \in 1..Len(s) /\ Len(JoinedTo(s, n)) = 0
    OBVIOUS
  <2>2. IsJoinedNext(s, n) /\ s[n + 1] = <<>>
    BY <2>1, JoinedNext
  <2> QED BY <2>1, <2>2 DEF IsJoinedNext
<1>3. S = Nat
  <2>1. S \in SUBSET Nat
    OBVIOUS
  <2> HIDE DEF S
  <2> QED BY <1>1, <1>2, <2>1, SetOfNaturals
<1>4. Len(JoinedTo(s, Len(s))) = 0
  BY <1>3
<1>5. FlattenSeq(s) \in Seq(A) /\ Len(FlattenSeq(s)) = 0
  BY <1>4, JoinedAll, FlattenTyped
<1> QED BY <1>5

-----------------------------------------------------------------------------
(* Functions that are defined from the end of a sequence to its start.      *)

\* Where it stops, and where it goes on behind a piece.
EndStep(f, i, stops, piece, next) == IF i \in stops THEN piece[i] ELSE piece[i] \o f[next[i]]
IsFromEnd(f, n, stops, piece, next) == f = [i \in 1..n |-> EndStep(f, i, stops, piece, next)]
ArePieces(piece, n, A) == piece \in [1..n -> Seq(A)]
GoesAhead(n, stops, next) == \A i \in 1..n : i \notin stops => next[i] \in (i + 1)..n

LEMMA FromEndExists ==
    ASSUME NEW A, NEW n \in Nat, NEW stops, NEW piece, ArePieces(piece, n, A), NEW next,
           GoesAhead(n, stops, next)
    PROVE  \E f : IsFromEnd(f, n, stops, piece, next)
<1>0. piece \in [1..n -> Seq(A)]
  BY DEF ArePieces
<1> DEFINE Is(f, m) == /\ f \in [1..n -> Seq(A)]
                       /\ \A i \in 1..n : i > n - m => f[i] = EndStep(f, i, stops, piece, next)
           S == {m \in Nat : \E f : Is(f, m)}
<1>1. 0 \in S
  <2>1. Is(piece, 0)
    BY <1>0
  <2> QED BY <2>1
<1>2. ASSUME NEW m \in S PROVE m + 1 \in S
  <2>1. PICK f : Is(f, m)
    OBVIOUS
  <2> DEFINE k == n - m
             x == EndStep(f, k, stops, piece, next)
             g == [i \in 1..n |-> IF i = k THEN x ELSE f[i]]
  <2>2. CASE k < 1
    <3>1. Is(f, m + 1)
      BY <2>1, <2>2
    <3>2. m + 1 \in Nat
      OBVIOUS
    <3> HIDE DEF Is
    <3> QED BY <3>1, <3>2
  <2>3. CASE k >= 1
    <3>1. k \in 1..n
      BY <2>3
    <3>2. x \in Seq(A)
      <4>1. CASE k \in stops
        BY <1>0, <3>1, <4>1 DEF EndStep
      <4>2. CASE k \notin stops
        <5>1. next[k] \in 1..n
          BY <3>1, <4>2 DEF GoesAhead
        <5>2. piece[k] \in Seq(A) /\ f[next[k]] \in Seq(A)
          BY <1>0, <2>1, <3>1, <5>1
        <5> QED BY <4>2, <5>2 DEF EndStep
      <4> QED BY <4>1, <4>2
    <3>3. g \in [1..n -> Seq(A)]
      <4> HIDE DEF x, k
      <4> QED BY <2>1, <3>2
    <3>4. ASSUME NEW i \in 1..n, i > n - (m + 1) PROVE g[i] = EndStep(g, i, stops, piece, next)
      <4>1. i >= k
        BY <3>4
      <4>2. i \notin stops => g[next[i]] = f[next[i]]
        <5> SUFFICES ASSUME i \notin stops PROVE g[next[i]] = f[next[i]]
          OBVIOUS
        <5>1. next[i] \in 1..n /\ next[i] > i
          BY DEF GoesAhead
        <5>2. next[i] # k
          BY <3>1, <4>1, <5>1
        <5> HIDE DEF x, k
        <5> QED BY <5>1, <5>2
      <4>3. EndStep(g, i, stops, piece, next) = EndStep(f, i, stops, piece, next)
        <5> HIDE DEF g
        <5> QED BY <4>2 DEF EndStep
      <4>4. CASE i = k
        <5> HIDE DEF k
        <5> QED BY <4>3, <4>4
      <4>5. CASE i # k
        <5>1. i > n - m
          BY <4>1, <4>5
        <5>2. g[i] = f[i]
          BY <4>5
        <5> HIDE DEF g
        <5> QED BY <2>1, <4>3, <5>1, <5>2
      <4> QED BY <4>4, <4>5
    <3>5. Is(g, m + 1)
      <4> HIDE DEF g
      <4> QED BY <3>3, <3>4
    <3>6. m + 1 \in Nat
      OBVIOUS
    <3>7. \E h : Is(h, m + 1)
      <4> HIDE DEF Is, g
      <4> QED BY <3>5
    <3> HIDE DEF Is
    <3> QED BY <3>6, <3>7
  <2>4. k < 1 \/ k >= 1
    <3>1. m \in Nat
      OBVIOUS
    <3> QED BY <3>1
  <2> HIDE DEF S, k
  <2> QED BY <2>2, <2>3, <2>4
<1>3. S = Nat
  <2> HIDE DEF Is
  <2> QED BY <1>1, <1>2, SetOfNaturals, S \in SUBSET Nat
<1>4. PICK f : Is(f, n)
  <2> HIDE DEF Is
  <2> QED BY <1>3
<1>5. f = [i \in 1..n |-> EndStep(f, i, stops, piece, next)]
  BY <1>4
<1> QED BY <1>5 DEF IsFromEnd

LEMMA FromEndTyped ==
    ASSUME NEW A, NEW n \in Nat, NEW stops, NEW piece, ArePieces(piece, n, A), NEW next,
           GoesAhead(n, stops, next), NEW f, IsFromEnd(f, n, stops, piece, next)
    PROVE  \A i \in 1..n : f[i] \in Seq(A) /\ f[i] = EndStep(f, i, stops, piece, next)
<1>1. \A i \in 1..n : f[i] = EndStep(f, i, stops, piece, next)
  BY DEF IsFromEnd
<1> DEFINE S == {m \in Nat : \A i \in 1..n : i > n - m => f[i] \in Seq(A)}
<1>2. 0 \in S
  OBVIOUS
<1>3. ASSUME NEW m \in S PROVE m + 1 \in S
  <2> SUFFICES ASSUME NEW i \in 1..n, i > n - (m + 1) PROVE f[i] \in Seq(A)
    OBVIOUS
  <2>0. piece[i] \in Seq(A) /\ m \in Nat
    BY DEF ArePieces
  <2>1. CASE i \in stops
    BY <1>1, <2>0, <2>1, Zenon DEF EndStep
  <2>2. CASE i \notin stops
    <3>1. next[i] \in 1..n /\ next[i] > n - m
      BY <2>2 DEF GoesAhead
    <3>2. f[next[i]] \in Seq(A)
      BY <3>1
    <3>3. f[i] = piece[i] \o f[next[i]]
      BY <1>1, <2>2, Zenon DEF EndStep
    <3>4. piece[i] \o f[next[i]] \in Seq(A)
      BY <2>0, <3>2, ConcatFirst
    <3> QED BY <3>3, <3>4
  <2> QED BY <2>1, <2>2
<1>4. S = Nat
  <2> HIDE DEF S
  <2> QED BY <1>2, <1>3, SetOfNaturals, S \in SUBSET Nat DEF S
<1>5. n \in S
  BY <1>4
<1>6. \A i \in 1..n : f[i] \in Seq(A)
  <2>1. \A i \in 1..n : i > n - n
    OBVIOUS
  <2> QED BY <1>5, <2>1
<1> QED BY <1>1, <1>6

\* One more character, in a place of its own and empty places behind it.
IsWithOneMore(t, s, x) == t = Append(s, x)

LEMMA FlattenOneMore ==
    ASSUME NEW A, NEW s \in Seq(Seq(A)), NEW t \in Seq(Seq(A)), NEW c \in A,
           Len(t) > Len(s), t[Len(s) + 1] = <<c>>, \A i \in 1..Len(s) : t[i] = s[i],
           \A i \in 1..Len(t) : i > Len(s) + 1 => t[i] = <<>>
    PROVE  IsWithOneMore(FlattenSeq(t), FlattenSeq(s), c)
<1> DEFINE l == Len(s)
           x == FlattenSeq(s)
           y == Append(x, c)
           S == {n \in Nat : n > l /\ n <= Len(t) => JoinedTo(t, n) = y}
<1>1. x \in Seq(A) /\ y \in Seq(A) /\ l \in Nat /\ Len(t) \in Nat /\ Len(y) = Len(x) + 1 /\ Len(x) \in Nat
  <2>1. x \in Seq(A)
    BY FlattenTyped
  <2> HIDE DEF x
  <2> QED BY <2>1
<1>2. JoinedTo(t, l + 1) = y
  <2> DEFINE B == Seq(A)
             v == SubSeq(t, 1, l + 1)
             w == Append(s, <<c>>)
  <2>1. t \in Seq(B) /\ s \in Seq(B) /\ <<c>> \in B /\ l + 1 \in Nat /\ l + 1 <= Len(t) /\ 1 <= l + 2
    BY <1>1
  <2> HIDE DEF B
  <2>2. v \in Seq(B) /\ Len(v) = l + 1 /\ \A i \in 1..(l + 1) : v[i] = t[i]
    BY <1>1, <2>1
  <2>3. w \in Seq(B) /\ Len(w) = l + 1 /\ w[l + 1] = <<c>> /\ \A i \in 1..l : w[i] = s[i]
    BY <2>1
  <2>4. ASSUME NEW i \in 1..Len(v) PROVE v[i] = w[i]
    <3>1. i \in 1..l \/ i = l + 1
      BY <1>1, <2>2
    <3> QED BY <2>2, <2>3, <3>1
  <2> HIDE DEF v, w, l
  <2>5. v = w
    BY <2>2, <2>3, <2>4, SameElements
  <2>6. FlattenSeq(w) = x \o <<c>>
    <3>1. <<c>> \in Seq(A)
      OBVIOUS
    <3> QED BY <3>1, FlattenAppend DEF w
  <2>7. x \o <<c>> = y
    <3> HIDE DEF x
    <3> QED BY <1>1
  <2> QED BY <2>5, <2>6, <2>7 DEF JoinedTo, v
<1> HIDE DEF l, x, y
<1>3. 0 \in S
  BY <1>1
<1>4. ASSUME NEW n \in S PROVE n + 1 \in S
  <2> SUFFICES ASSUME n + 1 > l, n + 1 <= Len(t) PROVE JoinedTo(t, n + 1) = y
    OBVIOUS
  <2>1. CASE n = l
    BY <1>2, <2>1
  <2>2. CASE n # l
    <3>1. n \in Nat /\ n > l /\ n <= Len(t) /\ n + 1 \in 1..Len(t) /\ n \in 0..Len(t) /\ n + 1 \in 0..Len(t)
      BY <1>1, <2>2
    <3> DEFINE u == JoinedTo(t, n + 1)
    <3>2. t[n + 1] = <<>>
      BY <3>1 DEF l
    <3>3. IsJoinedNext(t, n) /\ JoinedTo(t, n) = y
      BY <3>1, JoinedNext
    <3>4. u \in Seq(A)
      BY <3>1, JoinedTyped
    <3>5. Len(u) = Len(y) /\ \A k \in 1..Len(u) : u[k] = y[k]
      BY <1>1, <3>2, <3>3 DEF IsJoinedNext
    <3> HIDE DEF u
    <3>6. u = y
      BY <1>1, <3>4, <3>5, SameElements
    <3> QED BY <3>6 DEF u
  <2> QED BY <2>1, <2>2
<1>5. S = Nat
  <2> HIDE DEF S
  <2> QED BY <1>3, <1>4, SetOfNaturals, S \in SUBSET Nat DEF S
<1>6. JoinedTo(t, Len(t)) = y
  <2>1. Len(t) \in S /\ Len(t) > l
    BY <1>1, <1>5 DEF l
  <2> QED BY <2>1
<1>7. FlattenSeq(t) = y
  BY <1>6, JoinedAll
<1> QED BY <1>7 DEF IsWithOneMore, y, x

\* What one sequence more adds, as a concatenation.
IsJoinedMore(s, n) == JoinedTo(s, n + 1) = JoinedTo(s, n) \o s[n + 1]

LEMMA JoinedMore ==
    ASSUME NEW A, NEW s \in Seq(Seq(A)), NEW n \in Nat, n + 1 <= Len(s)
    PROVE  IsJoinedMore(s, n)
<1> DEFINE x == JoinedTo(s, n)
           y == JoinedTo(s, n + 1)
           z == s[n + 1]
           w == x \o z
<1>1. Len(s) \in Nat /\ n \in 0..Len(s) /\ n + 1 \in 0..Len(s) /\ n + 1 \in 1..Len(s)
  OBVIOUS
<1>2. x \in Seq(A) /\ y \in Seq(A) /\ Len(x) \in Nat
  BY <1>1, JoinedTyped
<1>3. z \in Seq(A)
  BY <1>1
<1>4. /\ Len(y) = Len(x) + Len(z)
      /\ \A k \in 1..Len(x) : y[k] = x[k]
      /\ \A k \in 1..Len(z) : y[Len(x) + k] = z[k]
  BY JoinedNext DEF IsJoinedNext
<1> HIDE DEF x, y, z
<1>5. w \in Seq(A) /\ Len(w) = Len(x) + Len(z) /\ \A k \in 1..Len(x) : w[k] = x[k]
  BY <1>2, <1>3, ConcatFirst
<1>6. \A k \in 1..Len(z) : w[Len(x) + k] = z[k]
  BY <1>2, <1>3, ConcatSecond
<1>7. Len(z) \in Nat
  BY <1>3
<1>8. ASSUME NEW k \in 1..Len(y) PROVE y[k] = w[k]
  <2> DEFINE l == Len(x)
             m == Len(z)
  <2>1. l \in Nat /\ m \in Nat /\ k \in 1..(l + m)
    BY <1>2, <1>4, <1>7
  <2> HIDE DEF l, m, w
  <2>2. k \in 1..l \/ (k - l \in 1..m /\ k = l + (k - l))
    BY <2>1
  <2>3. CASE k \in 1..l
    BY <1>4, <1>5, <2>3 DEF l
  <2>4. CASE k - l \in 1..m /\ k = l + (k - l)
    BY <1>4, <1>6, <2>4 DEF l, m
  <2> QED BY <2>2, <2>3, <2>4
<1> HIDE DEF w
<1>9. y = w
  BY <1>2, <1>4, <1>5, <1>8, SameElements
<1> QED BY <1>9 DEF IsJoinedMore, w, x, y, z

\* An empty one adds nothing.
LEMMA JoinedSame ==
    ASSUME NEW A, NEW s \in Seq(Seq(A)), NEW n \in Nat, n + 1 <= Len(s), s[n + 1] = <<>>
    PROVE  JoinedTo(s, n + 1) = JoinedTo(s, n)
<1>1. n \in 0..Len(s)
  OBVIOUS
<1>2. JoinedTo(s, n) \in Seq(A)
  BY <1>1, JoinedTyped
<1>3. JoinedTo(s, n + 1) = JoinedTo(s, n) \o <<>>
  BY JoinedMore DEF IsJoinedMore
<1> HIDE DEF JoinedTo
<1> QED BY <1>2, <1>3

-----------------------------------------------------------------------------
\* Where one of several sequences is in all of them joined.
IsWithin(s, k) ==
    /\ Len(JoinedTo(s, k)) = Len(JoinedTo(s, k - 1)) + Len(s[k])
    /\ Len(JoinedTo(s, k)) <= Len(FlattenSeq(s))
    /\ \A m \in 1..Len(s[k]) : FlattenSeq(s)[Len(JoinedTo(s, k - 1)) + m] = s[k][m]

LEMMA WhereIs ==
    ASSUME NEW A, NEW s \in Seq(Seq(A)), NEW k \in 1..Len(s)
    PROVE  IsWithin(s, k)
<1> DEFINE n == k - 1
           at == Len(JoinedTo(s, n))
           l == Len(s[k])
           w == FlattenSeq(s)
           j == JoinedTo(s, k)
<1>1. /\ n \in Nat /\ n + 1 <= Len(s) /\ n + 1 = k /\ n \in 0..Len(s) /\ k \in 0..Len(s)
      /\ Len(s) \in k..Len(s) /\ Len(s) \in 0..Len(s)
  <2> DEFINE B == Seq(A)
             N == Len(s)
  <2>1. s \in Seq(B)
    OBVIOUS
  <2> HIDE DEF B
  <2>2. N \in Nat /\ k \in 1..N
    BY <2>1
  <2> HIDE DEF N
  <2>3. n \in Nat /\ n + 1 <= N /\ n + 1 = k /\ n \in 0..N /\ k \in 0..N /\ N \in k..N /\ N \in 0..N
    BY <2>2
  <2> QED BY <2>3 DEF N
<1> HIDE DEF n
<1>2. IsJoinedNext(s, n)
  BY <1>1, JoinedNext
<1>3. IsJoinedFirst(s, k, Len(s))
  BY <1>1, JoinedStays
<1>4. JoinedTo(s, Len(s)) = w
  BY JoinedAll
<1>5. at \in Nat /\ l \in Nat /\ Len(j) \in Nat
  <2>1. at \in Nat /\ Len(j) \in Nat
    BY <1>1, JoinedTyped
  <2>2. s[k] \in Seq(A)
    OBVIOUS
  <2> QED BY <2>1, <2>2
<1>6. Len(j) = at + l /\ \A m \in 1..l : j[at + m] = s[k][m]
  BY <1>1, <1>2 DEF IsJoinedNext
<1>7. Len(j) <= Len(w) /\ \A m \in 1..Len(j) : w[m] = j[m]
  BY <1>3, <1>4 DEF IsJoinedFirst
<1> HIDE DEF at, l, w, j
<1>8. ASSUME NEW m \in 1..l PROVE w[at + m] = s[k][m]
  <2>1. at + m \in 1..Len(j)
    BY <1>5, <1>6
  <2> QED BY <1>6, <1>7, <2>1
<1> QED BY <1>6, <1>7, <1>8 DEF IsWithin, at, l, w, j, n

\* The length of what is behind one of them.
IsTailLength(s, i) ==
    Len(FlattenSeq(SubSeq(s, i, Len(s)))) + Len(JoinedTo(s, i - 1)) = Len(FlattenSeq(s))

LEMMA TailLength ==
    ASSUME NEW A, NEW s \in Seq(Seq(A)), NEW i \in 1..Len(s)
    PROVE  IsTailLength(s, i)
<1> DEFINE B == Seq(A)
           N == Len(s)
           Behind(j) == FlattenSeq(SubSeq(s, i, j))
           at == Len(JoinedTo(s, i - 1))
           S == {d \in Nat : i - 1 + d <= N =>
                    /\ SubSeq(s, i, i - 1 + d) \in Seq(B)
                    /\ Len(Behind(i - 1 + d)) + at = Len(JoinedTo(s, i - 1 + d))}
<1>1. N \in Nat /\ i \in 1..N /\ s \in Seq(B)
  OBVIOUS
<1>2. at \in Nat
  <2>1. i - 1 \in 0..Len(s)
    BY <1>1
  <2> HIDE DEF N
  <2> QED BY <2>1, JoinedTyped
<1> HIDE DEF B, N
<1>3. 0 \in S
  <2>1. i - 1 + 0 = i - 1 /\ i > i - 1
    BY <1>1
  <2>2. SubSeq(s, i, i - 1) = <<>>
    BY <1>1, <2>1
  <2>3. FlattenSeq(<<>>) = <<>>
    BY DEF FlattenSeq
  <2>4. Len(Behind(i - 1)) = 0 /\ SubSeq(s, i, i - 1) \in Seq(B)
    <3>1. Behind(i - 1) = <<>>
      BY <2>2, <2>3, Zenon
    <3>2. <<>> \in Seq(B) /\ Len(<<>>) = 0
      OBVIOUS
    <3> HIDE DEF Behind
    <3> QED BY <2>2, <3>1, <3>2
  <2> HIDE DEF Behind
  <2>5. Len(Behind(i - 1)) + at = Len(JoinedTo(s, i - 1))
    BY <1>2, <2>4
  <2> QED BY <2>1, <2>4, <2>5
<1>4. ASSUME NEW d \in S PROVE d + 1 \in S
  <2> DEFINE j == i - 1 + d
             k == i - 1 + (d + 1)
             t == SubSeq(s, i, j)
             u == SubSeq(s, i, k)
  <2>1. SUFFICES ASSUME k <= N PROVE u \in Seq(B) /\ Len(Behind(k)) + at = Len(JoinedTo(s, k))
    <3> HIDE DEF Behind
    <3> QED OBVIOUS
  <2>2. /\ j \in Nat /\ k = j + 1 /\ j <= N /\ k \in 1..N /\ i <= k /\ i \in Nat \ {0} /\ i <= j + 1
        /\ j - i + 1 = d /\ k - i + 1 = d + 1 /\ d \in Nat /\ k \in Nat /\ i <= k + 1
    BY <1>1, <2>1
  <2>3. t \in Seq(B) /\ Len(Behind(j)) + at = Len(JoinedTo(s, j))
    <3> HIDE DEF Behind
    <3> QED BY <2>2
  <2>4. Len(t) = d /\ \A m \in 1..d : t[m] = s[i + m - 1]
    BY <1>1, <2>2, PartTyped DEF N
  <2>5. u \in Seq(B) /\ Len(u) = d + 1 /\ \A m \in 1..(d + 1) : u[m] = s[i + m - 1]
    <3>1. k <= Len(s)
      BY <1>1, <2>2 DEF N
    <3>2. s \in Seq(B) /\ i \in Nat \ {0} /\ k \in Nat /\ i <= k + 1 /\ k - i + 1 = d + 1
      BY <1>1, <2>2
    <3> HIDE DEF k, j
    <3>3. /\ SubSeq(s, i, k) \in Seq(B) /\ Len(SubSeq(s, i, k)) = k - i + 1
          /\ \A m \in 1..(k - i + 1) : SubSeq(s, i, k)[m] = s[i + m - 1]
      BY <3>1, <3>2, PartTyped
    <3> QED BY <3>2, <3>3
  <2>6. s[k] \in B
    BY <1>1, <2>2 DEF N
  <2>7. u[d + 1] = s[k]
    <3>1. d + 1 \in 1..(d + 1) /\ i + (d + 1) - 1 = k
      BY <1>1, <2>2
    <3> QED BY <2>5, <3>1
  <2> HIDE DEF t, u, j, k
  <2>8. ASSUME NEW m \in 1..Len(t) PROVE u[m] = t[m]
    <3>1. m \in 1..d /\ m \in 1..(d + 1)
      BY <2>2, <2>4
    <3> QED BY <2>4, <2>5, <3>1
  <2>9. IsFlattenedMore(t, u, s[k])
    <3>1. t \in Seq(Seq(A)) /\ u \in Seq(Seq(A)) /\ s[k] \in Seq(A)
      BY <2>3, <2>5, <2>6 DEF B
    <3> QED BY <2>4, <2>5, <2>7, <2>8, <3>1, FlattenMore
  <2>10. IsJoinedNext(s, j)
    <3>1. j + 1 <= Len(s)
      BY <2>1, <2>2 DEF N
    <3> QED BY <2>2, <3>1, JoinedNext
  <2> DEFINE x == Behind(j)
             z == s[k]
             y == Behind(k)
  <2>11. x \in Seq(A) /\ z \in Seq(A) /\ y = x \o z
    <3>1. t \in Seq(Seq(A)) /\ z \in Seq(A)
      BY <2>3, <2>6 DEF B
    <3>2. FlattenSeq(t) \in Seq(A)
      BY <3>1, FlattenTyped
    <3> QED BY <2>9, <3>1, <3>2 DEF IsFlattenedMore, t, u
  <2> HIDE DEF Behind
  <2>12. Len(x) + at = Len(JoinedTo(s, j))
    BY <2>3
  <2>13. Len(JoinedTo(s, k)) = Len(JoinedTo(s, j)) + Len(z)
    BY <2>2, <2>10 DEF IsJoinedNext
  <2> HIDE DEF x, y, z
  <2>14. Len(y) = Len(x) + Len(z) /\ Len(x) \in Nat /\ Len(z) \in Nat
    BY <2>11
  <2> DEFINE p == Len(JoinedTo(s, k))
             q == Len(JoinedTo(s, j))
  <2> HIDE DEF p, q, at
  <2>15. Len(y) + at = p
    <3>1. Len(x) + at = q /\ p = q + Len(z)
      BY <2>12, <2>13 DEF p, q
    <3> QED BY <1>2, <2>14, <3>1
  <2> QED BY <2>5, <2>15 DEF y, p, u
<1>5. S = Nat
  <2>1. S \in SUBSET Nat
    <3> HIDE DEF Behind
    <3> QED OBVIOUS
  <2> HIDE DEF S
  <2> QED BY <1>3, <1>4, <2>1, SetOfNaturals
<1>6. Len(Behind(N)) + at = Len(JoinedTo(s, N))
  <2> DEFINE d == N - i + 1
  <2>1. d \in Nat /\ i - 1 + d = N /\ N <= N
    BY <1>1
  <2>2. d \in S
    <3> HIDE DEF S, d
    <3> QED BY <1>5, <2>1
  <2> HIDE DEF Behind, d
  <2> QED BY <2>1, <2>2
<1>7. JoinedTo(s, N) = FlattenSeq(s)
  BY JoinedAll DEF N
<1> QED BY <1>6, <1>7 DEF IsTailLength, N

\* Sequences of the same lengths are at the same places.
LEMMA SameLengths ==
    ASSUME NEW A, NEW s \in Seq(Seq(A)), NEW t \in Seq(Seq(A)), Len(s) = Len(t),
           \A i \in 1..Len(s) : Len(s[i]) = Len(t[i]), NEW n \in 0..Len(s)
    PROVE  Len(JoinedTo(s, n)) = Len(JoinedTo(t, n))
<1> DEFINE N == Len(s)
           S == {m \in Nat : m <= N => Len(JoinedTo(s, m)) = Len(JoinedTo(t, m))}
<1>1. N \in Nat /\ N = Len(t) /\ n \in Nat /\ n <= N
  <2> DEFINE B == Seq(A)
  <2>1. s \in Seq(B)
    OBVIOUS
  <2> HIDE DEF B
  <2> QED BY <2>1
<1> HIDE DEF N
<1>2. 0 \in S
  BY JoinedNone
<1>3. ASSUME NEW m \in S PROVE m + 1 \in S
  <2> SUFFICES ASSUME m + 1 <= N PROVE Len(JoinedTo(s, m + 1)) = Len(JoinedTo(t, m + 1))
    OBVIOUS
  <2>1. m \in Nat /\ m + 1 \in 1..N /\ m <= N /\ m + 1 <= Len(s) /\ m + 1 <= Len(t)
    BY <1>1 DEF N
  <2>2. IsJoinedNext(s, m) /\ IsJoinedNext(t, m)
    BY <2>1, JoinedNext
  <2>3. Len(JoinedTo(s, m)) = Len(JoinedTo(t, m)) /\ Len(s[m + 1]) = Len(t[m + 1])
    BY <2>1 DEF N
  <2> QED BY <2>2, <2>3 DEF IsJoinedNext
<1>4. S = Nat
  <2>1. S \in SUBSET Nat
    OBVIOUS
  <2> HIDE DEF S
  <2> QED BY <1>2, <1>3, <2>1, SetOfNaturals
<1>5. n \in S
  <2> HIDE DEF S
  <2> QED BY <1>1, <1>4
<1> QED BY <1>1, <1>5

-----------------------------------------------------------------------------
\* A part of a sequence and the next element.
IsNextPart(s, k) == SubSeq(s, 1, k) = SubSeq(s, 1, k - 1) \o <<s[k]>>

LEMMA NextPart ==
    ASSUME NEW A, NEW s \in Seq(A), NEW k \in 1..Len(s)
    PROVE  IsNextPart(s, k)
<1> DEFINE j == k - 1
           t == SubSeq(s, 1, j)
           u == SubSeq(s, 1, k)
           x == s[k]
           v == t \o <<x>>
<1>1. /\ Len(s) \in Nat /\ j \in Nat /\ j <= Len(s) /\ k <= Len(s) /\ k \in Nat /\ x \in A /\ k = j + 1
      /\ 1 <= j + 1 /\ 1 <= k + 1 /\ j - 1 + 1 = j /\ k - 1 + 1 = k
  OBVIOUS
<1> HIDE DEF j
<1>2. t \in Seq(A) /\ Len(t) = j /\ \A i \in 1..j : t[i] = s[1 + i - 1]
  BY <1>1, PartTyped
<1>3. u \in Seq(A) /\ Len(u) = k /\ \A i \in 1..k : u[i] = s[1 + i - 1]
  BY <1>1, PartTyped
<1> HIDE DEF t, u
<1>4. v \in Seq(A) /\ Len(v) = k /\ v[k] = x /\ \A i \in 1..j : v[i] = t[i]
  <2> HIDE DEF x
  <2> QED BY <1>1, <1>2
<1> HIDE DEF v
<1>5. ASSUME NEW i \in 1..Len(u) PROVE u[i] = v[i]
  <2>1. 1 + i - 1 = i /\ (i \in 1..j \/ i = k) /\ i \in 1..k
    BY <1>1, <1>3
  <2> QED BY <1>2, <1>3, <1>4, <2>1 DEF x
<1>6. u = v
  BY <1>3, <1>4, <1>5, SameElements
<1> QED BY <1>6 DEF IsNextPart, u, v, t, x, j

\* The first of a sequence that something is put before.
LEMMA FirstWhere ==
    ASSUME NEW A, NEW x \in A, NEW t \in Seq(A), NEW s, s = <<x>> \o t
    PROVE  s # <<>> /\ s[1] = x
<1>1. Len(s) = 1 + Len(t) /\ s[1] = x /\ Len(t) \in Nat
  OBVIOUS
<1> QED BY <1>1

\* The last element of a sequence in another way.
IsLastIn(t, r) == t # <<>> /\ Last(t) = r /\ Len(t) \in DOMAIN t /\ t[Len(t)] = r
IsChanged(t, u, x) == [t EXCEPT ![Len(t)] = x] = u

LEMMA LastAppended ==
    ASSUME NEW A, NEW s \in Seq(A), NEW r \in A, NEW t, t = Append(s, r)
    PROVE  IsLastIn(t, r)
<1>1. t[Len(t)] = r /\ t # <<>> /\ Len(t) \in DOMAIN t /\ t \in Seq(A)
  OBVIOUS
<1> QED BY <1>1 DEF Last, IsLastIn

LEMMA LastChanged ==
    ASSUME NEW A, NEW s \in Seq(A), NEW r \in A, NEW x \in A, NEW t, t = Append(s, r),
           NEW w, w = Append(s, x)
    PROVE  IsChanged(t, w, x)
<1> DEFINE u == [t EXCEPT ![Len(t)] = x]
           v == Append(s, x)
<1>1. /\ t \in Seq(A) /\ Len(t) = Len(s) + 1 /\ t[Len(t)] = r /\ t # <<>> /\ \A i \in 1..Len(s) : t[i] = s[i]
      /\ Len(t) \in DOMAIN t /\ Len(s) \in Nat
  OBVIOUS
<1>2. /\ v \in Seq(A) /\ Len(v) = Len(s) + 1 /\ v[Len(s) + 1] = x /\ \A i \in 1..Len(s) : v[i] = s[i]
  OBVIOUS
<1>3. u \in Seq(A) /\ Len(u) = Len(s) + 1
  BY <1>1
<1>4. ASSUME NEW i \in 1..Len(u) PROVE u[i] = v[i]
  <2>1. i \in 1..Len(s) \/ i = Len(s) + 1
    BY <1>1, <1>3
  <2>2. CASE i \in 1..Len(s)
    <3>1. u[i] = t[i]
      <4>1. i # Len(t) /\ i \in DOMAIN t
        BY <1>1, <2>2
      <4> QED BY <4>1, Zenon
    <3> HIDE DEF u, v
    <3> QED BY <1>1, <1>2, <2>2, <3>1
  <2>3. CASE i = Len(s) + 1
    <3>1. u[i] = x
      BY <1>1, <2>3
    <3> HIDE DEF u, v
    <3> QED BY <1>2, <2>3, <3>1
  <2> QED BY <2>1, <2>2, <2>3
<1> HIDE DEF u, v
<1>5. u = v
  BY <1>2, <1>3, <1>4, SameElements
<1> QED BY <1>5 DEF u, v, IsChanged
=============================================================================
