-------------------------- MODULE ReflectionProofs --------------------------
(***************************************************************************)
(* Proofs about Reflection.                                                *)
(***************************************************************************)
EXTENDS Reflection, SequenceTheorems, FiniteSetTheorems, WellFoundedInduction, TLAPS

\* A set of natural numbers that is not empty has a least element.
LEMMA Least ==
  ASSUME NEW U \in SUBSET Nat, U # {}
  PROVE  \E n \in U : \A m \in U : n <= m
<1>1. PICK n \in U : \A m \in U : ~ (<<m, n>> \in OpToRel(<, Nat))
  BY NatLessThanWellFounded, WFMin
<1>2. \A m \in U : ~ (m < n) /\ m \in Nat /\ n \in Nat
  BY <1>1 DEF OpToRel
<1>3. QED
  BY <1>2

\* Induction up to n.
LEMMA UpTo ==
  ASSUME NEW n \in Nat, NEW T,
         0 \in T, \A k \in 0 .. n - 1 : k \in T => k + 1 \in T
  PROVE  0 .. n \subseteq T
<1> DEFINE U == (0 .. n) \ T
<1>1. SUFFICES ASSUME U # {} PROVE FALSE
  OBVIOUS
<1>2. PICK x \in U : \A y \in U : x <= y
  <2>1. U \in SUBSET Nat
    OBVIOUS
  <2> HIDE DEF U
  <2>2. QED
    BY <1>1, <2>1, Least
<1>3. x - 1 \in 0 .. n - 1 /\ (x - 1) + 1 = x
  OBVIOUS
<1>4. x - 1 \in U
  BY <1>3
<1>5. QED
  BY <1>2, <1>3, <1>4

\* Induction from n down to 1.
LEMMA DownFrom ==
  ASSUME NEW n \in Nat, NEW T,
         n \in T, \A k \in 1 .. n - 1 : k + 1 \in T => k \in T
  PROVE  1 .. n \subseteq T
<1> DEFINE S == {k \in 0 .. n : n - k \in T \/ n - k = 0}
<1>1. 0 \in S
  OBVIOUS
<1>2. ASSUME NEW k \in 0 .. n - 1, k \in S PROVE k + 1 \in S
  <2>1. CASE n - (k + 1) = 0
    BY <2>1
  <2>2. CASE n - (k + 1) # 0
    <3>1. n - (k + 1) \in 1 .. n - 1 /\ (n - (k + 1)) + 1 = n - k /\ n - k # 0
      BY <2>2
    <3>2. n - k \in T
      BY <1>2, <3>1
    <3>3. n - (k + 1) \in T
      BY <3>1, <3>2
    <3>4. QED
      BY <3>3
  <2>3. QED
    BY <2>1, <2>2
<1>3. 0 .. n \subseteq S
  <2> HIDE DEF S
  <2>1. QED
    BY <1>1, <1>2, UpTo
<1>4. ASSUME NEW i \in 1 .. n PROVE i \in T
  <2>1. n - i \in 0 .. n /\ n - (n - i) = i
    OBVIOUS
  <2>2. n - i \in S
    BY <1>3, <2>1
  <2>3. QED
    BY <2>1, <2>2
<1>5. QED
  BY <1>4

-----------------------------------------------------------------------------
(* A function that is defined from each number to the next exists. *)
Chain(g, N, X, base, step) ==
  /\ g \in [0 .. N -> X]
  /\ g[0] = base
  /\ \A k \in 1 .. N : g[k] = step[k][g[k - 1]]

LEMMA Iterates ==
  ASSUME NEW N \in Nat, NEW X, NEW base \in X, NEW step,
         \A k \in 1 .. N : step[k] \in [X -> X]
  PROVE  \E g : Chain(g, N, X, base, step)
<1> DEFINE Upto(g, m) == g[0] = base /\ \A k \in 1 .. m : g[k] = step[k][g[k - 1]]
           T == {m \in 0 .. N : \E g \in [0 .. N -> X] : Upto(g, m)}
<1>1. 0 \in T
  <2> DEFINE g == [k \in 0 .. N |-> base]
  <2>1. g \in [0 .. N -> X] /\ Upto(g, 0)
    OBVIOUS
  <2> HIDE DEF g, Upto
  <2>2. QED
    BY <2>1
<1>2. ASSUME NEW m \in 0 .. N - 1, m \in T PROVE m + 1 \in T
  <2>1. PICK g \in [0 .. N -> X] : Upto(g, m)
    BY <1>2
  <2> DEFINE x == step[m + 1][g[m]]
             h == [g EXCEPT ![m + 1] = x]
  <2>2. x \in X
    OBVIOUS
  <2>3. h \in [0 .. N -> X] /\ h[m + 1] = x /\ \A k \in 0 .. m : h[k] = g[k]
    BY <2>2
  <2> HIDE DEF h, x
  <2>4. ASSUME NEW k \in 1 .. m + 1 PROVE h[k] = step[k][h[k - 1]]
    <3>1. CASE k = m + 1
      BY <2>3, <3>1 DEF x
    <3>2. CASE k # m + 1
      BY <2>1, <2>3, <3>2
    <3>3. QED
      BY <3>1, <3>2
  <2>5. Upto(h, m + 1)
    BY <2>1, <2>3, <2>4
  <2>6. QED
    BY <2>3, <2>5
<1>3. N \in T
  <2> HIDE DEF T
  <2>1. 0 .. N \subseteq T
    BY <1>1, <1>2, UpTo
  <2>2. QED
    BY <2>1
<1>4. QED
  BY <1>3 DEF Chain

\* The same, from each number to the one before it.
DownChain(g, N, X, base, step) ==
  /\ g \in [0 .. N -> X]
  /\ g[N] = base
  /\ \A k \in 0 .. N - 1 : g[k] = step[k][g[k + 1]]

LEMMA IteratesDown ==
  ASSUME NEW N \in Nat, NEW X, NEW base \in X, NEW step,
         \A k \in 0 .. N - 1 : step[k] \in [X -> X]
  PROVE  \E g : DownChain(g, N, X, base, step)
<1> DEFINE back == [k \in 1 .. N |-> step[N - k]]
<1>1. ASSUME NEW k \in 1 .. N PROVE back[k] \in [X -> X]
  <2>1. N - k \in 0 .. N - 1
    OBVIOUS
  <2>2. QED
    BY <2>1
<1>2. PICK g : Chain(g, N, X, base, back)
  <2> HIDE DEF back
  <2>1. QED
    BY <1>1, Iterates
<1> DEFINE h == [k \in 0 .. N |-> g[N - k]]
<1>3. h \in [0 .. N -> X] /\ h[N] = base
  <2>1. \A k \in 0 .. N : N - k \in 0 .. N
    OBVIOUS
  <2>2. N - N = 0
    OBVIOUS
  <2>3. QED
    BY <1>2, <2>1, <2>2 DEF Chain
<1>4. ASSUME NEW k \in 0 .. N - 1 PROVE h[k] = step[k][h[k + 1]]
  <2>1. N - k \in 1 .. N /\ (N - k) - 1 = N - (k + 1) /\ k \in 0 .. N /\ k + 1 \in 0 .. N /\ N - (N - k) = k
    OBVIOUS
  <2>2. h[k] = g[N - k] /\ h[k + 1] = g[N - (k + 1)] /\ back[N - k] = step[k]
    BY <2>1
  <2>3. g[N - k] = back[N - k][g[(N - k) - 1]]
    BY <1>2, <2>1 DEF Chain
  <2> HIDE DEF h, back
  <2>4. QED
    BY <2>1, <2>2, <2>3
<1>5. DownChain(h, N, X, base, step)
  <2> HIDE DEF h
  <2>1. QED
    BY <1>3, <1>4 DEF DownChain
<1>6. QED
  BY <1>5

(* What FlattenSeq makes of sequences of sequences, from each to the next. *)
Flattens(g, S, ss) ==
  /\ g \in [0 .. Len(ss) -> Seq(S)]
  /\ FlattenSeq(ss) = g[Len(ss)]
  /\ g[0] = << >>
  /\ \A k \in 1 .. Len(ss) : g[k] = g[k - 1] \o ss[k]

LEMMA FlattenEquation ==
  ASSUME NEW S, NEW ss \in Seq(Seq(S))
  PROVE  \E g : Flattens(g, S, ss)
<1> DEFINE N == Len(ss)
           step == [k \in 1 .. N |-> [s \in Seq(S) |-> s \o ss[k]]]
<1>0. N \in Nat /\ \A k \in 1 .. N : ss[k] \in Seq(S)
  OBVIOUS
<1>1. PICK g \in [0 .. N -> Seq(S)] :
         g[0] = << >> /\ \A k \in 1 .. N : g[k] = step[k][g[k - 1]]
  <2>1. << >> \in Seq(S)
    OBVIOUS
  <2>2. ASSUME NEW k \in 1 .. N PROVE step[k] \in [Seq(S) -> Seq(S)]
    <3>1. \A s \in Seq(S) : s \o ss[k] \in Seq(S)
      BY <1>0
    <3>2. QED
      BY <3>1
  <2> DEFINE X == Seq(S)
             base == << >>
  <2>3. base \in X /\ \A k \in 1 .. N : step[k] \in [X -> X]
    BY <2>1, <2>2
  <2> HIDE DEF step, N, X, base
  <2>4. \E g : Chain(g, N, X, base, step)
    BY <1>0, <2>3, Iterates
  <2>5. QED
    BY <2>4 DEF X, base, Chain
<1> HIDE DEF step
<1>2. ASSUME NEW k \in 1 .. N PROVE g[k] = g[k - 1] \o ss[k]
  <2>1. k - 1 \in 0 .. N
    BY <1>0
  <2>2. step[k][g[k - 1]] = g[k - 1] \o ss[k]
    BY <2>1 DEF step
  <2>3. QED
    BY <1>1, <2>2
<1>3. ASSUME N = 0 PROVE FlattenSeq(ss) = g[N]
  BY <1>1, <1>2, <1>3 DEF FlattenSeq
<1>4. ASSUME N # 0 PROVE FlattenSeq(ss) = g[N]
  <2> DEFINE Eq(f) == f = [i \in 1 .. N |-> IF i = 1 THEN ss[i] ELSE f[i - 1] \o ss[i]]
             h == [i \in 1 .. N |-> g[i]]
             f == CHOOSE f : Eq(f)
  <2>1. h = [i \in 1 .. N |-> IF i = 1 THEN ss[i] ELSE h[i - 1] \o ss[i]]
    <3>1. ASSUME NEW i \in 1 .. N
          PROVE  g[i] = IF i = 1 THEN ss[i] ELSE h[i - 1] \o ss[i]
      <4>1. CASE i = 1
        <5>1. ss[i] \in Seq(S) /\ g[i] = g[i - 1] \o ss[i]
          BY <1>0, <1>2
        <5>2. g[i - 1] = << >>
          BY <1>1, <4>1
        <5>3. QED
          BY <4>1, <5>1, <5>2
      <4>2. CASE i # 1
        <5>1. i - 1 \in 1 .. N
          BY <1>0, <4>2
        <5>2. QED
          BY <1>2, <4>2, <5>1
      <4>3. QED
        BY <4>1, <4>2
    <3>2. QED
      BY <3>1
  <2>2. Eq(f)
    BY <2>1
  <2>3. FlattenSeq(ss) = f[N]
    BY <1>4 DEF FlattenSeq
  <2> DEFINE T == {k \in 0 .. N : k # 0 => f[k] = g[k]}
  <2>4. ASSUME NEW k \in 0 .. N - 1, k \in T PROVE k + 1 \in T
    <3>0. k + 1 \in 1 .. N /\ (k + 1) - 1 = k
      BY <1>0
    <3>3. h[k + 1] = g[k + 1] /\ (k # 0 => h[k] = g[k])
      BY <3>0
    <3>5. k # 0 => f[k] = g[k]
      BY <2>4
    <3>6. f = [i \in 1 .. N |-> IF i = 1 THEN ss[i] ELSE f[i - 1] \o ss[i]]
      BY <2>2
    <3> HIDE DEF T, f, h
    <3>7. ASSUME NEW i \in 1 .. N
          PROVE  f[i] = IF i = 1 THEN ss[i] ELSE f[i - 1] \o ss[i]
      BY <3>6
    <3>8. ASSUME NEW i \in 1 .. N
          PROVE  h[i] = IF i = 1 THEN ss[i] ELSE h[i - 1] \o ss[i]
      BY <2>1
    <3> HIDE DEF N
    <3>1. f[k + 1] = IF k + 1 = 1 THEN ss[k + 1] ELSE f[k] \o ss[k + 1]
      BY <3>0, <3>7
    <3>2. h[k + 1] = IF k + 1 = 1 THEN ss[k + 1] ELSE h[k] \o ss[k + 1]
      BY <3>0, <3>8
    <3>9. f[k + 1] = g[k + 1]
      BY <1>0, <3>1, <3>2, <3>3, <3>5
    <3>4. QED
      BY <3>0, <3>9 DEF T
  <2>5. N \in T
    <3>1. 0 \in T
      BY <1>0
    <3> HIDE DEF T
    <3>2. 0 .. N \subseteq T
      BY <1>0, <2>4, <3>1, UpTo
    <3>3. QED
      BY <1>0, <3>2
  <2>6. QED
    BY <1>1, <1>2, <1>4, <2>3, <2>5
<1>5. QED
  BY <1>1, <1>2, <1>3, <1>4 DEF Flattens, N

LEMMA FlattenType ==
  ASSUME NEW S, NEW ss \in Seq(Seq(S))
  PROVE  FlattenSeq(ss) \in Seq(S)
<1>1. PICK g : Flattens(g, S, ss)
  BY FlattenEquation
<1>2. Len(ss) \in 0 .. Len(ss)
  OBVIOUS
<1>3. QED
  BY <1>1, <1>2 DEF Flattens

-----------------------------------------------------------------------------
(* What a walk may come to: records of a path and a number each, in R.     *)
Outcomes(R) == [ok : BOOLEAN, out : Seq(R)]

LEMMA ThenType ==
  ASSUME NEW R, NEW r \in Outcomes(R), NEW w \in Outcomes(R)
  PROVE  Then(r, w) \in Outcomes(R)
BY DEF Then, Outcomes

Runs(g, R, before, walks) ==
  /\ g \in [0 .. Len(walks) -> Outcomes(R)]
  /\ InOrder(before, walks) = g[Len(walks)]
  /\ g[0] = before
  /\ \A k \in 1 .. Len(walks) : g[k] = Then(g[k - 1], walks[k])

LEMMA InOrderEquation ==
  ASSUME NEW R, NEW before \in Outcomes(R), NEW walks \in Seq(Outcomes(R))
  PROVE  \E g : Runs(g, R, before, walks)
<1> DEFINE N == Len(walks)
           X == Outcomes(R)
           step == [k \in 1 .. N |-> [r \in X |-> Then(r, walks[k])]]
<1>0. N \in Nat /\ \A k \in 1 .. N : walks[k] \in X
  OBVIOUS
<1>1. ASSUME NEW k \in 1 .. N PROVE step[k] \in [X -> X]
  BY <1>0, ThenType
<1> HIDE DEF N, X
<1>2. PICK g : Chain(g, N, X, before, step)
  <2>1. before \in X
    BY DEF X
  <2> HIDE DEF step
  <2>2. QED
    BY <1>0, <1>1, <2>1, Iterates
<1>3. g \in [0 .. N -> X] /\ g[0] = before
  BY <1>2 DEF Chain
<1>4. ASSUME NEW k \in 1 .. N PROVE g[k] = Then(g[k - 1], walks[k])
  <2>1. k - 1 \in 0 .. N
    BY <1>0
  <2>2. g[k - 1] \in X
    BY <1>3, <2>1
  <2>3. g[k] = step[k][g[k - 1]]
    BY <1>2 DEF Chain
  <2>4. QED
    BY <2>2, <2>3
<1> DEFINE Eq(f) == f = [k \in 0 .. N |-> IF k = 0 THEN before ELSE Then(f[k - 1], walks[k])]
           f == CHOOSE f : Eq(f)
<1>5. Eq(f)
  <2>1. ASSUME NEW k \in 0 .. N
        PROVE  g[k] = IF k = 0 THEN before ELSE Then(g[k - 1], walks[k])
    <3>1. k # 0 => k \in 1 .. N
      BY <1>0
    <3>2. QED
      BY <1>3, <1>4, <3>1
  <2>2. g = [k \in 0 .. N |-> IF k = 0 THEN before ELSE Then(g[k - 1], walks[k])]
    BY <1>3, <2>1
  <2>3. Eq(g)
    BY <2>2
  <2> HIDE DEF Eq
  <2>4. QED
    BY <2>3
<1>6. InOrder(before, walks) = f[N]
  BY DEF InOrder, N
<1> DEFINE T == {k \in 0 .. N : f[k] = g[k]}
<1> HIDE DEF f
<1>7. \A k \in 0 .. N : f[k] = IF k = 0 THEN before ELSE Then(f[k - 1], walks[k])
  BY <1>5
<1>8. 0 .. N \subseteq T
  <2>1. 0 \in T
    BY <1>0, <1>3, <1>7
  <2>2. ASSUME NEW k \in 0 .. N - 1, k \in T PROVE k + 1 \in T
    <3>1. k + 1 \in 1 .. N /\ k + 1 \in 0 .. N /\ (k + 1) - 1 = k
      BY <1>0
    <3>2. f[k + 1] = Then(f[k], walks[k + 1]) /\ g[k + 1] = Then(g[k], walks[k + 1])
      BY <1>4, <1>7, <3>1
    <3>3. QED
      BY <2>2, <3>1, <3>2
  <2> HIDE DEF T
  <2>3. QED
    BY <1>0, <2>1, <2>2, UpTo
<1>9. InOrder(before, walks) = g[N]
  BY <1>0, <1>6, <1>8
<1>10. QED
  BY <1>3, <1>4, <1>9 DEF N, X, Runs

LEMMA InOrderType ==
  ASSUME NEW R, NEW before \in Outcomes(R), NEW walks \in Seq(Outcomes(R))
  PROVE  InOrder(before, walks) \in Outcomes(R)
<1>1. Len(walks) \in 0 .. Len(walks)
  OBVIOUS
<1>2. QED
  BY <1>1, InOrderEquation DEF Runs

-----------------------------------------------------------------------------
LEMMA AppendToSet ==
  ASSUME NEW T, NEW q \in Seq(T), NEW x \in T
  PROVE  ToSet(Append(q, x)) = ToSet(q) \cup {x}
<1> DEFINE a == Append(q, x)
<1>1. /\ DOMAIN q = 1 .. Len(q) /\ Len(q) \in Nat /\ DOMAIN a = 1 .. Len(q) + 1
      /\ a[Len(q) + 1] = x /\ \A i \in 1 .. Len(q) : a[i] = q[i]
  OBVIOUS
<1> HIDE DEF a
<1>2. ASSUME NEW i \in DOMAIN a PROVE a[i] \in ToSet(q) \cup {x}
  BY <1>1 DEF ToSet
<1>3. \A i \in DOMAIN q : i \in DOMAIN a /\ q[i] = a[i]
  BY <1>1
<1>4. Len(q) + 1 \in DOMAIN a
  BY <1>1
<1>5. ToSet(a) = ToSet(q) \cup {x}
  BY <1>1, <1>2, <1>3, <1>4 DEF ToSet
<1>6. QED
  BY <1>5 DEF a

\* What is kept of the first k elements, from each k to the next.
KeptSteps(g, T, s, S) ==
  /\ g \in [0 .. Len(s) -> Seq(T)]
  /\ Kept(s, S) = g[Len(s)]
  /\ g[0] = << >>
  /\ \A k \in 0 .. Len(s) - 1 :
       /\ s[k + 1] \notin S => g[k + 1] = g[k]
       /\ s[k + 1] \in S => g[k + 1] = Append(g[k], s[k + 1])

LEMMA KeptEquation ==
  ASSUME NEW T, NEW s \in Seq(T), NEW S
  PROVE  \E g : KeptSteps(g, T, s, S)
<1> DEFINE N == Len(s)
           ss == [i \in DOMAIN s |-> IF s[i] \in S THEN <<s[i]>> ELSE << >>]
<1>0. N \in Nat /\ DOMAIN s = 1 .. N /\ \A i \in 1 .. N : s[i] \in T
  OBVIOUS
<1>1. ss \in Seq(Seq(T)) /\ Len(ss) = N /\ \A i \in 1 .. N : ss[i] = IF s[i] \in S THEN <<s[i]>> ELSE << >>
  BY <1>0
<1>2. Kept(s, S) = FlattenSeq(ss)
  BY DEF Kept
<1> HIDE DEF ss, N
<1>3. PICK g : Flattens(g, T, ss)
  BY <1>1, FlattenEquation
<1>4. /\ g \in [0 .. N -> Seq(T)]
      /\ FlattenSeq(ss) = g[N]
      /\ g[0] = << >>
      /\ \A k \in 1 .. N : g[k] = g[k - 1] \o ss[k]
  BY <1>1, <1>3 DEF Flattens
<1>5. ASSUME NEW k \in 0 .. N - 1
      PROVE  /\ s[k + 1] \notin S => g[k + 1] = g[k]
             /\ s[k + 1] \in S => g[k + 1] = Append(g[k], s[k + 1])
  <2>0. k + 1 \in 1 .. N /\ k \in 0 .. N /\ (k + 1) - 1 = k
    BY <1>0
  <2>1. g[k] \in Seq(T) /\ s[k + 1] \in T /\ g[k + 1] = g[k] \o ss[k + 1]
    BY <1>0, <1>4, <2>0
  <2>2. ASSUME NEW q \in Seq(T), NEW x \in T PROVE q \o << >> = q /\ q \o <<x>> = Append(q, x)
    OBVIOUS
  <2>3. CASE s[k + 1] \notin S
    <3>1. ss[k + 1] = << >>
      BY <1>1, <2>0, <2>3
    <3>2. QED
      BY <2>1, <2>2, <2>3, <3>1
  <2>4. CASE s[k + 1] \in S
    <3>1. ss[k + 1] = <<s[k + 1]>>
      BY <1>1, <2>0, <2>4
    <3>2. QED
      BY <2>1, <2>2, <2>4, <3>1
  <2>5. QED
    BY <2>3, <2>4
<1>6. KeptSteps(g, T, s, S)
  BY <1>2, <1>4, <1>5 DEF KeptSteps, N
<1>7. QED
  BY <1>6

(* The elements of s that are in S are what is kept, and what tells two    *)
(* apart in s by its label does so in what is kept.                        *)
Distinct(fields) ==
  \A i, j \in DOMAIN fields : fields[i].label = fields[j].label => i = j

LEMMA KeptFacts ==
  ASSUME NEW T, NEW s \in Seq(T), NEW S
  PROVE  /\ Kept(s, S) \in Seq(T)
         /\ ToSet(Kept(s, S)) = ToSet(s) \cap S
         /\ Distinct(s) => Distinct(Kept(s, S))
<1> DEFINE N == Len(s)
           To(k) == {s[i] : i \in 1 .. k} \cap S
           Good(q, k) == /\ ToSet(q) = To(k)
                         /\ Distinct(s) => Distinct(q)
<1>0. N \in Nat /\ DOMAIN s = 1 .. N /\ \A i \in 1 .. N : s[i] \in T
  OBVIOUS
<1>1. PICK g : KeptSteps(g, T, s, S)
  BY KeptEquation
<1>3. /\ g \in [0 .. N -> Seq(T)]
      /\ Kept(s, S) = g[N]
      /\ g[0] = << >>
      /\ \A k \in 0 .. N - 1 :
           /\ s[k + 1] \notin S => g[k + 1] = g[k]
           /\ s[k + 1] \in S => g[k + 1] = Append(g[k], s[k + 1])
  BY <1>1 DEF KeptSteps
<1> HIDE DEF N
<1>4. Good(g[0], 0)
  BY <1>3 DEF Distinct, ToSet
<1>5. ASSUME NEW k \in 0 .. N - 1, Good(g[k], k) PROVE Good(g[k + 1], k + 1)
  <2>0. k + 1 \in 1 .. N /\ k \in 0 .. N /\ (k + 1) - 1 = k /\ g[k] \in Seq(T) /\ s[k + 1] \in T
    BY <1>0, <1>3
  <2>1. /\ s[k + 1] \notin S => g[k + 1] = g[k]
        /\ s[k + 1] \in S => g[k + 1] = Append(g[k], s[k + 1])
    BY <1>3
  <2>2. To(k + 1) = To(k) \cup ({s[k + 1]} \cap S)
    BY <2>0
  <2>3. CASE s[k + 1] \notin S
    <3>1. g[k + 1] = g[k]
      BY <2>1, <2>3
    <3>2. To(k + 1) = To(k)
      BY <2>2, <2>3
    <3> HIDE DEF To
    <3>3. QED
      BY <1>5, <3>1, <3>2
  <2>4. CASE s[k + 1] \in S
    <3>1. g[k + 1] = Append(g[k], s[k + 1])
      BY <2>1, <2>4
    <3>2. ToSet(g[k + 1]) = ToSet(g[k]) \cup {s[k + 1]}
      BY <2>0, <3>1, AppendToSet
    <3>3. ASSUME Distinct(s) PROVE Distinct(g[k + 1])
      <4>1. ASSUME NEW i \in DOMAIN g[k] PROVE g[k][i].label # s[k + 1].label
        <5>1. g[k][i] \in To(k)
          BY <1>5 DEF ToSet
        <5>2. PICK m \in 1 .. k : g[k][i] = s[m]
          BY <5>1
        <5>3. m \in DOMAIN s /\ k + 1 \in DOMAIN s /\ m # k + 1
          BY <1>0, <2>0
        <5>4. QED
          BY <3>3, <5>2, <5>3 DEF Distinct
      <4>2. Distinct(g[k])
        BY <1>5, <3>3
      <4> HIDE DEF Good, To
      <4>3. QED
        <5>1. DOMAIN g[k] = 1 .. Len(g[k]) /\ Len(g[k]) \in Nat /\ DOMAIN g[k + 1] = 1 .. Len(g[k]) + 1
          BY <2>0, <3>1
        <5>2. \A i \in DOMAIN g[k] : g[k + 1][i] = g[k][i]
          BY <2>0, <3>1
        <5>3. g[k + 1][Len(g[k]) + 1] = s[k + 1]
          BY <2>0, <3>1
        <5>4. QED
          <6> SUFFICES ASSUME NEW i \in DOMAIN g[k + 1], NEW j \in DOMAIN g[k + 1],
                              g[k + 1][i].label = g[k + 1][j].label
                       PROVE  i = j
            BY DEF Distinct
          <6>1. CASE i \in DOMAIN g[k] /\ j \in DOMAIN g[k]
            BY <4>2, <5>2, <6>1 DEF Distinct
          <6>0. ASSUME NEW m \in DOMAIN g[k + 1], m \notin DOMAIN g[k]
                PROVE  m = Len(g[k]) + 1 /\ g[k + 1][m] = s[k + 1]
            <7>1. m = Len(g[k]) + 1
              BY <5>1, <6>0
            <7>2. QED
              BY <5>3, <7>1
          <6>2. CASE i \notin DOMAIN g[k] /\ j \in DOMAIN g[k]
            <7>1. g[k + 1][i] = s[k + 1] /\ g[k + 1][j] = g[k][j] /\ g[k][j].label # s[k + 1].label
              BY <4>1, <5>2, <6>0, <6>2
            <7>2. QED
              BY <7>1
          <6>3. CASE i \in DOMAIN g[k] /\ j \notin DOMAIN g[k]
            <7>1. g[k + 1][j] = s[k + 1] /\ g[k + 1][i] = g[k][i] /\ g[k][i].label # s[k + 1].label
              BY <4>1, <5>2, <6>0, <6>3
            <7>2. QED
              BY <7>1
          <6>4. CASE i \notin DOMAIN g[k] /\ j \notin DOMAIN g[k]
            BY <6>0, <6>4
          <6>5. QED
            BY <6>1, <6>2, <6>3, <6>4
    <3>4. To(k + 1) = To(k) \cup {s[k + 1]}
      BY <2>2, <2>4
    <3> HIDE DEF To
    <3>5. QED
      BY <1>5, <3>2, <3>3, <3>4
  <2>5. QED
    BY <2>3, <2>4
<1> DEFINE U == {k \in 0 .. N : Good(g[k], k)}
<1>6. N \in U
  <2>1. 0 \in U
    BY <1>0, <1>4
  <2>2. ASSUME NEW k \in 0 .. N - 1, k \in U PROVE k + 1 \in U
    <3> HIDE DEF Good
    <3>1. k + 1 \in 0 .. N
      BY <1>0
    <3>2. QED
      BY <1>5, <2>2, <3>1
  <2> HIDE DEF U
  <2>3. 0 .. N \subseteq U
    BY <1>0, <2>1, <2>2, UpTo
  <2>4. QED
    BY <1>0, <2>3
<1>7. To(N) = ToSet(s) \cap S
  BY <1>0 DEF ToSet
<1>8. QED
  <2> HIDE DEF To
  <2>1. g[N] \in Seq(T)
    BY <1>0, <1>3
  <2>2. QED
    BY <1>3, <1>6, <1>7, <2>1

-----------------------------------------------------------------------------
(* The walk of a view: each place's outcome from those one further down.   *)
Kid(nodes) == [label : Nat, to : nodes, marks : Seq(STRING)]

IsView(view) ==
  \A n \in DOMAIN view : /\ view[n].value \in Nat
                         /\ view[n].kids \in Seq(Kid(DOMAIN view))

PathRecord == Seq(Nat) \X Nat

LEMMA UnderType ==
  ASSUME NEW view, IsView(view), NEW at \in Places(view), NEW kid \in Kid(DOMAIN view)
  PROVE  Under(view, at, kid) \in Places(view)
<1>1. Named(view[at.node], at.path) \in Seq(Nat)
  BY DEF Named, Places, IsView
<1>2. Append(Named(view[at.node], at.path), kid.label) \in Seq(Nat)
  BY <1>1 DEF Kid
<1>3. at.visited \cup {at.node} \in SUBSET DOMAIN view /\ at.visited \in SUBSET DOMAIN view
  BY DEF Places
<1>4. kid.to \in DOMAIN view
  BY DEF Kid
<1> QED
  BY <1>2, <1>3, <1>4 DEF Under, Place, Places

LEMMA VariantType ==
  ASSUME NEW view, IsView(view), NEW at \in Places(view)
  PROVE  Recorded(Variant(view[at.node], at.path)) \in Outcomes(PathRecord)
<1>1. Append(Named(view[at.node], at.path), VariantTag) \in Seq(Nat)
  BY DEF Named, Places, IsView, VariantTag
<1>2. view[at.node].value \in Nat
  BY DEF Places, IsView
<1>3. Variant(view[at.node], at.path) \in Seq(PathRecord)
  <2>1. <<Append(Named(view[at.node], at.path), VariantTag), view[at.node].value>> \in PathRecord
    BY <1>1, <1>2 DEF PathRecord
  <2>2. \A pair \in PathRecord : <<pair>> \in Seq(PathRecord)
    OBVIOUS
  <2>3. << >> \in Seq(PathRecord)
    OBVIOUS
  <2>4. QED
    BY <2>1, <2>2, <2>3 DEF Variant
<1>4. QED
  BY <1>3 DEF Recorded, Outcomes

LEMMA VisitType ==
  ASSUME NEW view, IsView(view), NEW depth \in Nat,
         NEW deeper \in [Places(view) -> Outcomes(PathRecord)]
  PROVE  Visit(view, depth, deeper) \in [Places(view) -> Outcomes(PathRecord)]
<1> SUFFICES ASSUME NEW at \in Places(view)
             PROVE  Visit(view, depth, deeper)[at] \in Outcomes(PathRecord)
  BY DEF Visit
<1> DEFINE v == view[at.node]
           walks == [i \in DOMAIN v.kids |-> deeper[Under(view, at, v.kids[i])]]
<1>1. Failed \in Outcomes(PathRecord)
  BY DEF Failed, Outcomes
<1>2. Recorded(<< <<at.path, Leaf(v)>> >>) \in Outcomes(PathRecord)
  <2>1. Leaf(v) \in Nat /\ at.path \in Seq(Nat)
    BY DEF Leaf, NullByte, Places, IsView
  <2>2. <<at.path, Leaf(v)>> \in PathRecord
    BY <2>1 DEF PathRecord
  <2>3. << <<at.path, Leaf(v)>> >> \in Seq(PathRecord)
    BY <2>2
  <2>4. QED
    BY <2>3 DEF Recorded, Outcomes
<1>3. InOrder(Recorded(Variant(v, at.path)), walks) \in Outcomes(PathRecord)
  <2>1. v.kids \in Seq(Kid(DOMAIN view))
    BY DEF Places, IsView
  <2>2. ASSUME NEW i \in DOMAIN v.kids
        PROVE  deeper[Under(view, at, v.kids[i])] \in Outcomes(PathRecord)
    <3>1. v.kids[i] \in Kid(DOMAIN view)
      BY <2>1
    <3>2. QED
      BY <3>1, UnderType
  <2>3. DOMAIN v.kids = 1 .. Len(v.kids) /\ Len(v.kids) \in Nat
    BY <2>1
  <2> HIDE DEF v
  <2>4. walks \in Seq(Outcomes(PathRecord))
    BY <2>2, <2>3
  <2> HIDE DEF walks
  <2>5. QED
    BY <2>4, VariantType, InOrderType DEF v
<1>4. QED
  BY <1>1, <1>2, <1>3 DEF Visit

\* Beyond the limit nothing is walked.
LEMMA VisitTooDeep ==
  ASSUME NEW view, NEW deeper
  PROVE  Visit(view, MaxDepth + 1, deeper) = [at \in Places(view) |-> Failed]
BY MaxDepthAssumption DEF Visit, TooDeep

LEMMA WalkEquation ==
  ASSUME NEW view, IsView(view)
  PROVE  \A depth \in 0 .. MaxDepth + 1 :
           /\ Walk(view)[depth] \in [Places(view) -> Outcomes(PathRecord)]
           /\ Walk(view)[depth] = Visit(view, depth, Walk(view)[depth + 1])
<1> DEFINE N == MaxDepth + 1
           X == [Places(view) -> Outcomes(PathRecord)]
           base == [at \in Places(view) |-> Failed]
           step == [k \in 0 .. N - 1 |-> [d \in X |-> Visit(view, k, d)]]
           Eq(f) == f = [k \in 0 .. N |-> Visit(view, k, f[k + 1])]
<1>0. N \in Nat /\ N - 1 = MaxDepth
  BY MaxDepthAssumption
<1>1. base \in X
  BY DEF Failed, Outcomes
<1>2. ASSUME NEW k \in 0 .. N - 1, NEW d \in X PROVE Visit(view, k, d) \in X
  BY <1>0, VisitType
<1>3. \A f : Visit(view, N, f) = base
  BY VisitTooDeep
<1> HIDE DEF X, N, base
<1>4. \A k \in 0 .. N - 1 : step[k] \in [X -> X]
  BY <1>2
<1>5. PICK g : DownChain(g, N, X, base, step)
  <2> HIDE DEF step
  <2>1. QED
    BY <1>0, <1>1, <1>4, IteratesDown
<1>6. ASSUME NEW k \in 0 .. N PROVE g[k] = Visit(view, k, g[k + 1])
  <2>1. CASE k = N
    BY <1>3, <1>5, <2>1 DEF DownChain
  <2>2. CASE k # N
    <3>1. k \in 0 .. N - 1 /\ k + 1 \in 0 .. N
      BY <1>0, <2>2
    <3>2. g[k + 1] \in X /\ g[k] = step[k][g[k + 1]]
      BY <1>5, <3>1 DEF DownChain
    <3>3. QED
      BY <3>1, <3>2
  <2>3. QED
    BY <2>1, <2>2
<1>7. Eq(g)
  BY <1>5, <1>6 DEF DownChain
<1> DEFINE f == CHOOSE f : Eq(f)
<1>8. Walk(view) = f
  BY DEF Walk, N
<1>9. Eq(f)
  <2> HIDE DEF Eq
  <2>1. QED
    BY <1>7
<1> HIDE DEF f, step
<1>10. \A k \in 0 .. N : f[k] = Visit(view, k, f[k + 1])
  BY <1>9
<1> HIDE DEF Eq
<1> DEFINE T == {k \in 0 .. N : f[N - k] \in X}
<1>11. 0 .. N \subseteq T
  <2>1. 0 \in T
    <3>1. N \in 0 .. N /\ N - 0 = N
      BY <1>0
    <3>2. f[N] = base
      BY <1>3, <1>10, <3>1
    <3>3. QED
      BY <1>1, <3>1, <3>2
  <2>2. ASSUME NEW k \in 0 .. N - 1, k \in T PROVE k + 1 \in T
    <3>1. N - (k + 1) \in 0 .. N - 1 /\ N - (k + 1) \in 0 .. N /\ (N - (k + 1)) + 1 = N - k /\ k + 1 \in 0 .. N
      BY <1>0
    <3>2. f[N - (k + 1)] = Visit(view, N - (k + 1), f[N - k])
      BY <1>10, <3>1
    <3>3. f[N - k] \in X
      BY <2>2
    <3>4. f[N - (k + 1)] \in X
      BY <1>2, <3>1, <3>2, <3>3
    <3>5. QED
      BY <3>1, <3>4
  <2> HIDE DEF T
  <2>3. QED
    BY <1>0, <2>1, <2>2, UpTo
<1>12. ASSUME NEW k \in 0 .. N PROVE f[k] \in X
  <2>1. N - k \in 0 .. N /\ N - (N - k) = k
    BY <1>0
  <2>2. N - k \in T
    BY <1>11, <2>1
  <2>3. QED
    BY <2>1, <2>2
<1>13. QED
  BY <1>8, <1>10, <1>12 DEF N, X

-----------------------------------------------------------------------------
(* The ranks of a sequence's keys are 0, 1, ...: each index has one, and   *)
(* so there is one index for each place in the sorted sequence.            *)
Behind(keys, j) == {i \in DOMAIN keys : Before(keys, i, j)}

LEMMA CountTo ==
  ASSUME NEW n \in Nat
  PROVE  IsFiniteSet(1 .. n) /\ Cardinality(1 .. n) = n
BY FS_Interval

LEMMA BehindFacts ==
  ASSUME NEW keys \in Seq(Nat), NEW j \in DOMAIN keys
  PROVE  /\ IsFiniteSet(Behind(keys, j))
         /\ Rank(keys, j) = Cardinality(Behind(keys, j))
         /\ Rank(keys, j) \in 0 .. Len(keys) - 1
<1> DEFINE D == DOMAIN keys
<1>1. D = 1 .. Len(keys) /\ Len(keys) \in Nat /\ keys[j] \in Nat
  OBVIOUS
<1>2. IsFiniteSet(D) /\ Cardinality(D) = Len(keys)
  BY <1>1, CountTo
<1>3. j \notin Behind(keys, j) /\ Behind(keys, j) \in SUBSET D
  BY <1>1 DEF Behind, Before
<1>4. IsFiniteSet(Behind(keys, j)) /\ Cardinality(Behind(keys, j)) <= Cardinality(D)
      /\ Cardinality(D) # Cardinality(Behind(keys, j))
  BY <1>2, <1>3, FS_Subset
<1>5. Cardinality(Behind(keys, j)) \in Nat
  BY <1>4, FS_CardinalityType
<1>6. Rank(keys, j) = Cardinality(Behind(keys, j))
  BY DEF Rank, Behind
<1> HIDE DEF D
<1>7. QED
  BY <1>1, <1>2, <1>4, <1>5, <1>6

LEMMA RankGrows ==
  ASSUME NEW keys \in Seq(Nat), NEW i \in DOMAIN keys, NEW j \in DOMAIN keys, Before(keys, i, j)
  PROVE  Rank(keys, i) < Rank(keys, j)
<1>1. \A m \in DOMAIN keys : keys[m] \in Nat /\ m \in Nat
  OBVIOUS
<1>2. Behind(keys, i) \in SUBSET Behind(keys, j)
  BY <1>1 DEF Behind, Before
<1>3. i \in Behind(keys, j) /\ i \notin Behind(keys, i)
  BY <1>1 DEF Behind, Before
<1>4. Cardinality(Behind(keys, i)) <= Cardinality(Behind(keys, j))
      /\ Cardinality(Behind(keys, i)) # Cardinality(Behind(keys, j))
  BY <1>2, <1>3, BehindFacts, FS_Subset
<1>5. Rank(keys, i) \in Nat /\ Rank(keys, j) \in Nat
      /\ Rank(keys, i) = Cardinality(Behind(keys, i)) /\ Rank(keys, j) = Cardinality(Behind(keys, j))
  BY BehindFacts
<1>6. QED
  BY <1>4, <1>5

LEMMA RankFacts ==
  ASSUME NEW keys \in Seq(Nat)
  PROVE  /\ \A i, j \in DOMAIN keys : Rank(keys, i) = Rank(keys, j) => i = j
         /\ \A k \in DOMAIN keys : \E j \in DOMAIN keys : Rank(keys, j) = k - 1
<1> DEFINE n == Len(keys)
           D == 1 .. n
           f == [j \in D |-> Rank(keys, j) + 1]
<1>0. n \in Nat /\ DOMAIN keys = D /\ \A j \in D : keys[j] \in Nat
  OBVIOUS
<1>1. ASSUME NEW j \in D PROVE Rank(keys, j) \in 0 .. n - 1
  BY <1>0, BehindFacts
<1>2. ASSUME NEW i \in D, NEW j \in D, Rank(keys, i) = Rank(keys, j) PROVE i = j
  <2>1. SUFFICES ASSUME i # j PROVE FALSE
    OBVIOUS
  <2>2. Before(keys, i, j) \/ Before(keys, j, i)
    BY <1>0, <2>1 DEF Before
  <2>3. Rank(keys, i) < Rank(keys, j) \/ Rank(keys, j) < Rank(keys, i)
    BY <1>0, <2>2, RankGrows
  <2>4. Rank(keys, i) \in Nat /\ Rank(keys, j) \in Nat
    BY <1>0, <1>1
  <2>5. QED
    BY <1>2, <2>3, <2>4
<1>3. f \in [D -> D]
  <2>1. ASSUME NEW j \in D PROVE Rank(keys, j) + 1 \in D
    BY <1>0, <1>1
  <2>2. QED
    BY <2>1
<1>4. f \in Injection(D, D)
  <2>1. ASSUME NEW i \in D, NEW j \in D, f[i] = f[j] PROVE i = j
    <3>1. Rank(keys, i) + 1 = Rank(keys, j) + 1 /\ Rank(keys, i) \in Nat /\ Rank(keys, j) \in Nat
      BY <1>0, <1>1, <2>1
    <3>2. QED
      BY <1>2, <3>1
  <2> HIDE DEF f
  <2>2. QED
    BY <1>3, <2>1 DEF Injection, IsInjective
<1>5. IsFiniteSet(D)
  BY <1>0, FS_Interval
<1>6. f \in Surjection(D, D)
  <2> HIDE DEF f, D
  <2>1. QED
    BY <1>4, <1>5, FS_Injection
<1>7. ASSUME NEW k \in D PROVE \E j \in D : Rank(keys, j) = k - 1
  <2>1. PICK j \in D : f[j] = k
    <3> HIDE DEF f
    <3>1. QED
      BY <1>6 DEF Surjection
  <2>2. Rank(keys, j) + 1 = k /\ Rank(keys, j) \in Nat
    BY <1>0, <1>1, <2>1
  <2>3. QED
    BY <2>2
<1>8. QED
  BY <1>0, <1>2, <1>7

\* The index that stands k-th in the order of the keys.
At(keys, k) == CHOOSE j \in DOMAIN keys : Rank(keys, j) = k - 1

LEMMA AtFacts ==
  ASSUME NEW keys \in Seq(Nat)
  PROVE  /\ \A k \in DOMAIN keys : At(keys, k) \in DOMAIN keys /\ Rank(keys, At(keys, k)) = k - 1
         /\ \A j \in DOMAIN keys : \E k \in DOMAIN keys : At(keys, k) = j
         /\ \A k, m \in DOMAIN keys : At(keys, k) = At(keys, m) => k = m
<1>1. ASSUME NEW k \in DOMAIN keys
      PROVE  At(keys, k) \in DOMAIN keys /\ Rank(keys, At(keys, k)) = k - 1
  BY RankFacts DEF At
<1>2. ASSUME NEW j \in DOMAIN keys PROVE \E k \in DOMAIN keys : At(keys, k) = j
  <2>1. Rank(keys, j) \in 0 .. Len(keys) - 1
    BY BehindFacts
  <2>2. Rank(keys, j) + 1 \in DOMAIN keys /\ (Rank(keys, j) + 1) - 1 = Rank(keys, j)
    BY <2>1
  <2>3. At(keys, Rank(keys, j) + 1) = j
    BY <1>1, <2>2, RankFacts
  <2>4. QED
    BY <2>2, <2>3
<1>3. ASSUME NEW k \in DOMAIN keys, NEW m \in DOMAIN keys, At(keys, k) = At(keys, m) PROVE k = m
  <2>1. k - 1 = m - 1 /\ k \in Nat /\ m \in Nat
    BY <1>1, <1>3
  <2>2. QED
    BY <2>1
<1>4. QED
  BY <1>1, <1>2, <1>3

LEMMA SortedFacts ==
  ASSUME NEW T, NEW s \in Seq(T), NEW keys \in Seq(Nat), Len(keys) = Len(s)
  PROVE  /\ Sorted(s, keys) \in Seq(T)
         /\ Len(Sorted(s, keys)) = Len(s)
         /\ \A k \in DOMAIN s : Sorted(s, keys)[k] = s[At(keys, k)]
         /\ ToSet(Sorted(s, keys)) = ToSet(s)
<1>1. DOMAIN s = DOMAIN keys /\ DOMAIN s = 1 .. Len(s) /\ Len(s) \in Nat
  OBVIOUS
<1>2. Sorted(s, keys) = [k \in DOMAIN s |-> s[At(keys, k)]]
  BY <1>1 DEF Sorted, At
<1>3. \A k \in DOMAIN s : At(keys, k) \in DOMAIN s
  BY <1>1, AtFacts
<1>4. ASSUME NEW k \in DOMAIN s PROVE s[At(keys, k)] \in T
  BY <1>1, <1>3
<1>5. Sorted(s, keys) \in Seq(T) /\ Len(Sorted(s, keys)) = Len(s)
  BY <1>1, <1>2, <1>4
<1>6. ToSet(Sorted(s, keys)) = ToSet(s)
  <2> DEFINE q == Sorted(s, keys)
  <2>1. DOMAIN q = DOMAIN s /\ \A k \in DOMAIN s : q[k] = s[At(keys, k)]
    BY <1>2
  <2>2. \A j \in DOMAIN s : \E k \in DOMAIN s : At(keys, k) = j
    BY <1>1, AtFacts
  <2> HIDE DEF q
  <2>3. ToSet(q) = ToSet(s)
    <3>1. ASSUME NEW x \in ToSet(q) PROVE x \in ToSet(s)
      BY <1>3, <2>1 DEF ToSet
    <3>2. ASSUME NEW x \in ToSet(s) PROVE x \in ToSet(q)
      <4>1. PICK j \in DOMAIN s : x = s[j]
        BY DEF ToSet
      <4>2. PICK k \in DOMAIN s : At(keys, k) = j
        BY <2>2
      <4>3. q[k] = x
        BY <2>1, <4>1, <4>2
      <4>4. QED
        BY <2>1, <4>3 DEF ToSet
    <3>3. QED
      BY <3>1, <3>2
  <2>4. QED
    BY <2>3 DEF q
<1>7. QED
  BY <1>2, <1>5, <1>6

-----------------------------------------------------------------------------
(* The values, as the builds hold them. *)
Value(nodes) == [kind : STRING, value : Nat, kids : Seq(Kid(nodes))]

IsHeap(h) == h \in Seq(Value(DOMAIN h))

LEMMA ReverseFacts ==
  ASSUME NEW T, NEW s \in Seq(T)
  PROVE  /\ Reverse(s) \in Seq(T)
         /\ DOMAIN Reverse(s) = DOMAIN s
         /\ Len(Reverse(s)) = Len(s)
         /\ \A i \in DOMAIN s : /\ Len(s) + 1 - i \in DOMAIN s
                                /\ Reverse(s)[i] = s[Len(s) + 1 - i]
<1>1. DOMAIN s = 1 .. Len(s) /\ Len(s) \in Nat
  OBVIOUS
<1>2. Reverse(s) = [i \in 1 .. Len(s) |-> s[(Len(s) - i) + 1]]
  BY DEF Reverse
<1>3. \A i \in 1 .. Len(s) : Len(s) + 1 - i \in 1 .. Len(s) /\ (Len(s) - i) + 1 = Len(s) + 1 - i
  BY <1>1
<1>4. \A i \in 1 .. Len(s) : s[(Len(s) - i) + 1] \in T
  BY <1>1, <1>3
<1>5. QED
  BY <1>1, <1>2, <1>3, <1>4

\* What the assumption on the inputs says of one of them.
IsType(s, nodes) ==
  s \in [name : Nat, derives : SUBSET STRING, where : Seq([item : STRING, name : Nat]),
         fields : Seq(Kid(nodes))]

LEMMA InputFacts ==
  ASSUME NEW inp \in Inputs
  PROVE  /\ inp.engine \in Engines /\ inp.calls \in Nat /\ inp.faults \in Nat
         /\ IsHeap(inp.heap)
         /\ Root \in DOMAIN inp.heap /\ inp.heap[Root].kind = "object"
         /\ DOMAIN inp.struct = Builds
         /\ \A b \in Builds : IsType(inp.struct[b], DOMAIN inp.heap) /\ Distinct(inp.struct[b].fields)
BY InputsAssumption DEF IsHeap, Value, Kid, IsType, Distinct

LEMMA InputMore ==
  ASSUME NEW inp \in Inputs
  PROVE  /\ \A n \in DOMAIN inp.heap \ {Root} :
              /\ inp.heap[n].kind \in Kinds[inp.engine]
              /\ inp.heap[n].kind \in Atoms => inp.heap[n].kids = <<>>
              /\ inp.engine = "unreal" =>
                   \A i \in DOMAIN inp.heap[n].kids : inp.heap[n].kids[i].to # Root
         /\ \A b \in Builds : \A i \in DOMAIN inp.struct[b].fields :
              /\ inp.engine \notin {"bevy", "manual"} =>
                   inp.struct[b].fields[i].marks \in {<<>>, <<"hash">>}
              /\ inp.engine = "unreal" => inp.struct[b].fields[i].to # Root
BY InputsAssumption

\* In a TMap each key has a value.
LEMMA InputPairs ==
  ASSUME NEW inp \in Inputs, inp.engine = "unreal", NEW n \in DOMAIN inp.heap \ {Root},
         inp.heap[n].kind = "map"
  PROVE  Len(inp.heap[n].kids) % 2 = 0
BY InputsAssumption

(* The other way round pair by pair is the other way round as well: the    *)
(* kids of before, each key still before its value.                        *)
PairsBack(k, n) == IF k % 2 = 1 THEN n - k ELSE n + 2 - k

LEMMA PairsBackFacts ==
  ASSUME NEW n \in Nat, n % 2 = 0, NEW k \in 1 .. n
  PROVE  /\ PairsBack(k, n) \in 1 .. n
         /\ PairsBack(k, n) % 2 = k % 2
         /\ PairsBack(PairsBack(k, n), n) = k
BY DEF PairsBack

LEMMA ReversePairsFacts ==
  ASSUME NEW T, NEW s \in Seq(T), Len(s) % 2 = 0
  PROVE  /\ ReversePairs(s) \in Seq(T)
         /\ DOMAIN ReversePairs(s) = DOMAIN s
         /\ Len(ReversePairs(s)) = Len(s)
         /\ \A k \in DOMAIN s : /\ PairsBack(k, Len(s)) \in DOMAIN s
                                /\ ReversePairs(s)[k] = s[PairsBack(k, Len(s))]
<1>1. DOMAIN s = 1 .. Len(s) /\ Len(s) \in Nat
  OBVIOUS
<1>2. ReversePairs(s) = [k \in DOMAIN s |-> s[PairsBack(k, Len(s))]]
  BY DEF ReversePairs, PairsBack
<1>3. \A k \in DOMAIN s : PairsBack(k, Len(s)) \in DOMAIN s
  BY <1>1, PairsBackFacts
<1>4. QED
  BY <1>1, <1>2, <1>3

LEMMA MirroredType ==
  ASSUME input \in Inputs, NEW n \in DOMAIN input.heap \ {Root}
  PROVE  LET v == input.heap[n] IN
         /\ Mirrored(v) \in Seq(Kid(DOMAIN input.heap))
         /\ DOMAIN Mirrored(v) = DOMAIN v.kids
<1> DEFINE v == input.heap[n]
<1>1. v \in Value(DOMAIN input.heap)
  BY InputFacts DEF IsHeap
<1>2. v.kids \in Seq(Kid(DOMAIN input.heap))
  BY <1>1 DEF Value
<1>3. CASE input.engine = "unreal" /\ v.kind = "map"
  <2>1. Len(v.kids) % 2 = 0
    BY <1>3, InputPairs
  <2>2. QED
    BY <1>2, <1>3, <2>1, ReversePairsFacts DEF Mirrored
<1>4. CASE ~ (input.engine = "unreal" /\ v.kind = "map")
  BY <1>2, <1>4, ReverseFacts DEF Mirrored
<1>5. QED
  BY <1>3, <1>4

LEMMA HeapType ==
  ASSUME input \in Inputs, NEW b \in Builds
  PROVE  /\ IsHeap(Heap(b))
         /\ DOMAIN Heap(b) = DOMAIN input.heap
<1> DEFINE N == DOMAIN input.heap
<1>1. input.heap \in Seq(Value(N)) /\ IsType(Struct(b), N)
  BY InputFacts DEF IsHeap, Struct
<1>2. N = 1 .. Len(input.heap) /\ Len(input.heap) \in Nat
  BY <1>1
<1>3. DOMAIN Heap(b) = N
  BY DEF Heap
<1>4. ASSUME NEW n \in N PROVE Heap(b)[n] \in Value(N)
  <2>1. input.heap[n] \in Value(N)
    BY <1>1
  <2>2. Struct(b).fields \in Seq(Kid(N))
    BY <1>1 DEF IsType
  <2>3. n # Root => Mirrored(input.heap[n]) \in Seq(Kid(N))
    BY MirroredType
  <2> HIDE DEF N
  <2>4. \A q \in Seq(Kid(N)) : [input.heap[n] EXCEPT !.kids = q] \in Value(N)
    BY <2>1 DEF Value
  <2>5. QED
    BY <2>1, <2>2, <2>3, <2>4 DEF Heap, N
<1>5. Heap(b) \in Seq(Value(N))
  <2>1. Heap(b) = [n \in N |-> Heap(b)[n]]
    BY DEF Heap
  <2> HIDE DEF N
  <2>2. QED
    BY <1>2, <1>4, <2>1
<1>6. QED
  BY <1>3, <1>5 DEF IsHeap

-----------------------------------------------------------------------------
(* What each walker sees of a heap is a view. *)
BevyView(h) == [n \in DOMAIN h |-> Seen(h[n], BevyKids(h[n]), FALSE)]
GodotView(h) == [n \in DOMAIN h |-> Seen(h[n], GodotKids(h[n]), h[n].kind = "object")]
UnityView(h) == [n \in DOMAIN h |-> Seen(h[n], UnityKids(h[n]), h[n].kind # "struct")]

LEMMA IndexedType ==
  ASSUME NEW nodes, NEW kids \in Seq(Kid(nodes))
  PROVE  Indexed(kids) \in Seq(Kid(nodes)) /\ Len(Indexed(kids)) = Len(kids)
<1>1. DOMAIN kids = 1 .. Len(kids) /\ Len(kids) \in Nat
  OBVIOUS
<1>2. ASSUME NEW i \in DOMAIN kids PROVE [kids[i] EXCEPT !.label = i] \in Kid(nodes)
  <2>1. kids[i] \in Kid(nodes) /\ i \in Nat
    BY <1>1
  <2>2. QED
    BY <2>1 DEF Kid
<1>3. QED
  BY <1>1, <1>2 DEF Indexed

LEMMA LabelsType ==
  ASSUME NEW nodes, NEW kids \in Seq(Kid(nodes))
  PROVE  Labels(kids) \in Seq(Nat) /\ Len(Labels(kids)) = Len(kids)
<1>1. DOMAIN kids = 1 .. Len(kids) /\ Len(kids) \in Nat
  OBVIOUS
<1>2. ASSUME NEW i \in DOMAIN kids PROVE kids[i].label \in Nat
  <2>1. kids[i] \in Kid(nodes)
    OBVIOUS
  <2>2. QED
    BY <2>1 DEF Kid
<1>3. QED
  BY <1>1, <1>2 DEF Labels

LEMMA ByLabelType ==
  ASSUME NEW nodes, NEW kids \in Seq(Kid(nodes))
  PROVE  ByLabel(kids) \in Seq(Kid(nodes))
<1>1. Labels(kids) \in Seq(Nat) /\ Len(Labels(kids)) = Len(kids)
  BY LabelsType
<1>2. QED
  BY <1>1, SortedFacts DEF ByLabel

LEMMA ViewsAre ==
  ASSUME NEW h, IsHeap(h)
  PROVE  IsView(BevyView(h)) /\ IsView(GodotView(h)) /\ IsView(UnityView(h))
<1> SUFFICES ASSUME NEW n \in DOMAIN h
             PROVE  /\ h[n].value \in Nat
                    /\ BevyKids(h[n]) \in Seq(Kid(DOMAIN h))
                    /\ GodotKids(h[n]) \in Seq(Kid(DOMAIN h))
                    /\ UnityKids(h[n]) \in Seq(Kid(DOMAIN h))
  BY DEF IsView, BevyView, GodotView, UnityView, Seen
<1>1. h[n] \in Value(DOMAIN h)
  BY DEF IsHeap
<1>2. h[n].value \in Nat /\ h[n].kids \in Seq(Kid(DOMAIN h))
  BY <1>1 DEF Value
<1>3. Indexed(h[n].kids) \in Seq(Kid(DOMAIN h)) /\ ByLabel(h[n].kids) \in Seq(Kid(DOMAIN h))
      /\ \A S : Kept(h[n].kids, S) \in Seq(Kid(DOMAIN h))
  BY <1>2, IndexedType, ByLabelType, KeptFacts
<1>4. QED
  BY <1>2, <1>3 DEF BevyKids, GodotKids, UnityKids

LEMMA FieldWalksType ==
  ASSUME NEW view, IsView(view), NEW fields \in Seq(Kid(DOMAIN view))
  PROVE  FieldWalks(Walk(view), fields) \in Outcomes(PathRecord)
<1> DEFINE walks == [i \in DOMAIN fields |->
                       Walk(view)[1][Place(fields[i].to, <<fields[i].label>>, {})]]
<1>1. DOMAIN fields = 1 .. Len(fields) /\ Len(fields) \in Nat
  OBVIOUS
<1>2. ASSUME NEW i \in DOMAIN fields
      PROVE  Walk(view)[1][Place(fields[i].to, <<fields[i].label>>, {})] \in Outcomes(PathRecord)
  <2>1. fields[i] \in Kid(DOMAIN view)
    OBVIOUS
  <2>2. <<fields[i].label>> \in Seq(Nat) /\ fields[i].to \in DOMAIN view
    BY <2>1 DEF Kid
  <2>3. Place(fields[i].to, <<fields[i].label>>, {}) \in Places(view)
    BY <2>2 DEF Place, Places
  <2>4. 1 \in 0 .. MaxDepth + 1
    BY MaxDepthAssumption
  <2>5. QED
    BY <2>3, <2>4, WalkEquation
<1>3. walks \in Seq(Outcomes(PathRecord))
  BY <1>1, <1>2
<1>4. Recorded(<<>>) \in Outcomes(PathRecord)
  BY DEF Recorded, Outcomes
<1>5. FieldWalks(Walk(view), fields) = InOrder(Recorded(<<>>), walks)
  BY DEF FieldWalks
<1> HIDE DEF walks
<1>6. QED
  BY <1>3, <1>4, <1>5, InOrderType

-----------------------------------------------------------------------------
(* The Unreal walker. *)
Bytes == Seq(Nat)

LEMMA U32Type ==
  ASSUME NEW x \in Nat PROVE U32(x) \in Bytes /\ I64(x) \in Bytes
BY DEF U32, I64, Bytes

LEMMA AtomType ==
  ASSUME NEW v, v.value \in Nat
  PROVE  AtomBytes(v) \in Bytes
<1>1. \A a, b \in Bytes : a \o b \in Bytes
  BY DEF Bytes
<1>2. <<v.value>> \in Bytes /\ <<1>> \in Bytes /\ <<2>> \in Bytes /\ <<>> \in Bytes
  BY DEF Bytes
<1>3. U32(0) \in Bytes /\ I64(v.value) \in Bytes
  BY U32Type
<1>4. <<1>> \o I64(v.value) \in Bytes
  BY <1>1, <1>2, <1>3
<1>5. QED
  BY <1>2, <1>3, <1>4 DEF AtomBytes

Entries == [key : Bytes, bytes : Bytes]

LEMMA EntriesType ==
  ASSUME NEW v, NEW parts \in Seq(Bytes)
  PROVE  EntriesOf(v, parts) \in Seq(Entries)
<1>0. DOMAIN parts = 1 .. Len(parts) /\ Len(parts) \in Nat /\ \A i \in DOMAIN parts : parts[i] \in Bytes
  OBVIOUS
<1> DEFINE half == Len(parts) \div 2
           pair(i) == [key |-> parts[2 * i - 1], bytes |-> parts[2 * i - 1] \o parts[2 * i]]
           one(i) == [key |-> parts[i], bytes |-> parts[i]]
<1>1. \A a, b \in Bytes : a \o b \in Bytes
  BY DEF Bytes
<1>2. half \in Nat /\ \A i \in 1 .. half : 2 * i - 1 \in 1 .. Len(parts) /\ 2 * i \in 1 .. Len(parts)
  BY <1>0
<1>3. \A i \in 1 .. half : pair(i) \in Entries
  BY <1>0, <1>1, <1>2 DEF Entries
<1>4. \A i \in DOMAIN parts : one(i) \in Entries
  BY <1>0 DEF Entries
<1>5. MapEntries(parts) = [i \in 1 .. half |-> pair(i)] /\ SetEntries(parts) = [i \in DOMAIN parts |-> one(i)]
  BY DEF MapEntries, SetEntries
<1> HIDE DEF half, pair, one
<1>6. MapEntries(parts) \in Seq(Entries)
  BY <1>2, <1>3, <1>5
<1>7. SetEntries(parts) \in Seq(Entries)
  BY <1>0, <1>4, <1>5
<1>8. QED
  BY <1>6, <1>7 DEF EntriesOf

(* A sorting of some entries is a permutation of them. *)
Permutes(p, D) ==
  /\ p \in [D -> D]
  /\ \A i, j \in D : i # j => p[i] # p[j]

LEMMA SortsFacts ==
  ASSUME NEW es, NEW s \in Sorts(es)
  PROVE  \E p : /\ Permutes(p, DOMAIN es)
                /\ s = [i \in DOMAIN es |-> es[p[i]]]
<1> DEFINE D == DOMAIN es
           P == {q \in [D -> D] : \A i, j \in DOMAIN q : i # j => q[i] # q[j]}
<1>1. s \in {[i \in D |-> es[p[i]]] : p \in P}
  BY DEF Sorts
<1>2. PICK p \in P : s = [i \in D |-> es[p[i]]]
  BY <1>1
<1>3. Permutes(p, D)
  BY DEF Permutes
<1>4. QED
  BY <1>2, <1>3

LEMMA SortsType ==
  ASSUME NEW T, NEW es \in Seq(T), NEW s \in Sorts(es)
  PROVE  s \in Seq(T) /\ Len(s) = Len(es)
<1>1. DOMAIN es = 1 .. Len(es) /\ Len(es) \in Nat
  OBVIOUS
<1>2. PICK p : Permutes(p, DOMAIN es) /\ s = [i \in DOMAIN es |-> es[p[i]]]
  BY SortsFacts
<1>3. \A i \in DOMAIN es : p[i] \in DOMAIN es /\ es[p[i]] \in T
  BY <1>2 DEF Permutes
<1>4. QED
  BY <1>1, <1>2, <1>3

LEMMA JoinedType ==
  ASSUME NEW v, NEW parts \in Seq(Bytes)
  PROVE  Joined(v, parts) \in SUBSET Bytes
<1>1. \A a, b \in Bytes : a \o b \in Bytes
  BY DEF Bytes
<1>2. U32(Len(parts)) \in Bytes
  BY U32Type
<1>3. FlattenSeq(parts) \in Bytes
  BY FlattenType DEF Bytes
<1> DEFINE es == EntriesOf(v, parts)
<1>4. es \in Seq(Entries)
  BY EntriesType
<1>5. ASSUME NEW s \in Sorts(es)
      PROVE  /\ U32(Len(s)) \in Bytes
             /\ FlattenSeq([i \in DOMAIN s |-> s[i].bytes]) \in Bytes
  <2> HIDE DEF es
  <2>1. s \in Seq(Entries)
    BY <1>4, SortsType
  <2>2. ASSUME NEW i \in DOMAIN s PROVE s[i].bytes \in Bytes
    <3>1. s[i] \in Entries
      BY <2>1
    <3>2. QED
      BY <3>1 DEF Entries
  <2>3. [i \in DOMAIN s |-> s[i].bytes] \in Seq(Bytes)
    BY <2>1, <2>2
  <2>4. FlattenSeq([i \in DOMAIN s |-> s[i].bytes]) \in Bytes
    BY <2>3, FlattenType DEF Bytes
  <2>5. U32(Len(s)) \in Bytes
    BY <2>1, U32Type
  <2>6. QED
    BY <2>4, <2>5
<1>6. QED
  BY <1>1, <1>2, <1>3, <1>5 DEF Joined

Serialized == SUBSET Outcomes(Nat)

LEMMA InsideType ==
  ASSUME NEW h, IsHeap(h), NEW at \in Sites(h), NEW i \in DOMAIN h[at.node].kids
  PROVE  Inside(h[at.node], at, i) \in Sites(h)
<1>1. at.node \in DOMAIN h /\ at.address \in Seq(Nat) /\ at.visited \in SUBSET Seq(Nat)
  BY DEF Sites
<1>2. h[at.node] \in Value(DOMAIN h)
  BY <1>1 DEF IsHeap
<1>3. h[at.node].kids[i] \in Kid(DOMAIN h) /\ i \in Nat
  BY <1>2 DEF Value
<1>4. h[at.node].kids[i].to \in DOMAIN h
  BY <1>3 DEF Kid
<1>5. Append(at.address, i) \in Seq(Nat) /\ at.visited \cup {at.address} \in SUBSET Seq(Nat)
  BY <1>1, <1>3
<1>6. QED
  BY <1>1, <1>4, <1>5 DEF Inside, Site, Sites

LEMMA SerializeValueType ==
  ASSUME NEW h, IsHeap(h), NEW depth, NEW deeper \in [Sites(h) -> Serialized]
  PROVE  SerializeValue(h, depth, deeper) \in [Sites(h) -> Serialized]
<1> SUFFICES ASSUME NEW at \in Sites(h)
             PROVE  SerializeValue(h, depth, deeper)[at] \in Serialized
  BY DEF SerializeValue
<1> DEFINE v == h[at.node]
           outcomes == [i \in DOMAIN v.kids |-> deeper[Inside(v, at, i)]]
<1>1. v \in Value(DOMAIN h)
  BY DEF Sites, IsHeap
<1>2. v.kids \in Seq(Kid(DOMAIN h)) /\ v.value \in Nat
  BY <1>1 DEF Value
<1>3. {Failed} \in Serialized /\ {Recorded(AtomBytes(v))} \in Serialized
  BY <1>2, AtomType DEF Failed, Recorded, Serialized, Outcomes, Bytes
<1>4. ASSUME NEW c \in OneOfEach(outcomes), \A i \in DOMAIN c : c[i].ok
      PROVE  {Recorded(bytes) : bytes \in Joined(v, [i \in DOMAIN c |-> c[i].out])} \in Serialized
  <2>1. ASSUME NEW i \in DOMAIN v.kids PROVE outcomes[i] \in Serialized
    BY <2>1, InsideType
  <2>2. DOMAIN v.kids = 1 .. Len(v.kids) /\ Len(v.kids) \in Nat
    BY <1>2
  <2>3. DOMAIN outcomes = DOMAIN v.kids
    OBVIOUS
  <2> HIDE DEF outcomes, v
  <2>4. DOMAIN c = DOMAIN v.kids /\ \A i \in DOMAIN v.kids : c[i] \in outcomes[i]
    BY <2>3 DEF OneOfEach
  <2>5. \A i \in DOMAIN v.kids : c[i].out \in Bytes
    BY <2>1, <2>4 DEF Serialized, Outcomes, Bytes
  <2>6. [i \in DOMAIN c |-> c[i].out] \in Seq(Bytes)
    BY <2>2, <2>4, <2>5
  <2>7. Joined(v, [i \in DOMAIN c |-> c[i].out]) \in SUBSET Bytes
    BY <2>6, JoinedType
  <2>8. \A bytes \in Bytes : Recorded(bytes) \in Outcomes(Nat)
    BY DEF Recorded, Outcomes, Bytes
  <2>9. QED
    BY <2>7, <2>8 DEF Serialized
<1>5. UNION {IF \A i \in DOMAIN c : c[i].ok
             THEN {Recorded(bytes) : bytes \in Joined(v, [i \in DOMAIN c |-> c[i].out])}
             ELSE {Failed} : c \in OneOfEach(outcomes)} \in Serialized
  <2> HIDE DEF outcomes, v
  <2>1. QED
    BY <1>3, <1>4 DEF Serialized
<1>6. QED
  BY <1>3, <1>5 DEF SerializeValue

\* Beyond the limit nothing is serialized.
LEMMA SerializeTooDeep ==
  ASSUME NEW h, NEW deeper
  PROVE  SerializeValue(h, MaxDepth + 1, deeper) = [at \in Sites(h) |-> {Failed}]
BY MaxDepthAssumption DEF SerializeValue, TooDeep

LEMMA SerializeEquation ==
  ASSUME NEW h, IsHeap(h)
  PROVE  \A depth \in 0 .. MaxDepth + 1 :
           /\ Serialize(h)[depth] \in [Sites(h) -> Serialized]
           /\ Serialize(h)[depth] = SerializeValue(h, depth, Serialize(h)[depth + 1])
<1> DEFINE N == MaxDepth + 1
           X == [Sites(h) -> Serialized]
           base == [at \in Sites(h) |-> {Failed}]
           step == [k \in 0 .. N - 1 |-> [d \in X |-> SerializeValue(h, k, d)]]
           Eq(f) == f = [k \in 0 .. N |-> SerializeValue(h, k, f[k + 1])]
<1>0. N \in Nat /\ N - 1 = MaxDepth
  BY MaxDepthAssumption
<1>1. base \in X
  BY DEF Failed, Outcomes, Serialized
<1>2. ASSUME NEW k \in 0 .. N - 1, NEW d \in X PROVE SerializeValue(h, k, d) \in X
  BY <1>0, SerializeValueType
<1>3. \A f : SerializeValue(h, N, f) = base
  BY SerializeTooDeep
<1> HIDE DEF X, N, base
<1>4. \A k \in 0 .. N - 1 : step[k] \in [X -> X]
  BY <1>2
<1>5. PICK g : DownChain(g, N, X, base, step)
  <2> HIDE DEF step
  <2>1. QED
    BY <1>0, <1>1, <1>4, IteratesDown
<1>6. ASSUME NEW k \in 0 .. N PROVE g[k] = SerializeValue(h, k, g[k + 1])
  <2>1. CASE k = N
    BY <1>3, <1>5, <2>1 DEF DownChain
  <2>2. CASE k # N
    <3>1. k \in 0 .. N - 1 /\ k + 1 \in 0 .. N
      BY <1>0, <2>2
    <3>2. g[k + 1] \in X /\ g[k] = step[k][g[k + 1]]
      BY <1>5, <3>1 DEF DownChain
    <3>3. QED
      BY <3>1, <3>2
  <2>3. QED
    BY <2>1, <2>2
<1>7. Eq(g)
  BY <1>5, <1>6 DEF DownChain
<1> DEFINE f == CHOOSE f : Eq(f)
<1>8. Serialize(h) = f
  BY DEF Serialize, N
<1>9. Eq(f)
  <2> HIDE DEF Eq
  <2>1. QED
    BY <1>7
<1> HIDE DEF f, step
<1>10. \A k \in 0 .. N : f[k] = SerializeValue(h, k, f[k + 1])
  BY <1>9
<1> HIDE DEF Eq
<1> DEFINE T == {k \in 0 .. N : f[N - k] \in X}
<1>11. 0 .. N \subseteq T
  <2>1. 0 \in T
    <3>1. N \in 0 .. N /\ N - 0 = N
      BY <1>0
    <3>2. f[N] = base
      BY <1>3, <1>10, <3>1
    <3>3. QED
      BY <1>1, <3>1, <3>2
  <2>2. ASSUME NEW k \in 0 .. N - 1, k \in T PROVE k + 1 \in T
    <3>1. N - (k + 1) \in 0 .. N - 1 /\ N - (k + 1) \in 0 .. N /\ (N - (k + 1)) + 1 = N - k /\ k + 1 \in 0 .. N
      BY <1>0
    <3>2. f[N - (k + 1)] = SerializeValue(h, N - (k + 1), f[N - k])
      BY <1>10, <3>1
    <3>3. f[N - k] \in X
      BY <2>2
    <3>4. f[N - (k + 1)] \in X
      BY <1>2, <3>1, <3>2, <3>3
    <3>5. QED
      BY <3>1, <3>4
  <2> HIDE DEF T
  <2>3. QED
    BY <1>0, <2>1, <2>2, UpTo
<1>12. ASSUME NEW k \in 0 .. N PROVE f[k] \in X
  <2>1. N - k \in 0 .. N /\ N - (N - k) = k
    BY <1>0
  <2>2. N - k \in T
    BY <1>11, <2>1
  <2>3. QED
    BY <2>1, <2>2
<1>13. QED
  BY <1>8, <1>10, <1>12 DEF N, X

LEMMA OneOfEachType ==
  ASSUME NEW T, NEW n \in Nat, NEW outcomes, DOMAIN outcomes = 1 .. n,
         \A i \in 1 .. n : outcomes[i] \in SUBSET T,
         NEW c \in OneOfEach(outcomes)
  PROVE  c \in Seq(T) /\ DOMAIN c = 1 .. n /\ \A i \in 1 .. n : c[i] \in outcomes[i]
<1>1. c \in [1 .. n -> UNION {outcomes[i] : i \in 1 .. n}] /\ \A i \in 1 .. n : c[i] \in outcomes[i]
  BY DEF OneOfEach
<1>2. \A i \in 1 .. n : c[i] \in T
  BY <1>1
<1>3. QED
  BY <1>1, <1>2

\* A path, and a number or bytes.
OutRecord == Seq(Nat) \X (Nat \cup Bytes)

LEMMA UnrealWalkType ==
  ASSUME NEW h, IsHeap(h), NEW fields \in Seq(Kid(DOMAIN h)), NEW r \in UnrealWalk(h, fields)
  PROVE  r \in Outcomes(OutRecord)
<1> DEFINE site(i) == Site(fields[i].to, <<fields[i].label>>, {})
           outcomes == [i \in DOMAIN fields |-> Serialize(h)[0][site(i)]]
           record(c, i) == IF c[i].ok THEN << << <<fields[i].label>>, c[i].out>> >> ELSE <<>>
<1>1. DOMAIN fields = 1 .. Len(fields) /\ Len(fields) \in Nat
  OBVIOUS
<1>2. ASSUME NEW i \in DOMAIN fields
      PROVE  <<fields[i].label>> \in Seq(Nat) /\ site(i) \in Sites(h)
  <2>1. fields[i] \in Kid(DOMAIN h)
    OBVIOUS
  <2>2. <<fields[i].label>> \in Seq(Nat) /\ fields[i].to \in DOMAIN h
    BY <2>1 DEF Kid
  <2>3. QED
    BY <2>2 DEF Site, Sites
<1> HIDE DEF site
<1>3. \A i \in DOMAIN fields : outcomes[i] \in SUBSET Outcomes(Nat)
  <2>1. 0 \in 0 .. MaxDepth + 1
    BY MaxDepthAssumption
  <2>2. QED
    BY <1>2, <2>1, SerializeEquation DEF Serialized
<1>4. DOMAIN outcomes = 1 .. Len(fields)
  BY <1>1
<1>5. PICK c \in OneOfEach(outcomes) :
        r = [ok |-> \A i \in DOMAIN c : c[i].ok, out |-> FlattenSeq([i \in DOMAIN c |-> record(c, i)])]
  BY DEF UnrealWalk, site
<1> HIDE DEF outcomes
<1>6. c \in Seq(Outcomes(Nat)) /\ DOMAIN c = 1 .. Len(fields)
  BY <1>1, <1>3, <1>4, OneOfEachType
<1>7. ASSUME NEW i \in DOMAIN c PROVE record(c, i) \in Seq(OutRecord)
  <2>1. c[i] \in Outcomes(Nat) /\ <<fields[i].label>> \in Seq(Nat)
    BY <1>1, <1>2, <1>6
  <2>2. << <<fields[i].label>>, c[i].out>> \in OutRecord
    BY <2>1 DEF OutRecord, Outcomes, Bytes
  <2>3. << >> \in Seq(OutRecord) /\ \A x \in OutRecord : <<x>> \in Seq(OutRecord)
    OBVIOUS
  <2>4. QED
    BY <2>2, <2>3
<1>8. [i \in DOMAIN c |-> record(c, i)] \in Seq(Seq(OutRecord))
  <2> HIDE DEF record
  <2>1. QED
    BY <1>1, <1>6, <1>7
<1> HIDE DEF record
<1>9. FlattenSeq([i \in DOMAIN c |-> record(c, i)]) \in Seq(OutRecord)
  BY <1>8, FlattenType
<1>10. QED
  BY <1>5, <1>9 DEF Outcomes

-----------------------------------------------------------------------------
(* The bytes of the manual API. *)
WriteKids(v) == IF v.kind = "list" THEN v.kids ELSE ByLabel(v.kids)
WriteParts(v, deeper) ==
  [i \in DOMAIN WriteKids(v) |->
     (IF v.kind = "map" THEN <<WriteKids(v)[i].label>> ELSE <<>>) \o deeper[WriteKids(v)[i].to]]

LEMMA WriteAt ==
  ASSUME NEW h, NEW deeper, NEW n \in DOMAIN h
  PROVE  Write(h, deeper)[n] = IF h[n].kind = "leaf" THEN <<h[n].value>>
                               ELSE FlattenSeq(WriteParts(h[n], deeper))
BY DEF Write, WriteKids, WriteParts

LEMMA WritePartsType ==
  ASSUME NEW nodes, NEW v \in Value(nodes), NEW deeper \in [nodes -> Bytes]
  PROVE  WriteParts(v, deeper) \in Seq(Bytes)
<1>1. WriteKids(v) \in Seq(Kid(nodes))
  BY ByLabelType DEF Value, WriteKids
<1>2. ASSUME NEW i \in DOMAIN WriteKids(v)
      PROVE  (IF v.kind = "map" THEN <<WriteKids(v)[i].label>> ELSE <<>>)
                \o deeper[WriteKids(v)[i].to] \in Bytes
  <2>1. WriteKids(v)[i] \in Kid(nodes)
    BY <1>1
  <2>2. WriteKids(v)[i].label \in Nat /\ deeper[WriteKids(v)[i].to] \in Bytes
    BY <2>1 DEF Kid
  <2>3. \A a, b \in Bytes : a \o b \in Bytes
    BY DEF Bytes
  <2>4. <<WriteKids(v)[i].label>> \in Bytes /\ <<>> \in Bytes
    BY <2>2 DEF Bytes
  <2>5. QED
    BY <2>2, <2>3, <2>4
<1>3. DOMAIN WriteKids(v) = 1 .. Len(WriteKids(v)) /\ Len(WriteKids(v)) \in Nat
  BY <1>1
<1>4. QED
  BY <1>2, <1>3 DEF WriteParts

LEMMA WriteType ==
  ASSUME NEW h, IsHeap(h), NEW deeper \in [DOMAIN h -> Bytes]
  PROVE  Write(h, deeper) \in [DOMAIN h -> Bytes]
<1>1. ASSUME NEW n \in DOMAIN h PROVE Write(h, deeper)[n] \in Bytes
  <2>1. h[n] \in Value(DOMAIN h)
    BY DEF IsHeap
  <2>2. FlattenSeq(WriteParts(h[n], deeper)) \in Bytes
    BY <2>1, WritePartsType, FlattenType DEF Bytes
  <2>3. <<h[n].value>> \in Bytes
    BY <2>1 DEF Value, Bytes
  <2>4. QED
    BY <2>2, <2>3, WriteAt
<1>2. Write(h, deeper) = [n \in DOMAIN h |-> Write(h, deeper)[n]]
  BY DEF Write
<1>3. QED
  BY <1>1, <1>2

Writes(g, h) ==
  /\ g \in [0 .. Len(h) -> [DOMAIN h -> Bytes]]
  /\ FieldBytes(h) = g[Len(h)]
  /\ g[0] = [n \in DOMAIN h |-> <<>>]
  /\ \A k \in 1 .. Len(h) : g[k] = Write(h, g[k - 1])

LEMMA FieldBytesEquation ==
  ASSUME NEW h, IsHeap(h)
  PROVE  \E g : Writes(g, h)
<1> DEFINE N == Len(h)
           X == [DOMAIN h -> Bytes]
           base == [n \in DOMAIN h |-> <<>>]
           step == [k \in 1 .. N |-> [d \in X |-> Write(h, d)]]
           Eq(f) == f = [k \in 0 .. N |-> IF k = 0 THEN base ELSE Write(h, f[k - 1])]
           f == CHOOSE f : Eq(f)
<1>0. N \in Nat
  BY DEF IsHeap
<1>1. base \in X
  BY DEF Bytes
<1>2. ASSUME NEW d \in X PROVE Write(h, d) \in X
  BY WriteType
<1> HIDE DEF X, N, base
<1>3. \A k \in 1 .. N : step[k] \in [X -> X]
  BY <1>2
<1>4. PICK g : Chain(g, N, X, base, step)
  <2> HIDE DEF step
  <2>1. QED
    BY <1>0, <1>1, <1>3, Iterates
<1>5. ASSUME NEW k \in 1 .. N PROVE g[k] = Write(h, g[k - 1])
  <2>1. k - 1 \in 0 .. N
    BY <1>0
  <2>2. g[k - 1] \in X /\ g[k] = step[k][g[k - 1]]
    BY <1>4, <2>1 DEF Chain
  <2>3. QED
    BY <2>2
<1>6. Eq(f)
  <2>1. ASSUME NEW k \in 0 .. N PROVE g[k] = IF k = 0 THEN base ELSE Write(h, g[k - 1])
    <3>1. k # 0 => k \in 1 .. N
      BY <1>0
    <3>2. QED
      BY <1>4, <1>5, <3>1 DEF Chain
  <2>2. Eq(g)
    BY <1>4, <2>1 DEF Chain
  <2> HIDE DEF Eq
  <2>3. QED
    BY <2>2
<1>7. FieldBytes(h) = f[N]
  BY DEF FieldBytes, N, base
<1> HIDE DEF f
<1>8. \A k \in 0 .. N : f[k] = IF k = 0 THEN base ELSE Write(h, f[k - 1])
  BY <1>6
<1> DEFINE T == {k \in 0 .. N : f[k] = g[k]}
<1>9. 0 .. N \subseteq T
  <2>1. 0 \in T
    BY <1>0, <1>4, <1>8 DEF Chain
  <2>2. ASSUME NEW k \in 0 .. N - 1, k \in T PROVE k + 1 \in T
    <3>1. k + 1 \in 1 .. N /\ k + 1 \in 0 .. N /\ (k + 1) - 1 = k
      BY <1>0
    <3>2. f[k + 1] = Write(h, f[k]) /\ g[k + 1] = Write(h, g[k])
      BY <1>5, <1>8, <3>1
    <3>3. QED
      BY <2>2, <3>1, <3>2
  <2> HIDE DEF T
  <2>3. QED
    BY <1>0, <2>1, <2>2, UpTo
<1>10. FieldBytes(h) = g[N]
  BY <1>0, <1>7, <1>9
<1>11. Writes(g, h)
  BY <1>4, <1>5, <1>10 DEF Writes, Chain, N, X, base
<1>12. QED
  BY <1>11

LEMMA FieldBytesType ==
  ASSUME NEW h, IsHeap(h)
  PROVE  FieldBytes(h) \in [DOMAIN h -> Bytes]
<1>1. Len(h) \in 0 .. Len(h)
  BY DEF IsHeap
<1>2. PICK g : Writes(g, h)
  BY FieldBytesEquation
<1>3. QED
  BY <1>1, <1>2 DEF Writes

-----------------------------------------------------------------------------
LEMMA TrackedType ==
  ASSUME input \in Inputs, NEW b \in Builds
  PROVE  /\ Struct(b).fields \in Seq(Kid(DOMAIN Heap(b)))
         /\ Tracked(b) \in Seq(Kid(DOMAIN Heap(b)))
         /\ HashedFields(Struct(b)) \in Seq(Kid(DOMAIN Heap(b)))
         /\ Distinct(Struct(b).fields) /\ Distinct(Tracked(b))
<1>1. DOMAIN Heap(b) = DOMAIN input.heap
  BY HeapType
<1>2. Struct(b).fields \in Seq(Kid(DOMAIN Heap(b))) /\ Distinct(Struct(b).fields)
  BY <1>1, InputFacts DEF IsType, Struct
<1>3. \A S : /\ Kept(Struct(b).fields, S) \in Seq(Kid(DOMAIN Heap(b)))
             /\ Distinct(Kept(Struct(b).fields, S))
  BY <1>2, KeptFacts
<1>4. QED
  BY <1>2, <1>3 DEF Tracked, HashedFields

LEMMA MoreOutcomes ==
  ASSUME NEW r \in Outcomes(PathRecord)
  PROVE  r \in Outcomes(OutRecord)
<1>1. r.out \in Seq(PathRecord) /\ PathRecord \subseteq OutRecord
  BY DEF Outcomes, PathRecord, OutRecord
<1>2. r.out \in Seq(OutRecord)
  <2> HIDE DEF PathRecord, OutRecord
  <2>1. ASSUME NEW A, NEW B, A \subseteq B, NEW s \in Seq(A) PROVE s \in Seq(B)
    <3>1. Len(s) \in Nat /\ s = [i \in 1 .. Len(s) |-> s[i]] /\ \A i \in 1 .. Len(s) : s[i] \in B
      BY <2>1
    <3>2. [i \in 1 .. Len(s) |-> s[i]] \in Seq(B)
      BY <3>1
    <3>3. QED
      BY <3>1, <3>2
  <2>2. QED
    BY <1>1, <2>1
<1>3. QED
  BY <1>2 DEF Outcomes

LEMMA WalksType ==
  ASSUME input \in Inputs, NEW b \in Builds, NEW r \in Walks(b)
  PROVE  r \in Outcomes(OutRecord)
<1> DEFINE h == Heap(b)
           hashed == HashedFields(Struct(b))
<1>1. IsHeap(h) /\ hashed \in Seq(Kid(DOMAIN h)) /\ Tracked(b) \in Seq(Kid(DOMAIN h))
  BY HeapType, TrackedType
<1> HIDE DEF h, hashed
<1>2. input.engine \in Engines
  BY InputFacts
<1>3. CASE input.engine = "bevy"
  <2>1. r = FieldWalks(Walk(BevyView(h)), Tracked(b))
    BY <1>3 DEF Walks, BevyWalk, BevyView, h
  <2>2. DOMAIN BevyView(h) = DOMAIN h /\ IsView(BevyView(h))
    BY <1>1, ViewsAre DEF BevyView
  <2>3. QED
    BY <1>1, <2>1, <2>2, FieldWalksType, MoreOutcomes
<1>4. CASE input.engine = "unity"
  <2>1. r = FieldWalks(Walk(UnityView(h)), Tracked(b))
    BY <1>4 DEF Walks, UnityWalk, UnityView, h
  <2>2. DOMAIN UnityView(h) = DOMAIN h /\ IsView(UnityView(h))
    BY <1>1, ViewsAre DEF UnityView
  <2>3. QED
    BY <1>1, <2>1, <2>2, FieldWalksType, MoreOutcomes
<1>5. CASE input.engine = "godot"
  <2>1. r = Walk(GodotView(h))[0][Place(Root, <<>>, {})]
    BY <1>5 DEF Walks, GodotWalk, GodotView, h
  <2>2. DOMAIN GodotView(h) = DOMAIN h /\ IsView(GodotView(h))
    BY <1>1, ViewsAre DEF GodotView
  <2>3. Root \in DOMAIN h
    BY HeapType, InputFacts DEF h
  <2>4. Place(Root, <<>>, {}) \in Places(GodotView(h)) /\ 0 \in 0 .. MaxDepth + 1
    BY <2>2, <2>3, MaxDepthAssumption DEF Place, Places
  <2>5. r \in Outcomes(PathRecord)
    BY <2>1, <2>2, <2>4, WalkEquation
  <2>6. QED
    BY <2>5, MoreOutcomes
<1>6. CASE input.engine = "unreal"
  <2>1. r \in UnrealWalk(h, Tracked(b))
    BY <1>6 DEF Walks, h
  <2>2. QED
    BY <1>1, <2>1, UnrealWalkType
<1>7. CASE input.engine = "manual"
  <2> DEFINE out == [i \in DOMAIN hashed |-> << <<hashed[i].label>>, FieldBytes(h)[hashed[i].to]>>]
  <2>1. r = Recorded(out)
    BY <1>7 DEF Walks, h, hashed
  <2>2. ASSUME NEW i \in DOMAIN hashed
        PROVE  << <<hashed[i].label>>, FieldBytes(h)[hashed[i].to]>> \in OutRecord
    <3>1. hashed[i] \in Kid(DOMAIN h)
      BY <1>1
    <3>2. <<hashed[i].label>> \in Seq(Nat) /\ hashed[i].to \in DOMAIN h
      BY <3>1 DEF Kid
    <3>3. FieldBytes(h)[hashed[i].to] \in Bytes
      BY <1>1, <3>2, FieldBytesType
    <3>4. QED
      BY <3>2, <3>3 DEF OutRecord
  <2>3. out \in Seq(OutRecord)
    BY <1>1, <2>2
  <2> HIDE DEF out
  <2>4. QED
    BY <2>1, <2>3 DEF Recorded, Outcomes
<1>8. QED
  BY <1>2, <1>3, <1>4, <1>5, <1>6, <1>7 DEF Engines, Kinds

-----------------------------------------------------------------------------
(* The inductive invariant. *)
OwnSchema(b) == SchemaFrame(TypeName(Struct(b)), Fingerprint(Labels(Tracked(b))))

Frames == [kind : {"schema"}, type : Seq(Nat), fields : Seq(Nat)]
          \cup [kind : {"field"}, record : OutRecord]

Types ==
  /\ input \in Inputs
  /\ file \in [Builds -> [header : BOOLEAN, frames : Seq(Frames)]]
  /\ marked \in [Builds -> BOOLEAN]
  /\ refused \in [Builds -> BOOLEAN]
  /\ down \in [Builds -> BOOLEAN]
  /\ calls \in [Builds -> 0 .. input.calls]
  /\ faults \in 0 .. input.faults
  /\ last \in [Builds -> Outcomes(OutRecord)]
  /\ verdict \in {0, 1, 2, None}

\* Rust builds that do not compile record nothing.
RustCompiles == input.engine \in {"bevy", "manual"} => \A b \in Builds : Compiles(Struct(b))

\* No other schema is ever in a recording of build b but its own.
SchemasAreOwn ==
  \A b \in Builds : \A i \in DOMAIN file[b].frames :
    IsSchema(file[b].frames[i]) => RecordsSchema /\ file[b].frames[i] = OwnSchema(b)

(* A recording begins with the schema: written with the first call, kept   *)
(* by any crash that keeps anything.                                       *)
SchemaFirst ==
  \A b \in Builds : RecordsSchema =>
    /\ ~marked[b] => file[b].frames = <<>>
    /\ marked[b] /\ ~refused[b] /\ ~down[b] => file[b].frames # <<>>
    /\ ~refused[b] /\ file[b].frames # <<>> => IsSchema(file[b].frames[1])

LastIsAWalk == \A b \in Builds : calls[b] > 0 /\ ~refused[b] => last[b] \in Walks(b)

VerdictStands == verdict # None => verdict = RunSchemaDiff(file[1], file[2])

IInv == /\ Types /\ RustCompiles /\ SchemasAreOwn
        /\ SchemaFirst /\ LastIsAWalk /\ VerdictStands

\* What depends on the input alone does not change.
LEMMA InputIsFixed ==
  ASSUME UNCHANGED input
  PROVE  /\ RecordsSchema' = RecordsSchema
         /\ \A b \in Builds : /\ Struct(b)' = Struct(b)
                              /\ Tracked(b)' = Tracked(b)
                              /\ OwnSchema(b)' = OwnSchema(b)
                              /\ Walks(b)' = Walks(b)
<1>1. \A b \in Builds : Struct(b)' = Struct(b)
  BY DEF Struct
<1>2. \A b \in Builds : Tracked(b)' = Tracked(b)
  BY DEF Struct, Tracked
<1>3. \A b \in Builds : OwnSchema(b)' = OwnSchema(b)
  BY <1>1, <1>2 DEF OwnSchema
<1>4. \A b \in Builds : Heap(b)' = Heap(b)
  BY DEF Heap, Struct, Unordered, Mirrored
<1>5. \A b \in Builds : Walks(b)' = Walks(b)
  BY <1>1, <1>2, <1>4 DEF Walks
<1>6. QED
  BY <1>1, <1>2, <1>3, <1>5 DEF RecordsSchema

\* The last part of a type's name is the struct's own.
LEMMA TypeNameFacts ==
  ASSUME input \in Inputs, NEW b \in Builds
  PROVE  /\ TypeName(Struct(b)) \in Seq(Nat)
         /\ TypeName(Struct(b))[Len(TypeName(Struct(b)))] = Struct(b).name
<1> DEFINE where == Struct(b).where
           names == [i \in DOMAIN where |-> where[i].name]
<1>1. where \in Seq([item : STRING, name : Nat]) /\ Struct(b).name \in Nat
  BY InputFacts DEF IsType, Struct
<1>2. names \in Seq(Nat)
  <2>1. DOMAIN where = 1 .. Len(where) /\ Len(where) \in Nat
    BY <1>1
  <2>2. ASSUME NEW i \in DOMAIN where PROVE where[i].name \in Nat
    <3>1. ASSUME NEW T, NEW q \in Seq(T), NEW k \in DOMAIN q PROVE q[k] \in T
      OBVIOUS
    <3> HIDE DEF where
    <3>2. where[i] \in [item : STRING, name : Nat]
      BY <1>1, <3>1
    <3>3. QED
      BY <3>2
  <2> HIDE DEF where
  <2>3. QED
    BY <2>1, <2>2
<1>3. TypeName(Struct(b)) = Append(names, Struct(b).name)
  BY DEF TypeName
<1> HIDE DEF names
<1>4. QED
  BY <1>1, <1>2, <1>3

LEMMA OwnSchemaType ==
  ASSUME input \in Inputs, NEW b \in Builds
  PROVE  /\ Fingerprint(Labels(Tracked(b))) \in Seq(Nat)
         /\ ToSet(Fingerprint(Labels(Tracked(b)))) = ToSet(Labels(Tracked(b)))
         /\ OwnSchema(b) \in Frames /\ IsSchema(OwnSchema(b))
<1>1. Labels(Tracked(b)) \in Seq(Nat)
  BY TrackedType, LabelsType
<1>2. /\ Fingerprint(Labels(Tracked(b))) \in Seq(Nat)
      /\ ToSet(Fingerprint(Labels(Tracked(b)))) = ToSet(Labels(Tracked(b)))
  BY <1>1, SortedFacts DEF Fingerprint
<1>3. TypeName(Struct(b)) \in Seq(Nat)
  BY TypeNameFacts
<1>4. QED
  BY <1>2, <1>3 DEF OwnSchema, SchemaFrame, Frames, IsSchema

\* The frames of a call: the schema if it is new, and the fields.
LEMMA CallFrames ==
  ASSUME input \in Inputs, NEW b \in Builds, NEW out \in Seq(OutRecord), marked[b] \in BOOLEAN
  PROVE  LET frames == SchemaFrames(b) \o FieldFrames(out)
         IN  /\ frames \in Seq(Frames)
             /\ \A i \in DOMAIN frames :
                  IsSchema(frames[i]) => RecordsSchema /\ frames[i] = OwnSchema(b)
             /\ SchemaIsNew(b) => frames # <<>> /\ IsSchema(frames[1])
<1> DEFINE s == SchemaFrames(b)
           f == FieldFrames(out)
<1>1. DOMAIN out = 1 .. Len(out) /\ Len(out) \in Nat /\ \A i \in DOMAIN out : out[i] \in OutRecord
  OBVIOUS
<1>2. f \in Seq(Frames) /\ \A i \in DOMAIN f : ~IsSchema(f[i])
  <2>1. \A i \in DOMAIN out : FieldFrame(out[i]) \in Frames /\ ~IsSchema(FieldFrame(out[i]))
    BY <1>1 DEF FieldFrame, Frames, IsSchema
  <2>2. QED
    BY <1>1, <2>1 DEF FieldFrames
<1>3. /\ OwnSchema(b) \in Frames /\ IsSchema(OwnSchema(b))
      /\ s = IF SchemaIsNew(b) THEN <<OwnSchema(b)>> ELSE <<>>
  BY OwnSchemaType DEF SchemaFrames, OwnSchema
<1>4. SchemaIsNew(b) \in BOOLEAN /\ (SchemaIsNew(b) => RecordsSchema)
  BY DEF SchemaIsNew, RecordsSchema
<1> HIDE DEF s, f
<1>5. CASE SchemaIsNew(b)
  <2>1. s = <<OwnSchema(b)>>
    BY <1>3, <1>5
  <2>2. ASSUME NEW x \in Frames, NEW q \in Seq(Frames)
        PROVE  /\ <<x>> \o q \in Seq(Frames) /\ <<x>> \o q # <<>>
               /\ (<<x>> \o q)[1] = x
               /\ \A i \in DOMAIN (<<x>> \o q) : i # 1 => i - 1 \in DOMAIN q /\ (<<x>> \o q)[i] = q[i - 1]
    OBVIOUS
  <2>3. QED
    BY <1>2, <1>3, <1>4, <1>5, <2>1, <2>2 DEF s, f
<1>6. CASE ~SchemaIsNew(b)
  <2>1. s = <<>>
    BY <1>3, <1>6
  <2>2. ASSUME NEW q \in Seq(Frames) PROVE <<>> \o q = q
    OBVIOUS
  <2>3. s \o f = f
    BY <1>2, <2>1, <2>2
  <2>4. QED
    BY <1>2, <1>6, <2>3 DEF s, f
<1>7. QED
  BY <1>5, <1>6

LEMMA InitIsGood ==
  ASSUME Init
  PROVE  IInv
<1>1. input.calls \in Nat /\ input.faults \in Nat
  BY InputFacts DEF Init
<1>2. Recorded(<<>>) \in Outcomes(OutRecord)
  BY DEF Recorded, Outcomes
<1>3. <<>> \in Seq(Frames)
  OBVIOUS
<1>4. Types
  BY <1>1, <1>2, <1>3 DEF Init, Types
<1>5. RustCompiles
  BY DEF Init, RustCompiles
<1>6. SchemasAreOwn /\ SchemaFirst /\ LastIsAWalk /\ VerdictStands
  BY DEF Init, SchemasAreOwn, SchemaFirst, LastIsAWalk, VerdictStands
<1>7. QED
  BY <1>4, <1>5, <1>6 DEF IInv

LEMMA CallKeeps ==
  ASSUME IInv, NEW b \in Builds, MayCall(b),
         NEW ok \in BOOLEAN, NEW out \in Seq(OutRecord), NEW frames \in Seq(Frames),
         Called(b, ok, out, frames),
         \A i \in DOMAIN frames :
           IsSchema(frames[i]) => RecordsSchema /\ frames[i] = OwnSchema(b),
         faults' \in 0 .. input.faults,
         refused' \in [Builds -> BOOLEAN],
         \A c \in Builds : refused[c] => refused'[c],
         \A c \in Builds \ {b} : refused'[c] = refused[c],
         ~refused'[b] => /\ [ok |-> ok, out |-> out] \in Walks(b)
                         /\ SchemaIsNew(b) => frames # <<>> /\ IsSchema(frames[1])
  PROVE  IInv'
<1>0. Types /\ RustCompiles /\ SchemasAreOwn /\ SchemaFirst /\ LastIsAWalk /\ VerdictStands
  BY DEF IInv
<1>1. UNCHANGED input /\ UNCHANGED <<down, verdict>> /\ verdict = None
  BY DEF Called, MayCall
<1>2. /\ RecordsSchema' = RecordsSchema
      /\ \A c \in Builds : /\ Struct(c)' = Struct(c)
                           /\ OwnSchema(c)' = OwnSchema(c)
                           /\ Walks(c)' = Walks(c)
  BY <1>1, InputIsFixed
<1>3. RecordsSchema \in BOOLEAN
  BY DEF RecordsSchema
<1>4. /\ calls' = [calls EXCEPT ![b] = @ + 1]
      /\ marked' = [marked EXCEPT ![b] = @ \/ RecordsSchema]
      /\ last' = [last EXCEPT ![b] = [ok |-> ok, out |-> out]]
      /\ file' = [file EXCEPT ![b].frames = @ \o frames]
  BY DEF Called
<1>5. /\ file \in [Builds -> [header : BOOLEAN, frames : Seq(Frames)]]
      /\ calls \in [Builds -> 0 .. input.calls] /\ input.calls \in Nat
      /\ calls[b] < input.calls
  BY <1>0, InputFacts DEF Types, MayCall
<1>6. /\ file'[b].frames = file[b].frames \o frames
      /\ file'[b].header = file[b].header
      /\ \A c \in Builds \ {b} : file'[c] = file[c]
  BY <1>4, <1>5
<1>7. ASSUME NEW q \in Seq(Frames)
      PROVE  /\ q \o frames \in Seq(Frames)
             /\ q = <<>> => q \o frames = frames
             /\ q # <<>> => q \o frames # <<>> /\ (q \o frames)[1] = q[1]
             /\ \A i \in DOMAIN (q \o frames) :
                  \/ i \in DOMAIN q /\ (q \o frames)[i] = q[i]
                  \/ i - Len(q) \in DOMAIN frames /\ (q \o frames)[i] = frames[i - Len(q)]
  OBVIOUS
<1>8. file[b].frames \in Seq(Frames)
  BY <1>5
<1>9. Types'
  <2>1. file' \in [Builds -> [header : BOOLEAN, frames : Seq(Frames)]]
    <3>1. file[b].frames \o frames \in Seq(Frames)
      BY <1>7, <1>8
    <3> DEFINE q == file[b].frames \o frames
    <3>2. file' = [file EXCEPT ![b].frames = q] /\ q \in Seq(Frames)
      BY <1>4, <3>1
    <3> HIDE DEF q
    <3>3. QED
      BY <1>5, <3>2
  <2>2. calls' \in [Builds -> 0 .. input.calls]
    <3>1. calls[b] + 1 \in 0 .. input.calls
      <4>1. calls[b] \in 0 .. input.calls
        BY <1>5
      <4>2. QED
        BY <1>5, <4>1
    <3>2. calls' = [calls EXCEPT ![b] = calls[b] + 1]
      BY <1>4
    <3>3. QED
      BY <1>5, <3>1, <3>2
  <2>3. [ok |-> ok, out |-> out] \in Outcomes(OutRecord)
    BY DEF Outcomes
  <2>4. last' \in [Builds -> Outcomes(OutRecord)] /\ marked' \in [Builds -> BOOLEAN]
    BY <1>0, <1>3, <1>4, <2>3 DEF Types
  <2>5. QED
    BY <1>0, <1>1, <2>1, <2>2, <2>4 DEF Types
<1>10. RustCompiles'
  BY <1>0, <1>1, <1>2 DEF RustCompiles
<1>11. SchemasAreOwn'
  <2> SUFFICES ASSUME NEW c \in Builds, NEW i \in DOMAIN file'[c].frames, IsSchema(file'[c].frames[i])
               PROVE  RecordsSchema /\ file'[c].frames[i] = OwnSchema(c)
    BY <1>2 DEF SchemasAreOwn
  <2>1. CASE c = b
    <3> DEFINE q == file[b].frames
    <3>1. q \in Seq(Frames) /\ file'[c].frames = q \o frames
      BY <1>6, <1>8, <2>1
    <3>2. \A j \in DOMAIN q : IsSchema(q[j]) => RecordsSchema /\ q[j] = OwnSchema(b)
      BY <1>0 DEF SchemasAreOwn
    <3> HIDE DEF q
    <3>3. CASE i \in DOMAIN q /\ (q \o frames)[i] = q[i]
      BY <2>1, <3>1, <3>2, <3>3
    <3>4. CASE i - Len(q) \in DOMAIN frames /\ (q \o frames)[i] = frames[i - Len(q)]
      BY <2>1, <3>1, <3>4
    <3>5. QED
      BY <1>7, <3>1, <3>3, <3>4
  <2>2. CASE c # b
    BY <1>0, <1>6, <2>2 DEF SchemasAreOwn
  <2>3. QED
    BY <2>1, <2>2
<1>12. SchemaFirst'
  <2> SUFFICES ASSUME NEW c \in Builds, RecordsSchema
               PROVE  /\ ~marked'[c] => file'[c].frames = <<>>
                      /\ marked'[c] /\ ~refused'[c] /\ ~down[c] => file'[c].frames # <<>>
                      /\ ~refused'[c] /\ file'[c].frames # <<>> => IsSchema(file'[c].frames[1])
    BY <1>1, <1>2 DEF SchemaFirst
  <2>1. CASE c = b
    <3>1. marked'[b] /\ ~down[b]
      BY <1>0, <1>4 DEF Types, MayCall
    <3>2. ASSUME ~refused'[b]
          PROVE  file'[b].frames # <<>> /\ IsSchema(file'[b].frames[1])
      <4>1. ~refused[b]
        BY <3>2, <1>0 DEF Types
      <4>2. CASE marked[b]
        <5>1. file[b].frames # <<>> /\ IsSchema(file[b].frames[1])
          BY <1>0, <3>1, <4>1, <4>2 DEF SchemaFirst
        <5>2. QED
          BY <1>6, <1>7, <1>8, <5>1
      <4>3. CASE ~marked[b]
        <5>1. file[b].frames = <<>> /\ SchemaIsNew(b)
          BY <1>0, <4>3 DEF SchemaFirst, SchemaIsNew
        <5>2. QED
          BY <1>6, <1>7, <1>8, <3>2, <5>1
      <4>4. QED
        BY <4>2, <4>3
    <3>3. QED
      BY <2>1, <3>1, <3>2
  <2>2. CASE c # b
    <3>1. marked'[c] = marked[c] /\ refused'[c] = refused[c] /\ file'[c] = file[c]
      BY <1>0, <1>4, <1>6, <2>2 DEF Types
    <3>2. QED
      BY <1>0, <3>1 DEF SchemaFirst
  <2>3. QED
    BY <2>1, <2>2
<1>13. LastIsAWalk'
  <2> SUFFICES ASSUME NEW c \in Builds, calls'[c] > 0, ~refused'[c]
               PROVE  last'[c] \in Walks(c)
    BY <1>2 DEF LastIsAWalk
  <2>1. CASE c = b
    BY <1>0, <1>4, <2>1 DEF Types
  <2>2. CASE c # b
    BY <1>0, <1>4, <2>2 DEF Types, LastIsAWalk
  <2>3. QED
    BY <2>1, <2>2
<1>14. VerdictStands'
  BY <1>1 DEF VerdictStands
<1>15. QED
  BY <1>9, <1>10, <1>11, <1>12, <1>13, <1>14 DEF IInv

LEMMA HashReflectedKeeps ==
  ASSUME IInv, NEW b \in Builds, HashReflected(b)
  PROVE  IInv'
<1>1. PICK r \in Walks(b) : Called(b, r.ok, r.out, SchemaFrames(b) \o FieldFrames(r.out))
  BY DEF HashReflected
<1>2. Types
  BY DEF IInv
<1>3. r \in Outcomes(OutRecord)
  BY <1>2, WalksType DEF Types
<1>4. r.ok \in BOOLEAN /\ r.out \in Seq(OutRecord) /\ [ok |-> r.ok, out |-> r.out] = r
  BY <1>3 DEF Outcomes
<1> DEFINE frames == SchemaFrames(b) \o FieldFrames(r.out)
<1>5. /\ frames \in Seq(Frames)
      /\ \A i \in DOMAIN frames : IsSchema(frames[i]) => RecordsSchema /\ frames[i] = OwnSchema(b)
      /\ SchemaIsNew(b) => frames # <<>> /\ IsSchema(frames[1])
  BY <1>2, <1>4, CallFrames DEF Types
<1>6. MayCall(b) /\ UNCHANGED <<faults, refused>> /\ faults \in 0 .. input.faults
      /\ refused \in [Builds -> BOOLEAN]
  BY <1>2 DEF HashReflected, Types
<1>7. Called(b, r.ok, r.out, frames)
  BY <1>1
<1> HIDE DEF frames
<1>8. QED
  BY <1>1, <1>4, <1>5, <1>6, <1>7, CallKeeps

LEMMA AfterRefusalType ==
  ASSUME NEW R, NEW out \in Seq(R), NEW k \in DOMAIN out
  PROVE  AfterRefusal(out, k) \in Seq(R)
<1>1. k \in Nat /\ k >= 1 /\ k <= Len(out) /\ Len(out) \in Nat
  OBVIOUS
<1>2. SubSeq(out, 1, k - 1) \in Seq(R) /\ SubSeq(out, k + 1, Len(out)) \in Seq(R)
  <2>1. \A i \in 1 .. k - 1 : i \in 1 .. Len(out)
    BY <1>1
  <2>2. \A i \in k + 1 .. Len(out) : i \in 1 .. Len(out)
    BY <1>1
  <2>3. QED
    BY <1>1, <2>1, <2>2, SubSeqProperties
<1>3. \A a, b \in Seq(R) : a \o b \in Seq(R)
  OBVIOUS
<1>4. QED
  BY <1>2, <1>3 DEF AfterRefusal, RemoveAt

LEMMA HashRefusedKeeps ==
  ASSUME IInv, NEW b \in Builds, HashRefused(b)
  PROVE  IInv'
<1>1. Types
  BY DEF IInv
<1>2. /\ MayCall(b) /\ faults' = faults - 1 /\ faults > 0
      /\ refused' = [refused EXCEPT ![b] = TRUE]
  BY DEF HashRefused
<1>3. /\ faults' \in 0 .. input.faults
      /\ refused' \in [Builds -> BOOLEAN] /\ refused'[b]
      /\ \A c \in Builds : refused[c] => refused'[c]
      /\ \A c \in Builds \ {b} : refused'[c] = refused[c]
  BY <1>1, <1>2, InputFacts DEF Types
<1>4. ASSUME Called(b, FALSE, <<>>, <<>>) PROVE IInv'
  <2>1. <<>> \in Seq(OutRecord) /\ <<>> \in Seq(Frames) /\ DOMAIN <<>> = {}
    OBVIOUS
  <2>2. QED
    BY <1>2, <1>3, <1>4, <2>1, CallKeeps
<1>5. ASSUME NEW r \in Walks(b), NEW k \in DOMAIN r.out,
             Called(b, FALSE, AfterRefusal(r.out, k),
                    SchemaFrames(b) \o FieldFrames(AfterRefusal(r.out, k)))
      PROVE  IInv'
  <2>1. r \in Outcomes(OutRecord)
    BY <1>1, WalksType DEF Types
  <2>2. AfterRefusal(r.out, k) \in Seq(OutRecord)
    BY <2>1, AfterRefusalType DEF Outcomes
  <2> DEFINE out == AfterRefusal(r.out, k)
             frames == SchemaFrames(b) \o FieldFrames(out)
  <2>3. /\ frames \in Seq(Frames)
        /\ \A i \in DOMAIN frames : IsSchema(frames[i]) => RecordsSchema /\ frames[i] = OwnSchema(b)
    BY <1>1, <2>2, CallFrames DEF Types
  <2>4. Called(b, FALSE, out, frames)
    BY <1>5
  <2> HIDE DEF frames, out
  <2>5. QED
    BY <1>2, <1>3, <2>2, <2>3, <2>4, CallKeeps DEF out
<1>6. QED
  BY <1>4, <1>5 DEF HashRefused

LEMMA CrashKeeps ==
  ASSUME IInv, NEW b \in Builds, Crash(b)
  PROVE  IInv'
<1>0. Types /\ RustCompiles /\ SchemasAreOwn /\ SchemaFirst /\ LastIsAWalk /\ VerdictStands
  BY DEF IInv
<1>1. /\ UNCHANGED <<input, marked, calls, last, refused, verdict>>
      /\ verdict = None /\ faults > 0 /\ faults' = faults - 1
      /\ down' = [down EXCEPT ![b] = TRUE]
  BY DEF Crash
<1>2. /\ RecordsSchema' = RecordsSchema
      /\ \A c \in Builds : OwnSchema(c)' = OwnSchema(c) /\ Walks(c)' = Walks(c)
                           /\ Struct(c)' = Struct(c)
  BY <1>1, InputIsFixed
<1>3. file \in [Builds -> [header : BOOLEAN, frames : Seq(Frames)]]
  BY <1>0 DEF Types
<1> DEFINE q == file[b].frames
           q2 == file'[b].frames
<1>4. q \in Seq(Frames)
  BY <1>3
<1> DEFINE Cut == /\ file' \in [Builds -> [header : BOOLEAN, frames : Seq(Frames)]]
                  /\ \A c \in Builds \ {b} : file'[c] = file[c]
                  /\ \A i \in DOMAIN q2 : i \in DOMAIN q /\ q2[i] = q[i]
<1>5. Cut
  <2>1. CASE file' = [file EXCEPT ![b] = [header |-> FALSE, frames |-> <<>>]]
    <3>1. <<>> \in Seq(Frames) /\ DOMAIN <<>> = {}
      OBVIOUS
    <3>2. QED
      BY <1>3, <2>1, <3>1
  <2>2. ASSUME NEW n \in 0 .. Len(q), file' = [file EXCEPT ![b].frames = SubSeq(@, 1, n)]
        PROVE  Cut
    <3>1. n \in Nat /\ Len(q) \in Nat /\ n <= Len(q) /\ DOMAIN q = 1 .. Len(q)
      BY <1>4
    <3>2. \A i \in 1 .. n : i \in 1 .. Len(q)
      BY <3>1
    <3> HIDE DEF q
    <3>3. SubSeq(q, 1, n) \in Seq(Frames) /\ DOMAIN SubSeq(q, 1, n) = 1 .. n
          /\ \A i \in 1 .. n : SubSeq(q, 1, n)[i] = q[i]
      BY <1>4, <3>1, <3>2, SubSeqProperties
    <3>4. file'[b].frames = SubSeq(q, 1, n)
      BY <1>3, <2>2 DEF q
    <3>5. file' \in [Builds -> [header : BOOLEAN, frames : Seq(Frames)]]
      BY <1>3, <2>2, <3>3 DEF q
    <3>6. \A c \in Builds \ {b} : file'[c] = file[c]
      BY <1>3, <2>2
    <3>7. QED
      BY <3>1, <3>2, <3>3, <3>4, <3>5, <3>6
  <2>3. QED
    BY <2>1, <2>2 DEF Crash
<1>6. q2 \in Seq(Frames)
  BY <1>5
<1>7. down'[b] /\ down' \in [Builds -> BOOLEAN] /\ \A c \in Builds \ {b} : down'[c] = down[c]
  BY <1>0, <1>1 DEF Types
<1>8. Types'
  <2>1. faults' \in 0 .. input.faults
    BY <1>0, <1>1, InputFacts DEF Types
  <2>2. QED
    BY <1>0, <1>1, <1>5, <1>7, <2>1 DEF Types
<1>9. RustCompiles'
  BY <1>0, <1>1, <1>2 DEF RustCompiles
<1>10. SchemasAreOwn'
  <2> SUFFICES ASSUME NEW c \in Builds, NEW i \in DOMAIN file'[c].frames, IsSchema(file'[c].frames[i])
               PROVE  RecordsSchema /\ file'[c].frames[i] = OwnSchema(c)
    BY <1>2 DEF SchemasAreOwn
  <2>1. i \in DOMAIN file[c].frames /\ file'[c].frames[i] = file[c].frames[i]
    BY <1>5
  <2>2. QED
    BY <1>0, <2>1 DEF SchemasAreOwn
<1>11. SchemaFirst'
  <2> SUFFICES ASSUME NEW c \in Builds, RecordsSchema
               PROVE  /\ ~marked[c] => file'[c].frames = <<>>
                      /\ marked[c] /\ ~refused[c] /\ ~down'[c] => file'[c].frames # <<>>
                      /\ ~refused[c] /\ file'[c].frames # <<>> => IsSchema(file'[c].frames[1])
    BY <1>1, <1>2 DEF SchemaFirst
  <2>1. CASE c = b
    <3> HIDE DEF q, q2
    <3>1. q2 # <<>> => 1 \in DOMAIN q2
      BY <1>6
    <3>2. q2 # <<>> => q # <<>> /\ q2[1] = q[1]
      BY <1>4, <1>5, <3>1
    <3>3. QED
      BY <1>0, <1>7, <2>1, <3>2 DEF SchemaFirst, q, q2
  <2>2. CASE c # b
    BY <1>0, <1>5, <1>7, <2>2 DEF SchemaFirst
  <2>3. QED
    BY <2>1, <2>2
<1>12. LastIsAWalk'
  BY <1>0, <1>1, <1>2 DEF LastIsAWalk
<1>13. VerdictStands'
  BY <1>1 DEF VerdictStands
<1>14. QED
  BY <1>8, <1>9, <1>10, <1>11, <1>12, <1>13 DEF IInv

LEMMA SchemaDiffKeeps ==
  ASSUME IInv, SchemaDiff
  PROVE  IInv'
<1>0. Types /\ RustCompiles /\ SchemasAreOwn /\ SchemaFirst /\ LastIsAWalk /\ VerdictStands
  BY DEF IInv
<1>1. /\ UNCHANGED <<input, file, marked, calls, faults, last, refused, down>>
      /\ verdict' = RunSchemaDiff(file[1], file[2])
  BY DEF SchemaDiff
<1>2. /\ RecordsSchema' = RecordsSchema
      /\ \A c \in Builds : OwnSchema(c)' = OwnSchema(c) /\ Walks(c)' = Walks(c)
                           /\ Struct(c)' = Struct(c)
  BY <1>1, InputIsFixed
<1>3. RunSchemaDiff(file[1], file[2]) \in {0, 1, 2}
  BY DEF RunSchemaDiff
<1>4. Types'
  BY <1>0, <1>1, <1>3 DEF Types
<1>5. RustCompiles' /\ SchemasAreOwn' /\ LastIsAWalk'
  BY <1>0, <1>1, <1>2 DEF RustCompiles, SchemasAreOwn, LastIsAWalk
<1>6. SchemaFirst'
  BY <1>0, <1>1, <1>2 DEF SchemaFirst
<1>7. VerdictStands'
  BY <1>1 DEF VerdictStands
<1>8. QED
  BY <1>4, <1>5, <1>6, <1>7 DEF IInv

LEMMA StutterKeeps ==
  ASSUME IInv, UNCHANGED vars
  PROVE  IInv'
<1>0. Types /\ RustCompiles /\ SchemasAreOwn /\ SchemaFirst /\ LastIsAWalk /\ VerdictStands
  BY DEF IInv
<1>1. UNCHANGED <<input, file, marked, calls, faults, last, refused, down, verdict>>
  BY DEF vars
<1>2. /\ RecordsSchema' = RecordsSchema
      /\ \A c \in Builds : OwnSchema(c)' = OwnSchema(c) /\ Walks(c)' = Walks(c)
                           /\ Struct(c)' = Struct(c)
  BY <1>1, InputIsFixed
<1>3. Types' /\ RustCompiles' /\ SchemasAreOwn' /\ SchemaFirst' /\ LastIsAWalk' /\ VerdictStands'
  BY <1>0, <1>1, <1>2
     DEF Types, RustCompiles, SchemasAreOwn, SchemaFirst, LastIsAWalk, VerdictStands
<1>4. QED
  BY <1>3 DEF IInv

\* The invariant holds of every state of every behaviour.
LEMMA AlwaysGood == Spec => []IInv
<1>1. Init => IInv
  BY InitIsGood
<1>2. IInv /\ [Next]_vars => IInv'
  <2> SUFFICES ASSUME IInv, [Next]_vars PROVE IInv'
    OBVIOUS
  <2>1. ASSUME NEW b \in Builds, HashReflected(b) PROVE IInv'
    BY <2>1, HashReflectedKeeps
  <2>2. ASSUME NEW b \in Builds, HashRefused(b) PROVE IInv'
    BY <2>2, HashRefusedKeeps
  <2>3. ASSUME NEW b \in Builds, Crash(b) PROVE IInv'
    BY <2>3, CrashKeeps
  <2>4. ASSUME SchemaDiff PROVE IInv'
    BY <2>4, SchemaDiffKeeps
  <2>5. ASSUME UNCHANGED vars PROVE IInv'
    BY <2>5, StutterKeeps
  <2>6. QED
    BY <2>1, <2>2, <2>3, <2>4, <2>5 DEF Next
<1>3. QED
  BY <1>1, <1>2, PTL DEF Spec

(* Calls and faults stay within what the input allows, every frame of a    *)
(* recording is a schema or a field, whatever is walked, and schema-diff   *)
(* exits with one of the codes main.rs documents.                          *)
THEOREM TypeCorrect == Spec => []TypeOK
<1>1. IInv => TypeOK
  <2> SUFFICES ASSUME Types PROVE TypeOK
    BY DEF IInv
  <2>1. input.engine \in Engines
    BY InputFacts DEF Types
  <2>2. ASSUME NEW b \in Builds
        PROVE  /\ file[b].header \in BOOLEAN
               /\ \A i \in DOMAIN file[b].frames : file[b].frames[i].kind \in {"schema", "field"}
               /\ last[b].ok \in BOOLEAN
    <3>1. file[b] \in [header : BOOLEAN, frames : Seq(Frames)] /\ last[b] \in Outcomes(OutRecord)
      BY DEF Types
    <3>2. ASSUME NEW i \in DOMAIN file[b].frames PROVE file[b].frames[i].kind \in {"schema", "field"}
      <4>1. file[b].frames[i] \in Frames
        BY <3>1
      <4>2. QED
        BY <4>1 DEF Frames
    <3>3. QED
      BY <3>1, <3>2 DEF Outcomes
  <2>3. QED
    BY <2>1, <2>2 DEF Types, TypeOK
<1>2. QED
  BY <1>1, AlwaysGood, PTL

-----------------------------------------------------------------------------
(* Which fields a compiling Rust type, or a tagged one elsewhere, tracks.  *)
LEMMA MarkingsOf ==
  ASSUME input \in Inputs, RustCompiles, NEW b \in Builds, NEW f \in ToSet(Struct(b).fields),
         RecordsSchema
  PROVE  /\ f.marks \in Seq(STRING)
         /\ input.engine = "bevy" => f.marks = <<>> \/ f.marks[1] \in {"hash", "reflect", "skip"}
         /\ input.engine # "bevy" => f.marks \in {<<>>, <<"hash">>}
<1>1. PICK i \in DOMAIN Struct(b).fields : f = Struct(b).fields[i]
  BY DEF ToSet
<1>2. f \in Kid(DOMAIN Heap(b))
  BY <1>1, TrackedType
<1>3. CASE input.engine = "bevy"
  BY <1>1, <1>2, <1>3 DEF RustCompiles, Compiles, DeriveMarking, Kid
<1>4. CASE input.engine # "bevy"
  BY <1>1, <1>2, <1>4, InputMore DEF RecordsSchema, Struct, Kid
<1>5. QED
  BY <1>3, <1>4

LEMMA LabelSet ==
  ASSUME NEW fields
  PROVE  ToSet(Labels(fields)) = {f.label : f \in ToSet(fields)}
BY DEF Labels, ToSet

LEMMA TrackedLabels ==
  ASSUME input \in Inputs, RustCompiles, NEW b \in Builds, RecordsSchema
  PROVE  ToSet(Labels(Tracked(b))) = TaggedLabels(b)
<1> DEFINE fields == Struct(b).fields
           Tagged(f) == f.marks # <<>> /\ f.marks[1] # "skip"
<1>1. fields \in Seq(Kid(DOMAIN Heap(b)))
  BY TrackedType
<1>2. ASSUME NEW f \in ToSet(fields)
      PROVE  /\ input.engine = "bevy" => (DeriveMarking(f.marks) \in {"hash", "reflect"} <=> Tagged(f))
             /\ input.engine # "bevy" => (Marked(f) <=> Tagged(f))
  <2>1. /\ f.marks \in Seq(STRING)
        /\ input.engine = "bevy" => f.marks = <<>> \/ f.marks[1] \in {"hash", "reflect", "skip"}
        /\ input.engine # "bevy" => f.marks \in {<<>>, <<"hash">>}
    BY MarkingsOf
  <2>2. CASE input.engine = "bevy"
    <3>1. CASE f.marks = <<>>
      BY <2>2, <3>1 DEF DeriveMarking
    <3>2. CASE f.marks # <<>> /\ f.marks[1] \in {"hash", "reflect", "skip"}
      BY <2>2, <3>2 DEF DeriveMarking
    <3>3. QED
      BY <2>1, <2>2, <3>1, <3>2
  <2>3. CASE input.engine # "bevy"
    <3>1. <<"hash">>[1] # "skip" /\ <<"hash">> # <<>>
      OBVIOUS
    <3>2. QED
      BY <2>1, <2>3, <3>1 DEF Marked
  <2>4. QED
    BY <2>2, <2>3
<1>3. TaggedLabels(b) = {f.label : f \in {g \in ToSet(fields) : Tagged(g)}}
  BY DEF TaggedLabels
<1> HIDE DEF Tagged
<1>4. CASE input.engine = "bevy"
  <2> DEFINE S == {f \in ToSet(fields) : f.label \in TrackedFields(Struct(b))}
  <2>1. ToSet(Tracked(b)) = ToSet(fields) \cap S
    BY <1>1, <1>4, KeptFacts DEF Tracked
  <2>2. TrackedFields(Struct(b)) = TaggedLabels(b)
    BY <1>2, <1>3, <1>4 DEF TrackedFields
  <2>3. {f.label : f \in ToSet(fields) \cap S} = TaggedLabels(b)
    BY <1>3, <2>2
  <2>4. QED
    BY <2>1, <2>3, LabelSet
<1>5. CASE input.engine # "bevy"
  <2> DEFINE S == {f \in ToSet(fields) : Marked(f)}
  <2>1. ToSet(Tracked(b)) = ToSet(fields) \cap S
    BY <1>1, <1>5, KeptFacts DEF Tracked
  <2>2. {f.label : f \in ToSet(fields) \cap S} = TaggedLabels(b)
    BY <1>2, <1>3, <1>5
  <2>3. QED
    BY <2>1, <2>2, LabelSet
<1>6. QED
  BY <1>4, <1>5

\* lint and the derive macro read the attributes of a field that compiles alike.
Tracking == {"hash", "reflect"}

LEMMA LintReadsAlike ==
  ASSUME NEW marks \in Seq(STRING), marks = <<>> \/ marks[1] \in {"hash", "reflect", "skip"}
  PROVE  Marking(marks, Tracking) = IF marks = <<>> THEN "unmarked"
                                    ELSE IF marks[1] = "skip" THEN "skip" ELSE "tracked"
<1>1. CASE marks = <<>>
  <2>1. Parsed(marks) = {}
    BY <1>1 DEF Parsed
  <2>2. QED
    BY <1>1, <2>1 DEF Marking
<1>2. CASE marks # <<>> /\ marks[1] \in {"hash", "reflect", "skip"}
  <2> DEFINE least == CHOOSE i \in Parsed(marks) : \A j \in Parsed(marks) : i <= j
  <2>1. 1 \in Parsed(marks) /\ \A j \in Parsed(marks) : j \in Nat /\ 1 <= j
    <3>1. DOMAIN marks = 1 .. Len(marks) /\ Len(marks) \in Nat /\ Len(marks) # 0
      BY <1>2
    <3>2. QED
      BY <1>2, <3>1 DEF Parsed, Malformed
  <2>2. least \in Parsed(marks) /\ \A j \in Parsed(marks) : least <= j
    BY <2>1
  <2>3. least = 1
    <3> HIDE DEF least
    <3>1. QED
      BY <2>1, <2>2
  <2>4. Parsed(marks) # {}
    BY <2>1
  <2>5. Marking(marks, Tracking) =
          CASE Parsed(marks) = {} -> "unmarked"
            [] Parsed(marks) # {} /\ marks[least] \in {"hash", "reflect"} -> "tracked"
            [] Parsed(marks) # {} /\ marks[least] = "skip" -> "skip"
            [] OTHER -> "unmarked"
    BY DEF Marking, Tracking
  <2> HIDE DEF least
  <2>6. QED
    BY <1>2, <2>3, <2>4, <2>5
<1>3. QED
  BY <1>1, <1>2

(* A declaration as it stands in the source: where cfg changes nothing     *)
(* that lint reads, the struct the derive macro sees has the same fields,  *)
(* each with the attributes lint reads.                                    *)
Attrs == Seq([cfg : Cfg, mark : STRING])
SourceField(nodes) == [label : Nat, to : nodes, cfg : Cfg, attrs : Attrs]

LEMMA InputSource ==
  ASSUME NEW inp \in Inputs, NEW b \in Builds
  PROVE  /\ inp.source[b].fields \in Seq(SourceField(DOMAIN inp.heap))
         /\ inp.struct[b] = Expanded(inp.source[b])
BY InputsAssumption DEF SourceField, Attrs

LEMMA AttributesAsWritten ==
  ASSUME NEW attrs \in Attrs, \A k \in DOMAIN attrs : attrs[k].cfg # "on"
  PROVE  Present(attrs) = Written(attrs)
<1>1. ASSUME NEW x \in ToSet(attrs) PROVE x.cfg # "off" <=> x.cfg = "none"
  <2>1. PICK k \in DOMAIN attrs : x = attrs[k]
    BY DEF ToSet
  <2>2. x \in [cfg : Cfg, mark : STRING]
    <3>1. ASSUME NEW T, NEW q \in Seq(T), NEW i \in DOMAIN q PROVE q[i] \in T
      OBVIOUS
    <3>2. QED
      BY <2>1, <3>1 DEF Attrs
  <2>3. QED
    BY <2>1, <2>2 DEF Cfg
<1>2. {x \in ToSet(attrs) : x.cfg # "off"} = {x \in ToSet(attrs) : x.cfg = "none"}
  BY <1>1
<1>3. QED
  BY <1>2 DEF Present, Written

\* A field of the source, and the same field as the derive macro sees it.
SameField(g, f) == f.label = g.label /\ f.marks = Marks(Written(g.attrs))

LEMMA SourceIsCompiled ==
  ASSUME input \in Inputs, NEW b \in Builds, Unconditional(Source(b))
  PROVE  /\ Struct(b).name = Source(b).name
         /\ \A g \in ToSet(Source(b).fields) : \E f \in ToSet(Struct(b).fields) : SameField(g, f)
         /\ \A f \in ToSet(Struct(b).fields) : \E g \in ToSet(Source(b).fields) : SameField(g, f)
<1> DEFINE all == Source(b).fields
           F == Present(all)
           T == SourceField(DOMAIN input.heap)
           compiled(g) == [label |-> g.label, to |-> g.to, marks |-> Marks(Present(g.attrs))]
<1>1. all \in Seq(T) /\ Struct(b) = Expanded(Source(b))
  BY InputSource DEF Source, Struct
<1>2. Struct(b).name = Source(b).name /\ Struct(b).fields = [i \in DOMAIN F |-> compiled(F[i])]
  BY <1>1 DEF Expanded
<1>3. ASSUME NEW g \in ToSet(all)
      PROVE  g \in T /\ g.cfg # "off" /\ \A k \in DOMAIN g.attrs : g.attrs[k].cfg # "on"
  <2>1. PICK i \in DOMAIN all : g = all[i]
    BY DEF ToSet
  <2>2. QED
    BY <1>1, <2>1 DEF Unconditional
<1>4. ToSet(F) = ToSet(all)
  <2> DEFINE S == {x \in ToSet(all) : x.cfg # "off"}
  <2>1. S = ToSet(all)
    BY <1>3
  <2>2. F = Kept(all, S)
    BY DEF Present
  <2> HIDE DEF S, F, T, all
  <2>3. ToSet(Kept(all, S)) = ToSet(all) \cap S
    BY <1>1, KeptFacts
  <2>4. QED
    BY <2>1, <2>2, <2>3
<1>5. ASSUME NEW g \in ToSet(all) PROVE SameField(g, compiled(g))
  <2>1. g.attrs \in Attrs
    BY <1>3 DEF SourceField
  <2>2. Present(g.attrs) = Written(g.attrs)
    BY <1>3, <2>1, AttributesAsWritten
  <2>3. QED
    BY <2>2 DEF SameField
<1>6. ToSet(Struct(b).fields) = {compiled(g) : g \in ToSet(F)}
  <2> HIDE DEF F, compiled
  <2>1. QED
    BY <1>2 DEF ToSet
<1> HIDE DEF F, compiled
<1>7. QED
  BY <1>2, <1>4, <1>5, <1>6

(* The fields in a schema frame are those lint lists as tracked, and it    *)
(* lists as untracked every field without a marking, of every type it can  *)
(* see, whatever attributes a field that compiles has (lint.rs             *)
(* field_marking, foldback-derive), as long as no cfg comes between what   *)
(* lint reads and what the macro does.                                     *)
THEOREM LintAgreesWithSchemaCorrect == Spec => []LintAgreesWithSchema
<1>1. IInv => LintAgreesWithSchema
  <2> SUFFICES ASSUME IInv,
                      NEW b \in Builds, NEW i \in DOMAIN file[b].frames,
                      InLintsReach(b, file[b].frames[i])
               PROVE  ListsWhatIsRecorded(b, file[b].frames[i])
    BY DEF LintAgreesWithSchema
  <2> DEFINE s == Source(b)
             frame == file[b].frames[i]
             listed == [name |-> s.name, tracked |-> LintLabels(s, "tracked"),
                        untracked |-> LintLabels(s, "unmarked")]
             unmarked == {f.label : f \in {g \in ToSet(Struct(b).fields) : g.marks = <<>>}}
  <2>1. listed \in CollectTrackedStructs({s})
    BY DEF CollectTrackedStructs, DerivesFoldbackHash, InLintsReach
  <2>2. /\ RecordsSchema /\ frame = OwnSchema(b) /\ input \in Inputs /\ RustCompiles
        /\ Unconditional(Source(b))
    BY DEF IInv, SchemasAreOwn, Types, InLintsReach
  <2>3. /\ frame.type[Len(frame.type)] = Struct(b).name
        /\ ToSet(frame.fields) = TaggedLabels(b)
    <3>1. frame.type = TypeName(Struct(b)) /\ frame.fields = Fingerprint(Labels(Tracked(b)))
      BY <2>2 DEF OwnSchema, SchemaFrame
    <3> HIDE DEF frame
    <3>2. ToSet(Fingerprint(Labels(Tracked(b)))) = TaggedLabels(b)
      BY <2>2, OwnSchemaType, TrackedLabels
    <3>3. QED
      BY <2>2, <3>1, <3>2, TypeNameFacts
  <2>4. /\ Struct(b).name = s.name
        /\ \A g \in ToSet(s.fields) : \E f \in ToSet(Struct(b).fields) : SameField(g, f)
        /\ \A f \in ToSet(Struct(b).fields) : \E g \in ToSet(s.fields) : SameField(g, f)
    BY <2>2, SourceIsCompiled
  <2>5. ASSUME NEW g, NEW f \in ToSet(Struct(b).fields), SameField(g, f)
        PROVE  /\ LintMarking(g.attrs) = "tracked" <=> f.marks # <<>> /\ f.marks[1] # "skip"
               /\ LintMarking(g.attrs) = "unmarked" <=> f.marks = <<>>
    <3>1. f.marks \in Seq(STRING) /\ (f.marks = <<>> \/ f.marks[1] \in {"hash", "reflect", "skip"})
      BY <2>2, MarkingsOf DEF InLintsReach
    <3>2. LintMarking(g.attrs) = Marking(f.marks, Tracking)
      BY <2>5 DEF LintMarking, SameField, Tracking
    <3>3. QED
      BY <3>1, <3>2, LintReadsAlike
  <2>6. LintLabels(s, "tracked") = TaggedLabels(b)
    <3> DEFINE F == ToSet(Struct(b).fields)
               G == ToSet(s.fields)
               tagged == {f \in F : f.marks # <<>> /\ f.marks[1] # "skip"}
               listing == {g \in G : LintMarking(g.attrs) = "tracked"}
    <3>1. \A g \in listing : \E f \in tagged : f.label = g.label
      <4>1. ASSUME NEW g \in listing PROVE \E f \in tagged : f.label = g.label
        <5>1. PICK f \in F : SameField(g, f)
          BY <2>4
        <5>2. f \in tagged
          BY <2>5, <5>1
        <5>3. QED
          BY <5>1, <5>2 DEF SameField
      <4>2. QED
        BY <4>1
    <3>2. \A f \in tagged : \E g \in listing : f.label = g.label
      <4>1. ASSUME NEW f \in tagged PROVE \E g \in listing : f.label = g.label
        <5>1. PICK g \in G : SameField(g, f)
          BY <2>4
        <5>2. g \in listing
          BY <2>5, <5>1
        <5>3. QED
          BY <5>1, <5>2 DEF SameField
      <4>2. QED
        BY <4>1
    <3>3. /\ TaggedLabels(b) = {f.label : f \in tagged}
          /\ LintLabels(s, "tracked") = {g.label : g \in listing}
      BY DEF TaggedLabels, LintLabels
    <3> HIDE DEF tagged, listing
    <3>4. QED
      BY <3>1, <3>2, <3>3
  <2>7. LintLabels(s, "unmarked") = unmarked
    BY <2>4, <2>5 DEF LintLabels, SameField
  <2> HIDE DEF frame, s, unmarked
  <2>8. listed.name = frame.type[Len(frame.type)] /\ listed.tracked = ToSet(frame.fields)
        /\ listed.untracked = unmarked
    BY <2>3, <2>4, <2>6, <2>7
  <2> HIDE DEF listed
  <2>9. QED
    BY <2>1, <2>8 DEF ListsWhatIsRecorded, frame, s, unmarked
<1>2. QED
  BY <1>1, AlwaysGood, PTL

-----------------------------------------------------------------------------
(* Of keys that are all different, the rank of one is how many are less,   *)
(* and their order depends on the set of them alone.                       *)
Different(keys) == \A i, j \in DOMAIN keys : keys[i] = keys[j] => i = j
Lower(S, x) == {y \in S : y < x}

LEMMA DifferentRank ==
  ASSUME NEW keys \in Seq(Nat), Different(keys), NEW j \in DOMAIN keys
  PROVE  /\ IsFiniteSet(Lower(ToSet(keys), keys[j]))
         /\ Rank(keys, j) = Cardinality(Lower(ToSet(keys), keys[j]))
<1> DEFINE B == Behind(keys, j)
           L == Lower(ToSet(keys), keys[j])
           f == [i \in B |-> keys[i]]
<1>1. \A i \in DOMAIN keys : keys[i] \in Nat /\ (Before(keys, i, j) <=> keys[i] < keys[j])
  BY DEF Different, Before
<1>2. \A i \in B : i \in DOMAIN keys /\ keys[i] \in L
  BY <1>1 DEF Behind, Lower, ToSet
<1>3. \A y \in L : \E i \in B : keys[i] = y
  BY <1>1 DEF Behind, Lower, ToSet
<1>4. f \in [B -> L]
  BY <1>2
<1>5. \A i, k \in B : f[i] = f[k] => i = k
  BY <1>2 DEF Different
<1>6. \A y \in L : \E i \in B : f[i] = y
  BY <1>3
<1> HIDE DEF f, B, L
<1>7. f \in Bijection(B, L)
  BY <1>4, <1>5, <1>6 DEF Bijection, Injection, Surjection, IsInjective
<1>8. ExistsBijection(B, L)
  BY <1>7 DEF ExistsBijection
<1>9. IsFiniteSet(B) /\ Rank(keys, j) = Cardinality(B)
  BY BehindFacts DEF B
<1>10. IsFiniteSet(L) /\ Cardinality(L) = Cardinality(B)
  BY <1>8, <1>9, FS_Bijection
<1>11. QED
  BY <1>9, <1>10 DEF L

LEMMA DifferentLength ==
  ASSUME NEW keys \in Seq(Nat), Different(keys)
  PROVE  IsFiniteSet(ToSet(keys)) /\ Cardinality(ToSet(keys)) = Len(keys)
<1> DEFINE D == 1 .. Len(keys)
           S == ToSet(keys)
<1>1. D = DOMAIN keys /\ Len(keys) \in Nat
  OBVIOUS
<1>3. IsFiniteSet(D) /\ Cardinality(D) = Len(keys)
  BY <1>1, CountTo
<1>4. keys \in [D -> S] /\ (\A y \in S : \E i \in D : keys[i] = y)
  BY DEF ToSet
<1>5. \A i, j \in D : keys[i] = keys[j] => i = j
  BY <1>1 DEF Different
<1> HIDE DEF D, S
<1>6. keys \in Bijection(D, S)
  BY <1>4, <1>5 DEF Bijection, Injection, Surjection, IsInjective
<1>7. ExistsBijection(D, S)
  BY <1>6 DEF ExistsBijection
<1>8. QED
  BY <1>3, <1>7, FS_Bijection DEF S

LEMMA LowerGrows ==
  ASSUME NEW S \in SUBSET Nat, NEW x \in S, NEW y \in Nat, x < y, IsFiniteSet(Lower(S, y))
  PROVE  Cardinality(Lower(S, x)) # Cardinality(Lower(S, y))
<1>1. Lower(S, x) \in SUBSET Lower(S, y) /\ x \in Lower(S, y) /\ x \notin Lower(S, x)
  <2>1. x \in Nat /\ ~(x < x)
    OBVIOUS
  <2>2. ASSUME NEW z \in Lower(S, x) PROVE z \in Lower(S, y)
    <3>1. z \in S /\ z \in Nat /\ z < x
      BY DEF Lower
    <3>2. z < y
      BY <2>1, <3>1
    <3>3. QED
      BY <3>1, <3>2 DEF Lower
  <2>3. QED
    BY <2>1, <2>2 DEF Lower
<1>2. QED
  BY <1>1, FS_Subset

LEMMA SameOrder ==
  ASSUME NEW l \in Seq(Nat), NEW m \in Seq(Nat), Different(l), Different(m), ToSet(l) = ToSet(m)
  PROVE  /\ Len(l) = Len(m)
         /\ \A k \in DOMAIN l : l[At(l, k)] = m[At(m, k)]
<1>1. Len(l) = Len(m)
  BY DifferentLength
<1>2. ASSUME NEW k \in DOMAIN l PROVE l[At(l, k)] = m[At(m, k)]
  <2> DEFINE S == ToSet(l)
             x == l[At(l, k)]
             y == m[At(m, k)]
  <2>1. k \in DOMAIN m
    BY <1>1
  <2>2. At(l, k) \in DOMAIN l /\ At(m, k) \in DOMAIN m
        /\ Rank(l, At(l, k)) = k - 1 /\ Rank(m, At(m, k)) = k - 1
    BY <2>1, AtFacts
  <2>3. /\ IsFiniteSet(Lower(S, x)) /\ Cardinality(Lower(S, x)) = k - 1
        /\ IsFiniteSet(Lower(S, y)) /\ Cardinality(Lower(S, y)) = k - 1
    BY <2>2, DifferentRank
  <2>4. x \in S /\ y \in S
    BY <2>2 DEF ToSet
  <2>5. S \in SUBSET Nat
    BY DEF ToSet
  <2> HIDE DEF x, y, S
  <2>6. ~(x < y) /\ ~(y < x)
    BY <2>3, <2>4, <2>5, LowerGrows
  <2>7. x = y
    BY <2>4, <2>5, <2>6
  <2>8. QED
    BY <2>7 DEF x, y
<1>3. QED
  BY <1>1, <1>2

\* A fingerprint depends on the set of the labels alone, and tells two sets apart.
LEMMA FingerprintsTell ==
  ASSUME NEW l \in Seq(Nat), NEW m \in Seq(Nat), Different(l), Different(m)
  PROVE  Fingerprint(l) = Fingerprint(m) <=> ToSet(l) = ToSet(m)
<1>1. ToSet(Fingerprint(l)) = ToSet(l) /\ ToSet(Fingerprint(m)) = ToSet(m)
  BY SortedFacts DEF Fingerprint
<1>2. ASSUME ToSet(l) = ToSet(m) PROVE Fingerprint(l) = Fingerprint(m)
  <2>1. DOMAIN l = DOMAIN m /\ \A k \in DOMAIN l : l[At(l, k)] = m[At(m, k)]
    <3>1. Len(l) = Len(m) /\ \A k \in DOMAIN l : l[At(l, k)] = m[At(m, k)]
      BY <1>2, SameOrder
    <3>2. QED
      BY <3>1
  <2>2. /\ Fingerprint(l) = [k \in DOMAIN l |-> l[At(l, k)]]
        /\ Fingerprint(m) = [k \in DOMAIN m |-> m[At(m, k)]]
    BY DEF Fingerprint, Sorted, At
  <2>3. QED
    BY <2>1, <2>2
<1>3. QED
  BY <1>1, <1>2

\* What schema-diff reads of a recording: its own schema, if it shows one.
LEMMA Extracted ==
  ASSUME IInv, NEW b \in Builds
  PROVE  LET x == ExtractSchemas(file[b].frames)
             some == \E i \in DOMAIN file[b].frames : IsSchema(file[b].frames[i])
         IN  /\ some => RecordsSchema
             /\ DOMAIN x = IF some THEN {TypeName(Struct(b))} ELSE {}
             /\ some => x[TypeName(Struct(b))] = Fingerprint(Labels(Tracked(b)))
<1> DEFINE q == file[b].frames
           schemas == {i \in DOMAIN q : IsSchema(q[i])}
           Latest(type) == CHOOSE i \in schemas :
                      /\ q[i].type = type
                      /\ \A j \in schemas : q[j].type = type => j <= i
           x == ExtractSchemas(q)
           name == TypeName(Struct(b))
           own == Fingerprint(Labels(Tracked(b)))
<1>1. q \in Seq(Frames)
  BY DEF IInv, Types
<1>2. \A i \in schemas : RecordsSchema /\ q[i].type = name /\ q[i].fields = own
  <2>1. SchemasAreOwn
    BY DEF IInv
  <2>2. \A i \in schemas : RecordsSchema /\ q[i] = OwnSchema(b)
    BY <2>1 DEF SchemasAreOwn
  <2>3. OwnSchema(b).type = name /\ OwnSchema(b).fields = own
    BY DEF OwnSchema, SchemaFrame
  <2> HIDE DEF q, own, name
  <2>4. QED
    BY <2>2, <2>3
<1>3. x = [type \in {q[i].type : i \in schemas} |-> q[Latest(type)].fields]
  BY DEF ExtractSchemas
<1>4. CASE schemas = {}
  BY <1>3, <1>4
<1>5. CASE schemas # {}
  <2>1. PICK last0 \in schemas : \A j \in schemas : j <= last0
    <3> DEFINE n == Len(q)
               U == {n - j : j \in schemas}
    <3>1. n \in Nat /\ schemas \subseteq 1 .. n
      BY <1>1
    <3>2. U \in SUBSET Nat /\ U # {}
      <4>1. \A j \in 1 .. n : n - j \in Nat
        BY <3>1
      <4> HIDE DEF schemas, n
      <4>2. QED
        BY <1>5, <3>1, <4>1
    <3>3. PICK u \in U : \A v \in U : u <= v
      <4> HIDE DEF U
      <4>1. QED
        BY <3>2, Least
    <3>4. PICK j0 \in schemas : u = n - j0
      BY <3>3
    <3>5. \A j \in schemas : n - j0 <= n - j
      BY <3>3, <3>4
    <3> HIDE DEF schemas, n
    <3>6. QED
      BY <3>1, <3>4, <3>5
  <2>2. Latest(name) \in schemas
    <3> HIDE DEF schemas, q, name
    <3>1. \E i \in schemas : q[i].type = name /\ \A j \in schemas : q[j].type = name => j <= i
      BY <1>2, <2>1
    <3>2. QED
      BY <3>1
  <2> HIDE DEF Latest
  <2>3. {q[i].type : i \in schemas} = {name}
    BY <1>2, <1>5
  <2>4. DOMAIN x = {name} /\ x[name] = own
    BY <1>2, <1>3, <2>2, <2>3
  <2>5. QED
    BY <1>2, <1>5, <2>4
<1>6. QED
  BY <1>4, <1>5

(* Of recordings without a write error, schema-diff reports drift only     *)
(* where the tracked fields of one type differ, and misses none if both    *)
(* show a field of it, in whatever order fields are declared and wherever  *)
(* a crash cut the files (schema.rs detect_drift, main.rs run_schema_diff).*)
THEOREM DriftIsExactCorrect == Spec => []DriftIsExact
<1>1. IInv => DriftIsExact
  <2> SUFFICES ASSUME IInv PROVE DriftIsExact
    OBVIOUS
  <2> DEFINE Some(b) == \E i \in DOMAIN file[b].frames : IsSchema(file[b].frames[i])
             Shows(b) == \E i \in DOMAIN file[b].frames : ~IsSchema(file[b].frames[i])
             x(b) == ExtractSchemas(file[b].frames)
             name(b) == TypeName(Struct(b))
             labels(b) == Labels(Tracked(b))
             drifted == name(1) = name(2) /\ TaggedLabels(1) # TaggedLabels(2)
  <2>0. 1 \in Builds /\ 2 \in Builds /\ \A b \in Builds : b \in {1, 2}
    BY BuildsAssumption
  <2>1. input \in Inputs /\ RustCompiles /\ SchemaFirst /\ VerdictStands
        /\ verdict \in {0, 1, 2, None}
    BY DEF IInv, Types
  <2>2. ASSUME NEW b \in Builds
        PROVE  /\ Some(b) => RecordsSchema
               /\ DOMAIN x(b) = IF Some(b) THEN {name(b)} ELSE {}
               /\ Some(b) => x(b)[name(b)] = Fingerprint(labels(b))
    BY Extracted
  <2>3. ASSUME NEW b \in Builds
        PROVE  labels(b) \in Seq(Nat) /\ Different(labels(b))
    <3>1. Tracked(b) \in Seq(Kid(DOMAIN Heap(b))) /\ Distinct(Tracked(b))
      BY <2>1, TrackedType
    <3>2. QED
      BY <3>1, LabelsType DEF Distinct, Different, Labels
  <2>4. RecordsSchema => (Fingerprint(labels(1)) = Fingerprint(labels(2)) <=> TaggedLabels(1) = TaggedLabels(2))
    <3>1. Fingerprint(labels(1)) = Fingerprint(labels(2)) <=> ToSet(labels(1)) = ToSet(labels(2))
      BY <2>0, <2>3, FingerprintsTell
    <3>2. RecordsSchema => /\ ToSet(labels(1)) = TaggedLabels(1)
                           /\ ToSet(labels(2)) = TaggedLabels(2)
      BY <2>0, <2>1, TrackedLabels
    <3>3. QED
      BY <3>1, <3>2
  <2>5. ASSUME NEW b \in Builds, RecordsSchema, Shows(b), ~refused[b]
        PROVE  Some(b)
    <3>1. file[b].frames \in Seq(Frames) /\ file[b].frames # <<>>
      BY <2>5 DEF IInv, Types
    <3>2. 1 \in DOMAIN file[b].frames
      BY <3>1
    <3>3. IsSchema(file[b].frames[1])
      BY <2>1, <2>5, <3>1 DEF SchemaFirst
    <3>4. QED
      BY <3>2, <3>3
  <2> DEFINE drift == DetectDrift(x(1), x(2))
  <2>6. drift = {type \in DOMAIN x(1) \cap DOMAIN x(2) : x(1)[type] # x(2)[type]}
    BY DEF DetectDrift
  <2>7. verdict \in {0, 1} => (verdict = 1 <=> drift # {})
    <3>1. verdict # None => verdict = RunSchemaDiff(file[1], file[2])
      BY <2>1 DEF VerdictStands
    <3>2. QED
      BY <3>1 DEF RunSchemaDiff, None
  <2> HIDE DEF drift, x, Some, Shows, labels, name
  <2>8. drift # {} => drifted
    <3> SUFFICES ASSUME drift # {} PROVE drifted
      OBVIOUS
    <3>1. PICK type \in DOMAIN x(1) \cap DOMAIN x(2) : x(1)[type] # x(2)[type]
      BY <2>6
    <3>2. Some(1) /\ Some(2) /\ type = name(1) /\ type = name(2) /\ RecordsSchema
      BY <2>0, <2>2, <3>1
    <3>3. Fingerprint(labels(1)) # Fingerprint(labels(2))
      BY <2>0, <2>2, <3>1, <3>2
    <3>4. QED
      BY <2>4, <3>2, <3>3
  <2>9. RecordsSchema /\ Some(1) /\ Some(2) /\ drifted => drift # {}
    <3> SUFFICES ASSUME RecordsSchema, Some(1), Some(2), drifted PROVE drift # {}
      OBVIOUS
    <3>1. Fingerprint(labels(1)) # Fingerprint(labels(2))
      BY <2>4
    <3>2. name(1) \in DOMAIN x(1) \cap DOMAIN x(2) /\ x(1)[name(1)] # x(2)[name(1)]
      BY <2>0, <2>2, <3>1
    <3>3. QED
      BY <2>6, <3>2
  <2>10. (RecordsSchema /\ \A b \in Builds : Shows(b) /\ ~refused[b]) => Some(1) /\ Some(2)
    BY <2>0, <2>5
  <2> HIDE DEF drifted
  <2>11. /\ verdict = 1 => drifted
         /\ (verdict \in {0, 1} /\ RecordsSchema /\ \A b \in Builds : Shows(b) /\ ~refused[b])
              => (verdict = 1 <=> drifted)
    BY <2>7, <2>8, <2>9, <2>10
  <2>12. (\A b \in Builds : ~refused[b]) =>
           /\ verdict = 1 => drifted
           /\ (verdict \in {0, 1} /\ RecordsSchema /\ \A b \in Builds : Shows(b))
                => (verdict = 1 <=> drifted)
    BY <2>11
  <2>13. QED
    BY <2>12 DEF DriftIsExact, drifted, name, Shows
<1>2. QED
  BY <1>1, AlwaysGood, PTL

-----------------------------------------------------------------------------
(* What is sorted by labels that are all different comes out the same      *)
(* whichever way round it was.                                             *)
LEMMA ReversedByLabel ==
  ASSUME NEW nodes, NEW kids \in Seq(Kid(nodes)), Distinct(kids)
  PROVE  ByLabel(Reverse(kids)) = ByLabel(kids)
<1> DEFINE r == Reverse(kids)
           l == Labels(kids)
           m == Labels(r)
<1>1. /\ r \in Seq(Kid(nodes)) /\ DOMAIN r = DOMAIN kids /\ Len(r) = Len(kids)
      /\ \A i \in DOMAIN kids : Len(kids) + 1 - i \in DOMAIN kids /\ r[i] = kids[Len(kids) + 1 - i]
  BY ReverseFacts
<1>2. \A i \in DOMAIN kids : i \in Nat /\ Len(kids) + 1 - (Len(kids) + 1 - i) = i
  OBVIOUS
<1> HIDE DEF r
<1>3. l \in Seq(Nat) /\ m \in Seq(Nat) /\ Len(l) = Len(kids) /\ Len(m) = Len(kids)
  BY <1>1, LabelsType
<1>4. /\ DOMAIN l = DOMAIN kids /\ DOMAIN m = DOMAIN kids
      /\ \A i \in DOMAIN kids : l[i] = kids[i].label /\ m[i] = r[i].label
  BY <1>1 DEF Labels
<1> HIDE DEF l, m
<1>5. Different(l)
  BY <1>4 DEF Different, Distinct
<1>6. Different(m)
  <2> SUFFICES ASSUME NEW i \in DOMAIN kids, NEW j \in DOMAIN kids, m[i] = m[j] PROVE i = j
    BY <1>4 DEF Different
  <2> DEFINE a == Len(kids) + 1 - i
             b == Len(kids) + 1 - j
  <2>0. a \in DOMAIN kids /\ b \in DOMAIN kids /\ r[i] = kids[a] /\ r[j] = kids[b]
    BY <1>1
  <2> HIDE DEF a, b
  <2>1. a = b
    BY <1>4, <2>0 DEF Distinct
  <2>2. QED
    BY <1>2, <2>1 DEF a, b
<1>7. ToSet(l) = ToSet(m)
  <2>1. ASSUME NEW i \in DOMAIN kids PROVE l[i] \in ToSet(m) /\ m[i] \in ToSet(l)
    <3> DEFINE a == Len(kids) + 1 - i
    <3>1. a \in DOMAIN kids /\ r[i] = kids[a] /\ r[a] = kids[Len(kids) + 1 - a]
      BY <1>1
    <3>2. Len(kids) + 1 - a = i
      BY <1>2
    <3> HIDE DEF a
    <3>3. m[a] = l[i] /\ m[i] = l[a]
      BY <1>4, <3>1, <3>2
    <3>4. QED
      BY <1>4, <3>1, <3>3 DEF ToSet
  <2>2. QED
    BY <1>4, <2>1 DEF ToSet
<1>8. ASSUME NEW k \in DOMAIN kids PROVE kids[At(l, k)] = r[At(m, k)]
  <2>1. l[At(l, k)] = m[At(m, k)]
    BY <1>3, <1>4, <1>5, <1>6, <1>7, SameOrder
  <2>2. At(l, k) \in DOMAIN kids /\ At(m, k) \in DOMAIN kids
    BY <1>3, <1>4, AtFacts
  <2>3. kids[At(l, k)].label = kids[Len(kids) + 1 - At(m, k)].label
    <3>1. l[At(l, k)] = kids[At(l, k)].label /\ m[At(m, k)] = r[At(m, k)].label
      BY <1>4, <2>2
    <3>2. r[At(m, k)] = kids[Len(kids) + 1 - At(m, k)]
      BY <1>1, <2>2
    <3>3. QED
      BY <2>1, <3>1, <3>2
  <2>4. At(l, k) = Len(kids) + 1 - At(m, k)
    BY <1>1, <2>2, <2>3 DEF Distinct
  <2>5. QED
    BY <1>1, <2>2, <2>4
<1>9. ByLabel(kids) = [k \in DOMAIN kids |-> kids[At(l, k)]]
  BY <1>4 DEF ByLabel, Sorted, At, l
<1>10. ByLabel(r) = [k \in DOMAIN kids |-> r[At(m, k)]]
  BY <1>1, <1>4 DEF ByLabel, Sorted, At, m
<1>11. QED
  BY <1>8, <1>9, <1>10 DEF r

(* The two builds hold the same value, but for the order in which they     *)
(* iterate what is unordered.                                              *)
LEMMA TwoHeaps ==
  ASSUME input \in Inputs, Struct(1).fields = Struct(2).fields
  PROVE  /\ Tracked(1) = Tracked(2) /\ HashedFields(Struct(1)) = HashedFields(Struct(2))
         /\ \A n \in DOMAIN input.heap :
              LET v == Heap(1)[n]
                  w == Heap(2)[n]
              IN  /\ w.kind = v.kind /\ w.value = v.value
                  /\ w.kids = IF n # Root /\ Unordered(v) THEN Mirrored(v) ELSE v.kids
                  /\ n # Root => v = input.heap[n]
                  /\ n # Root /\ ~Unordered(v) => w = v
                  /\ n = Root => v.kind = "object"
<1>1. \A b \in Builds : IsHeap(Heap(b)) /\ DOMAIN Heap(b) = DOMAIN input.heap
  BY HeapType
<1>2. IsHeap(input.heap) /\ input.heap[Root].kind = "object"
  BY InputFacts
<1>3. TrackedFields(Struct(1)) = TrackedFields(Struct(2)) /\ HashedFields(Struct(1)) = HashedFields(Struct(2))
  BY DEF TrackedFields, HashedFields
<1>4. Tracked(1) = Tracked(2)
  BY <1>3 DEF Tracked
<1>5. ASSUME NEW n \in DOMAIN input.heap, n # Root
      PROVE  /\ Heap(1)[n] = input.heap[n]
             /\ Heap(2)[n] = IF Unordered(input.heap[n])
                             THEN [input.heap[n] EXCEPT !.kids = Mirrored(input.heap[n])]
                             ELSE input.heap[n]
  BY <1>5 DEF Heap
<1>6. input.heap[Root] = [kind |-> input.heap[Root].kind, value |-> input.heap[Root].value,
                          kids |-> input.heap[Root].kids]
  <2>1. ASSUME NEW nodes, NEW v \in Value(nodes)
        PROVE  v = [kind |-> v.kind, value |-> v.value, kids |-> v.kids]
    BY DEF Value
  <2>2. input.heap[Root] \in Value(DOMAIN input.heap)
    BY <1>2, InputFacts DEF IsHeap
  <2>3. QED
    BY <2>1, <2>2
<1>7. Heap(1)[Root] = Heap(2)[Root] /\ Heap(1)[Root].kind = "object"
  BY <1>2, <1>6, InputFacts DEF Heap
<1>8. ASSUME NEW n \in DOMAIN input.heap
      PROVE  LET v == Heap(1)[n]
                 w == Heap(2)[n]
             IN  /\ w.kind = v.kind /\ w.value = v.value
                 /\ w.kids = IF n # Root /\ Unordered(v) THEN Mirrored(v) ELSE v.kids
                 /\ n # Root => v = input.heap[n]
                 /\ n # Root /\ ~Unordered(v) => w = v
                 /\ n = Root => v.kind = "object"
  <2>1. CASE n = Root
    BY <1>7, <2>1
  <2>2. CASE n # Root
    <3>1. input.heap[n] \in Value(DOMAIN input.heap)
      BY <1>2 DEF IsHeap
    <3>2. \A q : LET w == [input.heap[n] EXCEPT !.kids = q]
                 IN  w.kids = q /\ w.kind = input.heap[n].kind /\ w.value = input.heap[n].value
      BY <3>1 DEF Value
    <3> DEFINE u == input.heap[n]
    <3>3. Heap(1)[n] = u /\ Heap(2)[n] = IF Unordered(u) THEN [u EXCEPT !.kids = Mirrored(u)] ELSE u
      BY <1>5, <2>2
    <3>7. Root # n /\ input.heap[n] = u
      BY <2>2
    <3>8. LET w == [u EXCEPT !.kids = Mirrored(u)]
          IN  w.kids = Mirrored(u) /\ w.kind = u.kind /\ w.value = u.value
      BY <3>2
    <3> HIDE DEF u
    <3>4. CASE Unordered(u)
      BY <3>3, <3>4, <3>7, <3>8
    <3>5. CASE ~Unordered(u)
      BY <2>2, <3>3, <3>5 DEF u
    <3>6. QED
      BY <3>4, <3>5
  <2>3. QED
    BY <2>1, <2>2
<1>9. QED
  BY <1>3, <1>4, <1>8

LEMMA TwoViews ==
  ASSUME input \in Inputs, Struct(1).fields = Struct(2).fields, KeysAreOrdered,
         input.engine \in {"bevy", "unity", "manual"}
  PROVE  /\ BevyView(Heap(1)) = BevyView(Heap(2))
         /\ UnityView(Heap(1)) = UnityView(Heap(2))
         /\ \A n \in DOMAIN input.heap : WriteKids(Heap(1)[n]) = WriteKids(Heap(2)[n])
<1> DEFINE N == DOMAIN input.heap
           v(n) == Heap(1)[n]
           w(n) == Heap(2)[n]
<1>0. 1 \in Builds /\ 2 \in Builds
  BY BuildsAssumption
<1>1. IsHeap(Heap(1)) /\ DOMAIN Heap(1) = N /\ DOMAIN Heap(2) = N
  BY <1>0, HeapType
<1>2. ASSUME NEW n \in N
      PROVE  /\ w(n).kind = v(n).kind /\ w(n).value = v(n).value
             /\ w(n).kids = IF n # Root /\ Unordered(v(n)) THEN Reverse(v(n).kids) ELSE v(n).kids
             /\ n # Root => v(n) = input.heap[n]
             /\ n = Root => v(n).kind = "object"
  BY TwoHeaps DEF Mirrored
<1>3. ASSUME NEW n \in N, v(n).kind \in {"map", "set"} PROVE ByLabel(w(n).kids) = ByLabel(v(n).kids)
  <2>1. n # Root /\ v(n) = input.heap[n]
    BY <1>2, <1>3
  <2>2. v(n).kids \in Seq(Kid(N))
    <3>1. v(n) \in Value(N)
      BY <1>1 DEF IsHeap
    <3>2. QED
      BY <3>1 DEF Value
  <2>3. Distinct(v(n).kids)
    <3>1. input.heap[n].kind \in {"map", "set"}
      BY <1>3, <2>1
    <3>2. Distinct(input.heap[n].kids)
      BY <3>1 DEF KeysAreOrdered, SortKeys, Distinct
    <3>3. QED
      BY <2>1, <3>2
  <2>4. QED
    BY <1>2, <2>2, <2>3, ReversedByLabel
<1>4. ASSUME NEW n \in N, v(n).kind \notin {"map", "set"} PROVE w(n).kids = v(n).kids
  BY <1>2, <1>4 DEF Unordered
<1>5. ASSUME NEW n \in N
      PROVE  /\ BevyKids(w(n)) = BevyKids(v(n)) /\ UnityKids(w(n)) = UnityKids(v(n))
             /\ w(n).kind = v(n).kind /\ w(n).value = v(n).value
  <2>1. CASE v(n).kind \in {"map", "set"}
    BY <1>2, <1>3, <2>1 DEF BevyKids, UnityKids
  <2>2. CASE v(n).kind \notin {"map", "set"}
    BY <1>2, <1>4, <2>2 DEF BevyKids, UnityKids
  <2>3. QED
    BY <2>1, <2>2
<1>6. BevyView(Heap(1)) = BevyView(Heap(2)) /\ UnityView(Heap(1)) = UnityView(Heap(2))
  BY <1>1, <1>5 DEF BevyView, UnityView, Seen
<1>7. ASSUME NEW n \in N PROVE WriteKids(v(n)) = WriteKids(w(n))
  BY <1>2, <1>3, <1>4 DEF WriteKids
<1>8. QED
  BY <1>6, <1>7

-----------------------------------------------------------------------------
(* Unreal's comparison, among keys of which each two are in one order.     *)
OneOrder(a, b) == (Less(a, b) <=> ~ Less(b, a)) \/ a = b

LexLess(a, b) == \E i \in 1 .. Len(a) : a[i] < b[i] /\ \A j \in 1 .. i - 1 : a[j] = b[j]

LEMMA LessOfEqualLength ==
  ASSUME NEW a \in Bytes, NEW b \in Bytes, Len(a) = Len(b)
  PROVE  Less(a, b) <=> LexLess(a, b)
<1>1. Len(a) \in Nat /\ Len(b) \in Nat
  BY DEF Bytes
<1>2. QED
  BY <1>1 DEF Less, LexLess

LEMMA LessByLength ==
  ASSUME NEW a \in Bytes, NEW b \in Bytes, Len(a) < Len(b)
  PROVE  Less(a, b)
BY DEF Less

LEMMA LessIrreflexive ==
  ASSUME NEW a \in Bytes
  PROVE  ~ Less(a, a)
<1>1. Len(a) \in Nat /\ \A i \in 1 .. Len(a) : a[i] \in Nat
  BY DEF Bytes
<1>2. QED
  BY <1>1 DEF Less

LEMMA LexTransitive ==
  ASSUME NEW a \in Bytes, NEW b \in Bytes, NEW c \in Bytes,
         Len(a) = Len(b), Len(b) = Len(c), LexLess(a, b), LexLess(b, c)
  PROVE  LexLess(a, c)
<1> DEFINE n == Len(a)
<1>1. n \in Nat /\ \A i \in 1 .. n : a[i] \in Nat /\ b[i] \in Nat /\ c[i] \in Nat
  BY DEF Bytes
<1>2. PICK i \in 1 .. n : a[i] < b[i] /\ \A j \in 1 .. i - 1 : a[j] = b[j]
  BY DEF LexLess
<1>3. PICK k \in 1 .. n : b[k] < c[k] /\ \A j \in 1 .. k - 1 : b[j] = c[j]
  BY DEF LexLess
<1> HIDE DEF n
<1>4. CASE i <= k
  <2>1. \A j \in 1 .. i - 1 : j \in 1 .. k - 1
    BY <1>1, <1>4
  <2>2. b[i] <= c[i]
    <3>1. i = k \/ i \in 1 .. k - 1
      BY <1>1, <1>4
    <3>2. QED
      BY <1>1, <1>3, <3>1
  <2>3. a[i] < c[i]
    BY <1>1, <1>2, <2>2
  <2>4. QED
    BY <1>2, <1>3, <2>1, <2>3 DEF LexLess, n
<1>5. CASE k < i
  <2>1. k \in 1 .. i - 1 /\ \A j \in 1 .. k - 1 : j \in 1 .. i - 1
    BY <1>1, <1>5
  <2>2. a[k] < c[k] /\ \A j \in 1 .. k - 1 : a[j] = c[j]
    BY <1>2, <1>3, <2>1
  <2>3. QED
    BY <2>2 DEF LexLess, n
<1>6. QED
  BY <1>1, <1>4, <1>5

LEMMA LessTransitive ==
  ASSUME NEW a \in Bytes, NEW b \in Bytes, NEW c \in Bytes,
         OneOrder(a, b), OneOrder(b, c), OneOrder(a, c), Less(a, b), Less(b, c)
  PROVE  Less(a, c)
<1> SUFFICES ASSUME ~ Less(a, c) PROVE FALSE
  OBVIOUS
<1>1. Len(a) \in Nat /\ Len(b) \in Nat /\ Len(c) \in Nat
  BY DEF Bytes
<1>2. ~ Less(b, a) /\ ~ Less(c, b)
  BY LessIrreflexive DEF OneOrder
<1>3. a # c
  BY <1>2
<1>4. Less(c, a)
  BY <1>3 DEF OneOrder
<1>5. ~ (Len(b) < Len(a)) /\ ~ (Len(c) < Len(b)) /\ ~ (Len(a) < Len(c))
  BY <1>2, LessByLength
<1>6. Len(a) = Len(b) /\ Len(b) = Len(c)
  BY <1>1, <1>5
<1>7. LexLess(a, b) /\ LexLess(b, c)
  BY <1>6, LessOfEqualLength
<1>8. LexLess(a, c)
  BY <1>6, <1>7, LexTransitive
<1>9. QED
  BY <1>6, <1>8, LessOfEqualLength

(* Numbers for the keys: how many keys are less. *)
Settled(es) == \A i, j \in DOMAIN es : /\ OneOrder(es[i].key, es[j].key)
                                       /\ es[i].key = es[j].key => es[i] = es[j]
LessThan(es, i) == {j \in DOMAIN es : Less(es[j].key, es[i].key)}
Number(es) == [i \in DOMAIN es |-> Cardinality(LessThan(es, i))]

LEMMA NumberFacts ==
  ASSUME NEW es \in Seq(Entries), Settled(es)
  PROVE  /\ Number(es) \in Seq(Nat) /\ Len(Number(es)) = Len(es)
         /\ \A i, j \in DOMAIN es :
              /\ Number(es)[i] < Number(es)[j] <=> Less(es[i].key, es[j].key)
              /\ Number(es)[i] = Number(es)[j] => es[i] = es[j]
<1> DEFINE D == DOMAIN es
           key(i) == es[i].key
           num == Number(es)
<1>1. D = 1 .. Len(es) /\ Len(es) \in Nat
  OBVIOUS
<1>2. ASSUME NEW i \in D PROVE key(i) \in Bytes
  <2>1. es[i] \in Entries
    OBVIOUS
  <2>2. QED
    BY <2>1 DEF Entries
<1>3. ASSUME NEW i \in D PROVE IsFiniteSet(LessThan(es, i)) /\ Cardinality(LessThan(es, i)) \in Nat
  <2>1. IsFiniteSet(D)
    BY <1>1, FS_Interval
  <2>2. LessThan(es, i) \in SUBSET D
    BY DEF LessThan
  <2>3. IsFiniteSet(LessThan(es, i))
    BY <2>1, <2>2, FS_Subset
  <2>4. QED
    BY <2>3, FS_CardinalityType
<1>4. num \in Seq(Nat) /\ Len(num) = Len(es) /\ \A i \in D : num[i] = Cardinality(LessThan(es, i))
  BY <1>1, <1>3 DEF Number
<1> HIDE DEF num
<1>5. ASSUME NEW i \in D, NEW j \in D, Less(key(i), key(j)) PROVE num[i] < num[j]
  <2>1. LessThan(es, i) \in SUBSET LessThan(es, j)
    <3> SUFFICES ASSUME NEW m \in D, Less(key(m), key(i)) PROVE Less(key(m), key(j))
      BY DEF LessThan
    <3>1. OneOrder(key(m), key(i)) /\ OneOrder(key(i), key(j)) /\ OneOrder(key(m), key(j))
      BY DEF Settled
    <3> HIDE DEF key
    <3>2. QED
      BY <1>2, <1>5, <3>1, LessTransitive
  <2>2. i \in LessThan(es, j) /\ i \notin LessThan(es, i)
    BY <1>2, <1>5, LessIrreflexive DEF LessThan
  <2>3. Cardinality(LessThan(es, i)) <= Cardinality(LessThan(es, j))
        /\ Cardinality(LessThan(es, i)) # Cardinality(LessThan(es, j))
    BY <1>3, <2>1, <2>2, FS_Subset
  <2>4. QED
    BY <1>3, <1>4, <2>3
<1>6. ASSUME NEW i \in D, NEW j \in D
      PROVE  /\ num[i] < num[j] <=> Less(key(i), key(j))
             /\ num[i] = num[j] => es[i] = es[j]
  <2>1. num[i] \in Nat /\ num[j] \in Nat
    BY <1>1, <1>4
  <2>2. OneOrder(key(i), key(j)) /\ (key(i) = key(j) => es[i] = es[j])
    BY DEF Settled
  <2>3. Less(key(j), key(i)) => num[j] < num[i]
    BY <1>5
  <2>4. Less(key(i), key(j)) => num[i] < num[j]
    BY <1>5
  <2>5. es[i] = es[j] => num[i] = num[j]
    <3>1. es[i] = es[j] => LessThan(es, i) = LessThan(es, j)
      BY DEF LessThan
    <3>2. QED
      BY <1>4, <3>1
  <2> HIDE DEF key
  <2>6. QED
    BY <2>1, <2>2, <2>3, <2>4, <2>5 DEF OneOrder
<1>7. QED
  BY <1>4, <1>6 DEF num

(* Two permutations that put numbers in order put the same number at each  *)
(* place.                                                                  *)
Rises(keys, p) == \A i, j \in DOMAIN keys : i < j => keys[p[i]] <= keys[p[j]]

LEMMA RisesAlike ==
  ASSUME NEW keys \in Seq(Nat), NEW p, NEW q,
         Permutes(p, DOMAIN keys), Permutes(q, DOMAIN keys), Rises(keys, p), Rises(keys, q),
         NEW k \in DOMAIN keys
  PROVE  keys[p[k]] >= keys[q[k]]
<1> DEFINE n == Len(keys)
           D == 1 .. n
<1>1. n \in Nat /\ DOMAIN keys = D /\ \A i \in D : keys[i] \in Nat
  OBVIOUS
<1> HIDE DEF D
<1>2. p \in [D -> D] /\ q \in [D -> D] /\ \A i, j \in D : i # j => p[i] # p[j] /\ q[i] # q[j]
  BY <1>1 DEF Permutes
<1>3. k \in D /\ \A i, j \in D : i < j => keys[p[i]] <= keys[p[j]] /\ keys[q[i]] <= keys[q[j]]
  BY <1>1 DEF Rises
<1> SUFFICES ASSUME keys[p[k]] < keys[q[k]] PROVE FALSE
  BY <1>1, <1>2, <1>3
<1> DEFINE A == 1 .. k
           B == 1 .. k - 1
<1>4. k \in Nat /\ k >= 1 /\ A \subseteq D /\ B \subseteq D
  BY <1>1, <1>3 DEF D
<1>5. IsFiniteSet(A) /\ IsFiniteSet(B) /\ Cardinality(A) = k /\ Cardinality(B) = k - 1
  <2>1. k \in Nat /\ k - 1 \in Nat
    BY <1>4
  <2>2. QED
    BY <2>1, CountTo
\* Whatever p puts in the first k places, q puts in the first k - 1.
<1>6. ASSUME NEW i \in A PROVE \E j \in B : q[j] = p[i]
  <2>1. keys[p[i]] < keys[q[k]]
    <3>1. i \in D /\ (i < k \/ i = k)
      <4>1. i \in 1 .. k /\ i \in D
        BY <1>4
      <4>2. QED
        BY <1>4, <4>1
    <3>2. keys[p[i]] <= keys[p[k]]
      BY <1>1, <1>2, <1>3, <3>1
    <3>3. p[i] \in D /\ p[k] \in D /\ q[k] \in D
      BY <1>2, <1>3, <3>1
    <3>4. keys[p[i]] \in Nat /\ keys[p[k]] \in Nat /\ keys[q[k]] \in Nat
      BY <1>1, <3>3
    <3>5. p[k] \in D /\ keys[p[k]] < keys[q[k]]
      BY <3>3
    <3>6. ASSUME NEW x \in Nat, NEW y \in Nat, NEW z \in Nat, x <= y, y < z PROVE x < z
      BY <3>6
    <3>7. QED
      BY <3>2, <3>4, <3>5, <3>6
  <2>2. \E j \in D : q[j] = p[i]
    <3>1. q \in Injection(D, D)
      BY <1>2 DEF Injection, IsInjective
    <3>2. IsFiniteSet(D)
      BY <1>1, FS_Interval DEF D
    <3>3. q \in Surjection(D, D)
      BY <3>1, <3>2, FS_Injection
    <3>4. p[i] \in D
      <4>1. i \in D
        BY <1>4
      <4>2. QED
        BY <1>2, <4>1
    <3>5. QED
      BY <3>3, <3>4 DEF Surjection
  <2>3. PICK j \in D : q[j] = p[i]
    BY <2>2
  <2>4. j < k
    <3> SUFFICES ASSUME ~ (j < k) PROVE FALSE
      OBVIOUS
    <3>1. j = k \/ k < j
      BY <1>1, <1>4 DEF D
    <3>2. keys[q[k]] <= keys[q[j]]
      BY <1>1, <1>2, <1>3, <3>1
    <3>3. keys[q[j]] \in Nat /\ keys[q[k]] \in Nat
      BY <1>1, <1>2, <1>3
    <3>4. QED
      BY <2>1, <2>3, <3>2, <3>3
  <2>5. j \in B
    BY <1>1, <1>4, <2>4 DEF D
  <2>6. QED
    BY <2>3, <2>5
<1> DEFINE f == [i \in A |-> CHOOSE j \in B : q[j] = p[i]]
<1>7. \A i \in A : f[i] \in B /\ q[f[i]] = p[i]
  BY <1>6
<1>8. f \in [A -> B]
  BY <1>7
<1> HIDE DEF f, A, B
<1>9. PICK i \in A, j \in A : i # j /\ f[i] = f[j]
  <2>1. Cardinality(B) < Cardinality(A)
    BY <1>4, <1>5
  <2>2. QED
    BY <1>5, <1>8, <2>1, FS_PigeonHole
<1>10. p[i] = p[j] /\ i \in D /\ j \in D
  BY <1>4, <1>7, <1>9
<1>11. QED
  BY <1>2, <1>9, <1>10

LEMMA AtRises ==
  ASSUME NEW keys \in Seq(Nat)
  PROVE  LET q == [k \in DOMAIN keys |-> At(keys, k)]
         IN  Permutes(q, DOMAIN keys) /\ Rises(keys, q)
<1> DEFINE D == DOMAIN keys
           q == [k \in D |-> At(keys, k)]
<1>1. D = 1 .. Len(keys) /\ Len(keys) \in Nat /\ \A i \in D : keys[i] \in Nat /\ i \in Nat
  OBVIOUS
<1>2. \A k \in D : At(keys, k) \in D /\ Rank(keys, At(keys, k)) = k - 1
  BY AtFacts
<1>3. Permutes(q, D)
  BY <1>2, AtFacts DEF Permutes
<1>4. ASSUME NEW i \in D, NEW j \in D, i < j PROVE keys[At(keys, i)] <= keys[At(keys, j)]
  <2>1. ~ (Rank(keys, At(keys, j)) < Rank(keys, At(keys, i)))
    BY <1>1, <1>2, <1>4
  <2>2. ~ Before(keys, At(keys, j), At(keys, i))
    BY <1>2, <2>1, RankGrows
  <2>3. ~ (keys[At(keys, j)] < keys[At(keys, i)])
    BY <2>2 DEF Before
  <2>4. QED
    BY <1>1, <1>2, <2>3
<1>5. QED
  BY <1>3, <1>4 DEF Rises

InOrderOfKeys(s) == \A i, j \in DOMAIN s : i < j => ~ Less(s[j].key, s[i].key)

\* Entries that are settled come out in one order.
LEMMA OneOrderOfEntries ==
  ASSUME NEW es \in Seq(Entries), Settled(es), NEW p, Permutes(p, DOMAIN es),
         InOrderOfKeys([i \in DOMAIN es |-> es[p[i]]])
  PROVE  [i \in DOMAIN es |-> es[p[i]]] = Sorted(es, Number(es))
<1> DEFINE num == Number(es)
           D == DOMAIN es
           q == [k \in D |-> At(num, k)]
<1>1. num \in Seq(Nat) /\ Len(num) = Len(es) /\ D = DOMAIN num
      /\ \A i, j \in D : /\ num[i] < num[j] <=> Less(es[i].key, es[j].key)
                         /\ num[i] = num[j] => es[i] = es[j]
  <2>1. num \in Seq(Nat) /\ Len(num) = Len(es)
        /\ \A i, j \in D : /\ num[i] < num[j] <=> Less(es[i].key, es[j].key)
                           /\ num[i] = num[j] => es[i] = es[j]
    BY NumberFacts
  <2> HIDE DEF num
  <2>2. QED
    BY <2>1
<1> HIDE DEF num
<1>2. p \in [D -> D]
  BY DEF Permutes
<1>3. Rises(num, p)
  <2> SUFFICES ASSUME NEW i \in D, NEW j \in D, i < j PROVE num[p[i]] <= num[p[j]]
    BY <1>1 DEF Rises
  <2>1. ~ Less(es[p[j]].key, es[p[i]].key)
    BY DEF InOrderOfKeys
  <2>2. ~ (num[p[j]] < num[p[i]])
    BY <1>1, <1>2, <2>1
  <2>3. num[p[i]] \in Nat /\ num[p[j]] \in Nat
    BY <1>1, <1>2
  <2>4. QED
    BY <2>2, <2>3
<1>4. Permutes(q, D) /\ Rises(num, q)
  BY <1>1, AtRises
<1>5. Sorted(es, num) = [k \in D |-> es[q[k]]]
  BY <1>1 DEF Sorted, At
<1>6. ASSUME NEW k \in D PROVE es[p[k]] = es[q[k]]
  <2>0. q[k] \in D /\ p[k] \in D
    BY <1>2, <1>4 DEF Permutes
  <2> HIDE DEF q, D
  <2>1. num[p[k]] >= num[q[k]] /\ num[q[k]] >= num[p[k]]
    BY <1>1, <1>3, <1>4, RisesAlike DEF D
  <2>2. num[p[k]] \in Nat /\ num[q[k]] \in Nat
    BY <1>1, <2>0
  <2>3. QED
    BY <1>1, <2>0, <2>1, <2>2
<1>7. QED
  BY <1>5, <1>6 DEF num

LEMMA SettledSorts ==
  ASSUME NEW es \in Seq(Entries), Settled(es)
  PROVE  /\ Sorts(es) = {Sorted(es, Number(es))}
         /\ Sorted(es, Number(es)) \in Seq(Entries)
         /\ InOrderOfKeys(Sorted(es, Number(es)))
<1> DEFINE num == Number(es)
           D == DOMAIN es
           q == [k \in D |-> At(num, k)]
           x == Sorted(es, num)
           P == {r \in [D -> D] : \A i, j \in DOMAIN r : i # j => r[i] # r[j]}
           orders == {[i \in D |-> es[r[i]]] : r \in P}
           sorted == {s \in orders : \A i, j \in DOMAIN s : i < j => ~Less(s[j].key, s[i].key)}
<1>1. num \in Seq(Nat) /\ Len(num) = Len(es)
      /\ \A i, j \in D : num[i] < num[j] <=> Less(es[i].key, es[j].key)
  BY NumberFacts
<1> HIDE DEF num
<1>2. D = DOMAIN num /\ \A i \in D : num[i] \in Nat
  BY <1>1
<1>3. Permutes(q, D) /\ Rises(num, q)
  BY <1>2, <1>1, AtRises
<1>4. x = [k \in D |-> es[q[k]]]
  BY <1>2 DEF Sorted, At
<1>5. InOrderOfKeys(x)
  <2> SUFFICES ASSUME NEW i \in D, NEW j \in D, i < j PROVE ~ Less(es[q[j]].key, es[q[i]].key)
    BY <1>4 DEF InOrderOfKeys
  <2>1. q[i] \in D /\ q[j] \in D
    BY <1>3 DEF Permutes
  <2>2. num[q[i]] <= num[q[j]]
    BY <1>2, <1>3 DEF Rises
  <2> HIDE DEF q, D
  <2>3. num[q[j]] < num[q[i]] <=> Less(es[q[j]].key, es[q[i]].key)
    BY <1>1, <2>1
  <2>4. num[q[i]] \in Nat /\ num[q[j]] \in Nat
    BY <1>2, <2>1
  <2>5. QED
    BY <2>2, <2>3, <2>4
<1>6. x \in sorted
  <2>1. q \in P
    BY <1>3 DEF Permutes
  <2>2. x \in orders
    <3> HIDE DEF q, P, x
    <3>1. QED
      BY <1>4, <2>1
  <2> HIDE DEF x, orders
  <2>3. QED
    BY <1>5, <2>2 DEF InOrderOfKeys
<1>7. Sorts(es) = sorted
  <2>1. Sorts(es) = IF sorted = {} THEN orders ELSE sorted
    BY DEF Sorts
  <2> HIDE DEF sorted, orders
  <2>2. QED
    BY <1>6, <2>1
<1>8. ASSUME NEW s \in sorted PROVE s = x
  <2>1. PICK r \in P : s = [i \in D |-> es[r[i]]]
    OBVIOUS
  <2>2. Permutes(r, D)
    BY DEF Permutes
  <2>3. InOrderOfKeys(s)
    BY DEF InOrderOfKeys
  <2>4. QED
    BY <2>1, <2>2, <2>3, OneOrderOfEntries DEF num
<1>9. x \in Seq(Entries)
  BY <1>1, SortedFacts
<1>10. QED
  <2> HIDE DEF sorted, x
  <2>1. Sorts(es) = {x}
    BY <1>6, <1>7, <1>8
  <2>2. QED
    BY <1>5, <1>9, <2>1 DEF x, num

\* However they are put before they are sorted.
LEMMA SortsAgree ==
  ASSUME NEW es \in Seq(Entries), Settled(es), NEW p, Permutes(p, DOMAIN es)
  PROVE  Sorts([i \in DOMAIN es |-> es[p[i]]]) = Sorts(es)
<1> DEFINE D == DOMAIN es
           fs == [i \in D |-> es[p[i]]]
           y == Sorted(fs, Number(fs))
<1>1. D = 1 .. Len(es) /\ Len(es) \in Nat /\ p \in [D -> D]
  BY DEF Permutes
<1>2. fs \in Seq(Entries) /\ DOMAIN fs = D
  BY <1>1
<1>3. Settled(fs)
  BY <1>1 DEF Settled
<1>4. fs \in Seq(Entries) /\ Settled(fs)
  BY <1>2, <1>3
<1>5. /\ Sorts(fs) = {y} /\ InOrderOfKeys(y)
      /\ \E r : Permutes(r, D) /\ y = [i \in D |-> fs[r[i]]]
  <2>1. DOMAIN fs = D
    OBVIOUS
  <2> HIDE DEF fs, D
  <2>2. Sorts(fs) = {y} /\ InOrderOfKeys(y)
    BY <1>4, SettledSorts
  <2>3. y \in Sorts(fs)
    BY <2>2
  <2>4. \E r : Permutes(r, DOMAIN fs) /\ y = [i \in DOMAIN fs |-> fs[r[i]]]
    BY <2>3, SortsFacts
  <2>5. QED
    BY <2>1, <2>2, <2>4
<1>6. PICK r : Permutes(r, D) /\ y = [i \in D |-> fs[r[i]]]
  BY <1>5
<1> DEFINE c == [i \in D |-> p[r[i]]]
<1>7. Permutes(c, D)
  BY <1>6 DEF Permutes
<1>8. y = [i \in D |-> es[c[i]]]
  BY <1>6 DEF Permutes
<1>9. y = Sorted(es, Number(es))
  <2> HIDE DEF y, c
  <2>1. QED
    BY <1>5, <1>7, <1>8, OneOrderOfEntries
<1>10. QED
  <2> HIDE DEF y, fs
  <2>1. Sorts(fs) = Sorts(es)
    BY <1>5, <1>9, SettledSorts
  <2>2. QED
    BY <2>1 DEF fs

-----------------------------------------------------------------------------
(* A value and the same value iterated in another order, p saying which:   *)
(* in a map whose kids are pairs, a key still before its value.            *)
KeepsPairs(p, kids) ==
  /\ Len(kids) % 2 = 0
  /\ \A i \in DOMAIN kids : i % 2 = 1 => p[i] % 2 = 1 /\ p[i + 1] = p[i] + 1

SameValue(v, w, p) ==
  /\ w.kind = v.kind /\ w.value = v.value
  /\ DOMAIN w.kids = DOMAIN v.kids
  /\ Permutes(p, DOMAIN v.kids)
  /\ \A i \in DOMAIN v.kids : w.kids[i] = v.kids[p[i]]
  /\ v.kind \notin {"map", "set"} => \A i \in DOMAIN v.kids : p[i] = i
  /\ v.kind = "map" => KeepsPairs(p, v.kids)

JoinAlike(v, w, parts, parts2) ==
  \E x \in Bytes : Joined(v, parts) = {x} /\ Joined(w, parts2) = {x}

\* The entries of a map or a set are the same entries, in another order.
Reordered(es, fs) ==
  \E e : Permutes(e, DOMAIN es) /\ fs = [i \in DOMAIN es |-> es[e[i]]]

LEMMA PairsAgree ==
  ASSUME NEW parts \in Seq(Bytes), NEW kids, DOMAIN kids = DOMAIN parts, Len(kids) = Len(parts),
         NEW p, Permutes(p, DOMAIN parts), KeepsPairs(p, kids)
  PROVE  Reordered(MapEntries(parts), MapEntries([i \in DOMAIN parts |-> parts[p[i]]]))
<1> DEFINE D == DOMAIN parts
           parts2 == [i \in D |-> parts[p[i]]]
           N == Len(parts)
           E == 1 .. (N \div 2)
           e == [i \in E |-> (p[2 * i - 1] + 1) \div 2]
           es == MapEntries(parts)
           fs == MapEntries(parts2)
<1>1. D = 1 .. N /\ N \in Nat /\ N % 2 = 0 /\ p \in [D -> D] /\ \A i, j \in D : p[i] = p[j] => i = j
  BY DEF Permutes, KeepsPairs
<1>2. Len(parts2) = N
  BY <1>1
<1>3. es = [i \in E |-> [key |-> parts[2 * i - 1], bytes |-> parts[2 * i - 1] \o parts[2 * i]]]
  BY DEF MapEntries
<1>4. fs = [i \in E |-> [key |-> parts2[2 * i - 1], bytes |-> parts2[2 * i - 1] \o parts2[2 * i]]]
  BY <1>2 DEF MapEntries
<1> HIDE DEF D, N
<1>5. ASSUME NEW i \in E
      PROVE  /\ 2 * i - 1 \in D /\ 2 * i \in D /\ e[i] \in E
             /\ p[2 * i - 1] = 2 * e[i] - 1 /\ p[2 * i] = 2 * e[i]
  <2>1. i \in Nat /\ 2 * i - 1 \in D /\ 2 * i \in D /\ (2 * i - 1) % 2 = 1 /\ (2 * i - 1) + 1 = 2 * i
    BY <1>1
  <2>2. p[2 * i - 1] % 2 = 1 /\ p[2 * i] = p[2 * i - 1] + 1
    BY <2>1 DEF KeepsPairs, D
  <2>3. p[2 * i - 1] \in 1 .. N /\ p[2 * i] \in 1 .. N
    BY <1>1, <2>1
  <2>4. ASSUME NEW x \in Nat, x % 2 = 1, x + 1 \in 1 .. N
        PROVE  2 * ((x + 1) \div 2) - 1 = x /\ (x + 1) \div 2 \in E
    BY <1>1, <2>4
  <2> DEFINE x == p[2 * i - 1]
  <2>5. x \in Nat /\ x % 2 = 1 /\ x + 1 \in 1 .. N
    BY <1>1, <2>2, <2>3
  <2>6. 2 * ((x + 1) \div 2) - 1 = x /\ (x + 1) \div 2 \in E
    <3> HIDE DEF x, E
    <3>1. QED
      BY <2>4, <2>5
  <2>7. e[i] = (x + 1) \div 2
    OBVIOUS
  <2> HIDE DEF e
  <2>8. p[2 * i - 1] = 2 * e[i] - 1 /\ e[i] \in E
    BY <2>6, <2>7
  <2>9. (2 * e[i] - 1) + 1 = 2 * e[i]
    BY <2>8
  <2>10. QED
    BY <2>1, <2>2, <2>8, <2>9
<1>6. ASSUME NEW i \in E, NEW j \in E, e[i] = e[j] PROVE i = j
  <2>1. p[2 * i - 1] = p[2 * j - 1] /\ 2 * i - 1 \in D /\ 2 * j - 1 \in D
    <3>1. p[2 * i - 1] = 2 * e[i] - 1 /\ p[2 * j - 1] = 2 * e[j] - 1
      BY <1>5
    <3>2. 2 * i - 1 \in D /\ 2 * j - 1 \in D
      BY <1>5
    <3> HIDE DEF e
    <3>3. QED
      BY <1>6, <3>1, <3>2
  <2>2. 2 * i - 1 = 2 * j - 1
    BY <1>1, <2>1
  <2>3. QED
    BY <1>1, <2>2
<1>7. ASSUME NEW i \in E PROVE fs[i] = es[e[i]]
  <2>1. parts2[2 * i - 1] = parts[2 * e[i] - 1] /\ parts2[2 * i] = parts[2 * e[i]] /\ e[i] \in E
    BY <1>5
  <2>2. fs[i] = [key |-> parts2[2 * i - 1], bytes |-> parts2[2 * i - 1] \o parts2[2 * i]]
    BY <1>4
  <2> HIDE DEF parts2, e, E, fs
  <2>3. es[e[i]] = [key |-> parts[2 * e[i] - 1], bytes |-> parts[2 * e[i] - 1] \o parts[2 * e[i]]]
    BY <1>3, <2>1
  <2>4. QED
    BY <2>1, <2>2, <2>3
<1>8. Permutes(e, E)
  <2>1. e \in [E -> E]
    BY <1>5
  <2> HIDE DEF e, E
  <2>2. QED
    BY <1>6, <2>1 DEF Permutes
<1>9. DOMAIN es = E /\ fs = [i \in E |-> es[e[i]]]
  <2>1. DOMAIN es = E /\ DOMAIN fs = E /\ fs = [i \in E |-> fs[i]]
    BY <1>3, <1>4
  <2> HIDE DEF es, fs, e, E
  <2>2. QED
    BY <1>7, <2>1
<1> HIDE DEF es, fs, e, E, parts2
<1>10. Reordered(es, fs)
  BY <1>8, <1>9 DEF Reordered
<1>11. QED
  BY <1>10 DEF es, fs, parts2, D

LEMMA EntriesAgree ==
  ASSUME NEW nodes, NEW v \in Value(nodes), NEW w, NEW p, SameValue(v, w, p),
         v.kind \in {"map", "set"},
         NEW parts \in Seq(Bytes), Len(parts) = Len(v.kids)
  PROVE  Reordered(EntriesOf(v, parts), EntriesOf(w, [i \in DOMAIN parts |-> parts[p[i]]]))
<1> DEFINE D == DOMAIN parts
           parts2 == [i \in D |-> parts[p[i]]]
<1>1. v.kids \in Seq(Kid(nodes)) /\ DOMAIN v.kids = D
  BY DEF Value
<1>2. w.kind = v.kind /\ Permutes(p, D) /\ (v.kind = "map" => KeepsPairs(p, v.kids))
  BY <1>1 DEF SameValue
<1>3. CASE v.kind = "map"
  <2>1. Reordered(MapEntries(parts), MapEntries(parts2))
    BY <1>1, <1>2, <1>3, PairsAgree
  <2>2. QED
    BY <1>2, <1>3, <2>1 DEF EntriesOf
<1>4. CASE v.kind = "set"
  <2>1. EntriesOf(v, parts) = SetEntries(parts) /\ EntriesOf(w, parts2) = SetEntries(parts2)
    BY <1>2, <1>4 DEF EntriesOf
  <2>2. SetEntries(parts) = [i \in D |-> [key |-> parts[i], bytes |-> parts[i]]]
        /\ SetEntries(parts2) = [i \in D |-> [key |-> parts[p[i]], bytes |-> parts[p[i]]]]
    BY DEF SetEntries
  <2>3. SetEntries(parts2) = [i \in D |-> SetEntries(parts)[p[i]]] /\ DOMAIN SetEntries(parts) = D
    BY <1>2, <2>2 DEF Permutes
  <2> HIDE DEF parts2, D
  <2>4. Reordered(SetEntries(parts), SetEntries(parts2))
    BY <1>2, <2>3 DEF Reordered
  <2>5. QED
    BY <2>1, <2>4 DEF parts2, D
<1>5. QED
  BY <1>3, <1>4

LEMMA JoinedAgree ==
  ASSUME NEW nodes, NEW v \in Value(nodes), NEW w \in Value(nodes), NEW p, SameValue(v, w, p),
         v.kind \in {"struct", "list", "map", "set"},
         NEW parts \in Seq(Bytes), Len(parts) = Len(v.kids),
         v.kind \in {"map", "set"} => Settled(EntriesOf(v, parts))
  PROVE  JoinAlike(v, w, parts, [i \in DOMAIN parts |-> parts[p[i]]])
<1> DEFINE D == DOMAIN parts
           parts2 == [i \in D |-> parts[p[i]]]
           es == EntriesOf(v, parts)
           es2 == EntriesOf(w, parts2)
           Flat(s) == U32(Len(s)) \o FlattenSeq([i \in DOMAIN s |-> s[i].bytes])
<1>1. /\ v.kids \in Seq(Kid(nodes)) /\ D = 1 .. Len(parts) /\ Len(parts) \in Nat
      /\ DOMAIN v.kids = D /\ \A i \in D : parts[i] \in Bytes
  BY DEF Value
<1>2. p \in [D -> D] /\ Permutes(p, D)
  BY <1>1 DEF SameValue, Permutes
<1>3. parts2 \in Seq(Bytes) /\ Len(parts2) = Len(parts) /\ DOMAIN parts2 = D
  BY <1>1, <1>2
<1>4. Joined(v, parts) \in SUBSET Bytes
  BY <1>1, JoinedType
<1>5. CASE v.kind \notin {"map", "set"}
  <2>1. \A i \in D : p[i] = i /\ w.kids[i] = v.kids[i]
    BY <1>1, <1>5 DEF SameValue
  <2>2. parts2 = parts
    BY <1>1, <2>1
  <2>3. w.kind = v.kind
    BY DEF SameValue
  <2>4. CASE v.kind = "struct"
    <3>1. Joined(v, parts) = {FlattenSeq(parts)} /\ Joined(w, parts2) = {FlattenSeq(parts)}
      BY <2>2, <2>3, <2>4 DEF Joined
    <3>2. QED
      BY <1>4, <3>1 DEF JoinAlike
  <2>5. CASE v.kind = "list"
    <3>1. /\ Joined(v, parts) = {U32(Len(parts)) \o FlattenSeq(parts)}
          /\ Joined(w, parts2) = {U32(Len(parts)) \o FlattenSeq(parts)}
      BY <2>2, <2>3, <2>5 DEF Joined
    <3>2. QED
      BY <1>4, <3>1 DEF JoinAlike
  <2>6. QED
    BY <1>5, <2>4, <2>5
<1>6. CASE v.kind \in {"map", "set"}
  <2>1. es \in Seq(Entries)
    BY EntriesType
  <2>2. Reordered(es, es2)
    BY <1>6, EntriesAgree
  <2>3. PICK e : Permutes(e, DOMAIN es) /\ es2 = [i \in DOMAIN es |-> es[e[i]]]
    BY <2>2 DEF Reordered
  <2>4. Settled(es)
    BY <1>6
  <2>5. /\ Joined(v, parts) = {Flat(s) : s \in Sorts(es)}
        /\ Joined(w, parts2) = {Flat(s) : s \in Sorts(es2)}
    <3>1. w.kind \notin {"struct", "list"} /\ v.kind \notin {"struct", "list"}
      BY <1>6 DEF SameValue
    <3>2. QED
      BY <1>3, <3>1 DEF Joined
  <2> HIDE DEF es, es2, Flat, D
  <2>6. Sorts(es2) = Sorts(es) /\ Sorts(es) = {Sorted(es, Number(es))}
    BY <2>1, <2>3, <2>4, SortsAgree, SettledSorts
  <2>7. Joined(v, parts) = {Flat(Sorted(es, Number(es)))} /\ Joined(w, parts2) = Joined(v, parts)
    BY <2>5, <2>6
  <2>8. QED
    BY <1>4, <2>7 DEF D, JoinAlike
<1>7. QED
  BY <1>5, <1>6

(* Two sites of one value, at addresses of which neither walk or both have *)
(* come through.                                                           *)
Aligned(s, t) ==
  /\ s.node = t.node /\ s.node # Root
  /\ s.address \in s.visited <=> t.address \in t.visited
  /\ \A a \in s.visited : Len(a) <= Len(s.address)
  /\ \A a \in t.visited : Len(a) <= Len(t.address)

LEMMA BeyondAll ==
  ASSUME NEW A \in SUBSET Seq(Nat), NEW a \in Seq(Nat), NEW i \in Nat,
         \A x \in A : Len(x) <= Len(a)
  PROVE  /\ Append(a, i) \notin A /\ Append(a, i) # a
         /\ \A x \in A \cup {a} : Len(x) <= Len(Append(a, i))
<1> DEFINE b == Append(a, i)
<1>1. Len(b) = Len(a) + 1 /\ Len(a) \in Nat
  OBVIOUS
<1>2. \A x \in A : Len(x) \in Nat
  OBVIOUS
<1> HIDE DEF b
<1>3. b \notin A
  <2> SUFFICES ASSUME b \in A PROVE FALSE
    OBVIOUS
  <2>1. Len(b) <= Len(a)
    OBVIOUS
  <2>2. QED
    BY <1>1, <2>1
<1>4. b # a
  BY <1>1
<1>5. ASSUME NEW x \in A \cup {a} PROVE Len(x) <= Len(b)
  <2>1. CASE x = a
    BY <1>1, <2>1
  <2>2. CASE x \in A
    BY <1>1, <1>2, <2>2
  <2>3. QED
    BY <2>1, <2>2
<1>6. QED
  BY <1>3, <1>4, <1>5 DEF b

LEMMA InsideAligned ==
  ASSUME NEW h1, NEW h2, NEW s \in Sites(h1), NEW t \in Sites(h2), Aligned(s, t),
         NEW v, NEW w, w.kind = v.kind, NEW i \in Nat, NEW j \in Nat,
         w.kids[j].to = v.kids[i].to, v.kids[i].to # Root, v.kind = "struct" => i = j
  PROVE  Aligned(Inside(v, s, i), Inside(w, t, j))
<1>1. /\ s.address \in Seq(Nat) /\ s.visited \in SUBSET Seq(Nat)
      /\ t.address \in Seq(Nat) /\ t.visited \in SUBSET Seq(Nat)
  BY DEF Sites
<1>2. /\ Append(s.address, i) \notin s.visited \cup {s.address}
      /\ \A a \in s.visited \cup {s.address} : Len(a) <= Len(Append(s.address, i))
      /\ Append(t.address, j) \notin t.visited \cup {t.address}
      /\ \A a \in t.visited \cup {t.address} : Len(a) <= Len(Append(t.address, j))
  BY <1>1, BeyondAll DEF Aligned
<1>3. /\ \A a \in s.visited \cup {s.address} : Len(a) <= Len(s.address)
      /\ \A a \in t.visited \cup {t.address} : Len(a) <= Len(t.address)
  BY <1>1 DEF Aligned
<1> DEFINE x == Inside(v, s, i)
           y == Inside(w, t, j)
<1>4. x.node = y.node /\ x.node # Root
  BY DEF Inside, Site
<1>5. CASE v.kind = "struct" /\ i = 1
  <2>1. /\ x.address = s.address /\ x.visited = s.visited \cup {s.address}
        /\ y.address = t.address /\ y.visited = t.visited \cup {t.address}
    BY <1>5 DEF Inside, Site
  <2> HIDE DEF x, y
  <2>2. QED
    BY <1>3, <1>4, <2>1 DEF Aligned, x, y
<1>6. CASE v.kind = "struct" /\ i # 1
  <2>1. /\ x.address = Append(s.address, i) /\ x.visited = s.visited \cup {s.address}
        /\ y.address = Append(t.address, j) /\ y.visited = t.visited \cup {t.address}
    BY <1>6 DEF Inside, Site
  <2> HIDE DEF x, y
  <2>2. QED
    BY <1>2, <1>4, <2>1 DEF Aligned, x, y
<1>7. CASE v.kind # "struct"
  <2>1. /\ x.address = Append(s.address, i) /\ x.visited = s.visited
        /\ y.address = Append(t.address, j) /\ y.visited = t.visited
    BY <1>7 DEF Inside, Site
  <2> HIDE DEF x, y
  <2>2. QED
    BY <1>2, <1>4, <2>1 DEF Aligned, x, y
<1>8. QED
  BY <1>5, <1>6, <1>7

LEMMA OneOfOne ==
  ASSUME NEW D, NEW r, r = [i \in D |-> r[i]]
  PROVE  OneOfEach([i \in D |-> {r[i]}]) = {r}
<1> DEFINE outcomes == [i \in D |-> {r[i]}]
           U == UNION {outcomes[i] : i \in D}
<1>1. DOMAIN outcomes = D /\ \A i \in D : outcomes[i] = {r[i]} /\ r[i] \in U
  OBVIOUS
<1>2. r \in [D -> U]
  BY <1>1
<1> HIDE DEF outcomes, U
<1>3. \A c \in [D -> U] : (\A i \in D : c[i] \in outcomes[i]) => c = r
  BY <1>1
<1>4. OneOfEach(outcomes) = {c \in [D -> U] : \A i \in D : c[i] \in outcomes[i]}
  BY <1>1 DEF OneOfEach, U
<1>5. OneOfEach(outcomes) = {r}
  BY <1>1, <1>2, <1>3, <1>4
<1>6. QED
  BY <1>5 DEF outcomes

\* Induction from n down to 0.
LEMMA DownToZero ==
  ASSUME NEW n \in Nat, NEW T, n \in T, \A k \in 0 .. n - 1 : k + 1 \in T => k \in T
  PROVE  0 .. n \subseteq T
<1>1. ASSUME n = 0 PROVE 0 .. n \subseteq T
  BY <1>1
<1>2. ASSUME n # 0 PROVE 0 .. n \subseteq T
  <2>1. \A k \in 1 .. n - 1 : k \in 0 .. n - 1
    OBVIOUS
  <2>2. 1 .. n \subseteq T
    BY <2>1, DownFrom
  <2>3. 1 \in 1 .. n /\ 0 \in 0 .. n - 1 /\ 0 + 1 = 1
    BY <1>2
  <2>4. 0 \in T
    BY <2>2, <2>3
  <2>5. \A k \in 0 .. n : k = 0 \/ k \in 1 .. n
    OBVIOUS
  <2>6. QED
    BY <2>2, <2>4, <2>5
<1>3. QED
  BY <1>1, <1>2

\* What comes of one outcome c of each kid of u.
Out(u, c) == IF \A i \in DOMAIN c : c[i].ok
             THEN {Recorded(bytes) : bytes \in Joined(u, [i \in DOMAIN c |-> c[i].out])}
             ELSE {Failed}

Outs(v, outcomes) == UNION {Out(v, c) : c \in OneOfEach(outcomes)}
KidOutcomes(v, at, deeper) == [i \in DOMAIN v.kids |-> deeper[Inside(v, at, i)]]

Refused(h, at, depth) ==
  TooDeep(depth) \/ (h[at.node].kind = "struct" /\ at.address \in at.visited)

\* What is beneath a value at a site, and how the value is taken apart.
LEMMA SerializeAt ==
  ASSUME NEW h, NEW depth, NEW deeper, NEW at \in Sites(h)
  PROVE  /\ Refused(h, at, depth) => SerializeValue(h, depth, deeper)[at] = {Failed}
         /\ (~ Refused(h, at, depth) /\ h[at.node].kind \in Atoms)
              => SerializeValue(h, depth, deeper)[at] = {Recorded(AtomBytes(h[at.node]))}
         /\ (~ Refused(h, at, depth) /\ h[at.node].kind \notin Atoms)
              => SerializeValue(h, depth, deeper)[at] =
                   Outs(h[at.node], KidOutcomes(h[at.node], at, deeper))
BY DEF SerializeValue, Out, Outs, KidOutcomes, Refused

SettledIfWhole(v, r) ==
  (v.kind \in {"map", "set"} /\ \A i \in DOMAIN r : r[i].ok)
    => Settled(EntriesOf(v, [i \in DOMAIN r |-> r[i].out]))
KidsCome(v, at, deeper, r) == \A i \in DOMAIN v.kids : deeper[Inside(v, at, i)] = {r[i]}
KidsComeBy(v, at, deeper, r, p) == \A i \in DOMAIN v.kids : deeper[Inside(v, at, i)] = {r[p[i]]}
OneOutcome(A, B) == \E x \in Outcomes(Nat) : A = {x} /\ B = {x}

(* One more level of a container or a struct comes out the same, if all it *)
(* holds does.                                                             *)
LEMMA ValueAgrees ==
  ASSUME NEW h1, NEW h2, IsHeap(h1), IsHeap(h2), DOMAIN h1 = DOMAIN h2,
         NEW s \in Sites(h1), NEW t \in Sites(h2), Aligned(s, t),
         h1[s.node].kind \in {"struct", "list", "map", "set"},
         NEW p, SameValue(h1[s.node], h2[s.node], p),
         NEW depth, NEW d1, NEW d2,
         NEW r \in [DOMAIN h1[s.node].kids -> Outcomes(Nat)],
         KidsCome(h1[s.node], s, d1, r), KidsComeBy(h2[s.node], t, d2, r, p),
         SettledIfWhole(h1[s.node], r)
  PROVE  OneOutcome(SerializeValue(h1, depth, d1)[s], SerializeValue(h2, depth, d2)[t])
<1> DEFINE v == h1[s.node]
           w == h2[s.node]
           D == DOMAIN v.kids
           r2 == [i \in D |-> r[p[i]]]
           o1 == [i \in D |-> d1[Inside(v, s, i)]]
           o2 == [i \in D |-> d2[Inside(w, t, i)]]
<1>1. v \in Value(DOMAIN h1) /\ w \in Value(DOMAIN h1)
  BY DEF Sites, IsHeap
<1>2. v.kids \in Seq(Kid(DOMAIN h1)) /\ D = 1 .. Len(v.kids) /\ Len(v.kids) \in Nat
  BY <1>1 DEF Value
<1>3. /\ w.kind = v.kind /\ DOMAIN w.kids = D /\ p \in [D -> D]
      /\ \A i \in D : \E j \in D : p[j] = i
  <2>1. w.kind = v.kind /\ DOMAIN w.kids = D /\ Permutes(p, D)
    BY DEF SameValue
  <2>2. p \in [D -> D] /\ \A i, j \in D : p[i] = p[j] => i = j
    BY <2>1 DEF Permutes
  <2>3. IsFiniteSet(D)
    BY <1>2, CountTo
  <2> HIDE DEF D
  <2>4. p \in Injection(D, D)
    BY <2>2 DEF Injection, IsInjective
  <2>5. p \in Surjection(D, D)
    BY <2>3, <2>4, FS_Injection
  <2>6. QED
    BY <2>1, <2>2, <2>5 DEF Surjection
<1>4. Failed \in Outcomes(Nat)
  BY DEF Failed, Outcomes
<1>5. (Refused(h1, s, depth) <=> Refused(h2, t, depth)) /\ t.node = s.node
  BY <1>3 DEF Aligned, Refused
<1>6. /\ v.kind \notin Atoms /\ w.kind \notin Atoms
  BY <1>3 DEF Atoms
<1>7. /\ Refused(h1, s, depth) => /\ SerializeValue(h1, depth, d1)[s] = {Failed}
                                  /\ SerializeValue(h2, depth, d2)[t] = {Failed}
      /\ ~ Refused(h1, s, depth) => /\ SerializeValue(h1, depth, d1)[s] = Outs(v, o1)
                                    /\ SerializeValue(h2, depth, d2)[t] = Outs(w, o2)
  <2>1. o1 = KidOutcomes(v, s, d1) /\ o2 = KidOutcomes(w, t, d2)
    BY <1>3 DEF KidOutcomes
  <2>2. w = h2[t.node] /\ v = h1[s.node]
    BY <1>5
  <2> HIDE DEF o1, o2, v, w
  <2>3. CASE Refused(h1, s, depth)
    <3>1. SerializeValue(h1, depth, d1)[s] = {Failed}
      BY <2>3, SerializeAt
    <3>2. SerializeValue(h2, depth, d2)[t] = {Failed}
      BY <1>5, <2>3, SerializeAt
    <3>3. QED
      BY <2>3, <3>1, <3>2
  <2>4. CASE ~ Refused(h1, s, depth)
    <3>1. SerializeValue(h1, depth, d1)[s] = Outs(v, o1)
      BY <1>6, <2>1, <2>2, <2>4, SerializeAt
    <3>2. SerializeValue(h2, depth, d2)[t] = Outs(w, o2)
      BY <1>5, <1>6, <2>1, <2>2, <2>4, SerializeAt
    <3>3. QED
      BY <2>4, <3>1, <3>2
  <2>5. QED
    BY <2>3, <2>4
<1>8. OneOfEach(o1) = {r}
  <2>1. o1 = [i \in D |-> {r[i]}] /\ r = [i \in D |-> r[i]]
    BY DEF KidsCome
  <2> HIDE DEF o1, D
  <2>2. QED
    BY <2>1, OneOfOne
<1>9. OneOfEach(o2) = {r2}
  <2>1. o2 = [i \in D |-> {r2[i]}] /\ r2 = [i \in D |-> r2[i]]
    BY <1>3 DEF KidsComeBy
  <2> HIDE DEF o2, D, r2
  <2>2. QED
    BY <2>1, OneOfOne
<1>10. \E x \in Outcomes(Nat) : Out(v, r) = {x} /\ Out(w, r2) = {x}
  <2>1. DOMAIN r = D /\ DOMAIN r2 = D /\ \A i \in D : r2[i] = r[p[i]]
    OBVIOUS
  <2>2. (\A i \in D : r[i].ok) <=> (\A i \in D : r2[i].ok)
    <3> HIDE DEF D, r2
    <3>1. QED
      BY <1>3, <2>1
  <2>3. CASE ~ \A i \in D : r[i].ok
    <3> HIDE DEF D, r2
    <3>1. Out(v, r) = {Failed} /\ Out(w, r2) = {Failed}
      BY <2>1, <2>2, <2>3 DEF Out
    <3>2. QED
      BY <1>4, <3>1
  <2>4. CASE \A i \in D : r[i].ok
    <3> DEFINE parts == [i \in D |-> r[i].out]
               parts2 == [i \in D |-> parts[p[i]]]
    <3>1. parts \in Seq(Bytes) /\ Len(parts) = Len(v.kids) /\ DOMAIN parts = D
      <4>1. \A i \in D : r[i].out \in Bytes
        BY DEF Outcomes, Bytes
      <4>2. QED
        BY <1>2, <4>1
    <3>2. v.kind \in {"map", "set"} => Settled(EntriesOf(v, parts))
      BY <2>1, <2>4 DEF SettledIfWhole
    <3>3. [i \in D |-> r2[i].out] = parts2
      BY <1>3
    <3>4. PICK x \in Bytes : Joined(v, parts) = {x} /\ Joined(w, parts2) = {x}
      <4> HIDE DEF parts
      <4>1. JoinAlike(v, w, parts, [i \in DOMAIN parts |-> parts[p[i]]])
        <5> HIDE DEF v, w, D
        <5>1. SameValue(v, w, p) /\ v.kind \in {"struct", "list", "map", "set"}
          BY DEF v, w
        <5>2. QED
          BY <1>1, <3>1, <3>2, <5>1, JoinedAgree
      <4>2. QED
        BY <3>1, <4>1 DEF JoinAlike
    <3>5. Out(v, r) = {Recorded(bytes) : bytes \in Joined(v, parts)}
      BY <2>1, <2>4 DEF Out
    <3>6. Out(w, r2) = {Recorded(bytes) : bytes \in Joined(w, parts2)}
      <4> HIDE DEF parts2, D, r2
      <4>1. QED
        BY <2>1, <2>2, <2>4, <3>3 DEF Out
    <3>7. Recorded(x) \in Outcomes(Nat)
      BY DEF Recorded, Outcomes, Bytes
    <3> HIDE DEF parts, parts2
    <3>8. Out(v, r) = {Recorded(x)} /\ Out(w, r2) = {Recorded(x)}
      BY <3>4, <3>5, <3>6
    <3>9. QED
      BY <3>7, <3>8
  <2>5. QED
    BY <2>3, <2>4
<1> HIDE DEF o1, o2, r2
<1>11. Outs(v, o1) = Out(v, r) /\ Outs(w, o2) = Out(w, r2)
  BY <1>8, <1>9 DEF Outs
<1>12. QED
  BY <1>4, <1>5, <1>7, <1>10, <1>11 DEF OneOutcome

Onto(p, D) == p \in [D -> D] /\ \A i \in D : \E j \in D : p[j] = i

LEMMA PermutesOnto ==
  ASSUME NEW n \in Nat, NEW p, Permutes(p, 1 .. n)
  PROVE  Onto(p, 1 .. n)
<1> DEFINE D == 1 .. n
<1>1. p \in [D -> D] /\ \A i, j \in D : p[i] = p[j] => i = j
  BY DEF Permutes
<1>2. IsFiniteSet(D)
  BY CountTo
<1> HIDE DEF D
<1>3. p \in Injection(D, D)
  BY <1>1 DEF Injection, IsInjective
<1>4. p \in Surjection(D, D)
  BY <1>2, <1>3, FS_Injection
<1>5. QED
  BY <1>1, <1>4 DEF Surjection, D, Onto

\* The two builds' values of one node are the same value.
LEMMA SameNode ==
  ASSUME input \in Inputs, Struct(1).fields = Struct(2).fields, input.engine = "unreal",
         NEW n \in DOMAIN input.heap, n # Root
  PROVE  \E p : SameValue(Heap(1)[n], Heap(2)[n], p)
<1> DEFINE v == Heap(1)[n]
           w == Heap(2)[n]
           N == Len(v.kids)
<1>1. /\ w.kind = v.kind /\ w.value = v.value
      /\ w.kids = IF Unordered(v) THEN Mirrored(v) ELSE v.kids
      /\ v.kind = "map" => Len(v.kids) % 2 = 0
  <2>1. /\ w.kind = v.kind /\ w.value = v.value
        /\ w.kids = IF Unordered(v) THEN Mirrored(v) ELSE v.kids
        /\ v = input.heap[n]
    BY TwoHeaps
  <2>2. n \in DOMAIN input.heap \ {Root}
    OBVIOUS
  <2>3. input.heap[n].kind = "map" => Len(input.heap[n].kids) % 2 = 0
    BY <2>2, InputPairs
  <2> HIDE DEF v, w
  <2>4. QED
    BY <2>1, <2>3
<1>2. v.kids \in Seq(Kid(DOMAIN input.heap))
  <2>1. IsHeap(Heap(1)) /\ DOMAIN Heap(1) = DOMAIN input.heap
    BY HeapType, BuildsAssumption
  <2>2. v \in Value(DOMAIN input.heap)
    BY <2>1 DEF IsHeap
  <2>3. QED
    BY <2>2 DEF Value
<1> HIDE DEF v, w
<1>3. DOMAIN v.kids = 1 .. N /\ N \in Nat
  BY <1>2
<1>4. CASE Unordered(v) /\ v.kind = "set"
  <2> DEFINE p == [i \in 1 .. N |-> N + 1 - i]
  <2>1. /\ DOMAIN w.kids = DOMAIN v.kids
        /\ \A i \in DOMAIN v.kids : w.kids[i] = v.kids[N + 1 - i]
    BY <1>1, <1>2, <1>4, ReverseFacts DEF Mirrored
  <2>2. Permutes(p, 1 .. N)
    BY <1>3 DEF Permutes
  <2>3. SameValue(v, w, p)
    BY <1>1, <1>3, <1>4, <2>1, <2>2 DEF SameValue
  <2>4. QED
    BY <2>3 DEF v, w
<1>6. CASE Unordered(v) /\ v.kind = "map"
  <2> DEFINE p == [k \in 1 .. N |-> PairsBack(k, N)]
  <2>1. N % 2 = 0 /\ w.kids = ReversePairs(v.kids)
    BY <1>1, <1>6 DEF Mirrored
  <2>2. /\ DOMAIN w.kids = DOMAIN v.kids
        /\ \A k \in DOMAIN v.kids : w.kids[k] = v.kids[PairsBack(k, N)]
    BY <1>2, <2>1, ReversePairsFacts
  <2>3. \A k \in 1 .. N : /\ PairsBack(k, N) \in 1 .. N
                          /\ PairsBack(PairsBack(k, N), N) = k
    BY <1>3, <2>1, PairsBackFacts
  <2>4. Permutes(p, 1 .. N)
    BY <2>3 DEF Permutes
  <2>5. KeepsPairs(p, v.kids)
    <3>1. ASSUME NEW k \in 1 .. N, k % 2 = 1
          PROVE  k + 1 \in 1 .. N /\ PairsBack(k, N) % 2 = 1 /\ PairsBack(k + 1, N) = PairsBack(k, N) + 1
      <4>1. k + 1 \in 1 .. N /\ (k + 1) % 2 # 1
        <5>1. ASSUME NEW m \in Nat, m % 2 = 0, NEW x \in 1 .. m, x % 2 = 1
              PROVE  x + 1 \in 1 .. m /\ (x + 1) % 2 # 1
          BY <5>1
        <5> HIDE DEF N
        <5>2. N \in Nat /\ N % 2 = 0 /\ k \in 1 .. N /\ k % 2 = 1
          BY <1>3, <2>1, <3>1
        <5>3. QED
          BY <5>1, <5>2
      <4>2. PairsBack(k, N) % 2 = 1
        BY <1>3, <2>1, <3>1, PairsBackFacts
      <4>3. PairsBack(k, N) = N - k /\ PairsBack(k + 1, N) = N + 2 - (k + 1)
        BY <3>1, <4>1 DEF PairsBack
      <4>4. N + 2 - (k + 1) = (N - k) + 1
        BY <1>3
      <4>5. QED
        BY <4>1, <4>2, <4>3, <4>4
    <3>2. QED
      BY <1>3, <2>1, <3>1 DEF KeepsPairs
  <2>6. SameValue(v, w, p)
    BY <1>1, <1>3, <1>6, <2>2, <2>4, <2>5 DEF SameValue
  <2>7. QED
    BY <2>6 DEF v, w
<1>5. CASE ~ Unordered(v)
  <2> DEFINE p == [i \in 1 .. N |-> i]
  <2>1. Permutes(p, 1 .. N)
    BY DEF Permutes
  <2>2. v.kind # "map"
    BY <1>5 DEF Unordered
  <2>3. SameValue(v, w, p)
    BY <1>1, <1>3, <1>5, <2>1, <2>2 DEF SameValue
  <2>4. QED
    BY <2>3 DEF v, w
<1>7. QED
  BY <1>4, <1>5, <1>6 DEF Unordered

LEMMA AtomOut ==
  ASSUME NEW h, IsHeap(h), NEW depth \in 0 .. MaxDepth + 1, NEW at \in Sites(h),
         h[at.node].kind \in Atoms, NEW r, Serialize(h)[depth][at] = {r}, r.ok
  PROVE  r.out = AtomBytes(h[at.node])
<1>1. Serialize(h)[depth][at] = SerializeValue(h, depth, Serialize(h)[depth + 1])[at]
  BY SerializeEquation
<1>2. ~ Refused(h, at, depth)
  <2> SUFFICES ASSUME Refused(h, at, depth) PROVE FALSE
    OBVIOUS
  <2>1. Serialize(h)[depth][at] = {Failed}
    BY <1>1, SerializeAt
  <2>2. QED
    BY <2>1 DEF Failed
<1>3. Serialize(h)[depth][at] = {Recorded(AtomBytes(h[at.node]))}
  BY <1>1, <1>2, SerializeAt
<1>4. QED
  BY <1>3 DEF Recorded

LEMMA FirstHeap ==
  ASSUME NEW n \in DOMAIN input.heap, n # Root
  PROVE  Heap(1)[n] = input.heap[n]
BY DEF Heap

\* A kid that is an atom comes out as its bytes, or not at all.
LEMMA AtomKid ==
  ASSUME NEW h, IsHeap(h), NEW depth \in 0 .. MaxDepth + 1, NEW at \in Sites(h),
         h[at.node].kind \in Atoms
  PROVE  \E x \in {Failed, Recorded(AtomBytes(h[at.node]))} : Serialize(h)[depth][at] = {x}
<1>1. Serialize(h)[depth][at] = SerializeValue(h, depth, Serialize(h)[depth + 1])[at]
  BY SerializeEquation
<1>2. CASE Refused(h, at, depth)
  BY <1>1, <1>2, SerializeAt
<1>3. CASE ~ Refused(h, at, depth)
  BY <1>1, <1>3, SerializeAt
<1>4. QED
  BY <1>2, <1>3

\* A struct of atoms comes out as their bytes, one after the other.
LEMMA PlainStructOut ==
  ASSUME NEW h, IsHeap(h), NEW depth \in 0 .. MaxDepth, NEW at \in Sites(h),
         h[at.node].kind = "struct",
         \A i \in DOMAIN h[at.node].kids : h[h[at.node].kids[i].to].kind \in Atoms,
         NEW r, Serialize(h)[depth][at] = {r}, r.ok
  PROVE  r.out = FlattenSeq([i \in DOMAIN h[at.node].kids |-> AtomBytes(h[h[at.node].kids[i].to])])
<1> DEFINE v == h[at.node]
           D == DOMAIN v.kids
           d == Serialize(h)[depth + 1]
           o == KidOutcomes(v, at, d)
           bytes == [i \in D |-> AtomBytes(h[v.kids[i].to])]
           c == [i \in D |-> CHOOSE x \in {Failed, Recorded(bytes[i])} : o[i] = {x}]
<1>0. depth + 1 \in 0 .. MaxDepth + 1 /\ depth \in 0 .. MaxDepth + 1
  BY MaxDepthAssumption
<1>1. ~ Failed.ok /\ \A x : Recorded(x).ok /\ Recorded(x).out = x
  BY DEF Failed, Recorded
<1>2. {r} = Outs(v, o)
  <2>1. Serialize(h)[depth][at] = SerializeValue(h, depth, d)[at]
    BY <1>0, SerializeEquation
  <2>2. ~ Refused(h, at, depth)
    BY <1>1, <2>1, SerializeAt
  <2>3. v.kind \notin Atoms
    BY DEF Atoms
  <2> HIDE DEF d
  <2>4. QED
    BY <2>1, <2>2, <2>3, SerializeAt
<1>3. ASSUME NEW i \in D PROVE c[i] \in {Failed, Recorded(bytes[i])} /\ o[i] = {c[i]}
  <2>1. Inside(v, at, i) \in Sites(h) /\ Inside(v, at, i).node = v.kids[i].to
    BY InsideType DEF Inside, Site
  <2>2. o[i] = Serialize(h)[depth + 1][Inside(v, at, i)]
    BY DEF KidOutcomes
  <2> HIDE DEF v, D, o
  <2>3. \E x \in {Failed, Recorded(AtomBytes(h[v.kids[i].to]))} :
          Serialize(h)[depth + 1][Inside(v, at, i)] = {x}
    BY <1>0, <2>1, AtomKid DEF v, D
  <2>4. \E x \in {Failed, Recorded(bytes[i])} : o[i] = {x}
    BY <2>2, <2>3
  <2> HIDE DEF bytes
  <2>5. QED
    BY <2>4
<1> HIDE DEF c
<1>4. OneOfEach(o) = {[i \in D |-> c[i]]}
  <2> DEFINE e == [i \in D |-> c[i]]
  <2>1. o = [i \in D |-> {e[i]}] /\ e = [i \in D |-> e[i]]
    BY <1>3 DEF KidOutcomes
  <2> HIDE DEF D, o, e
  <2>2. OneOfEach(o) = {e}
    BY <2>1, OneOfOne
  <2>3. QED
    BY <2>2 DEF e
<1> HIDE DEF o, bytes
<1>5. {r} = Out(v, [i \in D |-> c[i]])
  BY <1>2, <1>4 DEF Outs
<1>6. ASSUME NEW i \in D PROVE c[i].ok
  <2> SUFFICES ASSUME ~ c[i].ok PROVE FALSE
    OBVIOUS
  <2>1. Out(v, [j \in D |-> c[j]]) = {Failed}
    BY DEF Out
  <2>2. QED
    BY <1>1, <1>5, <2>1
<1>7. ASSUME NEW i \in D PROVE c[i].out = bytes[i]
  BY <1>1, <1>3, <1>6
<1>8. [k \in D |-> [i \in D |-> c[i]][k].out] = bytes
  BY <1>7 DEF bytes
<1>9. Out(v, [i \in D |-> c[i]]) = {Recorded(x) : x \in Joined(v, bytes)}
  <2> DEFINE e == [i \in D |-> c[i]]
  <2>1. DOMAIN e = D /\ \A i \in D : e[i].ok
    BY <1>6
  <2>2. [i \in DOMAIN e |-> e[i].out] = bytes
    BY <1>8
  <2> HIDE DEF e
  <2>3. Out(v, e) = {Recorded(x) : x \in Joined(v, bytes)}
    BY <2>1, <2>2 DEF Out
  <2>4. QED
    BY <2>3 DEF e
<1>10. Joined(v, bytes) = {FlattenSeq(bytes)}
  BY DEF Joined
<1>11. r = Recorded(FlattenSeq(bytes))
  BY <1>5, <1>9, <1>10
<1>12. QED
  BY <1>1, <1>11 DEF bytes

\* What a plain key comes out as.
LEMMA PlainOut ==
  ASSUME input \in Inputs, input.engine = "unreal", NEW depth \in 0 .. MaxDepth + 1,
         NEW at \in Sites(Heap(1)), at.node # Root, IsPlain(Heap(1)[at.node]),
         NEW r, Serialize(Heap(1))[depth][at] = {r}, r.ok
  PROVE  r.out = PlainBytes(Heap(1)[at.node])
<1> DEFINE h == Heap(1)
           v == h[at.node]
<1>1. IsHeap(h) /\ DOMAIN h = DOMAIN input.heap
  BY HeapType, BuildsAssumption
<1>2. at.node \in DOMAIN input.heap /\ v = input.heap[at.node] /\ v \in Value(DOMAIN h)
  BY <1>1, FirstHeap DEF Sites, IsHeap
<1>3. CASE v.kind \in Atoms
  <2>1. r.out = AtomBytes(v)
    <3> HIDE DEF h
    <3>1. QED
      BY <1>1, <1>3, AtomOut DEF h
  <2>2. v.kind # "struct"
    BY <1>3 DEF Atoms
  <2>3. QED
    BY <2>1, <2>2 DEF PlainBytes
<1>4. CASE v.kind = "struct"
  <2>1. ASSUME NEW i \in DOMAIN v.kids
        PROVE  h[v.kids[i].to] = input.heap[v.kids[i].to] /\ input.heap[v.kids[i].to].kind \in Atoms
    <3>1. v.kids[i].to # Root
      BY <1>2, InputMore
    <3>2. v.kids[i] \in Kid(DOMAIN h)
      BY <1>2 DEF Value
    <3>3. v.kids[i].to \in DOMAIN input.heap
      BY <1>1, <3>2 DEF Kid
    <3>4. QED
      BY <1>4, <3>1, <3>3, FirstHeap DEF IsPlain
  <2>2. depth \in 0 .. MaxDepth
    <3> SUFFICES ASSUME depth = MaxDepth + 1 PROVE FALSE
      BY MaxDepthAssumption
    <3>1. Serialize(h)[depth] = SerializeValue(h, depth, Serialize(h)[depth + 1])
      BY <1>1, SerializeEquation
    <3>2. Refused(h, at, depth)
      BY MaxDepthAssumption DEF Refused, TooDeep
    <3>3. Serialize(h)[depth][at] = {Failed}
      BY <3>1, <3>2, SerializeAt
    <3>4. QED
      BY <3>3 DEF Failed
  <2> HIDE DEF h
  <2>3. \A i \in DOMAIN h[at.node].kids : h[h[at.node].kids[i].to].kind \in Atoms
    BY <2>1
  <2>4. r.out = FlattenSeq([i \in DOMAIN v.kids |-> AtomBytes(h[v.kids[i].to])])
    BY <1>1, <1>4, <2>2, <2>3, PlainStructOut DEF h
  <2>5. [i \in DOMAIN v.kids |-> AtomBytes(h[v.kids[i].to])]
          = [i \in DOMAIN v.kids |-> AtomBytes(input.heap[v.kids[i].to])]
    BY <2>1
  <2>6. r.out = PlainBytes(v)
    BY <1>4, <2>4, <2>5 DEF PlainBytes
  <2>7. QED
    BY <2>6 DEF h
<1>5. QED
  BY <1>3, <1>4 DEF IsPlain

\* What KeysAreOrdered says of two entries of a container of Unreal's.
ToldByKey(a, b) == Less(a, b) # Less(b, a)
ToldApart(v, x, y) ==
  /\ IsPlain(x) /\ IsPlain(y)
  /\ \/ ToldByKey(PlainBytes(x), PlainBytes(y))
     \/ v.kind = "set" /\ PlainBytes(x) = PlainBytes(y)

LEMMA KeysTold ==
  ASSUME KeysAreOrdered, input.engine = "unreal", NEW n \in DOMAIN input.heap,
         input.heap[n].kind \in {"map", "set"},
         NEW i \in SortKeys(input.heap[n]), NEW j \in SortKeys(input.heap[n]), i # j
  PROVE  ToldApart(input.heap[n], input.heap[input.heap[n].kids[i].to],
                   input.heap[input.heap[n].kids[j].to])
BY ZenonT(30) DEF KeysAreOrdered, ToldApart, ToldByKey

LEMMA ToldInOrder ==
  ASSUME NEW a, NEW b, ToldByKey(a, b) PROVE OneOrder(a, b) /\ a # b
<1>1. Less(a, b) \in BOOLEAN /\ Less(b, a) \in BOOLEAN
  BY DEF Less
<1>2. QED
  BY <1>1 DEF ToldByKey, OneOrder

\* The kid whose bytes are the key of entry i.
KeyKid(v, i) == IF v.kind = "map" THEN 2 * i - 1 ELSE i

LEMMA KeyKidFacts ==
  ASSUME input.engine = "unreal", NEW nodes, NEW v \in Value(nodes), v.kind \in {"map", "set"},
         NEW parts \in Seq(Bytes), Len(parts) = Len(v.kids)
  PROVE  /\ \A i \in DOMAIN EntriesOf(v, parts) :
              /\ KeyKid(v, i) \in SortKeys(v)
              /\ EntriesOf(v, parts)[i].key = parts[KeyKid(v, i)]
              /\ v.kind = "set" => EntriesOf(v, parts)[i] = [key |-> parts[i], bytes |-> parts[i]]
         /\ \A i, j \in DOMAIN EntriesOf(v, parts) : KeyKid(v, i) = KeyKid(v, j) => i = j
<1>1. v.kids \in Seq(Kid(nodes)) /\ DOMAIN v.kids = 1 .. Len(parts) /\ Len(parts) \in Nat
  BY DEF Value
<1>2. CASE v.kind = "map"
  <2>1. EntriesOf(v, parts) = [i \in 1 .. (Len(parts) \div 2) |->
          [key |-> parts[2 * i - 1], bytes |-> parts[2 * i - 1] \o parts[2 * i]]]
    BY <1>2 DEF EntriesOf, MapEntries
  <2>2. ASSUME NEW i \in 1 .. (Len(parts) \div 2)
        PROVE  2 * i - 1 \in 1 .. Len(parts) /\ (2 * i - 1) % 2 = 1
    <3>1. ASSUME NEW n \in Nat, NEW k \in 1 .. (n \div 2)
          PROVE  2 * k - 1 \in 1 .. n /\ (2 * k - 1) % 2 = 1
      OBVIOUS
    <3> DEFINE n == Len(parts)
    <3>2. n \in Nat /\ i \in 1 .. (n \div 2)
      BY <1>1
    <3> HIDE DEF n
    <3>3. 2 * i - 1 \in 1 .. n /\ (2 * i - 1) % 2 = 1
      BY <3>1, <3>2
    <3>4. QED
      BY <3>3 DEF n
  <2>3. \A i, j \in 1 .. (Len(parts) \div 2) : 2 * i - 1 = 2 * j - 1 => i = j
    BY <1>1
  <2>4. \A i : KeyKid(v, i) = 2 * i - 1
    BY <1>2 DEF KeyKid
  <2>5. ASSUME NEW k \in 1 .. Len(parts), k % 2 = 1 PROVE k \in SortKeys(v)
    BY <1>1, <2>5 DEF SortKeys
  <2>6. v.kind # "set"
    BY <1>2
  <2> DEFINE es == EntriesOf(v, parts)
             E == 1 .. (Len(parts) \div 2)
  <2>7. DOMAIN es = E /\ \A i \in E : es[i].key = parts[2 * i - 1]
    <3> HIDE DEF es, E
    <3>1. es = [i \in E |-> [key |-> parts[2 * i - 1], bytes |-> parts[2 * i - 1] \o parts[2 * i]]]
      BY <2>1 DEF es, E
    <3>2. DOMAIN es = E
      BY <3>1
    <3>3. ASSUME NEW i \in E PROVE es[i].key = parts[2 * i - 1]
      BY <3>1
    <3>4. QED
      BY <3>2, <3>3
  <2> HIDE DEF es
  <2>8. ASSUME NEW i \in E PROVE KeyKid(v, i) \in SortKeys(v) /\ es[i].key = parts[KeyKid(v, i)]
    BY <2>2, <2>4, <2>5, <2>7
  <2>9. ASSUME NEW i \in E, NEW j \in E, KeyKid(v, i) = KeyKid(v, j) PROVE i = j
    BY <2>3, <2>4, <2>9
  <2> HIDE DEF E
  <2>10. /\ \A i \in DOMAIN es : /\ KeyKid(v, i) \in SortKeys(v)
                                 /\ es[i].key = parts[KeyKid(v, i)]
                                 /\ v.kind = "set" => es[i] = [key |-> parts[i], bytes |-> parts[i]]
         /\ \A i, j \in DOMAIN es : KeyKid(v, i) = KeyKid(v, j) => i = j
    BY <2>6, <2>7, <2>8, <2>9
  <2>11. QED
    BY <2>10 DEF es
<1>3. CASE v.kind = "set"
  <2>1. EntriesOf(v, parts) = [i \in 1 .. Len(parts) |-> [key |-> parts[i], bytes |-> parts[i]]]
    BY <1>3 DEF EntriesOf, SetEntries
  <2>2. QED
    BY <1>1, <1>3, <2>1 DEF KeyKid, SortKeys
<1>4. QED
  BY <1>2, <1>3

LEMMA EntriesSettled ==
  ASSUME input \in Inputs, KeysAreOrdered, input.engine = "unreal",
         NEW s \in Sites(Heap(1)), s.node # Root, Heap(1)[s.node].kind \in {"map", "set"},
         NEW depth \in 0 .. MaxDepth,
         NEW r \in [DOMAIN Heap(1)[s.node].kids -> Outcomes(Nat)],
         \A i \in DOMAIN r :
           /\ Serialize(Heap(1))[depth + 1][Inside(Heap(1)[s.node], s, i)] = {r[i]}
           /\ r[i].ok
  PROVE  Settled(EntriesOf(Heap(1)[s.node], [i \in DOMAIN r |-> r[i].out]))
<1> DEFINE h == Heap(1)
           v == h[s.node]
           D == DOMAIN r
           parts == [i \in D |-> r[i].out]
           es == EntriesOf(v, parts)
           key(i) == input.heap[v.kids[KeyKid(v, i)].to]
<1>1. IsHeap(h) /\ DOMAIN h = DOMAIN input.heap
  BY HeapType, BuildsAssumption
<1>2. s.node \in DOMAIN input.heap /\ v = input.heap[s.node] /\ D = DOMAIN v.kids /\ v \in Value(DOMAIN h)
  BY <1>1, FirstHeap DEF Sites, IsHeap
<1>3. parts \in Seq(Bytes) /\ Len(parts) = Len(v.kids)
  <2>1. v.kids \in Seq(Kid(DOMAIN h)) /\ D = 1 .. Len(v.kids) /\ Len(v.kids) \in Nat
    BY <1>2 DEF Value
  <2>2. \A i \in D : r[i].out \in Bytes
    BY DEF Outcomes, Bytes
  <2> HIDE DEF D, v, h
  <2>3. QED
    BY <2>1, <2>2
<1>4. ASSUME NEW k \in D, IsPlain(input.heap[v.kids[k].to])
      PROVE  parts[k] = PlainBytes(input.heap[v.kids[k].to])
  <2>1. v.kids[k].to # Root
    BY <1>2, InputMore
  <2>2. Inside(v, s, k) \in Sites(h) /\ Inside(v, s, k).node = v.kids[k].to
    BY <1>1, <1>2, InsideType DEF Inside, Site
  <2>3. v.kids[k].to \in DOMAIN input.heap
    BY <1>1, <2>2 DEF Sites
  <2>4. h[v.kids[k].to] = input.heap[v.kids[k].to]
    BY <2>1, <2>3, FirstHeap
  <2>5. depth + 1 \in 0 .. MaxDepth + 1
    BY MaxDepthAssumption
  <2> DEFINE at == Inside(v, s, k)
  <2>6. Serialize(h)[depth + 1][at] = {r[k]} /\ r[k].ok
    OBVIOUS
  <2>7. IsPlain(h[at.node]) /\ at.node # Root /\ at \in Sites(h)
    BY <1>4, <2>1, <2>2, <2>4
  <2>8. r[k].out = PlainBytes(h[at.node])
    <3> HIDE DEF at, v, D
    <3>1. QED
      BY <2>5, <2>6, <2>7, PlainOut
  <2> HIDE DEF at, v, D, h
  <2>9. PlainBytes(h[at.node]) = PlainBytes(input.heap[v.kids[k].to])
    BY <2>2, <2>4 DEF at
  <2>10. QED
    BY <2>8, <2>9
<1>5. /\ \A i \in DOMAIN es : /\ KeyKid(v, i) \in SortKeys(v) /\ es[i].key = parts[KeyKid(v, i)]
                              /\ v.kind = "set" => es[i] = [key |-> parts[i], bytes |-> parts[i]]
      /\ \A i, j \in DOMAIN es : KeyKid(v, i) = KeyKid(v, j) => i = j
  <2> HIDE DEF parts, v, h
  <2>1. v.kind \in {"map", "set"} /\ v \in Value(DOMAIN h)
    BY <1>2 DEF v, h
  <2>2. QED
    BY <1>3, <2>1, KeyKidFacts
<1> HIDE DEF parts, es, h
<1>6. ASSUME NEW i \in DOMAIN es, NEW j \in DOMAIN es, i # j
      PROVE  OneOrder(es[i].key, es[j].key) /\ (es[i].key = es[j].key => es[i] = es[j])
  <2> DEFINE m == KeyKid(v, i)
             n == KeyKid(v, j)
             a == PlainBytes(key(i))
             b == PlainBytes(key(j))
  <2>1. m \in SortKeys(v) /\ n \in SortKeys(v) /\ m # n
    BY <1>5, <1>6
  <2>2. m \in D /\ n \in D
    BY <1>2, <2>1 DEF SortKeys
  <2>3. ToldApart(v, key(i), key(j))
    <3>1. v.kind \in {"map", "set"} /\ v = input.heap[s.node] /\ s.node \in DOMAIN input.heap
      BY <1>2 DEF h
    <3> HIDE DEF v, m, n
    <3>2. ToldApart(input.heap[s.node], input.heap[input.heap[s.node].kids[m].to],
                    input.heap[input.heap[s.node].kids[n].to])
      BY <2>1, <3>1, KeysTold
    <3>3. QED
      BY <3>1, <3>2 DEF m, n
  <2>4. IsPlain(key(i)) /\ IsPlain(key(j)) /\ (ToldByKey(a, b) \/ (v.kind = "set" /\ a = b))
    BY <2>3 DEF ToldApart
  <2>5. parts[m] = a /\ parts[n] = b
    BY <1>4, <2>2, <2>4
  <2>6. es[i].key = a /\ es[j].key = b
    BY <1>5, <2>5
  <2> HIDE DEF a, b
  <2>7. CASE ToldByKey(a, b)
    BY <2>6, <2>7, ToldInOrder
  <2>8. CASE v.kind = "set" /\ a = b
    <3>1. m = i /\ n = j
      BY <2>8 DEF KeyKid
    <3>2. es[i] = [key |-> parts[i], bytes |-> parts[i]] /\ es[j] = [key |-> parts[j], bytes |-> parts[j]]
      BY <1>5, <2>8
    <3> HIDE DEF m, n
    <3>3. es[i] = es[j]
      BY <2>5, <2>8, <3>1, <3>2
    <3>4. OneOrder(es[i].key, es[j].key)
      BY <2>6, <2>8 DEF OneOrder
    <3>5. QED
      BY <3>3, <3>4
  <2>9. QED
    BY <2>4, <2>7, <2>8
<1>7. Settled(es)
  BY <1>6 DEF Settled, OneOrder
<1>8. QED
  BY <1>7 DEF es, parts, v, h

\* Both builds make the same of one value, at whatever addresses it lies.
Alike(depth) ==
  \A s \in Sites(Heap(1)), t \in Sites(Heap(2)) :
    Aligned(s, t) => OneOutcome(Serialize(Heap(1))[depth][s], Serialize(Heap(2))[depth][t])

LEMMA AlikeBeyond ==
  ASSUME input \in Inputs PROVE Alike(MaxDepth + 1)
<1>1. IsHeap(Heap(1)) /\ IsHeap(Heap(2)) /\ MaxDepth + 1 \in 0 .. MaxDepth + 1
  BY HeapType, BuildsAssumption, MaxDepthAssumption
<1>2. ASSUME NEW h, IsHeap(h), NEW s \in Sites(h)
      PROVE  Serialize(h)[MaxDepth + 1][s] = {Failed}
  <2>1. Serialize(h)[MaxDepth + 1] = SerializeValue(h, MaxDepth + 1, Serialize(h)[MaxDepth + 1 + 1])
    BY <1>1, <1>2, SerializeEquation
  <2>2. Refused(h, s, MaxDepth + 1)
    BY MaxDepthAssumption DEF Refused, TooDeep
  <2>3. QED
    BY <2>1, <2>2, SerializeAt
<1>3. Failed \in Outcomes(Nat)
  BY DEF Failed, Outcomes
<1>4. QED
  BY <1>1, <1>2, <1>3 DEF Alike, OneOutcome

\* What is beneath two aligned sites is aligned, each kid with itself.
LEMMA KidsAligned ==
  ASSUME input \in Inputs, Struct(1).fields = Struct(2).fields, input.engine = "unreal",
         NEW s \in Sites(Heap(1)), NEW t \in Sites(Heap(2)), Aligned(s, t),
         NEW p, SameValue(Heap(1)[s.node], Heap(2)[t.node], p),
         NEW j \in DOMAIN Heap(1)[s.node].kids
  PROVE  /\ p[j] \in DOMAIN Heap(1)[s.node].kids
         /\ Inside(Heap(1)[s.node], s, p[j]) \in Sites(Heap(1))
         /\ Inside(Heap(2)[t.node], t, j) \in Sites(Heap(2))
         /\ Aligned(Inside(Heap(1)[s.node], s, p[j]), Inside(Heap(2)[t.node], t, j))
<1> DEFINE v == Heap(1)[s.node]
           w == Heap(2)[t.node]
<1>1. /\ IsHeap(Heap(1)) /\ DOMAIN Heap(1) = DOMAIN input.heap
      /\ IsHeap(Heap(2)) /\ DOMAIN Heap(2) = DOMAIN input.heap
  BY HeapType, BuildsAssumption
<1>2. s.node \in DOMAIN input.heap /\ s.node # Root
  BY <1>1 DEF Sites, Aligned
<1>3. v = input.heap[s.node] /\ v \in Value(DOMAIN input.heap)
  BY <1>1, <1>2, FirstHeap DEF IsHeap
<1>4. v.kids \in Seq(Kid(DOMAIN input.heap))
  BY <1>3 DEF Value
<1>5. p[j] \in DOMAIN v.kids /\ j \in DOMAIN w.kids /\ w.kids[j] = v.kids[p[j]] /\ w.kind = v.kind
      /\ (v.kind = "struct" => p[j] = j)
  BY DEF SameValue, Permutes
<1>6. v.kids[p[j]].to # Root
  BY <1>2, <1>3, <1>5, InputMore
<1>7. Inside(v, s, p[j]) \in Sites(Heap(1)) /\ Inside(w, t, j) \in Sites(Heap(2))
  BY <1>1, <1>5, InsideType
<1>8. p[j] \in Nat /\ j \in Nat
  BY <1>4, <1>5
<1> HIDE DEF v, w
<1>9. Aligned(Inside(v, s, p[j]), Inside(w, t, j))
  BY <1>5, <1>6, <1>8, InsideAligned
<1>10. QED
  BY <1>5, <1>7, <1>9 DEF v, w

LEMMA AlikeAbove ==
  ASSUME input \in Inputs, Struct(1).fields = Struct(2).fields, KeysAreOrdered,
         input.engine = "unreal", NEW depth \in 0 .. MaxDepth, Alike(depth + 1)
  PROVE  Alike(depth)
<1> SUFFICES ASSUME NEW s \in Sites(Heap(1)), NEW t \in Sites(Heap(2)), Aligned(s, t)
             PROVE  OneOutcome(Serialize(Heap(1))[depth][s], Serialize(Heap(2))[depth][t])
  BY DEF Alike
<1> DEFINE h1 == Heap(1)
           h2 == Heap(2)
           v == h1[s.node]
           w == h2[s.node]
           D == DOMAIN v.kids
           d1 == Serialize(h1)[depth + 1]
           d2 == Serialize(h2)[depth + 1]
<1>1. /\ IsHeap(h1) /\ DOMAIN h1 = DOMAIN input.heap
      /\ IsHeap(h2) /\ DOMAIN h2 = DOMAIN input.heap
  BY HeapType, BuildsAssumption
<1>2. /\ s.node \in DOMAIN input.heap /\ s.node # Root /\ t.node = s.node
      /\ v = input.heap[s.node] /\ v \in Value(DOMAIN input.heap)
  <2>1. s.node \in DOMAIN input.heap /\ s.node # Root /\ t.node = s.node
    BY <1>1 DEF Sites, Aligned
  <2>2. QED
    BY <1>1, <2>1, FirstHeap DEF IsHeap
<1>3. depth \in 0 .. MaxDepth + 1 /\ depth + 1 \in 0 .. MaxDepth + 1
  BY MaxDepthAssumption
<1>4. /\ Serialize(h1)[depth] = SerializeValue(h1, depth, d1)
      /\ Serialize(h2)[depth] = SerializeValue(h2, depth, d2)
  BY <1>1, <1>3, SerializeEquation
<1>5. PICK p : SameValue(v, w, p)
  BY <1>2, SameNode
<1>6. w.kind = v.kind /\ w.value = v.value
  BY <1>5 DEF SameValue
<1>7. Refused(h1, s, depth) <=> Refused(h2, t, depth)
  BY <1>2, <1>6 DEF Aligned, Refused
<1>8. CASE v.kind \in Atoms
  <2>1. AtomBytes(w) = AtomBytes(v)
    BY <1>6 DEF AtomBytes
  <2>2. AtomBytes(v) \in Bytes
    BY <1>2, AtomType DEF Value
  <2>3. Failed \in Outcomes(Nat) /\ Recorded(AtomBytes(v)) \in Outcomes(Nat)
    BY <2>2 DEF Failed, Recorded, Outcomes, Bytes
  <2>4. ASSUME Refused(h1, s, depth) PROVE Serialize(h1)[depth][s] = {Failed} /\ Serialize(h2)[depth][t] = {Failed}
    BY <1>4, <1>7, <2>4, SerializeAt
  <2>5. ASSUME ~ Refused(h1, s, depth)
        PROVE  /\ Serialize(h1)[depth][s] = {Recorded(AtomBytes(v))}
               /\ Serialize(h2)[depth][t] = {Recorded(AtomBytes(v))}
    <3>1. h1[s.node].kind \in Atoms /\ h2[t.node].kind \in Atoms
      BY <1>2, <1>6, <1>8
    <3>2. SerializeValue(h1, depth, d1)[s] = {Recorded(AtomBytes(h1[s.node]))}
      BY <2>5, <3>1, SerializeAt
    <3>3. SerializeValue(h2, depth, d2)[t] = {Recorded(AtomBytes(h2[t.node]))}
      BY <1>7, <2>5, <3>1, SerializeAt
    <3>4. QED
      BY <1>2, <1>4, <2>1, <3>2, <3>3
  <2>6. QED
    BY <2>3, <2>4, <2>5 DEF OneOutcome
<1>9. CASE v.kind \notin Atoms
  <2>1. v.kind \in {"struct", "list", "map", "set"}
    BY <1>2, <1>9, InputMore DEF Kinds
  <2>2. v.kids \in Seq(Kid(DOMAIN input.heap))
    BY <1>2 DEF Value
  <2>3. D = 1 .. Len(v.kids) /\ Len(v.kids) \in Nat
    BY <2>2
  <2>4. p \in [D -> D] /\ \A i \in D : \E j \in D : p[j] = i
    <3>1. Permutes(p, 1 .. Len(v.kids))
      BY <1>5, <2>3 DEF SameValue
    <3> HIDE DEF D
    <3>2. Onto(p, 1 .. Len(v.kids))
      BY <2>3, <3>1, PermutesOnto
    <3>3. QED
      BY <2>3, <3>2 DEF Onto
  <2>5. ASSUME NEW j \in D
        PROVE  \E x \in Outcomes(Nat) : /\ d1[Inside(v, s, p[j])] = {x}
                                        /\ d2[Inside(w, t, j)] = {x}
    <3>1. /\ Inside(v, s, p[j]) \in Sites(h1) /\ Inside(w, t, j) \in Sites(h2)
          /\ Aligned(Inside(v, s, p[j]), Inside(w, t, j))
      BY <1>2, <1>5, KidsAligned
    <3>2. QED
      BY <3>1 DEF Alike, OneOutcome
  <2> DEFINE r == [i \in D |-> CHOOSE x \in Outcomes(Nat) : d1[Inside(v, s, i)] = {x}]
  <2>6. ASSUME NEW i \in D PROVE r[i] \in Outcomes(Nat) /\ d1[Inside(v, s, i)] = {r[i]}
    <3>1. PICK j \in D : p[j] = i
      BY <2>4
    <3>2. \E x \in Outcomes(Nat) : d1[Inside(v, s, i)] = {x}
      BY <2>5, <3>1
    <3>3. QED
      BY <3>2
  <2>7. r \in [D -> Outcomes(Nat)] /\ DOMAIN r = D
    BY <2>6
  <2> HIDE DEF r
  <2>8. ASSUME NEW j \in D PROVE d2[Inside(w, t, j)] = {r[p[j]]}
    <3>1. PICK x \in Outcomes(Nat) : d1[Inside(v, s, p[j])] = {x} /\ d2[Inside(w, t, j)] = {x}
      BY <2>5
    <3>2. d1[Inside(v, s, p[j])] = {r[p[j]]}
      BY <2>4, <2>6
    <3>3. QED
      BY <3>1, <3>2
  <2>9. SettledIfWhole(v, r)
    <3> SUFFICES ASSUME v.kind \in {"map", "set"}, \A i \in DOMAIN r : r[i].ok
                 PROVE  Settled(EntriesOf(v, [i \in DOMAIN r |-> r[i].out]))
      BY DEF SettledIfWhole
    <3>1. \A i \in DOMAIN r : d1[Inside(v, s, i)] = {r[i]} /\ r[i].ok
      BY <2>6, <2>7
    <3>2. QED
      BY <1>2, <2>7, <3>1, EntriesSettled
  <2> HIDE DEF d1, d2
  <2>10. OneOutcome(SerializeValue(h1, depth, d1)[s], SerializeValue(h2, depth, d2)[t])
    <3>1. SameValue(h1[s.node], h2[s.node], p) /\ h1[s.node].kind \in {"struct", "list", "map", "set"}
      BY <1>5, <2>1
    <3>2. KidsCome(h1[s.node], s, d1, r) /\ KidsComeBy(h2[s.node], t, d2, r, p)
      BY <1>2, <1>5, <2>6, <2>8 DEF KidsCome, KidsComeBy, SameValue
    <3>3. r \in [DOMAIN h1[s.node].kids -> Outcomes(Nat)] /\ SettledIfWhole(h1[s.node], r)
      BY <2>7, <2>9
    <3>4. s \in Sites(h1) /\ t \in Sites(h2)
      OBVIOUS
    <3> HIDE DEF h1, h2, v, w, D
    <3>5. OneOutcome(SerializeValue(h1, depth, d1)[s], SerializeValue(h2, depth, d2)[t])
      BY <1>1, <3>1, <3>2, <3>3, <3>4, ValueAgrees
    <3>6. QED
      BY <3>5
  <2>11. QED
    BY <1>4, <2>10
<1>10. QED
  BY <1>8, <1>9

LEMMA AlikeEverywhere ==
  ASSUME input \in Inputs, Struct(1).fields = Struct(2).fields, KeysAreOrdered,
         input.engine = "unreal"
  PROVE  Alike(0)
<1> DEFINE T == {k \in 0 .. MaxDepth + 1 : Alike(k)}
           n == MaxDepth + 1
<1>1. n \in Nat /\ n \in T
  BY AlikeBeyond, MaxDepthAssumption
<1>2. \A k \in 0 .. n - 1 : k + 1 \in T => k \in T
  <2> SUFFICES ASSUME NEW k \in 0 .. n - 1, k + 1 \in T PROVE k \in T
    OBVIOUS
  <2>1. k \in 0 .. MaxDepth /\ k \in 0 .. MaxDepth + 1
    BY MaxDepthAssumption
  <2>2. Alike(k)
    BY <2>1, AlikeAbove
  <2>3. QED
    BY <2>1, <2>2
<1> HIDE DEF T
<1>3. 0 .. n \subseteq T
  BY <1>1, <1>2, DownToZero
<1>4. 0 \in T
  BY <1>1, <1>3
<1>5. QED
  BY <1>4 DEF T

FieldSite(f) == Site(f.to, <<f.label>>, {})
FieldOutcomes(h, fields) == [i \in DOMAIN fields |-> Serialize(h)[0][FieldSite(fields[i])]]
FieldOut(fields, c) ==
  [ok |-> \A i \in DOMAIN c : c[i].ok,
   out |-> FlattenSeq([i \in DOMAIN c |->
             IF c[i].ok THEN << << <<fields[i].label>>, c[i].out>> >> ELSE <<>>])]

LEMMA UnrealWalkIs ==
  ASSUME NEW h, NEW fields
  PROVE  UnrealWalk(h, fields) = {FieldOut(fields, c) : c \in OneOfEach(FieldOutcomes(h, fields))}
BY DEF UnrealWalk, FieldSite, FieldOutcomes, FieldOut

LEMMA UnrealAgrees ==
  ASSUME input \in Inputs, Struct(1).fields = Struct(2).fields, KeysAreOrdered,
         input.engine = "unreal"
  PROVE  \E r : UnrealWalk(Heap(1), Tracked(1)) = {r} /\ UnrealWalk(Heap(2), Tracked(2)) = {r}
<1> DEFINE fields == Tracked(1)
           D == DOMAIN fields
<1>1. Tracked(2) = fields
  BY TwoHeaps
<1>2. /\ DOMAIN Heap(1) = DOMAIN input.heap /\ DOMAIN Heap(2) = DOMAIN input.heap
      /\ fields \in Seq(Kid(DOMAIN input.heap))
      /\ Struct(1).fields \in Seq(Kid(DOMAIN input.heap))
  BY HeapType, TrackedType, BuildsAssumption
<1>3. ASSUME NEW i \in D PROVE fields[i].to # Root
  <2>1. ToSet(fields) \subseteq ToSet(Struct(1).fields)
    <3> DEFINE S == {f \in ToSet(Struct(1).fields) : Marked(f)}
    <3>1. fields = Kept(Struct(1).fields, S)
      BY DEF Tracked
    <3> HIDE DEF S, fields
    <3>2. ToSet(fields) = ToSet(Struct(1).fields) \cap S
      BY <1>2, <3>1, KeptFacts
    <3>3. QED
      BY <3>2
  <2>2. fields[i] \in ToSet(fields)
    BY DEF ToSet
  <2> HIDE DEF fields
  <2>3. PICK j \in DOMAIN Struct(1).fields : fields[i] = Struct(1).fields[j]
    BY <2>1, <2>2 DEF ToSet
  <2>4. QED
    BY <2>3, InputMore, BuildsAssumption DEF Struct
<1>4. ASSUME NEW i \in D
      PROVE  OneOutcome(Serialize(Heap(1))[0][FieldSite(fields[i])],
                        Serialize(Heap(2))[0][FieldSite(fields[i])])
  <2> DEFINE s == FieldSite(fields[i])
  <2>1. fields[i] \in Kid(DOMAIN input.heap)
    BY <1>2
  <2>2. s \in Sites(Heap(1)) /\ s \in Sites(Heap(2))
    BY <1>2, <2>1 DEF FieldSite, Site, Sites, Kid
  <2>3. Aligned(s, s)
    BY <1>3 DEF FieldSite, Site, Aligned
  <2>4. Alike(0)
    BY AlikeEverywhere
  <2> HIDE DEF s, fields
  <2>5. OneOutcome(Serialize(Heap(1))[0][s], Serialize(Heap(2))[0][s])
    BY <2>2, <2>3, <2>4 DEF Alike
  <2>6. QED
    BY <2>5 DEF s
<1> DEFINE c == [i \in D |-> CHOOSE x \in Outcomes(Nat) :
                               Serialize(Heap(1))[0][FieldSite(fields[i])] = {x}]
<1>5. ASSUME NEW i \in D
      PROVE  /\ Serialize(Heap(1))[0][FieldSite(fields[i])] = {c[i]}
             /\ Serialize(Heap(2))[0][FieldSite(fields[i])] = {c[i]}
  <2>1. PICK x \in Outcomes(Nat) : /\ Serialize(Heap(1))[0][FieldSite(fields[i])] = {x}
                                   /\ Serialize(Heap(2))[0][FieldSite(fields[i])] = {x}
    BY <1>4 DEF OneOutcome
  <2>2. c[i] = x
    BY <2>1
  <2>3. QED
    BY <2>1, <2>2
<1>6. c = [i \in D |-> c[i]]
  OBVIOUS
<1> HIDE DEF c, fields
<1>7. /\ FieldOutcomes(Heap(1), fields) = [i \in D |-> {c[i]}]
      /\ FieldOutcomes(Heap(2), fields) = [i \in D |-> {c[i]}]
  BY <1>5 DEF FieldOutcomes
<1>8. OneOfEach([i \in D |-> {c[i]}]) = {c}
  BY <1>6, OneOfOne
<1>9. /\ UnrealWalk(Heap(1), fields) = {FieldOut(fields, c)}
      /\ UnrealWalk(Heap(2), fields) = {FieldOut(fields, c)}
  BY <1>7, <1>8, UnrealWalkIs
<1>10. QED
  BY <1>1, <1>9 DEF fields

LEMMA ManualAgrees ==
  ASSUME input \in Inputs, Struct(1).fields = Struct(2).fields, KeysAreOrdered,
         input.engine = "manual"
  PROVE  FieldBytes(Heap(1)) = FieldBytes(Heap(2))
<1> DEFINE h1 == Heap(1)
           h2 == Heap(2)
           D == DOMAIN input.heap
<1>1. IsHeap(h1) /\ DOMAIN h1 = D /\ IsHeap(h2) /\ DOMAIN h2 = D
  BY HeapType, BuildsAssumption
<1>2. Len(h1) = Len(h2) /\ Len(h1) \in Nat
  BY <1>1 DEF IsHeap
<1>3. \A n \in D : /\ h1[n].kind = h2[n].kind /\ h1[n].value = h2[n].value
                   /\ WriteKids(h1[n]) = WriteKids(h2[n])
  BY TwoHeaps, TwoViews
<1> HIDE DEF h1, h2
<1>4. ASSUME NEW deeper PROVE Write(h1, deeper) = Write(h2, deeper)
  <2>1. \A n \in D : WriteParts(h1[n], deeper) = WriteParts(h2[n], deeper)
    BY <1>3 DEF WriteParts
  <2>2. ASSUME NEW n \in D PROVE Write(h1, deeper)[n] = Write(h2, deeper)[n]
    <3>1. n \in DOMAIN h1 /\ n \in DOMAIN h2
      BY <1>1
    <3>2. Write(h1, deeper)[n] = IF h1[n].kind = "leaf" THEN <<h1[n].value>>
                                 ELSE FlattenSeq(WriteParts(h1[n], deeper))
      BY <3>1, WriteAt
    <3>3. Write(h2, deeper)[n] = IF h2[n].kind = "leaf" THEN <<h2[n].value>>
                                 ELSE FlattenSeq(WriteParts(h2[n], deeper))
      BY <3>1, WriteAt
    <3>4. QED
      BY <1>3, <2>1, <3>2, <3>3
  <2>3. /\ Write(h1, deeper) = [n \in D |-> Write(h1, deeper)[n]]
        /\ Write(h2, deeper) = [n \in D |-> Write(h2, deeper)[n]]
    BY <1>1 DEF Write
  <2> HIDE DEF D
  <2>4. QED
    BY <2>2, <2>3
<1>5. PICK g1 : Writes(g1, h1)
  BY <1>1, FieldBytesEquation
<1>6. PICK g2 : Writes(g2, h2)
  BY <1>1, FieldBytesEquation
<1> DEFINE N == Len(h1)
           T == {k \in 0 .. N : g1[k] = g2[k]}
<1>7. 0 \in T
  BY <1>1, <1>2, <1>5, <1>6 DEF Writes
<1>8. ASSUME NEW k \in 0 .. N - 1, k \in T PROVE k + 1 \in T
  <2>1. k + 1 \in 1 .. N /\ k + 1 \in 0 .. N /\ (k + 1) - 1 = k
    BY <1>2
  <2>2. g1[k + 1] = Write(h1, g1[k]) /\ g2[k + 1] = Write(h2, g2[k])
    BY <1>2, <1>5, <1>6, <2>1 DEF Writes
  <2>3. QED
    BY <1>4, <1>8, <2>1, <2>2
<1> HIDE DEF T
<1>9. 0 .. N \subseteq T
  BY <1>2, <1>7, <1>8, UpTo
<1>10. g1[N] = g2[N]
  BY <1>2, <1>9 DEF T
<1>11. QED
  BY <1>2, <1>5, <1>6, <1>10 DEF Writes, h1, h2

LEMMA GodotAgrees ==
  ASSUME input \in Inputs, Struct(1).fields = Struct(2).fields, input.engine = "godot"
  PROVE  Heap(1) = Heap(2)
<1>1. \A n \in DOMAIN input.heap : ~ Unordered(input.heap[n])
  BY DEF Unordered
<1>2. QED
  BY <1>1 DEF Heap

\* One outcome, and the same in both builds.
LEMMA WalksAgree ==
  ASSUME input \in Inputs, Struct(1).fields = Struct(2).fields, KeysAreOrdered,
         NEW x \in Walks(1), NEW y \in Walks(2)
  PROVE  x = y
<1>1. input.engine \in {"bevy", "godot", "unity", "unreal", "manual"}
  BY InputFacts DEF Engines, Kinds
<1>2. Tracked(1) = Tracked(2) /\ HashedFields(Struct(1)) = HashedFields(Struct(2))
  BY TwoHeaps
<1>3. CASE input.engine = "bevy"
  <2>1. BevyWalk(Heap(1)) = BevyWalk(Heap(2))
    BY <1>3, TwoViews DEF BevyWalk, BevyView
  <2>2. QED
    BY <1>2, <1>3, <2>1 DEF Walks
<1>4. CASE input.engine = "unity"
  <2>1. UnityWalk(Heap(1)) = UnityWalk(Heap(2))
    BY <1>4, TwoViews DEF UnityWalk, UnityView
  <2>2. QED
    BY <1>2, <1>4, <2>1 DEF Walks
<1>5. CASE input.engine = "godot"
  <2>1. Heap(1) = Heap(2)
    BY <1>5, GodotAgrees
  <2>2. QED
    BY <1>5, <2>1 DEF Walks
<1>6. CASE input.engine = "unreal"
  <2>1. PICK r : UnrealWalk(Heap(1), Tracked(1)) = {r} /\ UnrealWalk(Heap(2), Tracked(2)) = {r}
    BY <1>6, UnrealAgrees
  <2>2. QED
    BY <1>6, <2>1 DEF Walks
<1>7. CASE input.engine = "manual"
  <2>1. FieldBytes(Heap(1)) = FieldBytes(Heap(2))
    BY <1>7, ManualAgrees
  <2>2. QED
    BY <1>2, <1>7, <2>1 DEF Walks
<1>8. QED
  BY <1>1, <1>3, <1>4, <1>5, <1>6, <1>7

(* Two peers of one build that hold the same value record the same fields, *)
(* the same bytes, in the same order, however their hash containers        *)
(* iterate, if keys can be told apart: the sorted-container rule of every  *)
(* walker and of hashable.rs.                                              *)
THEOREM SameStateSameRecordsCorrect == Spec => []SameStateSameRecords
<1>1. ASSUME IInv PROVE SameStateSameRecords
  <2>1. input \in Inputs /\ LastIsAWalk
    BY <1>1 DEF IInv, Types
  <2> SUFFICES ASSUME Struct(1).fields = Struct(2).fields, KeysAreOrdered,
                      \A b \in Builds : calls[b] > 0 /\ ~refused[b]
               PROVE  last[1] = last[2]
    BY DEF SameStateSameRecords, IterationNeverShows
  <2>2. last[1] \in Walks(1) /\ last[2] \in Walks(2)
    BY <2>1, BuildsAssumption DEF LastIsAWalk
  <2>3. QED
    BY <2>1, <2>2, WalksAgree
<1>2. QED
  BY <1>1, AlwaysGood, PTL

-----------------------------------------------------------------------------
(* A walk against what there is to record: B are the occurrences at which  *)
(* it has to fail, D what is due, each with the way it lies on.            *)
RecordsOf(D) == {<<r[2], r[3]>> : r \in D}
Exact(w, B, D) ==
  /\ w.ok <=> B = {}
  /\ ToSet(w.out) \subseteq RecordsOf(D)
  /\ w.ok => /\ ToSet(w.out) = RecordsOf(D)
             /\ IsFiniteSet(D) /\ Len(w.out) = Cardinality(D)

LEMMA JoinToSet ==
  ASSUME NEW T, NEW q \in Seq(T), NEW s \in Seq(T)
  PROVE  ToSet(q \o s) = ToSet(q) \cup ToSet(s)
<1> DEFINE n == Len(q)
<1>1. ASSUME NEW i \in DOMAIN q PROVE i \in DOMAIN (q \o s) /\ (q \o s)[i] = q[i]
  OBVIOUS
<1>2. ASSUME NEW i \in DOMAIN s PROVE n + i \in DOMAIN (q \o s) /\ (q \o s)[n + i] = s[i]
  OBVIOUS
<1>3. ASSUME NEW i \in DOMAIN (q \o s)
      PROVE  \/ i \in DOMAIN q /\ (q \o s)[i] = q[i]
             \/ i - n \in DOMAIN s /\ (q \o s)[i] = s[i - n]
  OBVIOUS
<1> DEFINE t == q \o s
<1> HIDE DEF n, t
<1>4. ToSet(q) \subseteq ToSet(t) /\ ToSet(s) \subseteq ToSet(t)
  BY <1>1, <1>2 DEF ToSet, t
<1>5. ASSUME NEW i \in DOMAIN t PROVE t[i] \in ToSet(q) \cup ToSet(s)
  BY <1>3 DEF ToSet, t
<1>6. ToSet(t) \subseteq ToSet(q) \cup ToSet(s)
  BY <1>5 DEF ToSet
<1>7. QED
  BY <1>4, <1>6 DEF t

LEMMA ThenExact ==
  ASSUME NEW R, NEW r \in Outcomes(R), NEW w \in Outcomes(R),
         NEW A, NEW B, NEW C, NEW D,
         Exact(r, A, C), Exact(w, B, D), C \cap D = {}
  PROVE  Exact(Then(r, w), A \cup B, C \cup D)
<1> DEFINE t == Then(r, w)
<1>1. r.out \in Seq(R) /\ w.out \in Seq(R) /\ r.ok \in BOOLEAN /\ w.ok \in BOOLEAN
  BY DEF Outcomes
<1>2. RecordsOf(C \cup D) = RecordsOf(C) \cup RecordsOf(D)
  BY DEF RecordsOf
<1>3. CASE ~ r.ok
  <2>1. t = r
    BY <1>3 DEF Then
  <2>2. A \cup B # {}
    BY <1>3 DEF Exact
  <2> HIDE DEF t
  <2>3. QED
    BY <1>2, <1>3, <2>1, <2>2 DEF Exact, t
<1>4. CASE r.ok
  <2>1. t.ok = w.ok /\ t.out = r.out \o w.out
    BY <1>4 DEF Then
  <2>2. ToSet(t.out) = ToSet(r.out) \cup ToSet(w.out)
    BY <1>1, <2>1, JoinToSet
  <2>3. Len(t.out) = Len(r.out) + Len(w.out)
    BY <1>1, <2>1
  <2> HIDE DEF t
  <2>4. ASSUME t.ok PROVE IsFiniteSet(C \cup D) /\ Len(t.out) = Cardinality(C \cup D)
    <3>1. IsFiniteSet(C) /\ IsFiniteSet(D)
      BY <1>4, <2>1, <2>4 DEF Exact
    <3>2. Len(r.out) = Cardinality(C) /\ Len(w.out) = Cardinality(D)
      BY <1>4, <2>1, <2>4 DEF Exact
    <3>3. IsFiniteSet(C \cup D) /\ Cardinality(C \cup D) = Cardinality(C) + Cardinality(D)
      <4>1. Cardinality(C \cup D) = Cardinality(C) + Cardinality(D) - Cardinality(C \cap D)
        BY <3>1, FS_Union
      <4>2. IsFiniteSet(C \cup D) /\ Cardinality(C \cap D) = 0
        BY <3>1, FS_Union, FS_EmptySet
      <4>3. Cardinality(C) \in Nat /\ Cardinality(D) \in Nat
        BY <3>1, FS_CardinalityType
      <4>4. QED
        BY <4>1, <4>2, <4>3
    <3>4. QED
      BY <2>3, <3>2, <3>3
  <2>5. t.ok <=> A \cup B = {}
    BY <1>4, <2>1 DEF Exact
  <2>6. ToSet(t.out) \subseteq RecordsOf(C \cup D)
    BY <1>2, <2>2 DEF Exact
  <2>7. t.ok => ToSet(t.out) = RecordsOf(C \cup D)
    BY <1>2, <1>4, <2>1, <2>2 DEF Exact
  <2>8. QED
    BY <2>4, <2>5, <2>6, <2>7 DEF Exact, t
<1>5. QED
  BY <1>3, <1>4

LEMMA InOrderExact ==
  ASSUME NEW R, NEW before \in Outcomes(R), NEW walks \in Seq(Outcomes(R)),
         NEW own, NEW B, NEW D, Exact(before, {}, own),
         \A k \in DOMAIN walks : Exact(walks[k], B[k], D[k]) /\ own \cap D[k] = {},
         \A j, k \in DOMAIN walks : j # k => D[j] \cap D[k] = {}
  PROVE  Exact(InOrder(before, walks), UNION {B[k] : k \in DOMAIN walks},
               own \cup UNION {D[k] : k \in DOMAIN walks})
<1> DEFINE N == Len(walks)
           Bad(k) == UNION {B[j] : j \in 1 .. k}
           Due(k) == own \cup UNION {D[j] : j \in 1 .. k}
<1>0. N \in Nat /\ DOMAIN walks = 1 .. N
  OBVIOUS
<1>1. PICK g : Runs(g, R, before, walks)
  BY InOrderEquation
<1> DEFINE T == {k \in 0 .. N : Exact(g[k], Bad(k), Due(k))}
<1>2. 0 \in T
  <2>1. Bad(0) = {} /\ Due(0) = own
    OBVIOUS
  <2> HIDE DEF Bad, Due
  <2>2. g[0] = before
    BY <1>1 DEF Runs
  <2>3. Exact(g[0], Bad(0), Due(0))
    BY <2>1, <2>2
  <2>4. 0 \in 0 .. N
    BY <1>0
  <2> HIDE DEF N
  <2>5. QED
    BY <2>3, <2>4
<1>3. ASSUME NEW k \in 0 .. N - 1, k \in T PROVE k + 1 \in T
  <2>0. k + 1 \in 1 .. N /\ k \in 0 .. N /\ (k + 1) - 1 = k
    BY <1>0
  <2>1. 1 .. k + 1 = (1 .. k) \cup {k + 1}
    BY <2>0
  <2>2. Bad(k + 1) = Bad(k) \cup B[k + 1] /\ Due(k + 1) = Due(k) \cup D[k + 1]
    BY <2>1
  <2>3. Due(k) \cap D[k + 1] = {}
    <3>1. \A j \in 1 .. k : j \in DOMAIN walks /\ j # k + 1
      BY <1>0, <2>0
    <3>2. QED
      BY <1>0, <2>0, <3>1
  <2>4. Exact(g[k], Bad(k), Due(k)) /\ Exact(walks[k + 1], B[k + 1], D[k + 1])
    BY <1>0, <1>3, <2>0
  <2>5. g[k + 1] = Then(g[k], walks[k + 1]) /\ g[k] \in Outcomes(R) /\ walks[k + 1] \in Outcomes(R)
    BY <1>0, <1>1, <2>0 DEF Runs
  <2> HIDE DEF Bad, Due
  <2>6. Exact(Then(g[k], walks[k + 1]), Bad(k) \cup B[k + 1], Due(k) \cup D[k + 1])
    BY <2>3, <2>4, <2>5, ThenExact
  <2>7. Exact(g[k + 1], Bad(k + 1), Due(k + 1))
    BY <2>2, <2>5, <2>6
  <2>8. k + 1 \in 0 .. N
    BY <1>0, <2>0
  <2> HIDE DEF N
  <2>9. QED
    BY <2>7, <2>8
<1>4. N \in T
  <2> HIDE DEF T
  <2>1. 0 .. N \subseteq T
    BY <1>0, <1>2, <1>3, UpTo
  <2>2. QED
    BY <1>0, <2>1
<1>5. InOrder(before, walks) = g[N]
  BY <1>1 DEF Runs
<1> HIDE DEF N
<1>6. QED
  BY <1>0, <1>4, <1>5

\* p says where in s the elements of q come from: the indices A, once each.
TakenFrom(p, q, s, A) ==
  /\ p \in [DOMAIN q -> A]
  /\ \A i \in DOMAIN q : q[i] = s[p[i]]
  /\ \A i, j \in DOMAIN q : p[i] = p[j] => i = j
  /\ \A a \in A : \E i \in DOMAIN q : p[i] = a

LEMMA TakeOneMore ==
  ASSUME NEW T, NEW q \in Seq(T), NEW s, NEW A, NEW p, TakenFrom(p, q, s, A),
         NEW a, a \notin A, s[a] \in T
  PROVE  \E r : TakenFrom(r, Append(q, s[a]), s, A \cup {a})
<1> DEFINE n == Len(q) + 1
           q1 == Append(q, s[a])
           r == [i \in DOMAIN q1 |-> IF i = n THEN a ELSE p[i]]
<1>1. n \in Nat /\ DOMAIN q1 = DOMAIN q \cup {n} /\ n \notin DOMAIN q
  OBVIOUS
<1>2. q1[n] = s[a] /\ \A i \in DOMAIN q : q1[i] = q[i]
  OBVIOUS
<1> HIDE DEF n, q1
<1>3. r[n] = a /\ \A i \in DOMAIN q : r[i] = p[i]
  BY <1>1
<1>4. DOMAIN r = DOMAIN q1 /\ r = [i \in DOMAIN q1 |-> r[i]]
  OBVIOUS
<1> HIDE DEF r
<1>5. \A i \in DOMAIN q : p[i] \in A /\ q[i] = s[p[i]]
  BY DEF TakenFrom
<1>6. r \in [DOMAIN q1 -> A \cup {a}]
  <2>1. ASSUME NEW i \in DOMAIN q1 PROVE r[i] \in A \cup {a}
    BY <1>1, <1>3, <1>5
  <2>2. QED
    BY <1>4, <2>1
<1>7. \A i \in DOMAIN q1 : q1[i] = s[r[i]]
  BY <1>1, <1>2, <1>3, <1>5
<1>8. \A i, j \in DOMAIN q1 : r[i] = r[j] => i = j
  BY <1>1, <1>3, <1>5 DEF TakenFrom
<1>9. \A x \in A \cup {a} : \E i \in DOMAIN q1 : r[i] = x
  <2> SUFFICES ASSUME NEW x \in A \cup {a} PROVE \E i \in DOMAIN q1 : r[i] = x
    OBVIOUS
  <2>1. CASE x = a
    BY <1>1, <1>3, <2>1
  <2>2. CASE x \in A
    <3>1. PICK i \in DOMAIN q : p[i] = x
      BY <2>2 DEF TakenFrom
    <3>2. QED
      BY <1>1, <1>3, <3>1
  <2>3. QED
    BY <2>1, <2>2
<1>10. TakenFrom(r, q1, s, A \cup {a})
  BY <1>6, <1>7, <1>8, <1>9 DEF TakenFrom
<1>11. QED
  BY <1>10 DEF q1

LEMMA KeptPlaces ==
  ASSUME NEW T, NEW s \in Seq(T), NEW S
  PROVE  \E p : TakenFrom(p, Kept(s, S), s, {i \in DOMAIN s : s[i] \in S})
<1> DEFINE N == Len(s)
           A(k) == {i \in 1 .. k : s[i] \in S}
           Taken(q, k) == \E p : TakenFrom(p, q, s, A(k))
<1>0. N \in Nat /\ DOMAIN s = 1 .. N /\ \A i \in 1 .. N : s[i] \in T
  OBVIOUS
<1>1. PICK g : KeptSteps(g, T, s, S)
  BY KeptEquation
<1>2. Taken(g[0], 0)
  <2>1. g[0] = << >> /\ A(0) = {}
    BY <1>1 DEF KeptSteps
  <2>2. DOMAIN g[0] = {}
    BY <2>1
  <2> HIDE DEF A
  <2>3. TakenFrom([i \in {} |-> i], g[0], s, A(0))
    BY <2>1, <2>2 DEF TakenFrom
  <2>4. QED
    BY <2>3
<1>3. ASSUME NEW k \in 0 .. N - 1, Taken(g[k], k) PROVE Taken(g[k + 1], k + 1)
  <2>0. k + 1 \in 1 .. N /\ k \in 0 .. N /\ k + 1 \notin 1 .. k /\ 1 .. k + 1 = (1 .. k) \cup {k + 1}
    BY <1>0
  <2>1. PICK p : TakenFrom(p, g[k], s, A(k))
    BY <1>3
  <2>2. g[k] \in Seq(T) /\ s[k + 1] \in T
    BY <1>0, <1>1, <2>0 DEF KeptSteps
  <2>3. CASE s[k + 1] \notin S
    <3>1. g[k + 1] = g[k] /\ A(k + 1) = A(k)
      BY <1>1, <2>0, <2>3 DEF KeptSteps
    <3> HIDE DEF A
    <3>2. QED
      BY <2>1, <3>1
  <2>4. CASE s[k + 1] \in S
    <3>1. g[k + 1] = Append(g[k], s[k + 1]) /\ A(k + 1) = A(k) \cup {k + 1} /\ k + 1 \notin A(k)
      BY <1>1, <2>0, <2>4 DEF KeptSteps
    <3> HIDE DEF A
    <3>2. \E r : TakenFrom(r, Append(g[k], s[k + 1]), s, A(k) \cup {k + 1})
      BY <2>1, <2>2, <3>1, TakeOneMore
    <3>3. QED
      BY <3>1, <3>2
  <2>5. QED
    BY <2>3, <2>4
<1> HIDE DEF Taken
<1>4. Taken(g[N], N)
  <2> DEFINE U == {k \in 0 .. N : Taken(g[k], k)}
  <2>1. 0 \in U /\ \A k \in 0 .. N - 1 : k \in U => k + 1 \in U
    BY <1>0, <1>2, <1>3
  <2> HIDE DEF U
  <2>2. N \in U
    <3>1. 0 .. N \subseteq U
      BY <1>0, <2>1, UpTo
    <3>2. QED
      BY <1>0, <3>1
  <2>3. QED
    BY <2>2 DEF U
<1>5. Kept(s, S) = g[N] /\ A(N) = {i \in DOMAIN s : s[i] \in S}
  BY <1>0, <1>1 DEF KeptSteps
<1> HIDE DEF A, N
<1>6. QED
  BY <1>4, <1>5 DEF Taken

-----------------------------------------------------------------------------
(* Occurrences.  What lies beneath one, one of its kids at a time.         *)
Occurrences(h) == [way : Seq(Nat), path : Seq(Nat), node : DOMAIN h,
                   above : SUBSET DOMAIN h]

Counts(v) == {i \in DOMAIN v.kids :
                (input.engine = "godot" /\ v.kind = "object") => Prefixed(v.kids[i])}
KidLabel(v, i) == IF v.kind = "list" THEN i ELSE v.kids[i].label
Child(h, o, i) ==
  LET v == h[o.node]
  IN  Occurrence(Append(o.way, i), Append(Named(v, o.path), KidLabel(v, i)), v.kids[i].to,
                 o.above \cup {o.node})

LEMMA ChildFacts ==
  ASSUME NEW h, IsHeap(h), NEW o \in Occurrences(h), NEW i \in Counts(h[o.node])
  PROVE  /\ Child(h, o, i) \in Occurrences(h)
         /\ Child(h, o, i).way = Append(o.way, i)
<1> DEFINE v == h[o.node]
<1>1. v \in Value(DOMAIN h) /\ o.node \in DOMAIN h /\ o.way \in Seq(Nat) /\ o.path \in Seq(Nat)
      /\ o.above \in SUBSET DOMAIN h
  BY DEF IsHeap, Occurrences
<1> HIDE DEF v
<1>2. v.kids \in Seq(Kid(DOMAIN h)) /\ v.value \in Nat /\ i \in DOMAIN v.kids
  BY <1>1 DEF Value, Counts, v
<1>3. i \in Nat /\ v.kids[i] \in Kid(DOMAIN h)
  BY <1>2
<1>4. KidLabel(v, i) \in Nat /\ v.kids[i].to \in DOMAIN h
  BY <1>3 DEF KidLabel, Kid
<1>5. Named(v, o.path) \in Seq(Nat)
  BY <1>1, <1>2 DEF Named
<1>6. Append(o.way, i) \in Seq(Nat) /\ Append(Named(v, o.path), KidLabel(v, i)) \in Seq(Nat)
  BY <1>1, <1>3, <1>4, <1>5
<1>7. Child(h, o, i) = Occurrence(Append(o.way, i), Append(Named(v, o.path), KidLabel(v, i)),
                                  v.kids[i].to, o.above \cup {o.node})
  BY DEF Child, v
<1>8. QED
  BY <1>1, <1>4, <1>6, <1>7 DEF Occurrence, Occurrences

LEMMA BeneathIs ==
  ASSUME NEW h, IsHeap(h), NEW o \in Occurrences(h)
  PROVE  Beneath(h, o) = {Child(h, o, i) : i \in Counts(h[o.node])}
<1> DEFINE v == h[o.node]
           label(i) == IF v.kind = "list" THEN <<i>> ELSE <<v.kids[i].label>>
           name == IF v.kind = "enum" THEN <<v.value>> ELSE <<>>
           child(i) == Occurrence(Append(o.way, i), o.path \o name \o label(i), v.kids[i].to,
                                  o.above \cup {o.node})
<1>1. v \in Value(DOMAIN h) /\ o.path \in Seq(Nat)
  BY DEF IsHeap, Occurrences
<1>2. ASSUME NEW i \in Counts(v) PROVE child(i) = Child(h, o, i)
  <2>1. v.kids \in Seq(Kid(DOMAIN h)) /\ v.value \in Nat /\ i \in DOMAIN v.kids
    BY <1>1, <1>2 DEF Value, Counts
  <2>2. i \in Nat /\ v.kids[i] \in Kid(DOMAIN h)
    BY <2>1
  <2>3. KidLabel(v, i) \in Nat
    BY <2>2 DEF KidLabel, Kid
  <2>4. label(i) = <<KidLabel(v, i)>>
    BY DEF KidLabel
  <2>5. o.path \o name = Named(v, o.path) /\ Named(v, o.path) \in Seq(Nat)
    <3>1. ASSUME NEW q \in Seq(Nat), NEW x \in Nat
          PROVE  q \o <<x>> = Append(q, x) /\ q \o <<>> = q /\ Append(q, x) \in Seq(Nat)
      OBVIOUS
    <3> DEFINE y == v.value
    <3>2. y \in Nat /\ name = (IF v.kind = "enum" THEN <<y>> ELSE <<>>)
          /\ Named(v, o.path) = IF v.kind = "enum" THEN Append(o.path, y) ELSE o.path
      BY <2>1 DEF Named
    <3> HIDE DEF y, v, name
    <3>3. CASE v.kind = "enum"
      BY <1>1, <3>1, <3>2, <3>3
    <3>4. CASE v.kind # "enum"
      BY <1>1, <3>1, <3>2, <3>4
    <3>5. QED
      BY <3>3, <3>4
  <2>6. ASSUME NEW q \in Seq(Nat), NEW x \in Nat PROVE q \o <<x>> = Append(q, x)
    OBVIOUS
  <2>7. o.path \o name \o label(i) = Append(Named(v, o.path), KidLabel(v, i))
    BY <2>3, <2>4, <2>5, <2>6
  <2>8. QED
    BY <2>7 DEF Child
<1>3. Beneath(h, o) = {child(i) : i \in Counts(v)}
  BY DEF Beneath, Counts
<1> HIDE DEF child
<1>4. QED
  BY <1>2, <1>3 DEF v

(* g[d][o] is everything at or beneath o, an occurrence at level d, down   *)
(* to the first level beyond the limit.                                    *)
Below(g, h, d, o) == UNION {g[d + 1][c] : c \in Beneath(h, o)}
Fan(g, h, d, o) == {o} \cup Below(g, h, d, o)
Fans(g, h) ==
  /\ g \in [0 .. Limit + 1 -> [Occurrences(h) -> SUBSET Occurrences(h)]]
  /\ \A o \in Occurrences(h) : g[Limit + 1][o] = {o}
  /\ \A d \in 0 .. Limit : \A o \in Occurrences(h) : g[d][o] = Fan(g, h, d, o)

LEMMA LimitType == Limit \in Nat
BY MaxDepthAssumption DEF Limit

LEMMA FansExist ==
  ASSUME NEW h, IsHeap(h)
  PROVE  \E g : Fans(g, h)
<1> DEFINE N == Limit + 1
           Occ == Occurrences(h)
           X == [Occ -> SUBSET Occ]
           base == [o \in Occ |-> {o}]
           step == [k \in 0 .. N - 1 |->
                      [f \in X |-> [o \in Occ |-> {o} \cup UNION {f[c] : c \in Beneath(h, o)}]]]
<1>0. N \in Nat /\ N - 1 = Limit
  BY LimitType
<1>1. base \in X
  OBVIOUS
<1>2. ASSUME NEW f \in X, NEW o \in Occ PROVE {o} \cup UNION {f[c] : c \in Beneath(h, o)} \in SUBSET Occ
  <2>1. \A i \in Counts(h[o.node]) : Child(h, o, i) \in Occ
    BY ChildFacts
  <2> HIDE DEF Occ
  <2>2. Beneath(h, o) \subseteq Occ
    BY <2>1, BeneathIs DEF Occ
  <2>3. QED
    BY <2>2
<1> HIDE DEF Occ
<1>3. \A k \in 0 .. N - 1 : step[k] \in [X -> X]
  BY <1>2
<1>4. PICK g : DownChain(g, N, X, base, step)
  <2> HIDE DEF step, base, X, N
  <2>1. QED
    BY <1>0, <1>1, <1>3, IteratesDown
<1>5. ASSUME NEW d \in 0 .. Limit, NEW o \in Occ PROVE g[d][o] = Fan(g, h, d, o)
  <2>1. d \in 0 .. N - 1 /\ d + 1 \in 0 .. N
    BY <1>0
  <2>2. g[d + 1] \in X /\ g[d] = step[d][g[d + 1]]
    BY <1>4, <2>1 DEF DownChain
  <2>3. step[d][g[d + 1]] = [q \in Occ |-> {q} \cup UNION {g[d + 1][c] : c \in Beneath(h, q)}]
    BY <2>1, <2>2
  <2> HIDE DEF step
  <2>4. QED
    BY <2>2, <2>3 DEF Fan, Below
<1>6. Fans(g, h)
  BY <1>4, <1>5 DEF Fans, DownChain, Occ
<1>7. QED
  BY <1>6

\* p lies at o or on the way that goes through o.
Through(o, p) == Len(o.way) <= Len(p.way) /\ \A j \in 1 .. Len(o.way) : p.way[j] = o.way[j]

LEMMA ThroughChild ==
  ASSUME NEW h, IsHeap(h), NEW o \in Occurrences(h), NEW i \in Counts(h[o.node]),
         NEW p \in Occurrences(h), Through(Child(h, o, i), p)
  PROVE  Through(o, p) /\ Len(o.way) + 1 <= Len(p.way) /\ p.way[Len(o.way) + 1] = i
<1> DEFINE a == o.way
           n == Len(a)
           b == Append(a, i)
<1>1. Child(h, o, i).way = b
  BY ChildFacts
<1>2. a \in Seq(Nat) /\ p.way \in Seq(Nat) /\ i \in Nat
  <2>1. h[o.node] \in Value(DOMAIN h)
    BY DEF IsHeap, Occurrences
  <2>2. h[o.node].kids \in Seq(Kid(DOMAIN h)) /\ i \in DOMAIN h[o.node].kids
    BY <2>1 DEF Value, Counts
  <2>3. i \in Nat
    BY <2>2
  <2>4. QED
    BY <2>3 DEF Occurrences
<1>3. n \in Nat /\ Len(b) = n + 1 /\ b[n + 1] = i /\ \A j \in 1 .. n : b[j] = a[j]
  BY <1>2
<1> HIDE DEF b
<1>4. Len(b) <= Len(p.way) /\ \A j \in 1 .. Len(b) : p.way[j] = b[j]
  BY <1>1 DEF Through
<1>5. Len(p.way) \in Nat
  BY <1>2
<1> HIDE DEF n, a
<1>6. QED
  BY <1>3, <1>4, <1>5 DEF Through, n, a

LEMMA FanGoesThrough ==
  ASSUME NEW h, IsHeap(h), NEW g, Fans(g, h), NEW d \in 1 .. Limit + 1,
         NEW o \in Occurrences(h), NEW p \in g[d][o]
  PROVE  p \in Occurrences(h) /\ Through(o, p)
<1> DEFINE N == Limit + 1
           Occ == Occurrences(h)
           Good(e) == \A q \in Occ : \A r \in g[e][q] : r \in Occ /\ Through(q, r)
           T == {e \in 1 .. N : Good(e)}
<1>0. N \in Nat /\ N \in 1 .. N /\ Limit \in Nat
  BY LimitType
<1>1. ASSUME NEW q \in Occ PROVE Through(q, q)
  <2>1. q.way \in Seq(Nat)
    BY DEF Occurrences
  <2>2. QED
    BY <2>1 DEF Through
<1>2. Good(N)
  BY <1>1 DEF Fans
<1>3. ASSUME NEW e \in 1 .. N - 1, Good(e + 1) PROVE Good(e)
  <2> SUFFICES ASSUME NEW q \in Occ, NEW r \in g[e][q] PROVE r \in Occ /\ Through(q, r)
    OBVIOUS
  <2>1. e \in 0 .. Limit
    BY <1>0
  <2>2. r \in {q} \cup UNION {g[e + 1][c] : c \in Beneath(h, q)}
    BY <2>1 DEF Fans, Fan, Below
  <2>3. CASE r = q
    BY <1>1, <2>3
  <2>4. CASE r # q
    <3>1. PICK c \in Beneath(h, q) : r \in g[e + 1][c]
      BY <2>2, <2>4
    <3>2. PICK i \in Counts(h[q.node]) : c = Child(h, q, i)
      BY <3>1, BeneathIs
    <3>3. c \in Occ
      BY <3>2, ChildFacts
    <3>4. r \in Occ /\ Through(c, r)
      BY <1>3, <3>1, <3>3
    <3>5. QED
      BY <3>2, <3>4, ThroughChild
  <2>5. QED
    BY <2>3, <2>4
<1> HIDE DEF Good
<1>4. 1 .. N \subseteq T
  <2>1. N \in T /\ \A e \in 1 .. N - 1 : e + 1 \in T => e \in T
    BY <1>0, <1>2, <1>3
  <2> HIDE DEF T, N
  <2>2. QED
    BY <1>0, <2>1, DownFrom
<1>5. Good(d)
  BY <1>4
<1>6. QED
  BY <1>5 DEF Good

-----------------------------------------------------------------------------
(* The levels.                                                             *)
FirstOf(b, i) ==
  LET f == Tracked(b)[i]
  IN  Occurrence(<<i>>, <<f.label>>, f.to, IF input.engine = "godot" THEN {Root} ELSE {})
FirstLevel(b) == {FirstOf(b, i) : i \in DOMAIN Tracked(b)}

LEMMA FirstType ==
  ASSUME input \in Inputs, NEW b \in Builds, NEW i \in DOMAIN Tracked(b)
  PROVE  FirstOf(b, i) \in Occurrences(Heap(b)) /\ FirstOf(b, i).way = <<i>>
<1> DEFINE f == Tracked(b)[i]
           above == IF input.engine = "godot" THEN {Root} ELSE {}
<1>1. Root \in DOMAIN Heap(b) /\ Tracked(b) \in Seq(Kid(DOMAIN Heap(b)))
  BY InputFacts, HeapType, TrackedType
<1>2. f \in Kid(DOMAIN Heap(b)) /\ i \in Nat
  BY <1>1
<1> HIDE DEF f
<1>3. f.label \in Nat /\ f.to \in DOMAIN Heap(b) /\ above \in SUBSET DOMAIN Heap(b)
  BY <1>1, <1>2 DEF Kid
<1>4. <<i>> \in Seq(Nat) /\ <<f.label>> \in Seq(Nat)
  BY <1>2, <1>3
<1>5. FirstOf(b, i) = Occurrence(<<i>>, <<f.label>>, f.to, above)
  BY DEF FirstOf, f
<1> HIDE DEF above
<1>6. QED
  BY <1>1, <1>3, <1>4, <1>5 DEF Occurrence, Occurrences

LEMMA LevelsEquation ==
  ASSUME input \in Inputs, NEW b \in Builds
  PROVE  /\ \A d \in 1 .. Limit + 1 : Levels(b)[d] \in SUBSET Occurrences(Heap(b))
         /\ Levels(b)[1] = FirstLevel(b)
         /\ \A d \in 1 .. Limit : Levels(b)[d + 1] = UNION {Beneath(Heap(b), o) : o \in Levels(b)[d]}
<1> DEFINE N == Limit
           h == Heap(b)
           X == SUBSET Occurrences(h)
           base == FirstLevel(b)
           Next1(S) == UNION {Beneath(h, o) : o \in S}
           step == [k \in 1 .. N |-> [S \in X |-> Next1(S)]]
           Eq(f) == f = [d \in 1 .. N + 1 |-> IF d = 1 THEN base ELSE Next1(f[d - 1])]
           f == CHOOSE f : Eq(f)
<1>0. N \in Nat /\ IsHeap(h)
  BY LimitType, HeapType
<1>1. base \in X
  BY FirstType DEF FirstLevel
<1>2. ASSUME NEW S \in X PROVE Next1(S) \in X
  <2>1. ASSUME NEW o \in S PROVE Beneath(h, o) \subseteq Occurrences(h)
    <3>1. o \in Occurrences(h)
      OBVIOUS
    <3> HIDE DEF h
    <3>2. \A i \in Counts(h[o.node]) : Child(h, o, i) \in Occurrences(h)
      BY <1>0, <3>1, ChildFacts
    <3>3. QED
      BY <1>0, <3>1, <3>2, BeneathIs
  <2>2. QED
    BY <2>1
<1>3. Levels(b) = f
  BY DEF Levels, FirstLevel, FirstOf
<1> HIDE DEF X, h, base, Next1, N
<1>4. \A k \in 1 .. N : step[k] \in [X -> X]
  BY <1>2
<1>5. PICK g : Chain(g, N, X, base, step)
  <2> HIDE DEF step
  <2>1. QED
    BY <1>0, <1>1, <1>4, Iterates
<1>6. Eq(f)
  <2> DEFINE r == [d \in 1 .. N + 1 |-> g[d - 1]]
  <2>1. ASSUME NEW d \in 1 .. N + 1 PROVE r[d] = IF d = 1 THEN base ELSE Next1(r[d - 1])
    <3>1. CASE d = 1
      BY <1>0, <1>5, <3>1 DEF Chain
    <3>2. CASE d # 1
      <4>1. d - 1 \in 1 .. N /\ d - 1 \in 1 .. N + 1 /\ (d - 1) - 1 \in 0 .. N
        BY <1>0, <3>2
      <4>2. g[(d - 1) - 1] \in X /\ g[d - 1] = step[d - 1][g[(d - 1) - 1]]
        BY <1>5, <4>1 DEF Chain
      <4>3. g[d - 1] = Next1(g[(d - 1) - 1])
        BY <4>1, <4>2
      <4>4. r[d] = g[d - 1] /\ r[d - 1] = g[(d - 1) - 1]
        BY <4>1
      <4>5. QED
        BY <3>2, <4>3, <4>4
    <3>3. QED
      BY <3>1, <3>2
  <2>2. Eq(r)
    <3>1. r = [d \in 1 .. N + 1 |-> r[d]]
      OBVIOUS
    <3> HIDE DEF r
    <3>2. QED
      BY <2>1, <3>1
  <2> HIDE DEF Eq, r
  <2>3. QED
    BY <2>2
<1> HIDE DEF f
<1>7. ASSUME NEW d \in 1 .. N + 1 PROVE f[d] = IF d = 1 THEN base ELSE Next1(f[d - 1])
  BY <1>6
<1>8. f[1] = base
  BY <1>0, <1>7
<1>9. ASSUME NEW d \in 1 .. N PROVE f[d + 1] = Next1(f[d])
  <2>1. d + 1 \in 1 .. N + 1 /\ (d + 1) - 1 = d /\ d + 1 # 1
    BY <1>0
  <2>2. QED
    BY <1>7, <2>1
<1> HIDE DEF Eq
<1>10. \A d \in 1 .. N + 1 : f[d] \in X
  <2> DEFINE T == {k \in 0 .. N : f[k + 1] \in X}
  <2>1. 0 \in T
    BY <1>0, <1>1, <1>8
  <2>2. ASSUME NEW k \in 0 .. N - 1, k \in T PROVE k + 1 \in T
    <3>1. k + 1 \in 1 .. N /\ k + 1 \in 0 .. N
      BY <1>0
    <3>2. f[(k + 1) + 1] = Next1(f[k + 1]) /\ f[k + 1] \in X
      BY <1>9, <2>2, <3>1
    <3>3. QED
      BY <1>2, <3>1, <3>2
  <2> HIDE DEF T
  <2>3. 0 .. N \subseteq T
    BY <1>0, <2>1, <2>2, UpTo
  <2>4. ASSUME NEW d \in 1 .. N + 1 PROVE f[d] \in X
    <3>1. d - 1 \in 0 .. N /\ (d - 1) + 1 = d
      BY <1>0
    <3>2. d - 1 \in T
      BY <2>3, <3>1
    <3>3. QED
      BY <3>1, <3>2 DEF T
  <2>5. QED
    BY <2>4
<1>11. QED
  BY <1>3, <1>8, <1>9, <1>10 DEF X, h, base, Next1, N

LEMMA LengthOfLevel ==
  ASSUME input \in Inputs, NEW b \in Builds, NEW d \in 1 .. Limit + 1, NEW o \in Levels(b)[d]
  PROVE  Len(o.way) = d
<1> DEFINE L == Levels(b)
           h == Heap(b)
           Good(e) == \A q \in L[e] : Len(q.way) = e
           T == {k \in 0 .. Limit : Good(k + 1)}
<1>0. Limit \in Nat /\ IsHeap(h)
  BY LimitType, HeapType
<1>1. /\ \A e \in 1 .. Limit + 1 : L[e] \in SUBSET Occurrences(h)
      /\ L[1] = FirstLevel(b)
      /\ \A e \in 1 .. Limit : L[e + 1] = UNION {Beneath(h, q) : q \in L[e]}
  BY LevelsEquation
<1> HIDE DEF L, h
<1>2. Good(1)
  <2> SUFFICES ASSUME NEW q \in L[1] PROVE Len(q.way) = 1
    OBVIOUS
  <2>1. PICK i \in DOMAIN Tracked(b) : q = FirstOf(b, i)
    BY <1>1 DEF FirstLevel
  <2>2. q.way = <<i>>
    BY <2>1, FirstType
  <2>3. QED
    BY <2>2
<1>3. ASSUME NEW e \in 1 .. Limit, Good(e) PROVE Good(e + 1)
  <2> SUFFICES ASSUME NEW q \in L[e + 1] PROVE Len(q.way) = e + 1
    OBVIOUS
  <2>1. PICK c \in L[e] : q \in Beneath(h, c)
    BY <1>1
  <2>2. e \in 1 .. Limit + 1
    BY <1>0
  <2>3. c \in Occurrences(h) /\ Len(c.way) = e
    BY <1>1, <1>3, <2>1, <2>2
  <2>4. PICK i \in Counts(h[c.node]) : q = Child(h, c, i)
    BY <1>0, <2>1, <2>3, BeneathIs
  <2>5. q.way = Append(c.way, i) /\ c.way \in Seq(Nat)
    BY <1>0, <2>3, <2>4, ChildFacts DEF Occurrences
  <2>6. Len(q.way) = Len(c.way) + 1
    BY <2>5
  <2>7. QED
    BY <2>3, <2>6
<1> HIDE DEF Good
<1>4. 0 .. Limit \subseteq T
  <2>1. 0 \in T
    BY <1>0, <1>2
  <2>2. ASSUME NEW k \in 0 .. Limit - 1, k \in T PROVE k + 1 \in T
    <3>1. k + 1 \in 1 .. Limit /\ k + 1 \in 0 .. Limit
      BY <1>0
    <3>2. Good(k + 1)
      BY <2>2
    <3>3. Good((k + 1) + 1)
      BY <1>3, <3>1, <3>2
    <3>4. QED
      BY <3>1, <3>3
  <2> HIDE DEF T
  <2>3. QED
    BY <1>0, <2>1, <2>2, UpTo
<1>5. d - 1 \in 0 .. Limit /\ (d - 1) + 1 = d
  BY <1>0
<1>6. d - 1 \in T
  BY <1>4, <1>5
<1>7. Good(d)
  BY <1>5, <1>6
<1>8. QED
  BY <1>7 DEF Good, L

\* Everything at or beneath a tracked field, down to beyond the limit.
Reached(b, g) == UNION {g[1][FirstOf(b, i)] : i \in DOMAIN Tracked(b)}

LEMMA LevelsAreReached ==
  ASSUME input \in Inputs, NEW b \in Builds, NEW g, Fans(g, Heap(b))
  PROVE  UNION {Levels(b)[d] : d \in 1 .. Limit + 1} = Reached(b, g)
<1> DEFINE L == Levels(b)
           h == Heap(b)
           N == Limit + 1
           Down(d) == UNION {g[d][o] : o \in L[d]}
           Rest(d) == UNION {L[e] : e \in d .. N}
           T == {d \in 1 .. N : Down(d) = Rest(d)}
<1>0. Limit \in Nat /\ N \in Nat /\ N \in 1 .. N /\ 1 \in 1 .. N
  BY LimitType
<1>1. /\ \A e \in 1 .. N : L[e] \in SUBSET Occurrences(h)
      /\ L[1] = FirstLevel(b)
      /\ \A e \in 1 .. Limit : L[e + 1] = UNION {Beneath(h, q) : q \in L[e]}
  BY LevelsEquation
<1>2. /\ \A o \in Occurrences(h) : g[N][o] = {o}
      /\ \A d \in 0 .. Limit : \A o \in Occurrences(h) :
           g[d][o] = {o} \cup UNION {g[d + 1][c] : c \in Beneath(h, o)}
  BY DEF Fans, Fan, Below
<1> HIDE DEF L, h
<1>3. Down(N) = Rest(N)
  <2>1. N .. N = {N}
    BY <1>0
  <2>2. Rest(N) = L[N]
    BY <2>1
  <2>3. \A o \in L[N] : g[N][o] = {o}
    BY <1>0, <1>1, <1>2
  <2> HIDE DEF N, Rest
  <2>4. QED
    BY <2>2, <2>3
<1>4. ASSUME NEW d \in 1 .. N - 1, Down(d + 1) = Rest(d + 1) PROVE Down(d) = Rest(d)
  <2>1. d \in 1 .. Limit /\ d \in 0 .. Limit /\ d \in 1 .. N
    BY <1>0
  <2>2. d .. N = {d} \cup (d + 1 .. N)
    BY <1>0, <2>1
  <2>3. Rest(d) = L[d] \cup Rest(d + 1)
    BY <2>2
  <2>4. \A o \in L[d] : g[d][o] = {o} \cup UNION {g[d + 1][c] : c \in Beneath(h, o)}
    BY <1>1, <1>2, <2>1
  <2>5. L[d + 1] = UNION {Beneath(h, o) : o \in L[d]}
    BY <1>1, <2>1
  <2>6. Down(d) = L[d] \cup Down(d + 1)
    <3> HIDE DEF N, Rest, T
    <3>1. ASSUME NEW x \in Down(d) PROVE x \in L[d] \cup Down(d + 1)
      <4>1. PICK o \in L[d] : x \in g[d][o]
        BY <3>1
      <4>2. CASE x = o
        BY <4>1, <4>2
      <4>3. CASE x # o
        <5>1. PICK c \in Beneath(h, o) : x \in g[d + 1][c]
          BY <2>4, <4>1, <4>3
        <5>2. c \in L[d + 1]
          BY <2>5, <5>1
        <5>3. QED
          BY <5>1, <5>2
      <4>4. QED
        BY <4>2, <4>3
    <3>2. L[d] \subseteq Down(d)
      BY <2>4
    <3>3. ASSUME NEW x \in Down(d + 1) PROVE x \in Down(d)
      <4>1. PICK c \in L[d + 1] : x \in g[d + 1][c]
        BY <3>3
      <4>2. PICK o \in L[d] : c \in Beneath(h, o)
        BY <2>5
      <4>3. x \in g[d][o]
        BY <2>4, <4>1, <4>2
      <4>4. QED
        BY <4>3
    <3> HIDE DEF Down
    <3>4. QED
      BY <3>1, <3>2, <3>3
  <2> HIDE DEF Down, Rest
  <2>7. QED
    BY <1>4, <2>3, <2>6
<1> HIDE DEF Down, Rest
<1>5. 1 \in T
  <2>1. N \in T /\ \A d \in 1 .. N - 1 : d + 1 \in T => d \in T
    BY <1>0, <1>3, <1>4
  <2> HIDE DEF T, N
  <2>2. 1 .. N \subseteq T
    BY <1>0, <2>1, DownFrom
  <2>3. QED
    BY <1>0, <2>2
<1>6. Down(1) = Rest(1)
  BY <1>5
<1>7. Down(1) = Reached(b, g)
  BY <1>1 DEF Down, FirstLevel, Reached
<1>8. QED
  BY <1>6, <1>7 DEF Rest, L

LEMMA LevelsByLength ==
  ASSUME input \in Inputs, NEW b \in Builds, NEW g, Fans(g, Heap(b))
  PROVE  /\ Levels(b)[Limit + 1] = {p \in Reached(b, g) : Len(p.way) > Limit}
         /\ UNION {Levels(b)[d] : d \in 1 .. Limit} = {p \in Reached(b, g) : Len(p.way) <= Limit}
<1> DEFINE L == Levels(b)
<1>0. Limit \in Nat /\ 1 .. Limit + 1 = (1 .. Limit) \cup {Limit + 1}
  BY LimitType
<1>1. \A d \in 1 .. Limit + 1 : \A o \in L[d] : Len(o.way) = d
  BY LengthOfLevel
<1>2. UNION {L[d] : d \in 1 .. Limit + 1} = Reached(b, g)
  BY LevelsAreReached
<1> HIDE DEF L
<1>3. \A p \in Reached(b, g) : \E d \in 1 .. Limit + 1 : p \in L[d] /\ Len(p.way) = d
  BY <1>1, <1>2
<1>4. ASSUME NEW p \in L[Limit + 1] PROVE p \in Reached(b, g) /\ Len(p.way) > Limit
  BY <1>0, <1>1, <1>2
<1>5. ASSUME NEW d \in 1 .. Limit, NEW p \in L[d] PROVE p \in Reached(b, g) /\ Len(p.way) <= Limit
  <2>1. d \in 1 .. Limit + 1 /\ Len(p.way) = d
    BY <1>0, <1>1
  <2>2. QED
    BY <1>0, <1>2, <2>1
<1>6. ASSUME NEW p \in Reached(b, g), Len(p.way) > Limit PROVE p \in L[Limit + 1]
  <2>1. PICK d \in 1 .. Limit + 1 : p \in L[d] /\ Len(p.way) = d
    BY <1>3
  <2>2. d = Limit + 1
    BY <1>0, <1>6, <2>1
  <2>3. QED
    BY <2>1, <2>2
<1>7. ASSUME NEW p \in Reached(b, g), Len(p.way) <= Limit PROVE \E d \in 1 .. Limit : p \in L[d]
  <2>1. PICK d \in 1 .. Limit + 1 : p \in L[d] /\ Len(p.way) = d
    BY <1>3
  <2>2. d \in 1 .. Limit
    BY <1>0, <1>7, <2>1
  <2>3. QED
    BY <2>1, <2>2
<1>8. L[Limit + 1] = {p \in Reached(b, g) : Len(p.way) > Limit}
  BY <1>4, <1>6
<1>9. UNION {L[d] : d \in 1 .. Limit} = {p \in Reached(b, g) : Len(p.way) <= Limit}
  BY <1>5, <1>7
<1>10. QED
  BY <1>8, <1>9 DEF L

-----------------------------------------------------------------------------
(* What must fail and what is due among the occurrences P.                 *)
Bad(h, p) == Len(p.way) > Limit \/ Cycles(h, p)
BadIn(h, P) == {p \in P : Bad(h, p)}
DueIn(h, P) == UNION {OwnRecords(h, p) : p \in {q \in P : Len(q.way) <= Limit}}

LEMMA OwnWay ==
  ASSUME NEW h, NEW p, NEW r \in OwnRecords(h, p)
  PROVE  r[1] = p.way
<1>1. CASE h[p.node].kind \in {"leaf", "null"}
  BY <1>1 DEF OwnRecords
<1>2. CASE h[p.node].kind = "enum"
  BY <1>2 DEF OwnRecords
<1>3. CASE h[p.node].kind \notin {"leaf", "null", "enum"}
  BY <1>3 DEF OwnRecords
<1>4. QED
  BY <1>1, <1>2, <1>3

\* The walks of different kids at level e, after a walk that records own.
KidsApart(h, e, own, walks, kid) ==
  /\ \A k \in DOMAIN walks : kid[k] \in Occurrences(h) /\ Len(kid[k].way) = e
  /\ \A j, k \in DOMAIN walks : kid[j].way[e] = kid[k].way[e] => j = k
  /\ \A r \in own : Len(r[1]) < e
KidsAreExact(h, g, e, walks, kid) ==
  \A k \in DOMAIN walks : Exact(walks[k], BadIn(h, g[e][kid[k]]), DueIn(h, g[e][kid[k]]))
FanOfKids(g, e, walks, kid) == UNION {g[e][kid[k]] : k \in DOMAIN walks}

LEMMA KidsExact ==
  ASSUME NEW h, IsHeap(h), NEW g, Fans(g, h), NEW e \in 1 .. Limit + 1,
         NEW before \in Outcomes(PathRecord), NEW walks \in Seq(Outcomes(PathRecord)),
         NEW own, Exact(before, {}, own),
         NEW kid, KidsApart(h, e, own, walks, kid), KidsAreExact(h, g, e, walks, kid)
  PROVE  Exact(InOrder(before, walks), BadIn(h, FanOfKids(g, e, walks, kid)),
               own \cup DueIn(h, FanOfKids(g, e, walks, kid)))
<1> DEFINE P == FanOfKids(g, e, walks, kid)
<1>1. /\ \A r \in own : Len(r[1]) < e
      /\ \A k \in DOMAIN walks : kid[k] \in Occurrences(h) /\ Len(kid[k].way) = e
      /\ \A j, k \in DOMAIN walks : kid[j].way[e] = kid[k].way[e] => j = k
  BY DEF KidsApart
<1>2. \A k \in DOMAIN walks : Exact(walks[k], BadIn(h, g[e][kid[k]]), DueIn(h, g[e][kid[k]]))
  BY DEF KidsAreExact
<1>3. P = UNION {g[e][kid[k]] : k \in DOMAIN walks}
  BY DEF FanOfKids
<1> HIDE DEF P
<1> DEFINE K == DOMAIN walks
           B == [k \in K |-> BadIn(h, g[e][kid[k]])]
           D == [k \in K |-> DueIn(h, g[e][kid[k]])]
<1>0. Limit \in Nat /\ e \in Nat /\ e >= 1
  BY LimitType
<1>4. ASSUME NEW k \in K, NEW r \in D[k]
      PROVE  \E p \in Occurrences(h) : r[1] = p.way /\ e <= Len(p.way) /\ p.way[e] = kid[k].way[e]
  <2>1. PICK p \in g[e][kid[k]] : r \in OwnRecords(h, p)
    BY <1>4 DEF DueIn
  <2>2. p \in Occurrences(h) /\ Through(kid[k], p)
    BY <1>1, <2>1, FanGoesThrough
  <2>3. e <= Len(p.way) /\ p.way[e] = kid[k].way[e]
    BY <1>0, <1>1, <2>2 DEF Through
  <2>4. QED
    BY <2>1, <2>2, <2>3, OwnWay
<1>5. ASSUME NEW k \in K PROVE own \cap D[k] = {}
  <2> SUFFICES ASSUME NEW r \in own, r \in D[k] PROVE FALSE
    OBVIOUS
  <2>1. PICK p \in Occurrences(h) : r[1] = p.way /\ e <= Len(p.way)
    BY <1>4
  <2>2. Len(r[1]) < e /\ Len(p.way) \in Nat
    BY <1>1 DEF Occurrences
  <2>3. QED
    BY <1>0, <2>1, <2>2
<1>6. ASSUME NEW j \in K, NEW k \in K, j # k PROVE D[j] \cap D[k] = {}
  <2> SUFFICES ASSUME NEW r \in D[j], r \in D[k] PROVE FALSE
    OBVIOUS
  <2>1. r[1][e] = kid[j].way[e]
    BY <1>4
  <2>2. r[1][e] = kid[k].way[e]
    BY <1>4
  <2>3. QED
    BY <1>1, <1>6, <2>1, <2>2
<1>7. \A k \in K : Exact(walks[k], B[k], D[k])
  BY <1>2
<1>8. BadIn(h, P) = UNION {B[k] : k \in K}
  BY <1>3 DEF BadIn
<1>9. DueIn(h, P) = UNION {D[k] : k \in K}
  <2>1. ASSUME NEW r \in DueIn(h, P) PROVE \E k \in K : r \in D[k]
    <3>1. PICK p \in P : Len(p.way) <= Limit /\ r \in OwnRecords(h, p)
      BY <2>1 DEF DueIn
    <3>2. PICK k \in K : p \in g[e][kid[k]]
      BY <1>3
    <3>3. r \in DueIn(h, g[e][kid[k]])
      BY <3>1, <3>2 DEF DueIn
    <3>4. QED
      BY <3>3
  <2>2. ASSUME NEW k \in K, NEW r \in D[k] PROVE r \in DueIn(h, P)
    <3>1. PICK p \in g[e][kid[k]] : Len(p.way) <= Limit /\ r \in OwnRecords(h, p)
      BY <2>2 DEF DueIn
    <3>2. p \in P
      BY <1>3, <3>1
    <3>3. QED
      BY <3>1, <3>2 DEF DueIn
  <2> HIDE DEF D
  <2>3. QED
    BY <2>1, <2>2
<1> HIDE DEF B, D
<1>10. Exact(InOrder(before, walks), UNION {B[k] : k \in K}, own \cup UNION {D[k] : k \in K})
  BY <1>5, <1>6, <1>7, InOrderExact
<1>11. QED
  BY <1>8, <1>9, <1>10 DEF P

LEMMA FailedExact ==
  ASSUME NEW B, NEW D, B # {}
  PROVE  Exact(Failed, B, D)
BY DEF Exact, Failed, ToSet

LEMMA NothingExact == Exact(Recorded(<<>>), {}, {})
BY FS_EmptySet DEF Exact, Recorded, ToSet, RecordsOf

LEMMA OneRecordExact ==
  ASSUME NEW way, NEW path, NEW x
  PROVE  Exact(Recorded(<< <<path, x>> >>), {}, {<<way, path, x>>})
<1> DEFINE q == << <<path, x>> >>
           D == {<<way, path, x>>}
<1>1. ToSet(q) = {<<path, x>>} /\ Len(q) = 1
  BY DEF ToSet
<1>2. RecordsOf(D) = {<<path, x>>}
  BY DEF RecordsOf
<1>3. IsFiniteSet(D) /\ Cardinality(D) = 1
  BY FS_Singleton
<1>4. Recorded(q).ok /\ Recorded(q).out = q
  BY DEF Recorded
<1> HIDE DEF q, D
<1>5. Exact(Recorded(q), {}, D)
  BY <1>1, <1>2, <1>3, <1>4 DEF Exact
<1>6. QED
  BY <1>5 DEF q, D

LEMMA VariantExact ==
  ASSUME NEW h, IsHeap(h), NEW o \in Occurrences(h), h[o.node].kind \notin {"leaf", "null"}
  PROVE  Exact(Recorded(Variant(h[o.node], o.path)), {}, OwnRecords(h, o))
<1> DEFINE v == h[o.node]
<1>1. o.path \in Seq(Nat) /\ v \in Value(DOMAIN h)
  BY DEF Occurrences, IsHeap
<1>2. v.value \in Nat
  BY <1>1 DEF Value
<1>3. CASE v.kind = "enum"
  <2> DEFINE path == Append(Append(o.path, v.value), VariantTag)
             tagged == o.path \o <<v.value, VariantTag>>
  <2>1. path = tagged
    <3>1. ASSUME NEW q \in Seq(Nat), NEW x \in Nat, NEW y \in Nat
          PROVE  Append(Append(q, x), y) = q \o <<x, y>>
      <4>1. Len(Append(Append(q, x), y)) = Len(q) + 2
        OBVIOUS
      <4>2. Append(Append(q, x), y) \in Seq(Nat) /\ q \o <<x, y>> \in Seq(Nat)
        OBVIOUS
      <4>3. Len(q \o <<x, y>>) = Len(q) + 2
        OBVIOUS
      <4>4. \A i \in 1 .. Len(q) + 2 : Append(Append(q, x), y)[i] = (q \o <<x, y>>)[i]
        OBVIOUS
      <4>5. QED
        BY <4>1, <4>2, <4>3, <4>4
    <3>2. VariantTag \in Nat
      BY DEF VariantTag
    <3>3. QED
      BY <1>1, <1>2, <3>1, <3>2
  <2>2. Variant(v, o.path) = << <<path, v.value>> >>
    BY <1>3 DEF Variant, Named
  <2>3. OwnRecords(h, o) = {<<o.way, tagged, v.value>>}
    BY <1>3 DEF OwnRecords
  <2> DEFINE x == v.value
  <2> HIDE DEF path, tagged, x
  <2>4. Exact(Recorded(<< <<path, x>> >>), {}, {<<o.way, path, x>>})
    BY OneRecordExact
  <2>5. QED
    BY <2>1, <2>2, <2>3, <2>4 DEF x
<1>4. CASE v.kind # "enum"
  <2>1. Variant(v, o.path) = <<>> /\ OwnRecords(h, o) = {}
    BY <1>4 DEF Variant, OwnRecords
  <2>2. QED
    BY <2>1, NothingExact
<1>5. QED
  BY <1>3, <1>4

-----------------------------------------------------------------------------
(* A view shows of each node the kids that count, in some order, and       *)
(* tracks the nodes that may be taken for a cycle.                         *)
KidsFit(s, kids, v) ==
  /\ s \in [DOMAIN kids -> Counts(v)]
  /\ \A j, k \in DOMAIN kids : s[j] = s[k] => j = k
  /\ \A i \in Counts(v) : \E k \in DOMAIN kids : s[k] = i
  /\ \A k \in DOMAIN kids : kids[k].to = v.kids[s[k]].to /\ kids[k].label = KidLabel(v, s[k])

Fit(kids, v) == \E s : KidsFit(s, kids, v)

Shows(view, h) ==
  /\ IsView(view) /\ DOMAIN view = DOMAIN h
  /\ \A n \in DOMAIN h :
       /\ view[n].kind = h[n].kind /\ view[n].value = h[n].value
       /\ view[n].tracked \in BOOLEAN
       /\ Fit(view[n].kids, h[n])
       /\ h[n].kind \in {"leaf", "null"} => Counts(h[n]) = {}
  /\ \A o \in Occurrences(h) : Cycles(h, o) <=> view[o.node].tracked /\ o.node \in o.above

\* Where a walk is when it is at o.
Met(view, o) == {n \in o.above : view[n].tracked}
Standing(view, o) == Place(o.node, o.path, Met(view, o))

LEMMA StandingType ==
  ASSUME NEW h, NEW view, Shows(view, h), NEW o \in Occurrences(h)
  PROVE  Standing(view, o) \in Places(view)
BY DEF Standing, Met, Shows, Occurrences, Place, Places

LEMMA UnderStanding ==
  ASSUME NEW h, NEW view, Shows(view, h), NEW o \in Occurrences(h), NEW s,
         KidsFit(s, view[o.node].kids, h[o.node]), NEW k \in DOMAIN view[o.node].kids
  PROVE  Under(view, Standing(view, o), view[o.node].kids[k]) = Standing(view, Child(h, o, s[k]))
<1> DEFINE v == view[o.node]
           c == Child(h, o, s[k])
           at == Standing(view, o)
<1>0. o.node \in DOMAIN h
  BY DEF Occurrences
<1>1. v.kind = h[o.node].kind /\ v.value = h[o.node].value /\ v.tracked \in BOOLEAN
  BY <1>0 DEF Shows
<1>2. v.kids[k].to = h[o.node].kids[s[k]].to /\ v.kids[k].label = KidLabel(h[o.node], s[k])
  BY DEF KidsFit
<1>3. at.node = o.node /\ at.path = o.path /\ at.visited = Met(view, o)
  BY DEF Standing, Place
<1>4. /\ c.node = h[o.node].kids[s[k]].to
      /\ c.path = Append(Named(h[o.node], o.path), KidLabel(h[o.node], s[k]))
      /\ c.above = o.above \cup {o.node}
  BY DEF Child, Occurrence
<1>5. Named(v, o.path) = Named(h[o.node], o.path)
  BY <1>1 DEF Named
<1>6. Met(view, c) = IF v.tracked THEN Met(view, o) \cup {o.node} ELSE Met(view, o)
  <2>1. Met(view, c) = {n \in o.above \cup {o.node} : view[n].tracked}
    BY <1>4 DEF Met
  <2> HIDE DEF c
  <2>2. CASE v.tracked
    BY <2>1, <2>2 DEF Met
  <2>3. CASE ~ v.tracked
    BY <2>1, <2>3 DEF Met
  <2>4. QED
    BY <2>2, <2>3
<1>7. Under(view, at, v.kids[k]) =
        Place(v.kids[k].to, Append(Named(v, o.path), v.kids[k].label),
              IF v.tracked THEN Met(view, o) \cup {o.node} ELSE Met(view, o))
  BY <1>3 DEF Under
<1>8. Standing(view, c) = Place(c.node, c.path, Met(view, c))
  BY DEF Standing
<1> HIDE DEF v, c, at
<1>9. Under(view, at, v.kids[k]) = Standing(view, c)
  BY <1>2, <1>4, <1>5, <1>6, <1>7, <1>8
<1>10. QED
  BY <1>9 DEF v, c, at

\* The walk at o says of everything at or beneath o what is said of it.
TellsOf(view, h, g, d, o) ==
  Exact(Walk(view)[d][Standing(view, o)], BadIn(h, g[d][o]), DueIn(h, g[d][o]))

AllTold(view, h, g, d) ==
  \A o \in Occurrences(h) : Len(o.way) = d => TellsOf(view, h, g, d, o)

KidWalks(view, at, deeper) ==
  [i \in DOMAIN view[at.node].kids |-> deeper[Under(view, at, view[at.node].kids[i])]]

LEMMA VisitKids ==
  ASSUME NEW view, NEW depth, NEW deeper, NEW at \in Places(view), ~ TooDeep(depth),
         ~ (view[at.node].tracked /\ at.node \in at.visited),
         view[at.node].kind \notin {"leaf", "null"}
  PROVE  Visit(view, depth, deeper)[at] =
           InOrder(Recorded(Variant(view[at.node], at.path)), KidWalks(view, at, deeper))
BY DEF Visit, KidWalks

LEMMA KidsTold ==
  ASSUME NEW h, IsHeap(h), NEW view, Shows(view, h), NEW g, Fans(g, h), input.engine # "unreal",
         NEW d \in 0 .. Limit, NEW o \in Occurrences(h), Len(o.way) = d,
         h[o.node].kind \notin {"leaf", "null"},
         AllTold(view, h, g, d + 1)
  PROVE  Exact(InOrder(Recorded(Variant(view[o.node], o.path)),
                       KidWalks(view, Standing(view, o), Walk(view)[d + 1])),
               BadIn(h, Below(g, h, d, o)), OwnRecords(h, o) \cup DueIn(h, Below(g, h, d, o)))
<1> DEFINE at == Standing(view, o)
           v == view[o.node]
           K == DOMAIN v.kids
           walks == KidWalks(view, at, Walk(view)[d + 1])
           before == Recorded(Variant(v, o.path))
           P == Below(g, h, d, o)
<1>0. Limit \in Nat /\ Limit = MaxDepth /\ d + 1 \in 1 .. Limit + 1 /\ d + 1 \in 0 .. MaxDepth + 1
  BY LimitType DEF Limit
<1>1. /\ o.node \in DOMAIN h /\ o.way \in Seq(Nat) /\ o.path \in Seq(Nat)
      /\ IsView(view) /\ DOMAIN view = DOMAIN h /\ v.kids \in Seq(Kid(DOMAIN view))
      /\ at \in Places(view) /\ at.node = o.node /\ at.path = o.path
  BY StandingType DEF Occurrences, Shows, IsView, Standing, Place
<1>2. PICK s : KidsFit(s, v.kids, h[o.node])
  BY <1>1 DEF Shows, Fit
<1> DEFINE kid == [k \in K |-> Child(h, o, s[k])]
<1>3. before \in Outcomes(PathRecord) /\ Exact(before, {}, OwnRecords(h, o))
  <2>1. v.kind = h[o.node].kind /\ v.value = h[o.node].value
    BY <1>1 DEF Shows
  <2>2. Variant(v, o.path) = Variant(h[o.node], o.path)
    BY <2>1 DEF Variant, Named
  <2>3. Recorded(Variant(view[at.node], at.path)) \in Outcomes(PathRecord)
    BY <1>1, VariantType
  <2>4. QED
    BY <1>1, <2>2, <2>3, VariantExact
<1>4. ASSUME NEW k \in K
      PROVE  /\ kid[k] \in Occurrences(h) /\ kid[k].way = Append(o.way, s[k])
             /\ Len(kid[k].way) = d + 1 /\ kid[k].way[d + 1] = s[k]
             /\ walks[k] = Walk(view)[d + 1][Standing(view, kid[k])]
             /\ walks[k] \in Outcomes(PathRecord)
  <2>1. s[k] \in Counts(h[o.node])
    BY <1>2 DEF KidsFit
  <2>2. Child(h, o, s[k]) \in Occurrences(h) /\ Child(h, o, s[k]).way = Append(o.way, s[k])
    BY <2>1, ChildFacts
  <2>3. Len(Append(o.way, s[k])) = d + 1 /\ Append(o.way, s[k])[d + 1] = s[k]
    BY <1>1
  <2>4. walks[k] = Walk(view)[d + 1][Under(view, at, v.kids[k])]
    BY <1>1 DEF KidWalks
  <2>5. Under(view, at, v.kids[k]) = Standing(view, kid[k])
    BY <1>2, UnderStanding
  <2>6. Walk(view)[d + 1] \in [Places(view) -> Outcomes(PathRecord)]
    BY <1>0, <1>1, WalkEquation
  <2>7. Standing(view, kid[k]) \in Places(view)
    BY <2>2, StandingType
  <2> HIDE DEF walks, at, v
  <2>8. QED
    BY <2>2, <2>3, <2>4, <2>5, <2>6, <2>7
<1>5. DOMAIN walks = K /\ walks \in Seq(Outcomes(PathRecord))
  <2>1. K = 1 .. Len(v.kids) /\ Len(v.kids) \in Nat
    BY <1>1
  <2>2. walks = [k \in K |-> walks[k]]
    BY <1>1 DEF KidWalks
  <2>3. \A k \in K : walks[k] \in Outcomes(PathRecord)
    BY <1>4
  <2> HIDE DEF walks, K, kid
  <2>4. QED
    BY <2>1, <2>2, <2>3
<1>6. \A r \in OwnRecords(h, o) : Len(r[1]) < d + 1
  <2> SUFFICES ASSUME NEW r \in OwnRecords(h, o) PROVE Len(r[1]) < d + 1
    OBVIOUS
  <2>1. r[1] = o.way
    BY OwnWay
  <2>2. QED
    BY <2>1
<1>7. \A j, k \in K : kid[j].way[d + 1] = kid[k].way[d + 1] => j = k
  <2> SUFFICES ASSUME NEW j \in K, NEW k \in K, kid[j].way[d + 1] = kid[k].way[d + 1] PROVE j = k
    OBVIOUS
  <2>1. s[j] = s[k]
    BY <1>4
  <2>2. QED
    BY <1>2, <2>1 DEF KidsFit
<1>8. \A k \in K : Exact(walks[k], BadIn(h, g[d + 1][kid[k]]), DueIn(h, g[d + 1][kid[k]]))
  <2> SUFFICES ASSUME NEW k \in K
               PROVE  Exact(walks[k], BadIn(h, g[d + 1][kid[k]]), DueIn(h, g[d + 1][kid[k]]))
    OBVIOUS
  <2>1. TellsOf(view, h, g, d + 1, kid[k])
    BY <1>4 DEF AllTold
  <2>2. walks[k] = Walk(view)[d + 1][Standing(view, kid[k])]
    BY <1>4
  <2> HIDE DEF kid, walks
  <2>3. QED
    BY <2>1, <2>2 DEF TellsOf
<1>9. P = UNION {g[d + 1][kid[k]] : k \in K}
  <2>1. Beneath(h, o) = {Child(h, o, i) : i \in Counts(h[o.node])}
    BY BeneathIs
  <2>2. /\ \A k \in K : s[k] \in Counts(h[o.node]) /\ kid[k] = Child(h, o, s[k])
        /\ \A i \in Counts(h[o.node]) : \E k \in K : s[k] = i
    BY <1>2 DEF KidsFit
  <2> HIDE DEF kid, K
  <2>3. Beneath(h, o) = {kid[k] : k \in K}
    BY <2>1, <2>2
  <2>4. QED
    BY <2>3 DEF Below
<1> HIDE DEF kid, walks, before, K, v, at, P
<1>10. Exact(InOrder(before, walks), BadIn(h, P), OwnRecords(h, o) \cup DueIn(h, P))
  <2> DEFINE own == OwnRecords(h, o)
             e == d + 1
  <2>1. KidsApart(h, e, own, walks, kid)
    BY <1>4, <1>5, <1>6, <1>7 DEF KidsApart
  <2>2. KidsAreExact(h, g, e, walks, kid)
    BY <1>5, <1>8 DEF KidsAreExact
  <2>3. P = FanOfKids(g, e, walks, kid)
    BY <1>5, <1>9 DEF FanOfKids
  <2>4. e \in 1 .. Limit + 1 /\ Exact(before, {}, own)
    BY <1>0, <1>3
  <2> HIDE DEF own, e
  <2>5. Exact(InOrder(before, walks), BadIn(h, FanOfKids(g, e, walks, kid)),
              own \cup DueIn(h, FanOfKids(g, e, walks, kid)))
    BY <1>3, <1>5, <2>1, <2>2, <2>4, KidsExact
  <2>6. QED
    BY <2>3, <2>5 DEF own
<1>11. QED
  BY <1>10 DEF before, walks, at, v, P

LEMMA LeafTold ==
  ASSUME NEW h, IsHeap(h), NEW o \in Occurrences(h), h[o.node].kind \in {"leaf", "null"},
         Len(o.way) <= Limit, ~ Cycles(h, o)
  PROVE  Exact(Recorded(<< <<o.path, Leaf(h[o.node])>> >>), BadIn(h, {o}), DueIn(h, {o}))
<1>1. OwnRecords(h, o) = {<<o.way, o.path, Leaf(h[o.node])>>}
  BY DEF OwnRecords
<1>2. DueIn(h, {o}) = {<<o.way, o.path, Leaf(h[o.node])>>}
  BY <1>1 DEF DueIn
<1>3. BadIn(h, {o}) = {}
  <2>1. Len(o.way) \in Nat /\ Limit \in Nat
    BY LimitType DEF Occurrences
  <2>2. QED
    BY <2>1 DEF BadIn, Bad
<1> DEFINE x == Leaf(h[o.node])
<1> HIDE DEF x
<1>4. Exact(Recorded(<< <<o.path, x>> >>), {}, {<<o.way, o.path, x>>})
  BY OneRecordExact
<1>5. QED
  BY <1>2, <1>3, <1>4 DEF x

LEMMA WalkTells ==
  ASSUME NEW h, IsHeap(h), NEW view, Shows(view, h), NEW g, Fans(g, h), input.engine # "unreal",
         NEW d \in 1 .. Limit + 1, NEW o \in Occurrences(h), Len(o.way) = d
  PROVE  TellsOf(view, h, g, d, o)
<1> DEFINE N == Limit + 1
           Good(e) == AllTold(view, h, g, e)
           T == {e \in 1 .. N : Good(e)}
           W == Walk(view)
<1>0. Limit \in Nat /\ Limit = MaxDepth /\ N \in Nat /\ N \in 1 .. N
  BY LimitType DEF Limit
<1>1. ASSUME NEW e \in 1 .. N, NEW c \in Occurrences(h)
      PROVE  LET v == view[c.node]
                 at == Standing(view, c)
                 r == W[e][at]
             IN  /\ v.kind = h[c.node].kind /\ v.value = h[c.node].value
                 /\ e > Limit \/ Cycles(h, c) => r = Failed
                 /\ (~ (e > Limit) /\ ~ Cycles(h, c) /\ v.kind \in {"leaf", "null"}) =>
                      r = Recorded(<< <<c.path, Leaf(h[c.node])>> >>)
                 /\ (~ (e > Limit) /\ ~ Cycles(h, c) /\ v.kind \notin {"leaf", "null"}) =>
                      r = InOrder(Recorded(Variant(v, c.path)), KidWalks(view, at, W[e + 1]))
  <2> DEFINE v == view[c.node]
             at == Standing(view, c)
             r == W[e][at]
  <2>1. IsView(view) /\ c.node \in DOMAIN h /\ v.kind = h[c.node].kind /\ v.value = h[c.node].value
    BY DEF Shows, Occurrences
  <2>2. at \in Places(view) /\ at.node = c.node /\ at.path = c.path /\ at.visited = Met(view, c)
    BY StandingType DEF Standing, Place
  <2>3. e \in 0 .. MaxDepth + 1
    BY <1>0
  <2>4. r = Visit(view, e, W[e + 1])[at]
    BY <2>1, <2>3, WalkEquation
  <2>5. TooDeep(e) <=> e > Limit
    BY <1>0 DEF TooDeep
  <2>6. v.tracked /\ c.node \in Met(view, c) <=> Cycles(h, c)
    BY DEF Shows, Met
  <2>7. Leaf(v) = Leaf(h[c.node])
    BY <2>1 DEF Leaf
  <2> HIDE DEF r, at, v, W
  <2>8. /\ TooDeep(e) \/ (v.tracked /\ c.node \in Met(view, c)) => r = Failed
        /\ ~ TooDeep(e) /\ ~ (v.tracked /\ c.node \in Met(view, c)) =>
             /\ v.kind \in {"leaf", "null"} => r = Recorded(<< <<c.path, Leaf(v)>> >>)
             /\ v.kind \notin {"leaf", "null"} =>
                  r = InOrder(Recorded(Variant(v, c.path)), KidWalks(view, at, W[e + 1]))
    <3> DEFINE u == view[at.node]
               x == Visit(view, e, W[e + 1])[at]
    <3>1. /\ TooDeep(e) \/ (u.tracked /\ at.node \in at.visited) => x = Failed
          /\ ~ TooDeep(e) /\ ~ (u.tracked /\ at.node \in at.visited) =>
               /\ u.kind \in {"leaf", "null"} => x = Recorded(<< <<at.path, Leaf(u)>> >>)
               /\ u.kind \notin {"leaf", "null"} =>
                    x = InOrder(Recorded(Variant(u, at.path)), KidWalks(view, at, W[e + 1]))
      <4>1. at \in Places(view)
        BY <2>2
      <4>2. QED
        BY <4>1 DEF Visit, KidWalks
    <3>2. u = v /\ x = r
      BY <2>2, <2>4 DEF v
    <3> HIDE DEF u, x
    <3>3. QED
      BY <2>2, <3>1, <3>2
  <2>9. QED
    BY <2>1, <2>5, <2>6, <2>7, <2>8 DEF r, at, v
<1>2. ASSUME NEW e \in 1 .. N, NEW c \in Occurrences(h), Len(c.way) = e, e > Limit \/ Cycles(h, c)
      PROVE  TellsOf(view, h, g, e, c)
  <2>1. c \in g[e][c]
    <3>1. CASE e = N
      BY <3>1 DEF Fans
    <3>2. CASE e # N
      <4>1. e \in 0 .. Limit
        BY <1>0, <3>2
      <4>2. QED
        BY <4>1 DEF Fans, Fan, Below
    <3>3. QED
      BY <3>1, <3>2
  <2>2. c \in BadIn(h, g[e][c])
    BY <1>2, <2>1 DEF BadIn, Bad
  <2>3. W[e][Standing(view, c)] = Failed
    BY <1>1, <1>2
  <2>4. QED
    BY <2>2, <2>3, FailedExact DEF TellsOf
<1>3. Good(N)
  BY <1>0, <1>2 DEF AllTold
<1>4. ASSUME NEW e \in 1 .. N - 1, Good(e + 1) PROVE Good(e)
  <2> SUFFICES ASSUME NEW c \in Occurrences(h), Len(c.way) = e PROVE TellsOf(view, h, g, e, c)
    BY DEF AllTold
  <2>0. e \in 1 .. N /\ e \in 0 .. Limit /\ ~ (e > Limit) /\ e <= Limit
    BY <1>0
  <2>1. CASE Cycles(h, c)
    BY <1>2, <2>0, <2>1
  <2>2. CASE ~ Cycles(h, c) /\ h[c.node].kind \in {"leaf", "null"}
    <3>1. W[e][Standing(view, c)] = Recorded(<< <<c.path, Leaf(h[c.node])>> >>)
      BY <1>1, <2>0, <2>2
    <3>2. Beneath(h, c) = {}
      <4>1. Counts(h[c.node]) = {}
        BY <2>2 DEF Shows, Occurrences
      <4>2. QED
        BY <4>1, BeneathIs
    <3>3. g[e][c] = {c}
      BY <2>0, <3>2 DEF Fans, Fan, Below
    <3>4. QED
      BY <2>0, <2>2, <3>1, <3>3, LeafTold DEF TellsOf
  <2>3. CASE ~ Cycles(h, c) /\ h[c.node].kind \notin {"leaf", "null"}
    <3> DEFINE P == Below(g, h, e, c)
               r == W[e][Standing(view, c)]
    <3>1. r = InOrder(Recorded(Variant(view[c.node], c.path)),
                      KidWalks(view, Standing(view, c), W[e + 1]))
      BY <1>1, <2>0, <2>3
    <3>2. Exact(r, BadIn(h, P), OwnRecords(h, c) \cup DueIn(h, P))
      <4>1. AllTold(view, h, g, e + 1)
        BY <1>4
      <4> HIDE DEF T, N
      <4>2. Exact(InOrder(Recorded(Variant(view[c.node], c.path)),
                          KidWalks(view, Standing(view, c), W[e + 1])),
                  BadIn(h, P), OwnRecords(h, c) \cup DueIn(h, P))
        BY <2>0, <2>3, <4>1, KidsTold
      <4>3. QED
        BY <3>1, <4>2
    <3>3. g[e][c] = {c} \cup P
      BY <2>0 DEF Fans, Fan, Below
    <3> HIDE DEF P, r
    <3>4. BadIn(h, g[e][c]) = BadIn(h, P)
      <4>1. ~ Bad(h, c)
        BY <2>0, <2>3 DEF Bad
      <4>2. QED
        BY <3>3, <4>1 DEF BadIn
    <3>5. DueIn(h, g[e][c]) = OwnRecords(h, c) \cup DueIn(h, P)
      BY <2>0, <3>3 DEF DueIn
    <3>6. QED
      BY <3>2, <3>4, <3>5 DEF TellsOf, r
  <2>4. QED
    BY <2>1, <2>2, <2>3
<1> HIDE DEF Good
<1>5. 1 .. N \subseteq T
  <2>1. N \in T /\ \A e \in 1 .. N - 1 : e + 1 \in T => e \in T
    BY <1>0, <1>3, <1>4
  <2> HIDE DEF T, N
  <2>2. QED
    BY <1>0, <2>1, DownFrom
<1>6. Good(d)
  BY <1>5
<1>7. QED
  BY <1>6 DEF Good, AllTold

LEMMA HeapNodes ==
  ASSUME input \in Inputs, NEW b \in Builds, NEW n \in DOMAIN Heap(b)
  PROVE  /\ Heap(b)[n].kind = input.heap[n].kind
         /\ n = Root => Heap(b)[n].kind = "object" /\ Heap(b)[n].kids = Struct(b).fields
         /\ n # Root => Heap(b)[n].kind \in Kinds[input.engine]
         /\ Heap(b)[n].kind \in Atoms => Heap(b)[n].kids = <<>>
<1>1. n \in DOMAIN input.heap /\ IsHeap(input.heap)
  BY HeapType, InputFacts
<1>2. input.heap[n] \in Value(DOMAIN input.heap)
  BY <1>1 DEF IsHeap
<1>3. CASE n = Root
  <2>1. Heap(b)[n] = [input.heap[n] EXCEPT !.kids = Struct(b).fields]
    BY <1>1, <1>3 DEF Heap
  <2>2. \A q : LET v == [input.heap[n] EXCEPT !.kids = q] IN v.kids = q /\ v.kind = input.heap[n].kind
    BY <1>2 DEF Value
  <2>3. Heap(b)[n].kids = Struct(b).fields /\ Heap(b)[n].kind = input.heap[n].kind
    BY <2>1, <2>2
  <2>4. input.heap[n].kind = "object"
    BY <1>3, InputFacts
  <2>5. "object" \notin Atoms
    BY DEF Atoms
  <2>6. QED
    BY <1>3, <2>3, <2>4, <2>5
<1>4. CASE n # Root
  <2> DEFINE u == input.heap[n]
  <2>1. u.kind \in Kinds[input.engine] /\ (u.kind \in Atoms => u.kids = <<>>)
    BY <1>1, <1>4, InputMore
  <2>2. CASE Unordered(u) /\ b = 2
    <3>1. Heap(b)[n] = [u EXCEPT !.kids = Mirrored(u)]
      BY <1>1, <1>4, <2>2 DEF Heap
    <3>2. Heap(b)[n].kind = u.kind
      BY <1>2, <3>1 DEF Value
    <3>3. u.kind \notin Atoms
      BY <2>2 DEF Unordered, Atoms
    <3> HIDE DEF u
    <3>4. QED
      BY <1>4, <2>1, <3>2, <3>3 DEF u
  <2>3. CASE ~ (Unordered(u) /\ b = 2)
    <3>1. Heap(b)[n] = u
      BY <1>1, <1>4, <2>3 DEF Heap
    <3> HIDE DEF u
    <3>2. QED
      BY <1>4, <2>1, <3>1 DEF u
  <2>4. QED
    BY <2>2, <2>3
<1>5. QED
  BY <1>3, <1>4

LEMMA FitInPlace ==
  ASSUME NEW v, NEW kids, DOMAIN kids = DOMAIN v.kids, Counts(v) = DOMAIN v.kids,
         \A i \in DOMAIN v.kids : kids[i].to = v.kids[i].to /\ kids[i].label = KidLabel(v, i)
  PROVE  Fit(kids, v)
<1> DEFINE s == [i \in DOMAIN kids |-> i]
<1>1. KidsFit(s, kids, v)
  BY DEF KidsFit
<1>2. QED
  BY <1>1 DEF Fit

LEMMA FitIndexed ==
  ASSUME NEW nodes, NEW v \in Value(nodes), v.kind = "list", Counts(v) = DOMAIN v.kids
  PROVE  Fit(Indexed(v.kids), v)
<1>1. v.kids \in Seq(Kid(nodes))
  BY DEF Value
<1>2. ASSUME NEW i \in DOMAIN v.kids
      PROVE  Indexed(v.kids)[i].to = v.kids[i].to /\ Indexed(v.kids)[i].label = KidLabel(v, i)
  <2>1. v.kids[i] \in Kid(nodes)
    BY <1>1
  <2>2. QED
    BY <2>1 DEF Indexed, KidLabel, Kid
<1>3. DOMAIN Indexed(v.kids) = DOMAIN v.kids
  BY DEF Indexed
<1>4. QED
  BY <1>2, <1>3, FitInPlace

LEMMA FitAsIterated ==
  ASSUME NEW v, v.kind # "list", Counts(v) = DOMAIN v.kids
  PROVE  Fit(v.kids, v)
BY FitInPlace DEF KidLabel

LEMMA FitSorted ==
  ASSUME NEW nodes, NEW v \in Value(nodes), v.kind # "list", Counts(v) = DOMAIN v.kids
  PROVE  Fit(ByLabel(v.kids), v)
<1> DEFINE l == Labels(v.kids)
           D == DOMAIN v.kids
           s == [k \in D |-> At(l, k)]
           kids == ByLabel(v.kids)
<1>1. v.kids \in Seq(Kid(nodes))
  BY DEF Value
<1>2. l \in Seq(Nat) /\ DOMAIN l = D
  BY <1>1, LabelsType DEF Labels
<1>3. kids = [k \in D |-> v.kids[At(l, k)]]
  BY <1>2 DEF ByLabel, Sorted, At
<1> HIDE DEF l, kids
<1>4. /\ \A k \in D : At(l, k) \in D
      /\ \A j \in D : \E k \in D : At(l, k) = j
      /\ \A k, m \in D : At(l, k) = At(l, m) => k = m
  BY <1>2, AtFacts
<1>5. DOMAIN kids = D /\ \A k \in D : s[k] = At(l, k) /\ kids[k] = v.kids[s[k]]
  BY <1>3
<1>6. s \in [D -> D]
  BY <1>4
<1> HIDE DEF s, D
<1>7. KidsFit(s, kids, v)
  BY <1>4, <1>5, <1>6 DEF KidsFit, KidLabel, D
<1>8. QED
  BY <1>7 DEF Fit, kids

LEMMA FitKept ==
  ASSUME NEW nodes, NEW v \in Value(nodes), v.kind = "object", input.engine = "godot"
  PROVE  Fit(Kept(v.kids, {kid \in ToSet(v.kids) : Prefixed(kid)}), v)
<1> DEFINE S == {kid \in ToSet(v.kids) : Prefixed(kid)}
           A == {i \in DOMAIN v.kids : v.kids[i] \in S}
           kids == Kept(v.kids, S)
<1>1. v.kids \in Seq(Kid(nodes))
  BY DEF Value
<1>2. \A i \in DOMAIN v.kids : v.kids[i] \in ToSet(v.kids)
  BY DEF ToSet
<1>3. A = Counts(v)
  BY <1>2 DEF Counts
<1> HIDE DEF S
<1>4. PICK s : TakenFrom(s, kids, v.kids, A)
  BY <1>1, KeptPlaces
<1> HIDE DEF A, kids
<1>5. \A k \in DOMAIN kids : kids[k] = v.kids[s[k]] /\ s[k] \in Counts(v)
  BY <1>3, <1>4 DEF TakenFrom
<1>6. KidsFit(s, kids, v)
  BY <1>3, <1>4, <1>5 DEF KidsFit, TakenFrom, KidLabel
<1>7. QED
  BY <1>6 DEF Fit, kids, S

\* The view of the walker of this engine.
EngineView(h) == CASE input.engine = "bevy" -> BevyView(h)
                   [] input.engine = "godot" -> GodotView(h)
                   [] input.engine = "unity" -> UnityView(h)

LEMMA ViewShows ==
  ASSUME input \in Inputs, NEW b \in Builds, input.engine \in {"bevy", "godot", "unity"}
  PROVE  Shows(EngineView(Heap(b)), Heap(b))
<1> DEFINE h == Heap(b)
           view == EngineView(h)
<1>1. IsHeap(h)
  BY HeapType
<1>2. ASSUME NEW n \in DOMAIN h
      PROVE  /\ h[n] \in Value(DOMAIN h)
             /\ input.engine # "godot" \/ h[n].kind # "object" => Counts(h[n]) = DOMAIN h[n].kids
             /\ h[n].kind \in {"leaf", "null"} => Counts(h[n]) = {}
  <2>1. h[n] \in Value(DOMAIN h)
    BY <1>1 DEF IsHeap
  <2>2. h[n].kind \in {"leaf", "null"} => h[n].kids = <<>>
    BY HeapNodes DEF Atoms
  <2> HIDE DEF h
  <2>3. QED
    BY <2>1, <2>2 DEF Counts
<1> HIDE DEF h
<1>3. CASE input.engine = "bevy"
  <2>1. view = BevyView(h)
    BY <1>3 DEF EngineView
  <2>2. IsView(view)
    BY <1>1, <2>1, ViewsAre
  <2>3. ASSUME NEW n \in DOMAIN h
        PROVE  /\ view[n].kind = h[n].kind /\ view[n].value = h[n].value
               /\ view[n].tracked = FALSE /\ view[n].kids = BevyKids(h[n])
    BY <2>1 DEF BevyView, Seen
  <2>4. DOMAIN view = DOMAIN h
    BY <2>1 DEF BevyView
  <2> HIDE DEF view
  <2>5. ASSUME NEW n \in DOMAIN h PROVE Fit(view[n].kids, h[n])
    <3>1. Counts(h[n]) = DOMAIN h[n].kids /\ h[n] \in Value(DOMAIN h)
      BY <1>2, <1>3
    <3>2. CASE h[n].kind = "list"
      BY <2>3, <3>1, <3>2, FitIndexed DEF BevyKids
    <3>3. CASE h[n].kind \in {"map", "set"}
      BY <2>3, <3>1, <3>3, FitSorted DEF BevyKids
    <3>4. CASE h[n].kind \notin {"list", "map", "set"}
      BY <2>3, <3>1, <3>4, FitAsIterated DEF BevyKids
    <3>5. QED
      BY <3>2, <3>3, <3>4
  <2>6. ASSUME NEW o \in Occurrences(h) PROVE Cycles(h, o) <=> view[o.node].tracked /\ o.node \in o.above
    <3>1. o.node \in DOMAIN h
      BY DEF Occurrences
    <3>2. view[o.node].tracked = FALSE
      BY <2>3, <3>1
    <3>3. Cycles(h, o) = FALSE
      BY <1>3 DEF Cycles
    <3>4. QED
      BY <3>2, <3>3
  <2>7. QED
    BY <1>2, <2>2, <2>3, <2>4, <2>5, <2>6 DEF Shows, view, h
<1>4. CASE input.engine = "godot"
  <2>1. view = GodotView(h)
    BY <1>4 DEF EngineView
  <2>2. IsView(view)
    BY <1>1, <2>1, ViewsAre
  <2>3. ASSUME NEW n \in DOMAIN h
        PROVE  /\ view[n].kind = h[n].kind /\ view[n].value = h[n].value
               /\ view[n].tracked = (h[n].kind = "object") /\ view[n].kids = GodotKids(h[n])
    BY <2>1 DEF GodotView, Seen
  <2>4. DOMAIN view = DOMAIN h
    BY <2>1 DEF GodotView
  <2> HIDE DEF view
  <2>5. ASSUME NEW n \in DOMAIN h PROVE Fit(view[n].kids, h[n])
    <3>1. h[n] \in Value(DOMAIN h) /\ (h[n].kind # "object" => Counts(h[n]) = DOMAIN h[n].kids)
      BY <1>2
    <3>2. CASE h[n].kind = "list"
      BY <2>3, <3>1, <3>2, FitIndexed DEF GodotKids
    <3>3. CASE h[n].kind = "object"
      <4>1. GodotKids(h[n]) = Kept(h[n].kids, {kid \in ToSet(h[n].kids) : Prefixed(kid)})
        BY <3>3 DEF GodotKids
      <4>2. QED
        BY <1>4, <2>3, <3>1, <3>3, <4>1, FitKept
    <3>4. CASE h[n].kind \notin {"list", "object"}
      BY <2>3, <3>1, <3>4, FitAsIterated DEF GodotKids
    <3>5. QED
      BY <3>2, <3>3, <3>4
  <2>6. ASSUME NEW o \in Occurrences(h) PROVE Cycles(h, o) <=> view[o.node].tracked /\ o.node \in o.above
    <3>1. o.node \in DOMAIN h
      BY DEF Occurrences
    <3>2. view[o.node].tracked = (h[o.node].kind = "object")
      BY <2>3, <3>1
    <3>3. QED
      BY <1>4, <3>2 DEF Cycles
  <2>7. QED
    BY <1>2, <2>2, <2>3, <2>4, <2>5, <2>6 DEF Shows, view, h
<1>5. CASE input.engine = "unity"
  <2>1. view = UnityView(h)
    BY <1>5 DEF EngineView
  <2>2. IsView(view)
    BY <1>1, <2>1, ViewsAre
  <2>3. ASSUME NEW n \in DOMAIN h
        PROVE  /\ view[n].kind = h[n].kind /\ view[n].value = h[n].value
               /\ view[n].tracked = (h[n].kind # "struct") /\ view[n].kids = UnityKids(h[n])
    BY <2>1 DEF UnityView, Seen
  <2>4. DOMAIN view = DOMAIN h
    BY <2>1 DEF UnityView
  <2> HIDE DEF view
  <2>5. ASSUME NEW n \in DOMAIN h PROVE Fit(view[n].kids, h[n])
    <3>1. Counts(h[n]) = DOMAIN h[n].kids /\ h[n] \in Value(DOMAIN h)
      BY <1>2, <1>5
    <3>2. CASE h[n].kind = "list"
      BY <2>3, <3>1, <3>2, FitIndexed DEF UnityKids
    <3>3. CASE h[n].kind \in {"map", "set"}
      BY <2>3, <3>1, <3>3, FitSorted DEF UnityKids
    <3>4. CASE h[n].kind \notin {"list", "map", "set"}
      BY <2>3, <3>1, <3>4, FitAsIterated DEF UnityKids
    <3>5. QED
      BY <3>2, <3>3, <3>4
  <2>6. ASSUME NEW o \in Occurrences(h) PROVE Cycles(h, o) <=> view[o.node].tracked /\ o.node \in o.above
    <3>1. o.node \in DOMAIN h
      BY DEF Occurrences
    <3>2. view[o.node].tracked = (h[o.node].kind # "struct")
      BY <2>3, <3>1
    <3>3. QED
      BY <1>5, <3>2 DEF Cycles
  <2>7. QED
    BY <1>2, <2>2, <2>3, <2>4, <2>5, <2>6 DEF Shows, view, h
<1>6. QED
  BY <1>3, <1>4, <1>5

-----------------------------------------------------------------------------
(* The tracked fields, and so the whole walk.                              *)
AllOf(b) == UNION {Levels(b)[d] : d \in 1 .. Limit}
BadOf(b) == Levels(b)[Limit + 1] \cup {o \in AllOf(b) : Cycles(Heap(b), o)}
DueOf(b) == UNION {OwnRecords(Heap(b), o) : o \in AllOf(b)}

LEMMA LevelsSumUp ==
  ASSUME input \in Inputs, NEW b \in Builds, NEW g, Fans(g, Heap(b))
  PROVE  BadOf(b) = BadIn(Heap(b), Reached(b, g)) /\ DueOf(b) = DueIn(Heap(b), Reached(b, g))
<1> DEFINE R == Reached(b, g)
           h == Heap(b)
<1>1. Levels(b)[Limit + 1] = {p \in R : Len(p.way) > Limit} /\ AllOf(b) = {p \in R : Len(p.way) <= Limit}
  BY LevelsByLength DEF AllOf
<1>2. ASSUME NEW p \in R PROVE Len(p.way) > Limit <=> ~ (Len(p.way) <= Limit)
  <2>1. PICK i \in DOMAIN Tracked(b) : p \in g[1][FirstOf(b, i)]
    BY DEF Reached
  <2>2. 1 \in 1 .. Limit + 1 /\ Limit \in Nat
    BY LimitType
  <2>3. FirstOf(b, i) \in Occurrences(h) /\ IsHeap(h)
    BY FirstType, HeapType
  <2> HIDE DEF h, R
  <2>4. p \in Occurrences(h)
    BY <2>1, <2>2, <2>3, FanGoesThrough DEF h
  <2>5. Len(p.way) \in Nat
    BY <2>4 DEF Occurrences
  <2>6. QED
    BY <2>2, <2>5
<1> HIDE DEF R, h
<1>3. BadOf(b) = BadIn(h, R)
  BY <1>1, <1>2 DEF BadOf, BadIn, Bad, h
<1>4. DueOf(b) = DueIn(h, R)
  BY <1>1 DEF DueOf, DueIn, h
<1>5. QED
  BY <1>3, <1>4 DEF R, h

\* The fields of the tracked value, one after the other.
FieldRuns(b) ==
  LET view == EngineView(Heap(b))
  IN  [i \in DOMAIN Tracked(b) |-> Walk(view)[1][Standing(view, FirstOf(b, i))]]

LEMMA FieldsTold ==
  ASSUME input \in Inputs, NEW b \in Builds, input.engine \in {"bevy", "godot", "unity"}
  PROVE  Exact(InOrder(Recorded(<<>>), FieldRuns(b)), BadOf(b), DueOf(b))
<1> DEFINE h == Heap(b)
           view == EngineView(h)
           K == DOMAIN Tracked(b)
           walks == FieldRuns(b)
           kid == [i \in K |-> FirstOf(b, i)]
           before == Recorded(<<>>)
<1>0. Limit \in Nat /\ 1 \in 1 .. Limit + 1 /\ Limit = MaxDepth /\ 1 \in 0 .. MaxDepth + 1
  BY LimitType DEF Limit
<1>1. IsHeap(h) /\ Shows(view, h) /\ IsView(view) /\ Tracked(b) \in Seq(Kid(DOMAIN h))
  BY HeapType, ViewShows, TrackedType DEF Shows
<1>2. PICK g : Fans(g, h)
  BY <1>1, FansExist
<1>3. DOMAIN walks = K /\ \A i \in K : walks[i] = Walk(view)[1][Standing(view, kid[i])]
  BY DEF FieldRuns
<1>4. ASSUME NEW i \in K
      PROVE  kid[i] \in Occurrences(h) /\ kid[i].way = <<i>> /\ Len(kid[i].way) = 1 /\ kid[i].way[1] = i
  <2>1. kid[i] = FirstOf(b, i) /\ FirstOf(b, i) \in Occurrences(h) /\ FirstOf(b, i).way = <<i>>
    BY FirstType
  <2> HIDE DEF kid, h
  <2>2. kid[i].way = <<i>>
    BY <2>1
  <2>3. QED
    BY <2>1, <2>2
<1> HIDE DEF view, h, kid
<1>5. ASSUME NEW i \in K PROVE walks[i] \in Outcomes(PathRecord)
  <2>1. Walk(view)[1] \in [Places(view) -> Outcomes(PathRecord)]
    BY <1>0, <1>1, WalkEquation
  <2>2. Standing(view, kid[i]) \in Places(view)
    BY <1>1, <1>4, StandingType
  <2>3. QED
    BY <1>3, <2>1, <2>2
<1>6. walks \in Seq(Outcomes(PathRecord))
  <2>1. K = 1 .. Len(Tracked(b)) /\ Len(Tracked(b)) \in Nat
    BY <1>1
  <2>2. walks = [i \in K |-> walks[i]]
    BY DEF FieldRuns
  <2> HIDE DEF walks, K
  <2>3. QED
    BY <1>5, <2>1, <2>2
<1> HIDE DEF walks, K
<1>7. KidsApart(h, 1, {}, walks, kid)
  BY <1>3, <1>4 DEF KidsApart
<1>8. KidsAreExact(h, g, 1, walks, kid)
  <2> SUFFICES ASSUME NEW i \in K
               PROVE  Exact(walks[i], BadIn(h, g[1][kid[i]]), DueIn(h, g[1][kid[i]]))
    BY <1>3 DEF KidsAreExact
  <2>1. kid[i] \in Occurrences(h) /\ Len(kid[i].way) = 1
    BY <1>4
  <2>2. TellsOf(view, h, g, 1, kid[i])
    BY <1>0, <1>1, <1>2, <2>1, WalkTells
  <2>3. QED
    BY <1>3, <2>2 DEF TellsOf
<1>9. FanOfKids(g, 1, walks, kid) = Reached(b, g)
  BY <1>3 DEF FanOfKids, Reached, kid, K
<1>10. before \in Outcomes(PathRecord) /\ Exact(before, {}, {})
  BY NothingExact DEF Recorded, Outcomes
<1> DEFINE F == FanOfKids(g, 1, walks, kid)
<1> HIDE DEF before
<1>11. Exact(InOrder(before, walks), BadIn(h, F), {} \cup DueIn(h, F))
  BY <1>0, <1>1, <1>2, <1>6, <1>7, <1>8, <1>10, KidsExact
<1>12. BadOf(b) = BadIn(h, F) /\ DueOf(b) = DueIn(h, F)
  BY <1>2, <1>9, LevelsSumUp DEF h
<1> HIDE DEF F
<1>13. {} \cup DueIn(h, F) = DueIn(h, F)
  OBVIOUS
<1>14. QED
  BY <1>11, <1>12, <1>13 DEF before, walks

LEMMA FirstStanding ==
  ASSUME input \in Inputs, NEW b \in Builds, NEW i \in DOMAIN Tracked(b), NEW view
  PROVE  LET f == Tracked(b)[i]
         IN  /\ input.engine # "godot" => Standing(view, FirstOf(b, i)) = Place(f.to, <<f.label>>, {})
             /\ input.engine = "godot" /\ view[Root].tracked =>
                  Standing(view, FirstOf(b, i)) = Place(f.to, <<f.label>>, {Root})
<1> DEFINE f == Tracked(b)[i]
           o == FirstOf(b, i)
<1>1. o.node = f.to /\ o.path = <<f.label>> /\ o.above = IF input.engine = "godot" THEN {Root} ELSE {}
  BY DEF FirstOf, Occurrence
<1> HIDE DEF f, o
<1>2. input.engine # "godot" => Met(view, o) = {}
  BY <1>1 DEF Met
<1>3. input.engine = "godot" /\ view[Root].tracked => Met(view, o) = {Root}
  BY <1>1 DEF Met
<1>4. Standing(view, o) = Place(f.to, <<f.label>>, Met(view, o))
  BY <1>1 DEF Standing
<1>5. QED
  BY <1>2, <1>3, <1>4 DEF f, o

LEMMA PlainRuns ==
  ASSUME input \in Inputs, NEW b \in Builds, input.engine \in {"bevy", "unity"}, NEW r \in Walks(b)
  PROVE  r = InOrder(Recorded(<<>>), FieldRuns(b))
<1> DEFINE view == EngineView(Heap(b))
           fields == Tracked(b)
           plain == [i \in DOMAIN fields |-> Walk(view)[1][Place(fields[i].to, <<fields[i].label>>, {})]]
<1>1. BevyWalk(Heap(b)) = Walk(BevyView(Heap(b))) /\ UnityWalk(Heap(b)) = Walk(UnityView(Heap(b)))
  BY DEF BevyWalk, UnityWalk, BevyView, UnityView
<1>2. r = FieldWalks(Walk(view), fields)
  <2>1. CASE input.engine = "bevy"
    <3>1. view = BevyView(Heap(b))
      BY <2>1 DEF EngineView
    <3>2. Walks(b) = {FieldWalks(BevyWalk(Heap(b)), fields)}
      BY <2>1 DEF Walks
    <3> HIDE DEF view, fields
    <3>3. QED
      BY <1>1, <3>1, <3>2
  <2>2. CASE input.engine = "unity"
    <3>1. view = UnityView(Heap(b))
      BY <2>2 DEF EngineView
    <3>2. Walks(b) = {FieldWalks(UnityWalk(Heap(b)), fields)}
      BY <2>2 DEF Walks
    <3> HIDE DEF view, fields
    <3>3. QED
      BY <1>1, <3>1, <3>2
  <2>3. QED
    BY <2>1, <2>2
<1>3. FieldWalks(Walk(view), fields) = InOrder(Recorded(<<>>), plain)
  BY DEF FieldWalks
<1>4. plain = FieldRuns(b)
  <2>1. \A i \in DOMAIN fields :
          Standing(view, FirstOf(b, i)) = Place(fields[i].to, <<fields[i].label>>, {})
    BY FirstStanding
  <2>2. FieldRuns(b) = [i \in DOMAIN fields |-> Walk(view)[1][Standing(view, FirstOf(b, i))]]
    BY DEF FieldRuns
  <2> HIDE DEF view, fields
  <2>3. QED
    BY <2>1, <2>2
<1>5. QED
  BY <1>2, <1>3, <1>4

LEMMA GodotRuns ==
  ASSUME input \in Inputs, NEW b \in Builds, input.engine = "godot", NEW r \in Walks(b)
  PROVE  r = InOrder(Recorded(<<>>), FieldRuns(b))
<1> DEFINE h == Heap(b)
           view == GodotView(h)
           fields == Tracked(b)
           W == Walk(view)
           at == Place(Root, <<>>, {})
           v == view[Root]
<1>1. Root \in DOMAIN h /\ IsHeap(h) /\ h[Root].kind = "object" /\ h[Root].kids = Struct(b).fields
      /\ fields \in Seq(Kid(DOMAIN h))
  BY HeapType, HeapNodes, InputFacts, TrackedType
<1>2. r = W[0][at]
  BY DEF Walks, GodotWalk, GodotView
<1>3. IsView(view) /\ DOMAIN view = DOMAIN h
  BY <1>1, ViewsAre DEF GodotView
<1>4. v.kind = "object" /\ v.tracked = TRUE /\ v.kids = GodotKids(h[Root])
  BY <1>1 DEF GodotView, Seen
<1>5. v.kids = fields
  <2>1. fields = Kept(Struct(b).fields, {f \in ToSet(Struct(b).fields) : Marked(f)})
    BY DEF Tracked
  <2>2. v.kids = Kept(Struct(b).fields, {f \in ToSet(Struct(b).fields) : Prefixed(f)})
    BY <1>1, <1>4 DEF GodotKids
  <2>3. QED
    BY <2>1, <2>2 DEF Marked, Prefixed
<1>6. at \in Places(view) /\ at.node = Root /\ at.path = <<>> /\ at.visited = {}
  BY <1>1, <1>3 DEF Place, Places
<1> HIDE DEF W, at, view, h
<1>7. W[0] = Visit(view, 0, W[0 + 1])
  <2>1. 0 \in 0 .. MaxDepth + 1
    BY MaxDepthAssumption
  <2>2. QED
    BY <1>3, <2>1, WalkEquation DEF W
<1>8. r = InOrder(Recorded(Variant(v, at.path)), KidWalks(view, at, W[0 + 1]))
  <2>1. ~ TooDeep(0) /\ ~ (v.tracked /\ at.node \in at.visited) /\ v.kind \notin {"leaf", "null"}
    BY <1>4, <1>6, MaxDepthAssumption DEF TooDeep
  <2> DEFINE x == Visit(view, 0, W[0 + 1])[at]
  <2>2. r = x
    BY <1>2, <1>7
  <2>3. x = InOrder(Recorded(Variant(v, at.path)), KidWalks(view, at, W[0 + 1]))
    <3>1. view[at.node] = v
      BY <1>6
    <3>2. /\ ~ TooDeep(0) /\ ~ (view[at.node].tracked /\ at.node \in at.visited)
          /\ view[at.node].kind \notin {"leaf", "null"}
      BY <2>1, <3>1
    <3>3. Visit(view, 0, W[0 + 1])[at] =
            InOrder(Recorded(Variant(view[at.node], at.path)), KidWalks(view, at, W[0 + 1]))
      BY <1>6, <3>2, VisitKids
    <3>4. QED
      BY <3>1, <3>3
  <2>4. QED
    BY <2>2, <2>3
<1>9. Variant(v, at.path) = <<>>
  BY <1>4 DEF Variant
<1>10. KidWalks(view, at, W[0 + 1]) = FieldRuns(b)
  <2>1. ASSUME NEW i \in DOMAIN fields
        PROVE  Under(view, at, fields[i]) = Standing(view, FirstOf(b, i))
    <3>1. Under(view, at, fields[i]) =
            Place(fields[i].to, Append(Named(v, at.path), fields[i].label), at.visited \cup {at.node})
      BY <1>4, <1>6 DEF Under
    <3>2. Named(v, at.path) = <<>>
      BY <1>4, <1>6 DEF Named
    <3>3. Append(<<>>, fields[i].label) = <<fields[i].label>>
      OBVIOUS
    <3>4. at.visited \cup {at.node} = {Root}
      BY <1>6
    <3>5. Standing(view, FirstOf(b, i)) = Place(fields[i].to, <<fields[i].label>>, {Root})
      BY <1>4, FirstStanding
    <3> HIDE DEF fields, v
    <3>6. QED
      BY <3>1, <3>2, <3>3, <3>4, <3>5
  <2>2. KidWalks(view, at, W[0 + 1]) = [i \in DOMAIN fields |-> W[1][Under(view, at, fields[i])]]
    BY <1>5, <1>6 DEF KidWalks
  <2>3. EngineView(h) = view
    BY DEF EngineView, view
  <2>4. FieldRuns(b) = [i \in DOMAIN fields |-> W[1][Standing(view, FirstOf(b, i))]]
    BY <2>3 DEF FieldRuns, h, W
  <2> HIDE DEF fields
  <2>5. QED
    BY <2>1, <2>2, <2>4
<1>11. QED
  BY <1>8, <1>9, <1>10

LEMMA ReflectiveIsExact ==
  ASSUME input \in Inputs, NEW b \in Builds, input.engine \in {"bevy", "godot", "unity"},
         NEW r \in Walks(b)
  PROVE  Exact(r, BadOf(b), DueOf(b))
<1>1. r = InOrder(Recorded(<<>>), FieldRuns(b))
  BY PlainRuns, GodotRuns
<1>2. QED
  BY <1>1, FieldsTold

-----------------------------------------------------------------------------
(* Unreal.  A site matches an occurrence if it is at its node, and has met *)
(* its address before only where there is no struct.                       *)
Match(h, o, s) == /\ s.node = o.node
                  /\ \A x \in s.visited : Len(x) <= Len(s.address)
                  /\ s.address \in s.visited => h[s.node].kind # "struct"

\* No struct is another's first member.
Apart(h) == \A n \in DOMAIN h :
              (h[n].kind = "struct" /\ h[n].kids # <<>>) => h[h[n].kids[1].to].kind # "struct"

LEMMA KidMatches ==
  ASSUME NEW h, IsHeap(h), Apart(h), NEW o \in Occurrences(h), NEW s \in Sites(h),
         Match(h, o, s), NEW i \in Counts(h[o.node])
  PROVE  /\ Inside(h[o.node], s, i) \in Sites(h)
         /\ Match(h, Child(h, o, i), Inside(h[o.node], s, i))
<1> DEFINE v == h[o.node]
           c == Child(h, o, i)
           t == Inside(v, s, i)
<1>1. s.node = o.node /\ i \in DOMAIN v.kids
  BY DEF Match, Counts
<1>2. t \in Sites(h)
  BY <1>1, InsideType
<1>3. s.address \in Seq(Nat) /\ s.visited \in SUBSET Seq(Nat) /\ o.way \in Seq(Nat)
  BY DEF Sites, Occurrences
<1>4. i \in Nat
  <2>1. v \in Value(DOMAIN h)
    BY DEF IsHeap, Occurrences
  <2>2. v.kids \in Seq(Kid(DOMAIN h))
    BY <2>1 DEF Value
  <2>3. QED
    BY <1>1, <2>2
<1>5. c.node = v.kids[i].to
  BY DEF Child, Occurrence
<1>7. (v.kind = "struct" /\ i = 1) => h[v.kids[i].to].kind # "struct"
  <2>1. o.node \in DOMAIN h /\ (v.kind = "struct" /\ v.kids # <<>> => h[v.kids[1].to].kind # "struct")
    BY DEF Apart, Occurrences
  <2>2. v.kids # <<>>
    BY <1>1
  <2> HIDE DEF v
  <2>3. QED
    BY <2>1, <2>2
<1>8. /\ t.node = v.kids[i].to
      /\ t.address = IF v.kind = "struct" /\ i = 1 THEN s.address ELSE Append(s.address, i)
      /\ t.visited = IF v.kind = "struct" THEN s.visited \cup {s.address} ELSE s.visited
  BY DEF Inside, Site
<1>9. \A x \in s.visited : Len(x) <= Len(s.address)
  BY DEF Match
<1>10. /\ Append(s.address, i) \notin s.visited /\ Append(s.address, i) # s.address
       /\ \A x \in s.visited \cup {s.address} : Len(x) <= Len(Append(s.address, i))
  BY <1>3, <1>4, <1>9, BeyondAll
<1> DEFINE a == s.address
           beyond == Append(s.address, i)
<1>11. \A x \in s.visited \cup {a} : Len(x) <= Len(a)
  <2>1. Len(a) \in Nat
    BY <1>3
  <2>2. QED
    BY <1>9, <2>1
<1>12. /\ \A x \in t.visited : Len(x) <= Len(t.address)
       /\ t.address \in t.visited => (v.kind = "struct" /\ i = 1)
  <2> HIDE DEF a, beyond, t, v
  <2>1. CASE v.kind = "struct" /\ i = 1
    <3>1. t.address = a /\ t.visited = s.visited \cup {a}
      BY <1>8, <2>1 DEF a
    <3>2. QED
      BY <1>11, <2>1, <3>1
  <2>2. CASE v.kind = "struct" /\ i # 1
    <3>1. t.address = beyond /\ t.visited = s.visited \cup {a}
      BY <1>8, <2>2 DEF a, beyond
    <3>2. QED
      BY <1>10, <2>2, <3>1 DEF a, beyond
  <2>3. CASE v.kind # "struct"
    <3>1. t.address = beyond /\ t.visited = s.visited
      BY <1>8, <2>3 DEF beyond
    <3>2. QED
      BY <1>10, <2>3, <3>1 DEF a, beyond
  <2>4. QED
    BY <2>1, <2>2, <2>3
<1> HIDE DEF c, t, v
<1>13. Match(h, c, t)
  BY <1>5, <1>7, <1>8, <1>12 DEF Match
<1>14. QED
  BY <1>2, <1>13 DEF c, t, v

\* A value cannot be serialized just where something bad is at it or beneath.
Sound(h, g, d, o) ==
  \A s \in Sites(h) : Match(h, o, s) =>
    \A r \in Serialize(h)[d - 1][s] : r.ok <=> BadIn(h, g[d][o]) = {}

LEMMA RefusedIfBad ==
  ASSUME input.engine = "unreal", NEW h, NEW d \in Nat, NEW o \in Occurrences(h),
         Len(o.way) = d, NEW s \in Sites(h), Match(h, o, s)
  PROVE  Refused(h, s, d - 1) <=> Bad(h, o)
<1>1. Limit = MaxDepth + 1 /\ MaxDepth \in Nat
  BY MaxDepthAssumption DEF Limit
<1>2. TooDeep(d - 1) <=> Len(o.way) > Limit
  BY <1>1 DEF TooDeep
<1>3. ~ Cycles(h, o)
  BY DEF Cycles
<1>4. ~ (h[s.node].kind = "struct" /\ s.address \in s.visited)
  BY DEF Match
<1>5. QED
  BY <1>2, <1>3, <1>4 DEF Refused, Bad

AtomsAreBare(h) == \A n \in DOMAIN h : h[n].kind \in Atoms => h[n].kids = <<>>

LEMMA AtomSound ==
  ASSUME input.engine = "unreal", NEW h, IsHeap(h), AtomsAreBare(h), NEW g, Fans(g, h),
         NEW d \in 1 .. Limit, NEW o \in Occurrences(h), h[o.node].kind \in Atoms
  PROVE  g[d][o] = {o}
<1>1. h[o.node].kids = <<>>
  BY DEF AtomsAreBare, Occurrences
<1>2. Counts(h[o.node]) = {}
  BY <1>1 DEF Counts
<1>3. Beneath(h, o) = {}
  BY <1>2, BeneathIs
<1>4. d \in 0 .. Limit
  BY LimitType
<1>5. g[d][o] = Fan(g, h, d, o)
  BY <1>4 DEF Fans
<1>6. QED
  BY <1>3, <1>5 DEF Fan, Below

\* One value of which every kid is serialized, some way or other.
LEMMA KidsSound ==
  ASSUME input.engine = "unreal", NEW h, IsHeap(h), Apart(h), NEW g, Fans(g, h),
         NEW d \in 1 .. Limit, NEW o \in Occurrences(h), ~ Bad(h, o),
         \A i \in Counts(h[o.node]) : Sound(h, g, d + 1, Child(h, o, i)),
         NEW s \in Sites(h), Match(h, o, s),
         NEW r \in Outs(h[o.node], KidOutcomes(h[o.node], s, Serialize(h)[d]))
  PROVE  r.ok <=> BadIn(h, g[d][o]) = {}
<1> DEFINE v == h[o.node]
           outcomes == KidOutcomes(v, s, Serialize(h)[d])
           B(i) == BadIn(h, g[d + 1][Child(h, o, i)])
<1>0. d \in 0 .. Limit /\ d \in 0 .. MaxDepth + 1 /\ (d + 1) - 1 = d
  BY LimitType, MaxDepthAssumption DEF Limit
<1>1. v \in Value(DOMAIN h) /\ s.node = o.node
  BY DEF IsHeap, Occurrences, Match
<1>2. v.kids \in Seq(Kid(DOMAIN h)) /\ DOMAIN v.kids = 1 .. Len(v.kids) /\ Len(v.kids) \in Nat
  BY <1>1 DEF Value
<1>3. Counts(v) = DOMAIN v.kids
  BY DEF Counts
<1>4. Serialize(h)[d] \in [Sites(h) -> Serialized]
  BY <1>0, SerializeEquation
<1>5. ASSUME NEW i \in DOMAIN v.kids
      PROVE  /\ Inside(v, s, i) \in Sites(h)
             /\ Match(h, Child(h, o, i), Inside(v, s, i))
             /\ outcomes[i] = Serialize(h)[d][Inside(v, s, i)]
             /\ outcomes[i] \in SUBSET Outcomes(Nat)
  <2>1. Inside(v, s, i) \in Sites(h) /\ Match(h, Child(h, o, i), Inside(v, s, i))
    BY <1>3, <1>5, KidMatches
  <2>2. outcomes[i] = Serialize(h)[d][Inside(v, s, i)]
    BY DEF KidOutcomes
  <2>3. QED
    BY <1>4, <2>1, <2>2 DEF Serialized
<1>6. DOMAIN outcomes = 1 .. Len(v.kids)
  BY <1>2 DEF KidOutcomes
<1>7. PICK c \in OneOfEach(outcomes) : r \in Out(v, c)
  BY DEF Outs
<1> HIDE DEF outcomes
<1>8. DOMAIN c = DOMAIN v.kids /\ \A i \in DOMAIN v.kids : c[i] \in outcomes[i]
  <2> DEFINE n == Len(v.kids)
             O == Outcomes(Nat)
  <2>1. n \in Nat /\ DOMAIN outcomes = 1 .. n /\ DOMAIN v.kids = 1 .. n
    BY <1>2, <1>6
  <2>2. \A i \in 1 .. n : outcomes[i] \in SUBSET O
    BY <1>2, <1>5
  <2> HIDE DEF n, O, v
  <2>3. DOMAIN c = 1 .. n /\ \A i \in 1 .. n : c[i] \in outcomes[i]
    BY <2>1, <2>2, OneOfEachType
  <2>4. QED
    BY <2>1, <2>3
<1>9. r.ok <=> \A i \in DOMAIN c : c[i].ok
  <2>1. CASE \A i \in DOMAIN c : c[i].ok
    <3>1. PICK bytes : r = Recorded(bytes)
      BY <1>7, <2>1 DEF Out
    <3>2. QED
      BY <2>1, <3>1 DEF Recorded
  <2>2. CASE ~ \A i \in DOMAIN c : c[i].ok
    <3>1. r = Failed
      BY <1>7, <2>2 DEF Out
    <3>2. QED
      BY <2>2, <3>1 DEF Failed
  <2>3. QED
    BY <2>1, <2>2
<1>10. ASSUME NEW i \in DOMAIN v.kids PROVE c[i].ok <=> B(i) = {}
  <2>1. Sound(h, g, d + 1, Child(h, o, i))
    BY <1>3, <1>10
  <2>2. c[i] \in Serialize(h)[(d + 1) - 1][Inside(v, s, i)]
    BY <1>0, <1>5, <1>8
  <2>3. QED
    BY <1>5, <2>1, <2>2 DEF Sound
<1>11. g[d][o] = {o} \cup UNION {g[d + 1][Child(h, o, i)] : i \in DOMAIN v.kids}
  <2>1. g[d][o] = {o} \cup UNION {g[d + 1][e] : e \in Beneath(h, o)}
    BY <1>0 DEF Fans, Fan, Below
  <2>2. Beneath(h, o) = {Child(h, o, i) : i \in DOMAIN v.kids}
    BY <1>3, BeneathIs
  <2>3. QED
    BY <2>1, <2>2
<1>12. BadIn(h, g[d][o]) = {} <=> \A i \in DOMAIN v.kids : B(i) = {}
  <2> DEFINE G(i) == g[d + 1][Child(h, o, i)]
             K == DOMAIN v.kids
  <2>1. \A i : B(i) = {p \in G(i) : Bad(h, p)}
    BY DEF BadIn
  <2>2. BadIn(h, g[d][o]) = {p \in {o} \cup UNION {G(i) : i \in K} : Bad(h, p)}
    BY <1>11 DEF BadIn
  <2> HIDE DEF G, K, B
  <2>3. QED
    BY <2>1, <2>2 DEF K
<1> HIDE DEF B
<1>13. QED
  BY <1>8, <1>9, <1>10, <1>12

LEMMA SerializedTells ==
  ASSUME input.engine = "unreal", NEW h, IsHeap(h), Apart(h), AtomsAreBare(h),
         NEW g, Fans(g, h), NEW o \in Occurrences(h), Len(o.way) = 1
  PROVE  Sound(h, g, 1, o)
<1> DEFINE N == Limit + 1
           Good(d) == \A q \in Occurrences(h) : Len(q.way) = d => Sound(h, g, d, q)
           T == {d \in 1 .. N : Good(d)}
<1>0. N \in Nat /\ N \in 1 .. N /\ 1 \in 1 .. N /\ Limit \in Nat /\ N = MaxDepth + 2 /\ Limit = MaxDepth + 1
  BY LimitType, MaxDepthAssumption DEF Limit
<1>1. ASSUME NEW d \in 1 .. N, NEW q \in Occurrences(h), Len(q.way) = d,
             d = N \/ Good(d + 1),
             NEW s \in Sites(h), Match(h, q, s), NEW r \in Serialize(h)[d - 1][s]
      PROVE  r.ok <=> BadIn(h, g[d][q]) = {}
  <2> DEFINE deeper == Serialize(h)[d]
  <2>1. d - 1 \in 0 .. MaxDepth + 1 /\ (d - 1) + 1 = d /\ d \in Nat
    BY <1>0, MaxDepthAssumption
  <2>2. Serialize(h)[d - 1] = SerializeValue(h, d - 1, deeper)
    BY <2>1, SerializeEquation
  <2>3. r \in SerializeValue(h, d - 1, deeper)[s]
    BY <1>1, <2>2
  <2>4. Refused(h, s, d - 1) <=> Bad(h, q)
    BY <1>1, <2>1, RefusedIfBad
  <2>5. h[s.node] = h[q.node]
    BY <1>1 DEF Match
  <2>6. q \in g[d][q]
    BY <1>0, <1>1 DEF Fans, Fan
  <2> HIDE DEF deeper
  <2>7. CASE Refused(h, s, d - 1)
    <3>1. r = Failed
      BY <2>3, <2>7, SerializeAt
    <3>2. q \in BadIn(h, g[d][q])
      BY <2>4, <2>6, <2>7 DEF BadIn
    <3>3. QED
      BY <3>1, <3>2 DEF Failed
  <2>8. CASE ~ Refused(h, s, d - 1)
    <3>1. d \in 1 .. Limit
      <4>1. ~ TooDeep(d - 1)
        BY <2>8 DEF Refused
      <4>2. QED
        BY <1>0, <2>1, <4>1, MaxDepthAssumption DEF TooDeep
    <3>2. d # N
      BY <1>0, <3>1
    <3>3. CASE h[q.node].kind \in Atoms
      <4>1. r = Recorded(AtomBytes(h[q.node]))
        BY <2>3, <2>5, <2>8, <3>3, SerializeAt
      <4>2. g[d][q] = {q}
        BY <3>1, <3>3, AtomSound
      <4>3. BadIn(h, g[d][q]) = {}
        BY <2>4, <2>8, <4>2 DEF BadIn
      <4>4. QED
        BY <4>1, <4>3 DEF Recorded
    <3>4. CASE h[q.node].kind \notin Atoms
      <4>1. SerializeValue(h, d - 1, deeper)[s] = Outs(h[q.node], KidOutcomes(h[q.node], s, deeper))
        BY <2>5, <2>8, <3>4, SerializeAt
      <4>2. r \in Outs(h[q.node], KidOutcomes(h[q.node], s, Serialize(h)[d]))
        BY <2>3, <4>1 DEF deeper
      <4>3. ASSUME NEW i \in Counts(h[q.node]) PROVE Sound(h, g, d + 1, Child(h, q, i))
        <5>1. Child(h, q, i) \in Occurrences(h) /\ Child(h, q, i).way = Append(q.way, i)
          BY ChildFacts
        <5>2. q.way \in Seq(Nat)
          BY DEF Occurrences
        <5>3. Len(Child(h, q, i).way) = d + 1
          BY <1>1, <5>1, <5>2
        <5>4. Good(d + 1)
          BY <1>1, <3>2
        <5>5. QED
          BY <5>1, <5>3, <5>4
      <4>4. ~ Bad(h, q)
        BY <2>4, <2>8
      <4> HIDE DEF Good, N
      <4>5. QED
        BY <1>1, <3>1, <4>2, <4>3, <4>4, KidsSound
    <3>5. QED
      BY <3>3, <3>4
  <2>9. QED
    BY <2>7, <2>8
<1>2. ASSUME NEW d \in 1 .. N, d = N \/ Good(d + 1) PROVE Good(d)
  <2> SUFFICES ASSUME NEW q \in Occurrences(h), Len(q.way) = d PROVE Sound(h, g, d, q)
    OBVIOUS
  <2>1. QED
    BY <1>1, <1>2 DEF Sound
<1> HIDE DEF Good
<1>3. N \in T /\ \A d \in 1 .. N - 1 : d + 1 \in T => d \in T
  BY <1>0, <1>2
<1>4. 1 .. N \subseteq T
  <2> HIDE DEF T, N
  <2>1. QED
    BY <1>0, <1>3, DownFrom
<1>5. Good(1)
  BY <1>0, <1>4
<1>6. QED
  BY <1>5 DEF Good

LEMMA FlattenToSet ==
  ASSUME NEW S, NEW ss \in Seq(Seq(S))
  PROVE  ToSet(FlattenSeq(ss)) = UNION {ToSet(ss[i]) : i \in DOMAIN ss}
<1> DEFINE N == Len(ss)
           To(k) == UNION {ToSet(ss[i]) : i \in 1 .. k}
<1>0. N \in Nat /\ DOMAIN ss = 1 .. N /\ \A k \in 1 .. N : ss[k] \in Seq(S)
  OBVIOUS
<1>1. PICK g : Flattens(g, S, ss)
  BY FlattenEquation
<1>2. /\ g \in [0 .. N -> Seq(S)] /\ g[0] = <<>> /\ FlattenSeq(ss) = g[N]
      /\ \A k \in 1 .. N : g[k] = g[k - 1] \o ss[k]
  BY <1>1 DEF Flattens
<1> HIDE DEF N
<1> DEFINE T == {k \in 0 .. N : ToSet(g[k]) = To(k)}
<1>3. 0 \in T
  <2>1. 1 .. 0 = {} /\ 0 \in 0 .. N
    BY <1>0
  <2>2. ToSet(g[0]) = {}
    BY <1>2 DEF ToSet
  <2>3. To(0) = {}
    BY <2>1
  <2>4. QED
    BY <2>1, <2>2, <2>3
<1>4. ASSUME NEW k \in 0 .. N - 1, k \in T PROVE k + 1 \in T
  <2>1. k + 1 \in 1 .. N /\ (k + 1) - 1 = k /\ k \in 0 .. N /\ k + 1 \in 0 .. N
    BY <1>0
  <2>2. g[k + 1] = g[k] \o ss[k + 1] /\ g[k] \in Seq(S) /\ ss[k + 1] \in Seq(S)
    BY <1>0, <1>2, <2>1
  <2>3. ToSet(g[k + 1]) = ToSet(g[k]) \cup ToSet(ss[k + 1])
    BY <2>2, JoinToSet
  <2>4. 1 .. (k + 1) = (1 .. k) \cup {k + 1}
    BY <2>1
  <2>5. To(k + 1) = To(k) \cup ToSet(ss[k + 1])
    BY <2>4
  <2>6. ToSet(g[k]) = To(k)
    BY <1>4
  <2> HIDE DEF To
  <2>7. QED
    BY <2>1, <2>3, <2>5, <2>6
<1> HIDE DEF To
<1>5. 0 .. N \subseteq T
  <2> HIDE DEF T
  <2>1. QED
    BY <1>0, <1>3, <1>4, UpTo
<1>6. N \in 0 .. N
  BY <1>0
<1>7. ToSet(g[N]) = To(N)
  BY <1>5, <1>6
<1>8. QED
  BY <1>0, <1>2, <1>7 DEF To

LEMMA FieldMatches ==
  ASSUME input \in Inputs, NEW b \in Builds, NEW i \in DOMAIN Tracked(b)
  PROVE  /\ FieldSite(Tracked(b)[i]) \in Sites(Heap(b))
         /\ Match(Heap(b), FirstOf(b, i), FieldSite(Tracked(b)[i]))
<1> DEFINE f == Tracked(b)[i]
           h == Heap(b)
           o == FirstOf(b, i)
           s == FieldSite(f)
<1>1. Root \in DOMAIN h /\ h[Root].kind = "object" /\ Tracked(b) \in Seq(Kid(DOMAIN h))
  BY InputFacts, HeapType, HeapNodes, TrackedType
<1>2. f \in Kid(DOMAIN h)
  BY <1>1
<1>3. o.node = f.to
  BY DEF FirstOf, Occurrence
<1> HIDE DEF f, o, h
<1>4. f.to \in DOMAIN h /\ <<f.label>> \in Seq(Nat)
  BY <1>2 DEF Kid
<1>5. s.node = f.to /\ s.address = <<f.label>> /\ s.visited = {}
  BY DEF FieldSite, Site
<1>6. s \in Sites(h)
  BY <1>4 DEF FieldSite, Site, Sites
<1>8. Match(h, o, s)
  BY <1>3, <1>5 DEF Match
<1>9. QED
  BY <1>6, <1>8 DEF f, o, h

LEMMA HeapsApart ==
  ASSUME input \in Inputs, input.engine = "unreal", FirstMembersPlain, NEW b \in Builds
  PROVE  Apart(Heap(b))
<1> SUFFICES ASSUME NEW n \in DOMAIN Heap(b), Heap(b)[n].kind = "struct", Heap(b)[n].kids # <<>>
             PROVE  Heap(b)[Heap(b)[n].kids[1].to].kind # "struct"
  BY DEF Apart
<1> DEFINE h == Heap(b)
           v == h[n]
<1>1. IsHeap(h) /\ DOMAIN h = DOMAIN input.heap
  BY HeapType
<1>2. n # Root
  BY HeapNodes
<1>3. v = input.heap[n]
  <2>1. \A m \in DOMAIN h : h[m].kind = input.heap[m].kind
    BY HeapNodes
  <2>2. ~ Unordered(input.heap[n])
    BY <2>1 DEF Unordered
  <2>3. QED
    BY <1>1, <1>2, <2>2 DEF Heap
<1>4. v.kids[1].to \in DOMAIN h
  <2>1. v \in Value(DOMAIN h)
    BY <1>1 DEF IsHeap
  <2>2. v.kids \in Seq(Kid(DOMAIN h))
    BY <2>1 DEF Value
  <2>3. v.kids[1] \in Kid(DOMAIN h)
    BY <2>2
  <2>4. QED
    BY <2>3 DEF Kid
<1>5. input.heap[v.kids[1].to].kind # "struct"
  BY <1>1, <1>3 DEF FirstMembersPlain
<1>6. h[v.kids[1].to].kind = input.heap[v.kids[1].to].kind
  BY <1>4, HeapNodes
<1>7. QED
  BY <1>5, <1>6

\* The fields that nothing bad lies in.
Whole(b) == {i \in DOMAIN Tracked(b) : \A o \in BadOf(b) : o.way[1] # i}

\* One outcome of each field, and where each of them fails.
LEMMA FieldsSound ==
  ASSUME input \in Inputs, input.engine = "unreal", FirstMembersPlain, NEW b \in Builds,
         NEW c \in OneOfEach(FieldOutcomes(Heap(b), Tracked(b)))
  PROVE  /\ DOMAIN c = DOMAIN Tracked(b)
         /\ \A i \in DOMAIN c : c[i] \in Outcomes(Nat)
         /\ \A i \in DOMAIN c : c[i].ok <=> i \in Whole(b)
         /\ (\A i \in DOMAIN c : c[i].ok) <=> BadOf(b) = {}
<1> DEFINE h == Heap(b)
           fields == Tracked(b)
           K == DOMAIN fields
           outcomes == FieldOutcomes(h, fields)
           n == Len(fields)
           R == Outcomes(Nat)
<1>0. 0 \in 0 .. MaxDepth + 1 /\ 1 \in 1 .. Limit + 1 /\ 1 - 1 = 0
  BY LimitType, MaxDepthAssumption
<1>1. IsHeap(h) /\ fields \in Seq(Kid(DOMAIN h)) /\ K = 1 .. n /\ n \in Nat
  BY HeapType, TrackedType
<1>2. AtomsAreBare(h) /\ Apart(h)
  BY HeapNodes, HeapsApart DEF AtomsAreBare
<1>3. PICK g : Fans(g, h)
  BY <1>1, FansExist
<1> DEFINE B(i) == BadIn(h, g[1][FirstOf(b, i)])
<1>4. ASSUME NEW i \in K
      PROVE  /\ outcomes[i] = Serialize(h)[0][FieldSite(fields[i])]
             /\ outcomes[i] \in SUBSET R
             /\ \A r \in outcomes[i] : r.ok <=> B(i) = {}
  <2> DEFINE s == FieldSite(fields[i])
             o == FirstOf(b, i)
  <2>1. s \in Sites(h) /\ Match(h, o, s)
    BY FieldMatches
  <2>2. outcomes[i] = Serialize(h)[0][s]
    BY DEF FieldOutcomes
  <2>3. Serialize(h)[0] \in [Sites(h) -> Serialized]
    BY <1>0, <1>1, SerializeEquation
  <2>4. o \in Occurrences(h) /\ o.way = <<i>>
    BY FirstType
  <2> HIDE DEF s, o, h, outcomes
  <2>5. Len(o.way) = 1
    BY <2>4
  <2>6. Sound(h, g, 1, o)
    BY <1>1, <1>2, <1>3, <2>4, <2>5, SerializedTells
  <2>7. \A r \in outcomes[i] : r.ok <=> BadIn(h, g[1][o]) = {}
    BY <1>0, <2>1, <2>2, <2>6 DEF Sound
  <2>8. outcomes[i] \in SUBSET R
    BY <2>1, <2>2, <2>3 DEF Serialized
  <2>9. QED
    BY <2>2, <2>7, <2>8 DEF s, o
<1>5. DOMAIN outcomes = 1 .. n
  BY <1>1 DEF FieldOutcomes
<1>6. DOMAIN c = K /\ \A i \in K : c[i] \in outcomes[i]
  <2>1. c \in OneOfEach(outcomes) /\ \A i \in 1 .. n : outcomes[i] \in SUBSET R
    BY <1>1, <1>4
  <2> HIDE DEF n, R, K, outcomes
  <2>2. DOMAIN c = 1 .. n /\ \A i \in 1 .. n : c[i] \in outcomes[i]
    BY <1>1, <1>5, <2>1, OneOfEachType
  <2>3. QED
    BY <1>1, <2>2
<1>7. ASSUME NEW i \in K PROVE c[i] \in R /\ (c[i].ok <=> B(i) = {})
  BY <1>4, <1>6
<1>8. BadOf(b) = UNION {B(i) : i \in K}
  <2> DEFINE G(i) == g[1][FirstOf(b, i)]
  <2>1. BadOf(b) = BadIn(h, Reached(b, g))
    BY <1>3, LevelsSumUp
  <2>2. Reached(b, g) = UNION {G(i) : i \in K}
    BY DEF Reached
  <2>3. \A i : B(i) = {p \in G(i) : Bad(h, p)}
    BY DEF BadIn
  <2> HIDE DEF G, K, B, h
  <2>4. QED
    BY <2>1, <2>2, <2>3 DEF BadIn
<1>9. ASSUME NEW i \in K, NEW p \in B(i) PROVE p.way[1] = i
  <2> DEFINE o == FirstOf(b, i)
  <2>1. o \in Occurrences(h) /\ o.way = <<i>>
    BY FirstType
  <2>2. p \in g[1][o]
    BY DEF BadIn
  <2> HIDE DEF o, h, B
  <2>3. Through(o, p)
    BY <1>0, <1>1, <1>3, <2>1, <2>2, FanGoesThrough
  <2>4. Len(o.way) = 1 /\ o.way[1] = i
    BY <2>1
  <2>5. 1 \in 1 .. Len(o.way)
    BY <2>4
  <2>6. QED
    BY <2>3, <2>4, <2>5 DEF Through
<1> HIDE DEF B, K, R
<1>10. ASSUME NEW i \in K PROVE i \in Whole(b) <=> B(i) = {}
  <2>1. i \in Whole(b) <=> \A p \in BadOf(b) : p.way[1] # i
    BY DEF Whole, K
  <2>2. QED
    BY <1>8, <1>9, <2>1
<1>11. BadOf(b) = {} <=> \A i \in K : B(i) = {}
  BY <1>8
<1>12. QED
  BY <1>6, <1>7, <1>10, <1>11 DEF K, R

LEMMA UnrealIsExact ==
  ASSUME input \in Inputs, input.engine = "unreal", FirstMembersPlain, NEW b \in Builds,
         NEW r \in UnrealWalk(Heap(b), Tracked(b))
  PROVE  /\ r.ok <=> BadOf(b) = {}
         /\ {x[1] : x \in ToSet(r.out)} = {<<Tracked(b)[i].label>> : i \in Whole(b)}
<1> DEFINE fields == Tracked(b)
           K == DOMAIN fields
<1>1. PICK c \in OneOfEach(FieldOutcomes(Heap(b), fields)) : r = FieldOut(fields, c)
  BY UnrealWalkIs
<1>2. /\ DOMAIN c = K
      /\ \A i \in K : c[i] \in Outcomes(Nat)
      /\ \A i \in K : c[i].ok <=> i \in Whole(b)
      /\ (\A i \in K : c[i].ok) <=> BadOf(b) = {}
  BY FieldsSound
<1> DEFINE record(i) == << <<fields[i].label>>, c[i].out>>
           ss == [i \in DOMAIN c |-> IF c[i].ok THEN <<record(i)>> ELSE <<>>]
<1>3. r.ok = (\A i \in DOMAIN c : c[i].ok) /\ r.out = FlattenSeq(ss)
  BY <1>1 DEF FieldOut
<1>4. K = 1 .. Len(fields) /\ Len(fields) \in Nat /\ Whole(b) \subseteq K
  BY TrackedType DEF Whole
<1> HIDE DEF record, fields, K
<1> DEFINE S == {record(i) : i \in K}
<1>5. ss \in Seq(Seq(S)) /\ DOMAIN ss = K
  <2>1. ASSUME NEW i \in K PROVE <<record(i)>> \in Seq(S) /\ <<>> \in Seq(S)
    <3>1. record(i) \in S
      OBVIOUS
    <3> HIDE DEF S
    <3>2. QED
      BY <3>1
  <2> HIDE DEF S
  <2>2. ASSUME NEW i \in K PROVE ss[i] \in Seq(S)
    BY <1>2, <2>1
  <2>3. ss = [i \in K |-> ss[i]]
    BY <1>2
  <2> HIDE DEF ss
  <2>4. QED
    BY <1>4, <2>2, <2>3
<1> HIDE DEF S
<1>6. ToSet(r.out) = UNION {ToSet(ss[i]) : i \in K}
  BY <1>3, <1>5, FlattenToSet
<1>7. ASSUME NEW i \in K
      PROVE  ToSet(ss[i]) = IF i \in Whole(b) THEN {record(i)} ELSE {}
  <2>1. ASSUME NEW x PROVE ToSet(<<x>>) = {x} /\ ToSet(<<>>) = {}
    BY DEF ToSet
  <2>2. ss[i] = IF i \in Whole(b) THEN <<record(i)>> ELSE <<>>
    BY <1>2
  <2> HIDE DEF ss
  <2>3. QED
    BY <2>1, <2>2
<1> HIDE DEF ss
<1> DEFINE Z == ToSet(r.out)
           W == Whole(b)
           lab(i) == <<fields[i].label>>
           A(i) == ToSet(ss[i])
<1>8. Z = {record(i) : i \in W}
  <2>1. Z = UNION {A(i) : i \in K}
    BY <1>6
  <2>2. \A i \in K : A(i) = IF i \in W THEN {record(i)} ELSE {}
    BY <1>7
  <2>3. W \subseteq K
    BY <1>4
  <2> HIDE DEF Z, W, A
  <2>4. ASSUME NEW x \in Z PROVE \E i \in W : x = record(i)
    <3>1. PICK i \in K : x \in A(i)
      BY <2>1
    <3>2. QED
      BY <2>2, <3>1
  <2>5. ASSUME NEW i \in W PROVE record(i) \in Z
    BY <2>1, <2>2, <2>3
  <2>6. QED
    BY <2>4, <2>5
<1>9. \A i : record(i)[1] = lab(i)
  BY DEF record
<1>10. {x[1] : x \in Z} = {lab(i) : i \in W}
  <2> HIDE DEF Z, W, lab
  <2>1. ASSUME NEW y \in {x[1] : x \in Z} PROVE y \in {lab(i) : i \in W}
    <3>1. PICK x \in Z : y = x[1]
      OBVIOUS
    <3>2. PICK i \in W : x = record(i)
      BY <1>8
    <3>3. y = lab(i)
      BY <1>9, <3>1, <3>2
    <3>4. QED
      BY <3>3
  <2>2. ASSUME NEW i \in W PROVE lab(i) \in {x[1] : x \in Z}
    <3>1. record(i) \in Z
      BY <1>8
    <3>2. lab(i) = record(i)[1]
      BY <1>9
    <3>3. QED
      BY <3>1, <3>2
  <2>3. QED
    BY <2>1, <2>2
<1>11. r.ok <=> BadOf(b) = {}
  BY <1>2, <1>3
<1>12. QED
  BY <1>10, <1>11 DEF fields

(* A walk fails exactly if a tracked path is too long or a cycle, and      *)
(* records every leaf that is due once and nothing that is not (walk in    *)
(* bevy.rs and in foldback-godot's reflection.rs, Walk in                  *)
(* FoldbackReflection.cs); in Unreal, where the keys of a TMap are walked  *)
(* as its values are, the fields that fail, and no other, are left out     *)
(* (HashTaggedFields in FoldbackReflection.cpp), if no struct is another's *)
(* first member.                                                           *)
THEOREM WalkIsExactCorrect == Spec => []WalkIsExact
<1>1. ASSUME IInv PROVE WalkIsExact
  <2>1. input \in Inputs /\ LastIsAWalk
    BY <1>1 DEF IInv, Types
  <2> SUFFICES ASSUME NEW b \in Builds, input.engine # "manual", calls[b] > 0, ~ refused[b],
                      input.engine = "unreal" => FirstMembersPlain
               PROVE  /\ last[b].ok <=> BadOf(b) = {}
                      /\ input.engine = "unreal" =>
                           {r[1] : r \in ToSet(last[b].out)}
                             = {<<Tracked(b)[i].label>> : i \in Whole(b)}
                      /\ input.engine # "unreal" =>
                           /\ ToSet(last[b].out) \subseteq RecordsOf(DueOf(b))
                           /\ last[b].ok => /\ ToSet(last[b].out) = RecordsOf(DueOf(b))
                                            /\ Len(last[b].out) = Cardinality(DueOf(b))
    BY DEF WalkIsExact, BadOf, DueOf, AllOf, Whole, RecordsOf
  <2>2. last[b] \in Walks(b)
    BY <2>1 DEF LastIsAWalk
  <2>3. input.engine \in {"bevy", "godot", "unity", "unreal"}
    BY <2>1, InputFacts DEF Engines, Kinds
  <2>4. CASE input.engine = "unreal"
    <3>1. last[b] \in UnrealWalk(Heap(b), Tracked(b))
      BY <2>2, <2>4 DEF Walks
    <3>2. QED
      BY <2>1, <2>4, <3>1, UnrealIsExact
  <2>5. CASE input.engine # "unreal"
    <3>1. Exact(last[b], BadOf(b), DueOf(b))
      BY <2>1, <2>2, <2>3, <2>5, ReflectiveIsExact
    <3>2. QED
      BY <2>5, <3>1 DEF Exact
  <2>6. QED
    BY <2>4, <2>5
<1>2. QED
  BY <1>1, AlwaysGood, PTL
=============================================================================
