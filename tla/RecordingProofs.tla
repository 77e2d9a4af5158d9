--------------------------- MODULE RecordingProofs ---------------------------
(***************************************************************************)
(* What a cut recording reads as, for any frames, any buffer and any       *)
(* number of calls: the recording's invariants, on the lemmas that say     *)
(* what the reader makes of a prefix of encoded frames.                    *)
(***************************************************************************)
EXTENDS Recording, SequenceTheorems, WellFoundedInduction, TLAPS

\* A set of natural numbers that is not empty has a least element.
LEMMA Least ==
  ASSUME NEW U \in SUBSET Nat, U # {}
  PROVE  \E n \in U : \A m \in U : n <= m
<1>1. PICK n \in U : \A m \in U : ~ (<<m, n>> \in OpToRel(<, Nat))
  BY NatLessThanWellFounded, WFMin
<1>2. \A m \in U : ~ (m < n) /\ m \in Nat /\ n \in Nat
  BY <1>1 DEF OpToRel
<1>3. QED
  BY <1>2

\* Induction up to n.
LEMMA UpTo ==
  ASSUME NEW n \in Nat, NEW T,
         0 \in T, \A k \in 0 .. n - 1 : k \in T => k + 1 \in T
  PROVE  0 .. n \subseteq T
<1> DEFINE U == (0 .. n) \ T
<1>1. SUFFICES ASSUME U # {} PROVE FALSE
  OBVIOUS
<1>2. PICK x \in U : \A y \in U : x <= y
  <2>1. U \in SUBSET Nat
    OBVIOUS
  <2> HIDE DEF U
  <2>2. QED
    BY <1>1, <2>1, Least
<1>3. x - 1 \in 0 .. n - 1 /\ (x - 1) + 1 = x
  OBVIOUS
<1>4. x - 1 \in U
  BY <1>3
<1>5. QED
  BY <1>2, <1>3, <1>4

\* Induction from n down to 1.
LEMMA DownFrom ==
  ASSUME NEW n \in Nat, NEW T,
         n \in T, \A k \in 1 .. n - 1 : k + 1 \in T => k \in T
  PROVE  1 .. n \subseteq T
<1> DEFINE S == {k \in 0 .. n : n - k \in T \/ n - k = 0}
<1>1. 0 \in S
  OBVIOUS
<1>2. ASSUME NEW k \in 0 .. n - 1, k \in S PROVE k + 1 \in S
  <2>1. CASE n - (k + 1) = 0
    BY <2>1
  <2>2. CASE n - (k + 1) # 0
    <3>1. n - (k + 1) \in 1 .. n - 1 /\ (n - (k + 1)) + 1 = n - k /\ n - k # 0
      BY <2>2
    <3>2. n - k \in T
      BY <1>2, <3>1
    <3>3. n - (k + 1) \in T
      BY <3>1, <3>2
    <3>4. QED
      BY <3>3
  <2>3. QED
    BY <2>1, <2>2
<1>3. 0 .. n \subseteq S
  <2> HIDE DEF S
  <2>1. QED
    BY <1>1, <1>2, UpTo
<1>4. ASSUME NEW i \in 1 .. n PROVE i \in T
  <2>1. n - i \in 0 .. n /\ n - (n - i) = i
    OBVIOUS
  <2>2. n - i \in S
    BY <1>3, <2>1
  <2>3. QED
    BY <2>1, <2>2
<1>5. QED
  BY <1>4

-----------------------------------------------------------------------------
ValidFrame(f) ==
  \/ /\ f.type = TYPE_TICK_HASH
     /\ f = TickHash(f.tick, f.peer, f.hash)
     /\ f.tick \in Nat /\ f.peer \in Nat /\ f.hash \in Nat
  \/ /\ f.type = TYPE_METADATA
     /\ f = Metadata(f.key, f.value)
     /\ f.key \in Nat /\ f.value \in Seq(Nat)
  \/ f = EndOfStream

----------------------------------------------------------------------------
(* The reader *)

\* A frame's payload decodes to the frame.
LEMMA DecodeEncode ==
  ASSUME NEW f, ValidFrame(f)
  PROVE  /\ encode_payload(f) \in Seq(Nat) /\ f.type \in Nat
         /\ ~ Malformed(f.type, encode_payload(f))
         /\ Known(f.type)
         /\ decode_payload(f.type, encode_payload(f)) = f
<1> USE DEF TYPE_TICK_HASH, TYPE_METADATA, TYPE_END_OF_STREAM
<1>1. CASE /\ f.type = TYPE_TICK_HASH /\ f = TickHash(f.tick, f.peer, f.hash)
           /\ f.tick \in Nat /\ f.peer \in Nat /\ f.hash \in Nat
  <2>1. encode_payload(f) = <<f.tick, f.peer, f.hash>>
    BY <1>1 DEF encode_payload
  <2>2. QED
    BY <1>1, <2>1 DEF Malformed, Known, decode_payload
<1>2. CASE /\ f.type = TYPE_METADATA /\ f = Metadata(f.key, f.value)
           /\ f.key \in Nat /\ f.value \in Seq(Nat)
  <2> DEFINE v == f.value
             e == <<f.key, Len(v)>> \o v
  <2>1. encode_payload(f) = e
    BY <1>2 DEF encode_payload
  <2>2. v \in Seq(Nat) /\ Len(v) \in Nat
    BY <1>2
  <2>3. e \in Seq(Nat) /\ Len(e) = 2 + Len(v) /\ e[1] = f.key /\ e[2] = Len(v)
        /\ \A i \in 1 .. Len(v) : e[2 + i] = v[i]
    BY <1>2, <2>2
  <2>4. SubSeq(e, 3, 2 + e[2]) = v
    <3> HIDE DEF e, v
    <3>1. SubSeq(e, 3, 2 + Len(v)) \in Seq(Nat) /\ Len(SubSeq(e, 3, 2 + Len(v))) = Len(v)
          /\ \A i \in 1 .. Len(v) : SubSeq(e, 3, 2 + Len(v))[i] = e[2 + i]
      BY <2>2, <2>3
    <3>2. QED
      BY <2>2, <2>3, <3>1
  <2> HIDE DEF e
  <2>5. ~ Malformed(f.type, e) /\ Known(f.type)
    BY <1>2, <2>2, <2>3 DEF Malformed, Known
  <2>6. decode_payload(f.type, e) = Metadata(e[1], SubSeq(e, 3, 2 + e[2]))
    BY <1>2 DEF decode_payload
  <2>7. decode_payload(f.type, e) = f
    BY <1>2, <2>3, <2>4, <2>6
  <2>8. QED
    BY <1>2, <2>1, <2>3, <2>5, <2>7
<1>3. CASE f = EndOfStream
  BY <1>3 DEF EndOfStream, encode_payload, Malformed, Known, decode_payload
<1>4. QED
  BY <1>1, <1>2, <1>3 DEF ValidFrame

Body(cells, g, i) ==
  IF Truncated(cells, i) THEN Yield(<< >>, FALSE)
  ELSE Then(cells, i, g[After(cells, i)])

\* The reader goes forward.
LEMMA AfterIsLater ==
  ASSUME NEW cells \in Seq(Nat), NEW i \in 1 .. Len(cells) + 1
  PROVE  /\ i = Len(cells) + 1 => Truncated(cells, i)
         /\ ~ Truncated(cells, i) => After(cells, i) \in i + 1 .. Len(cells) + 1
BY DEF Truncated, After

\* g says of every cell from k on what the iteration yields from there.
FixedFrom(cells, g, k) ==
  /\ g = [i \in 1 .. Len(cells) + 1 |-> g[i]]
  /\ \A i \in k .. Len(cells) + 1 : g[i] = Body(cells, g, i)

\* The iteration is what its recursive definition says.
LEMMA ReadEquation ==
  ASSUME NEW cells \in Seq(Nat)
  PROVE  \A i \in 1 .. Len(cells) + 1 :
           ReadFrom(cells)[i] = Body(cells, ReadFrom(cells), i)
<1> DEFINE n == Len(cells) + 1
           T == {k \in 1 .. n : \E g : FixedFrom(cells, g, k)}
<1>1. n \in Nat /\ n >= 1 /\ n = Len(cells) + 1
  OBVIOUS
<1>2. n \in T
  <2> DEFINE g == [i \in 1 .. n |-> Yield(<< >>, FALSE)]
  <2>1. g = [i \in 1 .. n |-> g[i]] /\ g[n] = Yield(<< >>, FALSE)
    BY <1>1
  <2> HIDE DEF g
  <2>2. Truncated(cells, n)
    BY <1>1, AfterIsLater
  <2>3. \A i \in n .. n : g[i] = Body(cells, g, i)
    <3>1. Body(cells, g, n) = Yield(<< >>, FALSE)
      BY <2>2 DEF Body
    <3>2. \A i \in n .. n : i = n
      BY <1>1
    <3>3. QED
      BY <2>1, <3>1, <3>2
  <2>4. FixedFrom(cells, g, n)
    BY <2>1, <2>3 DEF FixedFrom
  <2>5. QED
    BY <1>1, <2>4
<1>3. ASSUME NEW k \in 1 .. n - 1, k + 1 \in T PROVE k \in T
  <2>1. PICK g : FixedFrom(cells, g, k + 1)
    BY <1>3
  <2> DEFINE h == [i \in 1 .. n |-> IF i = k THEN Body(cells, g, k) ELSE g[i]]
  <2>2. /\ h = [i \in 1 .. n |-> h[i]] /\ h[k] = Body(cells, g, k)
        /\ \A i \in 1 .. n : i # k => h[i] = g[i]
    BY <1>1
  <2> HIDE DEF h
  <2>3. ASSUME NEW i \in k .. n PROVE Body(cells, h, i) = Body(cells, g, i)
    <3>1. CASE Truncated(cells, i)
      BY <3>1 DEF Body
    <3>2. CASE ~ Truncated(cells, i)
      <4>1. After(cells, i) \in i + 1 .. n
        BY <1>1, <3>2, AfterIsLater
      <4>2. h[After(cells, i)] = g[After(cells, i)]
        BY <1>1, <2>2, <4>1
      <4>3. QED
        BY <3>2, <4>2 DEF Body
    <3>3. QED
      BY <3>1, <3>2
  <2>4. \A i \in k .. n : h[i] = Body(cells, h, i)
    <3> SUFFICES ASSUME NEW i \in k .. n PROVE h[i] = Body(cells, h, i)
      OBVIOUS
    <3>1. CASE i = k
      BY <2>2, <2>3, <3>1
    <3>2. CASE i # k
      <4>1. i \in k + 1 .. n /\ i \in 1 .. n
        BY <1>1, <3>2
      <4>2. g[i] = Body(cells, g, i)
        BY <1>1, <2>1, <4>1 DEF FixedFrom
      <4>3. QED
        BY <2>2, <2>3, <3>2, <4>1, <4>2
    <3>3. QED
      BY <3>1, <3>2
  <2>5. FixedFrom(cells, h, k)
    BY <2>2, <2>4 DEF FixedFrom
  <2>6. QED
    BY <1>1, <2>5
<1>4. 1 \in T
  <2> HIDE DEF T, n
  <2>1. QED
    BY <1>1, <1>2, <1>3, DownFrom
<1>5. PICK g : g = [i \in 1 .. n |-> Body(cells, g, i)]
  <2>1. PICK g : FixedFrom(cells, g, 1)
    BY <1>4
  <2>2. g = [i \in 1 .. n |-> g[i]] /\ \A i \in 1 .. n : g[i] = Body(cells, g, i)
    BY <2>1 DEF FixedFrom
  <2>3. g = [i \in 1 .. n |-> Body(cells, g, i)]
    BY <2>2
  <2>4. QED
    BY <2>3
<1>6. ReadFrom(cells) = CHOOSE From : From = [i \in 1 .. n |-> Body(cells, From, i)]
  BY DEF ReadFrom, Body
<1>7. ReadFrom(cells) = [i \in 1 .. n |-> Body(cells, ReadFrom(cells), i)]
  BY <1>5, <1>6
<1>8. QED
  BY <1>7

----------------------------------------------------------------------------
(* Frames behind a header *)

AllFrames == Frames \cup {EndOfStream}

LEMMA FramesAreValid == \A f \in AllFrames : ValidFrame(f)
BY FramesAssumption DEF AllFrames, ValidFrame

\* Cells p to q of what follows the header are the frame f.
Placed(log, f, p, q) ==
  /\ q = p + 2 + Len(encode_payload(f))
  /\ log[p + 1] = f.type
  /\ log[p + 2] = Len(encode_payload(f))
  /\ \A j \in 1 .. Len(encode_payload(f)) : log[p + 2 + j] = encode_payload(f)[j]

\* log begins with the header and these frames, of which the i-th begins at
\* at[i]; what comes after the last one is another matter.
Layout(log, frames, at) ==
  LET last == at[Len(frames) + 1]
  IN  /\ log[1] = HeaderCell
      /\ at \in [1 .. Len(frames) + 1 -> Nat] /\ at[1] = 1
      /\ \A i \in 1 .. Len(frames) + 1 : 1 <= at[i] /\ at[i] <= last
      /\ last <= Len(log)
      /\ \A i \in 1 .. Len(frames) : Placed(log, frames[i], at[i], at[i + 1])

\* The reader at the beginning of a frame that is wholly there yields it and
\* goes on behind it.
LEMMA ReadPlaced ==
  ASSUME NEW cells \in Seq(Nat), NEW f \in AllFrames, NEW p \in 1 .. Len(cells) + 1,
         NEW q \in 1 .. Len(cells) + 1,
         NEW log, Placed(log, f, p, q),
         \A c \in 1 .. Len(cells) : cells[c] = log[c + 1]
  PROVE  ReadFrom(cells)[p] =
           Yield(<<f>> \o ReadFrom(cells)[q].frames, ReadFrom(cells)[q].malformed)
<1> DEFINE e == encode_payload(f)
<1>1. /\ e \in Seq(Nat) /\ f.type \in Nat /\ ~ Malformed(f.type, e)
      /\ Known(f.type) /\ decode_payload(f.type, e) = f
  BY FramesAreValid, DecodeEncode
<1>2. Len(e) \in Nat /\ q = p + 2 + Len(e) /\ q <= Len(cells) + 1
  BY <1>1 DEF Placed
<1>3. /\ cells[p] = f.type /\ cells[p + 1] = Len(e)
      /\ \A j \in 1 .. Len(e) : cells[p + 1 + j] = e[j]
  <2>1. p \in 1 .. Len(cells) /\ p + 1 \in 1 .. Len(cells)
    BY <1>2
  <2>2. \A j \in 1 .. Len(e) : p + 1 + j \in 1 .. Len(cells) /\ (p + 1 + j) + 1 = p + 2 + j
    BY <1>2
  <2>3. (p + 1) + 1 = p + 2
    OBVIOUS
  <2>4. QED
    BY <2>1, <2>2, <2>3 DEF Placed
<1>4. After(cells, p) = q /\ ~ Truncated(cells, p)
  BY <1>2, <1>3 DEF After, Truncated
<1> HIDE DEF e
<1>5. Payload(cells, p) = e
  <2> DEFINE r == SubSeq(cells, p + 2, p + 1 + Len(e))
  <2>1. /\ r \in Seq(Nat) /\ Len(r) = Len(e)
        /\ \A j \in 1 .. Len(e) : r[j] = cells[p + 1 + j]
    BY <1>2
  <2> HIDE DEF r
  <2>2. r = e
    BY <1>1, <1>3, <2>1, SeqEqual
  <2>3. QED
    BY <1>3, <2>2 DEF Payload, r
<1>6. ReadFrom(cells)[p] = Then(cells, p, ReadFrom(cells)[q])
  BY <1>4, ReadEquation DEF Body
<1>7. QED
  BY <1>1, <1>3, <1>5, <1>6 DEF Then

\* A file cut where it may be reads as the first of its frames, and as all of
\* them if none is cut.
LEMMA ReadPrefix ==
  ASSUME NEW frames \in Seq(AllFrames), NEW log, NEW at, Layout(log, frames, at),
         Len(log) \in Nat,
         NEW cells \in Seq(Nat), Len(cells) <= at[Len(frames) + 1],
         \A c \in 1 .. Len(cells) : cells[c] = log[c + 1]
  PROVE  \E j \in 0 .. Len(frames) :
           /\ ReadFrames(cells) = Yield(SubSeq(frames, 1, j), FALSE)
           /\ Len(cells) + 1 >= at[Len(frames) + 1] => j = Len(frames)
<1> DEFINE m == Len(frames)
           d == Len(cells) + 1
           last == at[m + 1]
           Reads(i, j) == /\ ReadFrom(cells)[at[i]] = Yield(SubSeq(frames, i, j), FALSE)
                          /\ d >= last => j = m
           T == {i \in 1 .. m + 1 : at[i] <= d => \E j \in i - 1 .. m : Reads(i, j)}
<1>1. /\ m \in Nat /\ Len(cells) \in Nat /\ d = Len(cells) + 1
      /\ at[1] = 1 /\ last = at[m + 1] /\ last \in Nat
      /\ \A i \in 1 .. m + 1 : at[i] \in Nat /\ 1 <= at[i] /\ at[i] <= last
      /\ d <= last + 1
      /\ \A i \in 1 .. m : frames[i] \in AllFrames /\ Placed(log, frames[i], at[i], at[i + 1])
  <2>1. m \in Nat /\ m + 1 \in 1 .. m + 1 /\ Len(cells) \in Nat
    OBVIOUS
  <2>2. /\ at \in [1 .. Len(frames) + 1 -> Nat] /\ at[1] = 1
        /\ \A i \in 1 .. Len(frames) + 1 : 1 <= at[i] /\ at[i] <= at[Len(frames) + 1]
        /\ \A i \in 1 .. Len(frames) : Placed(log, frames[i], at[i], at[i + 1])
    BY DEF Layout
  <2>3. \A i \in 1 .. m + 1 : at[i] \in Nat
    BY <2>2
  <2>4. \A i \in 1 .. m : frames[i] \in AllFrames
    OBVIOUS
  <2>5. last \in Nat /\ d <= last + 1
    BY <2>1, <2>3
  <2>6. QED
    BY <2>1, <2>2, <2>3, <2>4, <2>5
<1>t. /\ \A i \in 1 .. m + 1 : i \in T <=> (at[i] <= d => \E j \in i - 1 .. m : Reads(i, j))
      /\ T \subseteq 1 .. m + 1
  OBVIOUS
<1>r. \A i, j : Reads(i, j) <=>
        /\ ReadFrom(cells)[at[i]] = Yield(SubSeq(frames, i, j), FALSE)
        /\ d >= last => j = m
  OBVIOUS
<1>z. ReadFrames(cells) = ReadFrom(cells)[1]
  BY DEF ReadFrames
<1> SUFFICES \E j \in 0 .. m : Reads(1, j)
  BY <1>1, <1>z
<1> HIDE DEF T, Reads, m, d, last
<1>2. ASSUME NEW i \in 1 .. m + 1, at[i] <= d, Truncated(cells, at[i]),
             i <= m => at[i + 1] > d
      PROVE  \E j \in i - 1 .. m : Reads(i, j)
  <2>1. at[i] \in 1 .. Len(cells) + 1
    BY <1>1, <1>2
  <2>2. ReadFrom(cells)[at[i]] = Yield(<< >>, FALSE)
    BY <1>2, <2>1, ReadEquation DEF Body
  <2>3. SubSeq(frames, i, i - 1) = << >>
    BY <1>1, SubSeqEmpty
  <2>4. d >= last => i - 1 = m
    <3>1. CASE i = m + 1
      BY <1>1, <3>1
    <3>2. CASE i # m + 1
      <4>1. i + 1 \in 1 .. m + 1 /\ i <= m
        BY <1>1, <3>2
      <4>2. at[i + 1] <= last /\ at[i + 1] > d /\ at[i + 1] \in Nat
        BY <1>1, <1>2, <4>1
      <4>3. QED
        BY <1>1, <4>2
    <3>3. QED
      BY <3>1, <3>2
  <2>5. i - 1 \in i - 1 .. m
    BY <1>1
  <2>6. Reads(i, i - 1)
    BY <1>r, <2>2, <2>3, <2>4
  <2>7. QED
    BY <2>5, <2>6
<1>3. m + 1 \in T
  <2>1. m + 1 \in 1 .. m + 1 /\ ~ (m + 1 <= m)
    BY <1>1
  <2>2. Truncated(cells, at[m + 1])
    BY <1>1 DEF Truncated
  <2>3. at[m + 1] <= d => \E j \in (m + 1) - 1 .. m : Reads(m + 1, j)
    BY <1>2, <2>1, <2>2
  <2>4. QED
    BY <1>t, <2>1, <2>3
<1>4. ASSUME NEW i \in 1 .. (m + 1) - 1, i + 1 \in T PROVE i \in T
  <2>1. /\ i \in 1 .. m /\ i \in 1 .. m + 1 /\ i + 1 \in 1 .. m + 1
        /\ (i + 1) - 1 = i
    BY <1>1
  <2>2. frames[i] \in AllFrames /\ Placed(log, frames[i], at[i], at[i + 1])
    BY <1>1, <2>1
  <2>3. ASSUME at[i] <= d PROVE \E j \in i - 1 .. m : Reads(i, j)
    <3>1. at[i] \in 1 .. Len(cells) + 1
      BY <1>1, <2>1, <2>3
    <3>2. CASE at[i + 1] > d
      <4>1. Truncated(cells, at[i])
        <5> DEFINE e == encode_payload(frames[i])
                   p == at[i]
        <5>1. Len(e) \in Nat
          BY <2>2, FramesAreValid, DecodeEncode
        <5>2. at[i + 1] = p + 2 + Len(e) /\ log[p + 2] = Len(e)
          BY <2>2 DEF Placed
        <5>3. p + 1 <= Len(cells) => cells[p + 1] = Len(e)
          <6>1. p + 1 <= Len(cells) => p + 1 \in 1 .. Len(cells) /\ (p + 1) + 1 = p + 2
            BY SMTT(20), <3>1
          <6>2. QED
            BY <5>2, <6>1
        <5>4. p + 2 + Len(e) > Len(cells) + 1
          BY <1>1, <3>2, <5>2
        <5> HIDE DEF e, p
        <5>p. p \in 1 .. Len(cells) + 1
          BY <3>1 DEF p
        <5>5. CASE p + 1 > Len(cells)
          BY <5>5 DEF Truncated, p
        <5>6. CASE p + 1 <= Len(cells)
          <6>1. After(cells, p) = p + 2 + Len(e)
            BY <5>3, <5>6 DEF After
          <6>2. After(cells, p) > Len(cells) + 1
            BY <5>4, <6>1
          <6>3. QED
            BY <6>2 DEF Truncated, p
        <5>7. QED
          BY <1>1, <5>p, <5>5, <5>6
      <4>2. QED
        BY <1>2, <2>1, <2>3, <3>2, <4>1
    <3>3. CASE at[i + 1] <= d
      <4>1. PICK j \in i .. m : Reads(i + 1, j)
        <5>1. \E j \in (i + 1) - 1 .. m : Reads(i + 1, j)
          BY <1>4, <1>t, <2>1, <3>3
        <5>2. QED
          BY <2>1, <5>1
      <4>2. at[i + 1] \in 1 .. Len(cells) + 1
        BY <1>1, <2>1, <3>3
      <4>3. ReadFrom(cells)[at[i]] =
              Yield(<<frames[i]>> \o ReadFrom(cells)[at[i + 1]].frames,
                    ReadFrom(cells)[at[i + 1]].malformed)
        <5> DEFINE f == frames[i]
                   p == at[i]
                   q == at[i + 1]
        <5>1. /\ f \in AllFrames /\ Placed(log, f, p, q)
              /\ p \in 1 .. Len(cells) + 1 /\ q \in 1 .. Len(cells) + 1
              /\ \A c \in 1 .. Len(cells) : cells[c] = log[c + 1]
          BY <2>2, <3>1, <4>2
        <5> HIDE DEF f, p, q
        <5>2. ReadFrom(cells)[p] =
                Yield(<<f>> \o ReadFrom(cells)[q].frames, ReadFrom(cells)[q].malformed)
          BY <5>1, ReadPlaced
        <5>3. QED
          BY <5>2 DEF f, p, q
      <4>4. /\ ReadFrom(cells)[at[i + 1]].frames = SubSeq(frames, i + 1, j)
            /\ ReadFrom(cells)[at[i + 1]].malformed = FALSE
        <5>1. ReadFrom(cells)[at[i + 1]] = Yield(SubSeq(frames, i + 1, j), FALSE)
          BY <1>r, <4>1
        <5>2. QED
          BY ONLY <5>1 DEF Yield
      <4>5. <<frames[i]>> \o SubSeq(frames, i + 1, j) = SubSeq(frames, i, j)
        BY <1>1, <2>1, <4>1, SubSeqRecursiveFirst DEF m
      <4>6. d >= last => j = m
        BY <1>r, <4>1
      <4>7. Reads(i, j)
        BY <1>r, <4>3, <4>4, <4>5, <4>6
      <4>8. j \in i - 1 .. m
        BY <1>1, <2>1
      <4>9. QED
        BY <4>7, <4>8
    <3>4. at[i + 1] \in Nat
      BY <1>1, <2>1
    <3>5. QED
      BY <1>1, <3>2, <3>3, <3>4
  <2>4. QED
    BY <1>t, <2>1, <2>3
<1>5. 1 \in T
  <2>1. m + 1 \in Nat /\ 1 \in 1 .. m + 1
    BY <1>1
  <2>2. 1 .. m + 1 \subseteq T
    <3> DEFINE k == m + 1
    <3>1. k \in Nat /\ k \in T /\ \A i \in 1 .. k - 1 : i + 1 \in T => i \in T
      BY <1>3, <1>4, <2>1
    <3> HIDE DEF k
    <3>2. 1 .. k \subseteq T
      BY <3>1, DownFrom
    <3>3. QED
      BY <3>2 DEF k
  <2>3. QED
    BY <2>1, <2>2
<1>6. at[1] <= d /\ 1 \in 1 .. m + 1 /\ 1 - 1 = 0
  BY <1>1
<1>7. QED
  BY <1>t, <1>5, <1>6

----------------------------------------------------------------------------
(* Layouts *)

\* Where the last frame of a layout ends.
End(frames, at) == at[Len(frames) + 1]

\* A layout depends on no cell behind its end.
LEMMA LayoutExtends ==
  ASSUME NEW frames \in Seq(AllFrames), NEW log, NEW at, Layout(log, frames, at),
         NEW longer, Len(longer) \in Nat, End(frames, at) <= Len(longer),
         \A c \in 1 .. End(frames, at) : longer[c] = log[c]
  PROVE  Layout(longer, frames, at)
<1> DEFINE m == Len(frames)
           last == at[Len(frames) + 1]
<1>1. /\ m \in Nat /\ last \in Nat /\ 1 <= last
      /\ \A i \in 1 .. m + 1 : at[i] \in Nat /\ 1 <= at[i] /\ at[i] <= last
      /\ \A i \in 1 .. m : Placed(log, frames[i], at[i], at[i + 1])
      /\ \A i \in 1 .. m : frames[i] \in AllFrames
  <2>1. /\ at \in [1 .. Len(frames) + 1 -> Nat]
        /\ \A i \in 1 .. Len(frames) + 1 : 1 <= at[i] /\ at[i] <= at[Len(frames) + 1]
        /\ \A i \in 1 .. Len(frames) : Placed(log, frames[i], at[i], at[i + 1])
    BY DEF Layout
  <2>2. m \in Nat /\ m + 1 \in 1 .. m + 1
    OBVIOUS
  <2>3. \A i \in 1 .. m + 1 : at[i] \in Nat
    BY <2>1
  <2>4. \A i \in 1 .. m : frames[i] \in AllFrames
    OBVIOUS
  <2>5. last \in Nat /\ 1 <= last
    BY <2>1, <2>2, <2>3
  <2>6. QED
    BY <2>1, <2>2, <2>3, <2>4, <2>5
<1>2. \A c \in 1 .. last : longer[c] = log[c]
  BY DEF End
<1> HIDE DEF m, last
<1>3. ASSUME NEW i \in 1 .. m PROVE Placed(longer, frames[i], at[i], at[i + 1])
  <2> DEFINE e == encode_payload(frames[i])
             p == at[i]
             q == at[i + 1]
  <2>1. p \in Nat /\ 1 <= p /\ q \in Nat /\ q <= last
    <3>1. i \in 1 .. m + 1 /\ i + 1 \in 1 .. m + 1
      BY <1>1
    <3>2. QED
      BY <1>1, <3>1
  <2>2. /\ q = p + 2 + Len(e) /\ log[p + 1] = frames[i].type /\ log[p + 2] = Len(e)
        /\ \A j \in 1 .. Len(e) : log[p + 2 + j] = e[j]
    BY <1>1 DEF Placed
  <2>3. Len(e) \in Nat
    BY <1>1, FramesAreValid, DecodeEncode
  <2> HIDE DEF e, p, q
  <2>p. p + 2 + Len(e) <= last
    BY <2>1, <2>2
  <2>4. /\ p + 1 \in 1 .. last /\ p + 2 \in 1 .. last
        /\ \A j \in 1 .. Len(e) : p + 2 + j \in 1 .. last
    BY <1>1, <2>1, <2>3, <2>p
  <2>5. /\ q = p + 2 + Len(e) /\ longer[p + 1] = frames[i].type
        /\ longer[p + 2] = Len(e)
        /\ \A j \in 1 .. Len(e) : longer[p + 2 + j] = e[j]
    BY <1>2, <2>2, <2>4
  <2>6. QED
    BY <2>5 DEF Placed, e, p, q
<1>4. longer[1] = HeaderCell
  <2>1. 1 \in 1 .. last /\ log[1] = HeaderCell
    BY <1>1 DEF Layout
  <2>2. QED
    BY <1>2, <2>1
<1>5. QED
  BY <1>3, <1>4 DEF Layout, End, m

\* A frame placed behind the last one lengthens the layout.
LEMMA LayoutAppend ==
  ASSUME NEW frames \in Seq(AllFrames), NEW log, NEW at, Layout(log, frames, at),
         Len(log) \in Nat,
         NEW f \in AllFrames, NEW q \in Nat, q <= Len(log),
         Placed(log, f, End(frames, at), q)
  PROVE  \E next : /\ Layout(log, Append(frames, f), next)
                   /\ End(Append(frames, f), next) = q
<1> DEFINE m == Len(frames)
           more == Append(frames, f)
           next == [i \in 1 .. m + 2 |-> IF i = m + 2 THEN q ELSE at[i]]
<1>1. /\ m \in Nat /\ Len(more) = m + 1 /\ more[m + 1] = f
      /\ \A i \in 1 .. m : more[i] = frames[i]
  OBVIOUS
<1>2. /\ at[1] = 1 /\ log[1] = HeaderCell /\ at[m + 1] <= Len(log)
      /\ \A i \in 1 .. m + 1 : at[i] \in Nat /\ 1 <= at[i] /\ at[i] <= at[m + 1]
      /\ \A i \in 1 .. m : Placed(log, frames[i], at[i], at[i + 1])
  BY DEF Layout
<1>3. Placed(log, f, at[m + 1], q)
  BY DEF End
<1>4. at[m + 1] \in Nat /\ at[m + 1] <= q
  <2>1. Len(encode_payload(f)) \in Nat
    BY FramesAreValid, DecodeEncode
  <2>2. at[m + 1] \in Nat
    BY <1>1, <1>2
  <2>3. q = at[m + 1] + 2 + Len(encode_payload(f))
    BY <1>3 DEF Placed
  <2>4. QED
    BY <2>1, <2>2, <2>3
<1>5. next[m + 2] = q /\ \A i \in 1 .. m + 1 : next[i] = at[i]
  BY <1>1
<1>6. next \in [1 .. m + 2 -> Nat]
  BY <1>1, <1>2
<1> HIDE DEF m, more, next
<1>7. next[1] = 1
  BY <1>1, <1>2, <1>5
<1>8. \A i \in 1 .. m + 2 : 1 <= next[i] /\ next[i] <= q
  <2> SUFFICES ASSUME NEW i \in 1 .. m + 2 PROVE 1 <= next[i] /\ next[i] <= q
    OBVIOUS
  <2>0. 1 <= at[m + 1]
    BY <1>1, <1>2
  <2>1. CASE i = m + 2
    BY <1>4, <1>5, <2>0, <2>1
  <2>2. CASE i # m + 2
    <3>1. i \in 1 .. m + 1
      BY <1>1, <2>2
    <3>2. QED
      BY <1>2, <1>4, <1>5, <3>1
  <2>3. QED
    BY <2>1, <2>2
<1>9. \A i \in 1 .. m + 1 : Placed(log, more[i], next[i], next[i + 1])
  <2> SUFFICES ASSUME NEW i \in 1 .. m + 1
               PROVE  Placed(log, more[i], next[i], next[i + 1])
    OBVIOUS
  <2>1. CASE i = m + 1
    <3>1. next[i] = at[m + 1] /\ next[i + 1] = q /\ more[i] = f
      BY <1>1, <1>5, <2>1
    <3>2. QED
      BY <1>3, <3>1
  <2>2. CASE i # m + 1
    <3>1. i \in 1 .. m /\ i + 1 \in 1 .. m + 1
      BY <1>1, <2>2
    <3>2. QED
      BY <1>1, <1>2, <1>5, <3>1
  <2>3. QED
    BY <2>1, <2>2
<1>10. Len(more) + 1 = m + 2 /\ next[Len(more) + 1] = q
  BY <1>1, <1>5
<1>11. Layout(log, more, next)
  BY <1>1, <1>2, <1>6, <1>7, <1>8, <1>9, <1>10 DEF Layout
<1>12. QED
  BY <1>10, <1>11 DEF End, more

----------------------------------------------------------------------------
(* The inductive invariant *)

\* The pieces of a frame that are left when k of them are written.
Rest(f, k) ==
  LET payload == encode_payload(f)
  IN  CASE k = 0 -> Pieces(f)
        [] k = 1 -> <<<<Len(payload)>>, payload>>
        [] k = 2 -> <<payload>>

\* k pieces of the call under way are written.
Progress(k) ==
  /\ \/ call \in {None, Flush} /\ todo = << >> /\ k = 0
     \/ call \in AllFrames /\ todo = Rest(call, k)
  /\ finished => call = None
  /\ status = "gone" => call = None

\* The first k pieces of the frame f, at cell p, end log.
Partial(log, f, p, k) ==
  /\ Len(log) = p + k
  /\ k >= 1 => log[p + 1] = f.type
  /\ k = 2 => log[p + 2] = Len(encode_payload(f))

\* The file is a prefix of log, in which the accepted frames are laid out and
\* to which at most two more cells belong; while the session is open the rest
\* of log is in the buffer.
Kept(k, log, at) ==
  /\ Layout(log, accepted, at)
  /\ Len(disk) <= Len(log) /\ Len(disk) <= End(accepted, at) + 1
  /\ \A c \in 1 .. Len(disk) : disk[c] = log[c]
  /\ finished => End(accepted, at) <= Len(disk)
  /\ status = "open" =>
       /\ log = disk \o buffer
       /\ Partial(log, call, End(accepted, at), k)
       /\ k = 2 => buffer # << >>

Stored(k) == ~ torn => \E log \in Seq(Nat) : \E at : Kept(k, log, at)

Inv == TypeOK /\ \E k \in 0 .. 2 : Progress(k) /\ Stored(k)

\* The pieces of a frame, one by one.
LEMMA RestOf ==
  ASSUME NEW f \in AllFrames
  PROVE  LET e == encode_payload(f)
         IN  /\ f.type \in Nat /\ e \in Seq(Nat) /\ Len(e) \in Nat
             /\ Pieces(f) = Rest(f, 0) /\ Len(Pieces(f)) = 3
             /\ Rest(f, 0) = <<<<f.type>>, <<Len(e)>>, e>>
             /\ Rest(f, 1) = <<<<Len(e)>>, e>>
             /\ Rest(f, 2) = <<e>>
             /\ \A k \in 0 .. 2 : Rest(f, k) \in Seq(Seq(Nat))
<1> DEFINE e == encode_payload(f)
           a == <<f.type>>
           b == <<Len(e)>>
           ps == <<a, b, e>>
<1>1. f.type \in Nat /\ e \in Seq(Nat) /\ Len(e) \in Nat
  BY FramesAreValid, DecodeEncode
<1>2. a \in Seq(Nat) /\ b \in Seq(Nat) /\ e \in Seq(Nat)
  BY <1>1
<1>3. Pieces(f) = ps
  BY DEF Pieces
<1> HIDE DEF a, b, e
<1>4. ps \in Seq(Seq(Nat)) /\ Len(ps) = 3
  BY <1>2
<1>6. /\ Rest(f, 0) = ps /\ Rest(f, 1) = <<b, e>> /\ Rest(f, 2) = <<e>>
  BY <1>3 DEF Rest, b, e
<1>7. <<b, e>> \in Seq(Seq(Nat)) /\ <<e>> \in Seq(Seq(Nat))
  BY <1>2
<1>8. \A k \in 0 .. 2 : Rest(f, k) \in Seq(Seq(Nat))
  <2>1. \A k \in 0 .. 2 : k = 0 \/ k = 1 \/ k = 2
    OBVIOUS
  <2>2. QED
    BY <1>4, <1>6, <1>7, <2>1
<1>9. QED
  BY <1>1, <1>3, <1>4, <1>6, <1>8 DEF a, b, e

\* A frame is no idle and no flushing session.
LEMMA FramesAreCalls == \A f \in AllFrames : f # None /\ f # Flush
<1> SUFFICES ASSUME NEW f \in AllFrames PROVE f # None /\ f # Flush
  OBVIOUS
<1>1. ValidFrame(f)
  BY FramesAreValid
<1>2. "type" \in DOMAIN f
  BY <1>1 DEF ValidFrame, TickHash, Metadata, EndOfStream
<1>3. "type" \notin DOMAIN None /\ "type" \notin DOMAIN Flush
  BY DEF None, Flush
<1>4. QED
  BY <1>2, <1>3

LEMMA NoneIsNotFlush == None # Flush
<1>1. "idle" \in DOMAIN None /\ "idle" \notin DOMAIN Flush
  BY DEF None, Flush
<1>2. QED
  BY <1>1

\* Concatenation, where no more is asked of it.
LEMMA Concat ==
  ASSUME NEW s \in Seq(Nat), NEW t \in Seq(Nat)
  PROVE  /\ s \o t \in Seq(Nat) /\ Len(s \o t) = Len(s) + Len(t)
         /\ Len(s) \in Nat /\ Len(t) \in Nat
         /\ \A i \in 1 .. Len(s) : (s \o t)[i] = s[i]
         /\ \A i \in 1 .. Len(t) : (s \o t)[Len(s) + i] = t[i]
         /\ s \o << >> = s /\ << >> \o s = s /\ << >> \in Seq(Nat)
         /\ s # << >> <=> Len(s) > 0
OBVIOUS

\* What a piece that is taken does to the file and the buffer.
LEMMA AcceptMoves ==
  ASSUME TypeOK, NEW piece \in Seq(Nat), Accept(piece)
  PROVE  /\ disk' \in Seq(Nat) /\ buffer' \in Seq(Nat) /\ Len(buffer') <= Capacity
         /\ disk' \o buffer' = (disk \o buffer) \o piece
         /\ Len(piece) = 1 => buffer' # << >>
<1>1. disk \in Seq(Nat) /\ buffer \in Seq(Nat) /\ Len(buffer) <= Capacity
      /\ Capacity \in Nat /\ Capacity > 1 /\ << >> \in Seq(Nat) /\ Len(<< >>) = 0
  BY RecordingAssumption DEF TypeOK
<1>2. /\ (disk \o buffer) \o piece = disk \o (buffer \o piece)
      /\ disk \o << >> = disk /\ << >> \o piece = piece
      /\ disk \o buffer \in Seq(Nat) /\ (disk \o buffer) \o piece \in Seq(Nat)
      /\ ((disk \o buffer) \o piece) \o << >> = (disk \o buffer) \o piece
      /\ buffer \o piece \in Seq(Nat) /\ Len(buffer \o piece) = Len(buffer) + Len(piece)
  <2>1. disk \o buffer \in Seq(Nat) /\ disk \o << >> = disk
    BY SMTT(20), <1>1, Concat
  <2>2. << >> \o piece = piece
    BY SMTT(20), Concat
  <2>3. buffer \o piece \in Seq(Nat) /\ Len(buffer \o piece) = Len(buffer) + Len(piece)
    BY SMTT(20), <1>1, Concat
  <2>4. (disk \o buffer) \o piece = disk \o (buffer \o piece)
    BY SMTT(20), <1>1, ConcatAssociative
  <2>5. (disk \o buffer) \o piece \in Seq(Nat)
    BY SMTT(20), <2>1, Concat
  <2>6. ((disk \o buffer) \o piece) \o << >> = (disk \o buffer) \o piece
    BY SMTT(20), <2>5, Concat
  <2>7. QED
    BY <2>1, <2>2, <2>3, <2>4, <2>5, <2>6
<1>3. Len(piece) \in Nat /\ Len(buffer) \in Nat /\ (Len(buffer) = 0 => buffer = << >>)
  BY <1>1
<1>4. CASE Len(piece) >= Capacity
  <2>1. CASE Len(buffer) + Len(piece) <= Capacity
    <3>1. buffer = << >>
      BY <1>1, <1>3, <1>4, <2>1
    <3>2. disk' = (disk \o << >>) \o piece /\ buffer' = buffer
      BY <1>4, <2>1 DEF Accept
    <3>3. disk' = (disk \o buffer) \o piece /\ buffer' = << >>
      BY <3>1, <3>2
    <3>4. QED
      BY <1>1, <1>2, <1>3, <1>4, <3>3
  <2>2. CASE ~ (Len(buffer) + Len(piece) <= Capacity)
    <3>1. disk' = (disk \o buffer) \o piece /\ buffer' = << >>
      BY <1>4, <2>2 DEF Accept
    <3>2. QED
      BY <1>1, <1>2, <1>3, <1>4, <3>1
  <2>3. QED
    BY <2>1, <2>2
<1>5. CASE ~ (Len(piece) >= Capacity)
  <2>0. Len(piece) = 1 => buffer \o piece # << >> /\ piece # << >>
    BY <1>1, <1>2, <1>3
  <2>1. CASE Len(buffer) + Len(piece) <= Capacity
    <3>1. disk' = disk \o << >> /\ buffer' = buffer \o piece
      BY <1>5, <2>1 DEF Accept
    <3>2. QED
      BY <1>1, <1>2, <2>0, <2>1, <3>1
  <2>2. CASE ~ (Len(buffer) + Len(piece) <= Capacity)
    <3>1. disk' = disk \o buffer /\ buffer' = << >> \o piece
      BY <1>5, <2>2 DEF Accept
    <3>2. QED
      BY SMTT(20), <1>1, <1>2, <1>3, <1>5, <2>0, <3>1
  <2>3. QED
    BY <2>1, <2>2
<1>6. QED
  BY <1>4, <1>5

\* A sequence is its first cells and the others.
LEMMA Cut ==
  ASSUME NEW s \in Seq(Nat), NEW k \in 0 .. Len(s)
  PROVE  /\ SubSeq(s, 1, k) \in Seq(Nat) /\ Len(SubSeq(s, 1, k)) = k
         /\ SubSeq(s, k + 1, Len(s)) \in Seq(Nat)
         /\ Len(SubSeq(s, k + 1, Len(s))) = Len(s) - k
         /\ SubSeq(s, 1, k) \o SubSeq(s, k + 1, Len(s)) = s
<1>1. Len(s) \in Nat /\ s \in Seq(Nat)
  OBVIOUS
<1>2. SubSeq(s, 1, k) \o SubSeq(s, k + 1, Len(s)) = SubSeq(s, 1, Len(s))
  <2>1. 1 \in 1 .. Len(s) + 1 /\ k \in 1 - 1 .. Len(s) /\ Len(s) \in k .. Len(s)
    BY <1>1
  <2>2. QED
    BY <2>1, ConcatAdjacentSubSeq
<1>3. SubSeq(s, 1, Len(s)) = s
  BY SubSeqFull
<1>4. /\ SubSeq(s, 1, k) \in Seq(Nat) /\ Len(SubSeq(s, 1, k)) = k
      /\ SubSeq(s, k + 1, Len(s)) \in Seq(Nat)
      /\ Len(SubSeq(s, k + 1, Len(s))) = Len(s) - k
  BY <1>1
<1>5. QED
  BY <1>2, <1>3, <1>4

\* Nor does an interrupted flush lose or repeat a cell.
LEMMA FlushMoves ==
  ASSUME TypeOK, NEW taken \in 0 .. Len(buffer), FlushBuf(taken)
  PROVE  /\ disk' \in Seq(Nat) /\ buffer' \in Seq(Nat) /\ Len(buffer') <= Capacity
         /\ disk' \o buffer' = disk \o buffer
         /\ taken = Len(buffer) => Len(disk') = Len(disk \o buffer)
<1>1. disk \in Seq(Nat) /\ buffer \in Seq(Nat) /\ Len(buffer) <= Capacity
      /\ Capacity \in Nat /\ Len(buffer) \in Nat
  BY RecordingAssumption DEF TypeOK
<1> DEFINE one == SubSeq(buffer, 1, taken)
           two == SubSeq(buffer, taken + 1, Len(buffer))
<1>2. /\ one \in Seq(Nat) /\ two \in Seq(Nat) /\ Len(one) = taken
      /\ Len(two) = Len(buffer) - taken /\ one \o two = buffer
  BY <1>1, Cut
<1>3. disk' = disk \o one /\ buffer' = two
  BY DEF FlushBuf
<1> HIDE DEF one, two
<1>4. (disk \o one) \o two = disk \o (one \o two)
  <2>1. disk \in Seq(Nat) /\ one \in Seq(Nat) /\ two \in Seq(Nat)
    BY <1>1, <1>2
  <2>2. QED
    BY ONLY SMTT(20), <2>1, ConcatAssociative
<1>5. disk \o one \in Seq(Nat) /\ Len(disk \o one) = Len(disk) + Len(one)
      /\ Len(disk \o buffer) = Len(disk) + Len(buffer)
  BY <1>1, <1>2, Concat
<1>6. QED
  <2>1. disk' \in Seq(Nat) /\ buffer' \in Seq(Nat) /\ Len(buffer') <= Capacity
    BY <1>1, <1>2, <1>3, <1>5
  <2>2. disk' \o buffer' = disk \o buffer
    BY <1>2, <1>3, <1>4
  <2>3. taken = Len(buffer) => Len(disk') = Len(disk \o buffer)
    BY <1>2, <1>3, <1>5
  <2>4. QED
    BY <2>1, <2>2, <2>3

\* The file is a prefix of itself and the buffer.
LEMMA DiskBeginsLog ==
  ASSUME NEW d \in Seq(Nat), NEW b \in Seq(Nat)
  PROVE  /\ d \o b \in Seq(Nat) /\ Len(d) <= Len(d \o b)
         /\ b # << >> => Len(d) < Len(d \o b)
         /\ \A c \in 1 .. Len(d) : d[c] = (d \o b)[c]
BY Concat

LEMMA EndOf ==
  ASSUME NEW frames, NEW log, NEW at, Layout(log, frames, at), Len(frames) \in Nat
  PROVE  End(frames, at) \in Nat /\ 1 <= End(frames, at) /\ End(frames, at) <= Len(log)
<1>1. Len(frames) + 1 \in 1 .. Len(frames) + 1
  OBVIOUS
<1>2. QED
  BY <1>1 DEF Layout, End

LEMMA InitInv ==
  ASSUME Init
  PROVE  Inv
<1> DEFINE at == [i \in 1 .. 1 |-> 1]
<1>1. /\ disk = << >> /\ buffer = <<HeaderCell>> /\ call = None /\ todo = << >>
      /\ status = "open" /\ calls = 0 /\ accepted = << >> /\ finished = FALSE /\ torn = FALSE
  BY DEF Init
<1>2. TypeOK
  <2>1. /\ << >> \in Seq(Nat) /\ <<HeaderCell>> \in Seq(Nat) /\ Len(<<HeaderCell>>) = 1
        /\ << >> \in Seq(Seq(Nat)) /\ << >> \in Seq(Frames \cup {EndOfStream})
    BY DEF HeaderCell
  <2>2. 1 <= Capacity /\ 0 \in 0 .. MaxCalls
    BY RecordingAssumption
  <2>3. QED
    BY <1>1, <2>1, <2>2 DEF TypeOK
<1>3. Layout(<<HeaderCell>>, << >>, at)
  <2>1. Len(<< >>) = 0
    OBVIOUS
  <2>2. /\ at \in [1 .. 0 + 1 -> Nat] /\ at[1] = 1
        /\ \A i \in 1 .. 0 + 1 : 1 <= at[i] /\ at[i] <= at[0 + 1]
        /\ at[0 + 1] <= Len(<<HeaderCell>>)
        /\ 1 .. 0 = {}
    OBVIOUS
  <2>3. QED
    BY <2>1, <2>2 DEF Layout
<1>4. <<HeaderCell>> \in Seq(Nat) /\ End(<< >>, at) = 1
  BY DEF End, HeaderCell
<1>5. Kept(0, <<HeaderCell>>, at)
  <2>1. Len(<<HeaderCell>>) = 1 /\ Len(<< >>) = 0
        /\ << >> \o <<HeaderCell>> = <<HeaderCell>>
    BY Concat, <1>4
  <2>2. Partial(<<HeaderCell>>, call, 1, 0)
    BY <2>1 DEF Partial
  <2> HIDE DEF at
  <2>3. QED
    BY <1>1, <1>3, <1>4, <2>1, <2>2 DEF Kept
<1>6. Stored(0)
  BY <1>4, <1>5 DEF Stored
<1>7. Progress(0)
  BY <1>1 DEF Progress
<1>8. QED
  BY <1>2, <1>6, <1>7 DEF Inv

LEMMA BeginInv ==
  ASSUME Inv, NEW frame \in AllFrames, Begin(frame)
  PROVE  Inv'
<1>1. PICK k \in 0 .. 2 : Progress(k) /\ Stored(k)
  BY DEF Inv
<1>2. /\ status = "open" /\ call = None /\ calls < MaxCalls /\ call' = frame
      /\ todo' = Pieces(frame) /\ calls' = calls + 1 /\ finished' = FALSE
      /\ UNCHANGED <<disk, buffer, status, accepted, torn>>
  BY DEF Begin
<1>3. k = 0
  BY <1>1, <1>2, FramesAreCalls DEF Progress
<1>4. Pieces(frame) = Rest(frame, 0) /\ Pieces(frame) \in Seq(Seq(Nat))
  <2>1. 0 \in 0 .. 2
    OBVIOUS
  <2>2. QED
    BY <2>1, RestOf
<1>5. TypeOK'
  <2>1. calls' \in 0 .. MaxCalls
    BY <1>2, RecordingAssumption DEF Inv, TypeOK
  <2>2. QED
    <3>1. TypeOK /\ call' \in AllFrames
      BY <1>2 DEF Inv
    <3>2. QED
      BY <1>2, <1>4, <2>1, <3>1 DEF TypeOK, AllFrames
<1>6. Progress(0)'
  BY <1>2, <1>4 DEF Progress
<1>7. Stored(0)'
  <2> SUFFICES ASSUME ~ torn' PROVE \E log \in Seq(Nat) : \E at : Kept(0, log, at)'
    BY DEF Stored
  <2>1a. PICK log \in Seq(Nat) : \E at : Kept(0, log, at)
    BY <1>1, <1>2, <1>3 DEF Stored
  <2>1. PICK at : Kept(0, log, at)
    BY <2>1a
  <2>2. Partial(log, frame, End(accepted, at), 0)
    BY <1>2, <2>1 DEF Kept, Partial
  <2>3. Kept(0, log, at)'
    BY <1>2, <2>1, <2>2 DEF Kept
  <2>4. QED
    BY <2>3
<1>8. QED
  BY <1>5, <1>6, <1>7 DEF Inv

\* The two pieces in front of a payload.
LEMMA WriteHeadInv ==
  ASSUME Inv, WritePiece, NEW k \in 0 .. 1, call \in AllFrames, todo = Rest(call, k),
         Progress(k), Stored(k)
  PROVE  Inv'
<1> DEFINE e == encode_payload(call)
<1>1. /\ call.type \in Nat /\ Len(e) \in Nat
      /\ k = 0 => todo = <<<<call.type>>, <<Len(e)>>, e>>
      /\ k = 1 => todo = <<<<Len(e)>>, e>>
      /\ Rest(call, 1) = <<<<Len(e)>>, e>> /\ Rest(call, 2) = <<e>>
      /\ Rest(call, k + 1) \in Seq(Seq(Nat))
  <2>1. k + 1 \in 0 .. 2
    OBVIOUS
  <2>2. QED
    BY <2>1, RestOf
<1>2. k = 0 \/ k = 1
  OBVIOUS
<1>3. Len(todo) > 1 /\ Tail(todo) = Rest(call, k + 1) /\ Head(todo) \in Seq(Nat)
      /\ Len(Head(todo)) = 1 /\ (k = 0 => Head(todo)[1] = call.type)
      /\ (k = 1 => Head(todo)[1] = Len(e))
  <2> DEFINE one == <<call.type>>
             two == <<Len(e)>>
  <2>0. /\ one \in Seq(Nat) /\ Len(one) = 1 /\ one[1] = call.type
        /\ two \in Seq(Nat) /\ Len(two) = 1 /\ two[1] = Len(e)
    BY <1>1
  <2>t. /\ k = 0 => todo = <<one, two, e>>
        /\ k = 1 => todo = <<two, e>>
        /\ Rest(call, 1) = <<two, e>> /\ Rest(call, 2) = <<e>>
    BY <1>1
  <2> HIDE DEF e, one, two
  <2>1. CASE k = 0
    <3>1. Head(<<one, two, e>>) = one /\ Tail(<<one, two, e>>) = <<two, e>>
          /\ Len(<<one, two, e>>) = 3
      OBVIOUS
    <3>2. k + 1 = 1
      BY <2>1
    <3>3. todo = <<one, two, e>> /\ Rest(call, k + 1) = <<two, e>>
      BY <2>t, <2>1, <3>2
    <3>4. Head(todo) = one /\ Tail(todo) = Rest(call, k + 1) /\ Len(todo) = 3
      BY <3>1, <3>3
    <3>5. Len(todo) > 1 /\ k # 1
      BY ONLY <2>1, <3>4
    <3>6. QED
      BY ONLY <2>0, <2>1, <3>4, <3>5, Zenon
  <2>2. CASE k = 1
    <3>1. Head(<<two, e>>) = two /\ Tail(<<two, e>>) = <<e>> /\ Len(<<two, e>>) = 2
      OBVIOUS
    <3>2. k + 1 = 2
      BY <2>2
    <3>3. todo = <<two, e>> /\ Rest(call, k + 1) = <<e>>
      BY <2>t, <2>2, <3>2
    <3>4. Head(todo) = two /\ Tail(todo) = Rest(call, k + 1) /\ Len(todo) = 2
      BY <3>1, <3>3
    <3>5. Len(todo) > 1 /\ k # 0
      BY ONLY <2>2, <3>4
    <3>6. QED
      BY ONLY <2>0, <2>2, <3>4, <3>5, Zenon
  <2>3. QED
    BY <1>2, <2>1, <2>2
<1> HIDE DEF e
<1>4. PICK piece \in Seq(Nat) : piece = Head(todo)
  BY <1>3
<1>5. /\ status = "open" /\ Accept(piece) /\ todo' = Rest(call, k + 1)
      /\ UNCHANGED <<call, accepted, status, calls, finished, torn>>
  BY <1>3, <1>4 DEF WritePiece
<1>6. /\ disk' \in Seq(Nat) /\ buffer' \in Seq(Nat) /\ Len(buffer') <= Capacity
      /\ disk' \o buffer' = (disk \o buffer) \o piece /\ buffer' # << >>
  BY <1>3, <1>4, <1>5, AcceptMoves DEF Inv
<1>7. TypeOK'
  BY <1>1, <1>5, <1>6 DEF Inv, TypeOK
<1>8. Progress(k + 1)' /\ ~ finished
  BY <1>5, FramesAreCalls DEF Progress
<1>9. Stored(k + 1)'
  <2> SUFFICES ASSUME ~ torn' PROVE \E log \in Seq(Nat) : \E at : Kept(k + 1, log, at)'
    BY DEF Stored
  <2>1a. PICK log \in Seq(Nat) : \E at : Kept(k, log, at)
    BY <1>5 DEF Stored
  <2>1. PICK at : Kept(k, log, at)
    BY <2>1a
  <2>2. PICK more : more = log \o piece
    OBVIOUS
  <2>e. PICK last : last = End(accepted, at)
    OBVIOUS
  <2>3. log = disk \o buffer /\ Partial(log, call, last, k)
        /\ Layout(log, accepted, at)
    BY <1>5, <2>1, <2>e DEF Kept
  <2>4. more = disk' \o buffer' /\ more \in Seq(Nat) /\ Len(more) = Len(log) + 1
        /\ more[Len(log) + 1] = piece[1] /\ Len(log) \in Nat
        /\ \A c \in 1 .. Len(log) : more[c] = log[c]
    <3>1. Len(piece) = 1 /\ 1 \in 1 .. Len(piece)
      BY <1>3, <1>4
    <3>2. QED
      <4>1. log \in Seq(Nat) /\ piece \in Seq(Nat)
        OBVIOUS
      <4>2. /\ more \in Seq(Nat) /\ Len(more) = Len(log) + Len(piece) /\ Len(log) \in Nat
            /\ \A c \in 1 .. Len(log) : more[c] = log[c]
            /\ \A c \in 1 .. Len(piece) : more[Len(log) + c] = piece[c]
        BY ONLY <2>2, <4>1, Concat
      <4>3. more = disk' \o buffer'
        BY <1>6, <2>2, <2>3
      <4>4. QED
        BY <3>1, <4>2, <4>3
  <2>5. /\ Len(disk') <= Len(more) /\ Len(disk') < Len(more)
        /\ \A c \in 1 .. Len(disk') : disk'[c] = more[c]
    BY ZenonT(60), <1>6, <2>4, DiskBeginsLog
  <2>6. /\ last \in Nat /\ 1 <= last
        /\ last <= Len(log) /\ Len(log) = last + k
    <3>1. Len(accepted) \in Nat
      BY DEF Inv, TypeOK
    <3>2. QED
      BY <2>3, <2>e, <3>1, EndOf DEF Partial
  <2>7. Layout(more, accepted, at)
    <3>1. accepted \in Seq(AllFrames) /\ Len(more) \in Nat /\ last <= Len(more)
      <4>1. TypeOK
        BY DEF Inv
      <4>2. Len(more) \in Nat /\ last <= Len(more)
        BY ONLY <2>4, <2>6
      <4>3. QED
        BY <4>1, <4>2 DEF TypeOK, AllFrames
    <3>2. \A c \in 1 .. last : more[c] = log[c]
      <4>1. \A c \in 1 .. last : c \in 1 .. Len(log)
        BY ONLY <2>4, <2>6, k \in 0 .. 1
      <4>2. QED
        BY <2>4, <4>1
    <3>3. QED
      BY <2>3, <2>e, <3>1, <3>2, LayoutExtends
  <2>8. Partial(more, call, last, k + 1)
    <3>1. Len(more) = last + (k + 1)
      BY <2>4, <2>6
    <3>2. CASE k = 0
      <4>1. more[last + 1] = call.type
        <5>1. Len(log) = last
          BY <2>6, <3>2
        <5>2. QED
          BY <1>3, <1>4, <2>4, <3>2, <5>1
      <4>2. QED
        BY <3>1, <3>2, <4>1 DEF Partial
    <3>3. CASE k = 1
      <4>1. log[last + 1] = call.type
        <5>1. k >= 1
          BY <3>3
        <5>2. QED
          BY <2>3, <5>1 DEF Partial
      <4>2. last + 1 \in 1 .. Len(log) /\ last + 2 = Len(log) + 1
        BY <2>6, <3>3
      <4>3. more[last + 1] = call.type /\ more[last + 2] = Len(e)
        BY <1>3, <1>4, <2>4, <3>3, <4>1, <4>2
      <4>4. QED
        <5>1. k + 1 = 2 /\ Len(more) = last + 2
          BY <3>1, <3>3
        <5>2. Partial(more, call, last, 2)
          BY <4>3, <5>1, encode_payload(call) = e DEF Partial, e
        <5>3. QED
          BY <5>1, <5>2
    <3>4. QED
      BY <1>2, <3>2, <3>3
  <2>9. Len(disk') \in Nat /\ Len(disk') <= last + 1
    <3>1. Len(disk') \in Nat
      BY <1>6
    <3>2. Len(more) = last + k + 1 /\ Len(disk') < Len(more) /\ last \in Nat
      BY <2>4, <2>5, <2>6
    <3>3. Len(disk') < last + k + 1 /\ last \in Nat
      BY <3>2
    <3>4. QED
      BY ONLY <1>2, <3>1, <3>3
  <2>10. Kept(k + 1, more, at)'
    BY <1>5, <1>6, <1>8, <2>e, <2>4, <2>5, <2>7, <2>8, <2>9 DEF Kept
  <2>11. QED
    BY <2>4, <2>10
<1>10. k + 1 \in 0 .. 2
  OBVIOUS
<1>11. QED
  BY <1>7, <1>8, <1>9, <1>10 DEF Inv

\* Between two frames the log is the file and the buffer, and ends where the
\* last frame does.
LEMMA BetweenFrames ==
  ASSUME NEW log \in Seq(Nat), NEW at, Layout(log, accepted', at),
         disk' \in Seq(Nat), buffer' \in Seq(Nat), log = disk' \o buffer',
         accepted' \in Seq(AllFrames), Len(log) = End(accepted', at),
         finished' => End(accepted', at) <= Len(disk')
  PROVE  Kept(0, log, at)'
<1> PICK last : last = End(accepted', at)
  OBVIOUS
<1>1. Len(accepted') \in Nat
  OBVIOUS
<1>2. last \in Nat /\ Len(log) = last
  BY <1>1, EndOf
<1>3. /\ Len(disk') <= Len(log) /\ \A c \in 1 .. Len(disk') : disk'[c] = log[c]
      /\ Len(disk') \in Nat
  BY DiskBeginsLog
<1>4. Len(disk') <= last + 1
  BY <1>2, <1>3
<1>5. Partial(log, call', last, 0)
  BY <1>2 DEF Partial
<1>6. QED
  BY <1>3, <1>4, <1>5 DEF Kept

\* What Kept says of an open session.
LEMMA OpenKept ==
  ASSUME TypeOK, status = "open", NEW k \in 0 .. 2,
         NEW log \in Seq(Nat), NEW at, Kept(k, log, at)
  PROVE  /\ log = disk \o buffer /\ Layout(log, accepted, at)
         /\ End(accepted, at) \in Nat /\ Len(log) = End(accepted, at) + k
         /\ accepted \in Seq(AllFrames) /\ Len(log) \in Nat
<1>1. log = disk \o buffer /\ Layout(log, accepted, at) /\ Len(log) = End(accepted, at) + k
  BY DEF Kept, Partial
<1>2. accepted \in Seq(AllFrames)
  BY DEF TypeOK, AllFrames
<1>3. Len(accepted) \in Nat
  BY <1>2
<1>4. End(accepted, at) \in Nat
  BY <1>1, <1>3, EndOf
<1>5. QED
  BY <1>1, <1>2, <1>4

\* The payload, with which the frame is accepted.
LEMMA WritePayloadInv ==
  ASSUME Inv, WritePiece, call \in AllFrames, todo = Rest(call, 2),
         Progress(2), Stored(2)
  PROVE  Inv'
<1> DEFINE e == encode_payload(call)
<1>1. /\ e \in Seq(Nat) /\ Len(e) \in Nat /\ todo = <<e>>
  BY RestOf
<1>2. PICK piece \in Seq(Nat) : piece = e
  BY <1>1
<1>3. Head(todo) = piece /\ Tail(todo) = << >> /\ Len(todo) = 1
  <2> HIDE DEF e
  <2>1. Head(<<e>>) = e /\ Tail(<<e>>) = << >> /\ Len(<<e>>) = 1
    OBVIOUS
  <2>2. QED
    BY <1>1, <1>2, <2>1
<1>4. /\ status = "open" /\ Accept(piece) /\ todo' = << >>
      /\ accepted' = Append(accepted, call)
      /\ call' = IF call = EndOfStream THEN Flush ELSE None
      /\ UNCHANGED <<status, calls, finished, torn>>
  <2>0. Len(todo) = 1
    BY <1>3
  <2>1. ~ (Len(todo) > 1)
    BY ONLY <2>0
  <2>2. QED
    BY <1>3, <2>1 DEF WritePiece
<1>5. /\ disk' \in Seq(Nat) /\ buffer' \in Seq(Nat) /\ Len(buffer') <= Capacity
      /\ disk' \o buffer' = (disk \o buffer) \o piece
  BY <1>4, AcceptMoves DEF Inv
<1>6. accepted' \in Seq(AllFrames) /\ call' \in {None, Flush} /\ accepted \in Seq(AllFrames)
  <2>1. accepted \in Seq(AllFrames)
    BY DEF Inv, TypeOK, AllFrames
  <2>2. QED
    BY <1>4, <2>1
<1>7. TypeOK'
  <2>1. << >> \in Seq(Seq(Nat))
    OBVIOUS
  <2>2. QED
    BY <1>4, <1>5, <1>6, <2>1 DEF Inv, TypeOK, AllFrames
<1>8. Progress(0)' /\ ~ finished
  BY <1>4, <1>6, FramesAreCalls DEF Progress
<1>9. Stored(0)'
  <2> SUFFICES ASSUME ~ torn' PROVE \E log \in Seq(Nat) : \E at : Kept(0, log, at)'
    BY DEF Stored
  <2>1a. PICK log \in Seq(Nat) : \E at : Kept(2, log, at)
    BY <1>4 DEF Stored
  <2>1. PICK at : Kept(2, log, at)
    BY <2>1a
  <2>2. PICK more : more = log \o piece
    OBVIOUS
  <2>3. PICK last : last = End(accepted, at)
    OBVIOUS
  <2>4. /\ log = disk \o buffer /\ Layout(log, accepted, at)
        /\ last \in Nat /\ Len(log) = last + 2 /\ Len(log) \in Nat
    <3>1. 2 \in 0 .. 2
      OBVIOUS
    <3>2. QED
      BY <1>4, <2>1, <2>3, <3>1, OpenKept DEF Inv
  <2>5. log[last + 1] = call.type /\ log[last + 2] = Len(e)
    <3>1. 2 >= 1
      OBVIOUS
    <3>2. QED
      BY <1>4, <2>1, <2>3, <3>1 DEF Kept, Partial
  <2>6. /\ more \in Seq(Nat) /\ Len(more) = Len(log) + Len(piece)
        /\ \A c \in 1 .. Len(log) : more[c] = log[c]
        /\ \A c \in 1 .. Len(piece) : more[Len(log) + c] = piece[c]
        /\ Len(more) \in Nat
    BY <2>2, Concat
  <2>7. more = disk' \o buffer'
    BY <1>5, <2>2, <2>4
  <2>8. Layout(more, accepted, at)
    <3>1. /\ last <= Len(more) /\ \A c \in 1 .. last : c \in 1 .. Len(log)
      <4>1. Len(piece) \in Nat
        OBVIOUS
      <4>2. Len(more) = last + 2 + Len(piece) /\ Len(log) = last + 2 /\ last \in Nat
        BY <2>4, <2>6
      <4>3. QED
        BY ONLY <4>1, <4>2
    <3>2. \A c \in 1 .. last : more[c] = log[c]
      BY <2>6, <3>1
    <3>3. QED
      BY <1>6, <2>3, <2>4, <2>6, <3>1, <3>2, LayoutExtends
  <2>9. PICK q \in Nat : q = Len(more)
    BY <2>6
  <2>10. Placed(more, call, last, q)
    <3>1. q = last + 2 + Len(e)
      BY <1>2, <2>4, <2>6, <2>9
    <3>2. last + 1 \in 1 .. Len(log) /\ last + 2 \in 1 .. Len(log)
      BY <2>4
    <3>3. more[last + 1] = call.type /\ more[last + 2] = Len(e)
      BY <2>5, <2>6, <3>2
    <3>4. \A j \in 1 .. Len(e) : more[last + 2 + j] = e[j]
      BY <1>2, <2>4, <2>6
    <3>5. QED
      BY <3>1, <3>3, <3>4 DEF Placed
  <2>11. PICK next : Layout(more, accepted', next) /\ End(accepted', next) = q
    <3>1. q <= Len(more)
      BY <2>9
    <3>2. QED
      BY SMTT(20), <1>4, <1>6, <2>3, <2>6, <2>8, <2>10, <3>1, LayoutAppend
  <2>12. Kept(0, more, next)'
    BY <1>4, <1>5, <1>6, <1>8, <2>6, <2>7, <2>9, <2>11, BetweenFrames
  <2>13. QED
    BY <2>6, <2>12
<1>10. 0 \in 0 .. 2
  OBVIOUS
<1>11. QED
  BY <1>7, <1>8, <1>9, <1>10 DEF Inv

LEMMA WritePieceInv ==
  ASSUME Inv, WritePiece
  PROVE  Inv'
<1>1. PICK k \in 0 .. 2 : Progress(k) /\ Stored(k)
  BY DEF Inv
<1>2. call \in AllFrames /\ todo = Rest(call, k)
  BY <1>1 DEF WritePiece, Progress
<1>3. k \in 0 .. 1 \/ k = 2
  OBVIOUS
<1>4. QED
  BY <1>1, <1>2, <1>3, WriteHeadInv, WritePayloadInv

\* A piece that is refused.
LEMMA FailPieceInv ==
  ASSUME Inv, FailPiece
  PROVE  Inv'
<1>1. PICK k \in 0 .. 2 : Progress(k) /\ Stored(k)
  BY DEF Inv
<1>2. call \in AllFrames /\ todo = Rest(call, k)
  BY <1>1 DEF FailPiece, Progress
<1>3. PICK piece : piece = Head(todo)
  OBVIOUS
<1>4. /\ status = "open" /\ Refuse(piece) /\ call' = None /\ todo' = << >>
      /\ torn' = (torn \/ Len(todo) < Len(Pieces(call)))
      /\ UNCHANGED <<status, calls, accepted, finished>>
  BY <1>3 DEF FailPiece, Idle
<1>5. /\ piece \in Seq(Nat) /\ Len(Pieces(call)) = 3
      /\ k = 0 => Len(piece) = 1 /\ Len(todo) = 3
      /\ k # 0 => Len(todo) < 3
  <2> DEFINE e == encode_payload(call)
             one == <<call.type>>
             two == <<Len(e)>>
  <2>1. /\ one \in Seq(Nat) /\ two \in Seq(Nat) /\ e \in Seq(Nat) /\ Len(one) = 1
        /\ Rest(call, 0) = <<one, two, e>> /\ Rest(call, 1) = <<two, e>>
        /\ Rest(call, 2) = <<e>> /\ Len(Pieces(call)) = 3
    <3>1. call.type \in Nat /\ Len(e) \in Nat
      BY <1>2, RestOf
    <3>2. one \in Seq(Nat) /\ two \in Seq(Nat) /\ Len(one) = 1
      BY <3>1
    <3>3. QED
      BY <1>2, <3>2, RestOf
  <2> HIDE DEF e, one, two
  <2>2. /\ Head(<<one, two, e>>) = one /\ Len(<<one, two, e>>) = 3
        /\ Head(<<two, e>>) = two /\ Len(<<two, e>>) = 2
        /\ Head(<<e>>) = e /\ Len(<<e>>) = 1
    OBVIOUS
  <2>3. k = 0 \/ k = 1 \/ k = 2
    OBVIOUS
  <2>4. CASE k = 0
    <3>1. piece = one /\ Len(todo) = 3
      BY <1>2, <1>3, <2>1, <2>2, <2>4
    <3>2. QED
      BY <2>1, <2>4, <3>1
  <2>5. CASE k = 1
    <3>1. piece = two /\ Len(todo) = 2
      BY <1>2, <1>3, <2>1, <2>2, <2>5
    <3>2. QED
      BY <2>1, <2>5, <3>1
  <2>6. CASE k = 2
    <3>1. piece = e /\ Len(todo) = 1
      BY <1>2, <1>3, <2>1, <2>2, <2>6
    <3>2. QED
      BY <2>1, <2>6, <3>1
  <2>7. QED
    BY <2>3, <2>4, <2>5, <2>6
<1>6. TypeOK /\ Capacity \in Nat /\ Capacity > 1
  BY RecordingAssumption DEF Inv
<1>7. /\ disk' \in Seq(Nat) /\ buffer' \in Seq(Nat) /\ Len(buffer') <= Capacity
      /\ Len(piece) = 1 => disk' \o buffer' = disk \o buffer
  <2>1. CASE \E taken \in 0 .. Len(buffer) - 1 : FlushBuf(taken)
    <3>1. PICK taken \in 0 .. Len(buffer) - 1 : FlushBuf(taken)
      BY <2>1
    <3>2. taken \in 0 .. Len(buffer)
      <4>1. Len(buffer) \in Nat
        BY <1>6 DEF TypeOK
      <4>2. QED
        BY <4>1
    <3>3. QED
      BY <1>6, <3>1, <3>2, FlushMoves
  <2>2. CASE /\ Len(piece) >= Capacity
             /\ \E taken \in 0 .. Len(piece) - 1 :
                  disk' = disk \o buffer \o SubSeq(piece, 1, taken)
             /\ buffer' = << >>
    <3>1. PICK taken \in 0 .. Len(piece) - 1 :
            disk' = disk \o buffer \o SubSeq(piece, 1, taken)
      BY <2>2
    <3>2. taken \in 0 .. Len(piece)
      <4>1. Len(piece) \in Nat
        BY <1>5
      <4>2. QED
        BY <4>1
    <3>3. SubSeq(piece, 1, taken) \in Seq(Nat)
      BY <1>5, <3>2, Cut
    <3>4. disk \in Seq(Nat) /\ buffer \in Seq(Nat)
      BY <1>6 DEF TypeOK
    <3>5. disk' \in Seq(Nat)
      BY <3>1, <3>3, <3>4, Concat
    <3>6. buffer' \in Seq(Nat) /\ Len(buffer') <= Capacity
      BY <1>6, <2>2
    <3>7. Len(piece) # 1
      BY <1>6, <2>2
    <3>8. QED
      BY <3>5, <3>6, <3>7
  <2>3. QED
    BY <1>4, <2>1, <2>2 DEF Refuse
<1>8. TypeOK'
  <2>1. << >> \in Seq(Seq(Nat)) /\ torn' \in BOOLEAN
    BY <1>4
  <2>2. QED
    BY <1>4, <1>6, <1>7, <2>1 DEF TypeOK
<1>9. Progress(0)' /\ ~ finished
  BY <1>1, <1>2, <1>4, FramesAreCalls DEF Progress
<1>10. Stored(0)'
  <2> SUFFICES ASSUME ~ torn' PROVE \E log \in Seq(Nat) : \E at : Kept(0, log, at)'
    BY DEF Stored
  <2>1. ~ torn /\ k = 0
    <3>1. ~ torn /\ ~ (Len(todo) < Len(Pieces(call)))
      BY <1>4
    <3>2. QED
      BY <1>5, <3>1
  <2>2a. PICK log \in Seq(Nat) : \E at : Kept(0, log, at)
    BY <1>1, <2>1 DEF Stored
  <2>2. PICK at : Kept(0, log, at)
    BY <2>2a
  <2>3. /\ log = disk \o buffer /\ Layout(log, accepted, at)
        /\ Len(log) = End(accepted, at) /\ accepted \in Seq(AllFrames)
    <3>1. 0 \in 0 .. 2
      OBVIOUS
    <3>2. /\ log = disk \o buffer /\ Layout(log, accepted, at)
          /\ Len(log) = End(accepted, at) + 0 /\ accepted \in Seq(AllFrames)
          /\ End(accepted, at) \in Nat
      BY <1>4, <1>6, <2>2, <3>1, OpenKept
    <3>3. QED
      BY <3>2
  <2>4. Kept(0, log, at)'
    BY <1>4, <1>5, <1>7, <1>9, <2>1, <2>3, BetweenFrames
  <2>5. QED
    BY <2>4
<1>11. 0 \in 0 .. 2
  OBVIOUS
<1>12. QED
  BY <1>8, <1>9, <1>10, <1>11 DEF Inv

LEMMA FinishFlushInv ==
  ASSUME Inv, FinishFlush
  PROVE  Inv'
<1>1. PICK k \in 0 .. 2 : Progress(k) /\ Stored(k)
  BY DEF Inv
<1>2. PICK taken \in 0 .. Len(buffer) :
        FlushBuf(taken) /\ finished' = (taken = Len(buffer))
  BY DEF FinishFlush
<1>3. /\ status = "open" /\ call = Flush /\ call' = None /\ todo' = << >>
      /\ UNCHANGED <<status, calls, accepted, torn>>
  BY DEF FinishFlush, Idle
<1>4. k = 0
  BY <1>1, <1>3, FramesAreCalls DEF Progress
<1>5. /\ disk' \in Seq(Nat) /\ buffer' \in Seq(Nat) /\ Len(buffer') <= Capacity
      /\ disk' \o buffer' = disk \o buffer
      /\ taken = Len(buffer) => Len(disk') = Len(disk \o buffer)
  BY <1>2, FlushMoves DEF Inv
<1>6. TypeOK'
  <2>1. << >> \in Seq(Seq(Nat)) /\ finished' \in BOOLEAN
    BY <1>2
  <2>2. QED
    BY <1>3, <1>5, <2>1 DEF Inv, TypeOK
<1>7. Progress(0)'
  BY <1>3 DEF Progress
<1>8. Stored(0)'
  <2> SUFFICES ASSUME ~ torn' PROVE \E log \in Seq(Nat) : \E at : Kept(0, log, at)'
    BY DEF Stored
  <2>1a. PICK log \in Seq(Nat) : \E at : Kept(0, log, at)
    BY <1>1, <1>3, <1>4 DEF Stored
  <2>1. PICK at : Kept(0, log, at)
    BY <2>1a
  <2>2. /\ log = disk \o buffer /\ Layout(log, accepted, at)
        /\ Len(log) = End(accepted, at) /\ accepted \in Seq(AllFrames)
        /\ Len(log) \in Nat
    <3>1. 0 \in 0 .. 2
      OBVIOUS
    <3>2. /\ log = disk \o buffer /\ Layout(log, accepted, at)
          /\ Len(log) = End(accepted, at) + 0 /\ accepted \in Seq(AllFrames)
          /\ End(accepted, at) \in Nat /\ Len(log) \in Nat
      BY <1>3, <2>1, <3>1, OpenKept DEF Inv
    <3>3. QED
      BY <3>2
  <2>3. finished' => Len(disk') = Len(log)
    BY <1>2, <1>5, <2>2
  <2>4. finished' => End(accepted', at) <= Len(disk')
    BY <1>3, <2>2, <2>3
  <2>5. Kept(0, log, at)'
    BY <1>3, <1>5, <2>2, <2>4, BetweenFrames
  <2>6. QED
    BY <2>5
<1>9. 0 \in 0 .. 2
  OBVIOUS
<1>10. QED
  BY <1>6, <1>7, <1>8, <1>9 DEF Inv

\* Once the session is gone the file need only be a prefix of the log, and one
\* that still holds what was finished.
LEMMA GoneInv ==
  ASSUME Inv, status = "open", status' = "gone", call' = None, todo' = << >>,
         disk' \in Seq(Nat), buffer' = << >>,
         UNCHANGED <<calls, accepted, finished, torn>>,
         \A log \in Seq(Nat) :
           log = disk \o buffer =>
             /\ Len(disk) <= Len(disk') /\ Len(disk') <= Len(log)
             /\ call # None => Len(disk') = Len(disk)
             /\ \A c \in 1 .. Len(disk') : disk'[c] = log[c]
  PROVE  Inv'
<1>1. PICK k \in 0 .. 2 : Progress(k) /\ Stored(k)
  BY DEF Inv
<1>2. disk \in Seq(Nat) /\ TypeOK /\ Capacity \in Nat
  BY RecordingAssumption DEF Inv, TypeOK
<1>3. TypeOK'
  <2>1. << >> \in Seq(Seq(Nat)) /\ << >> \in Seq(Nat) /\ Len(<< >>) <= Capacity
    BY <1>2
  <2>2. QED
    BY <1>2, <2>1 DEF TypeOK
<1>4. Progress(0)'
  BY DEF Progress
<1>5. Stored(0)'
  <2> SUFFICES ASSUME ~ torn' PROVE \E log \in Seq(Nat) : \E at : Kept(0, log, at)'
    BY DEF Stored
  <2>1a. PICK log \in Seq(Nat) : \E at : Kept(k, log, at)
    BY <1>1 DEF Stored
  <2>1. PICK at : Kept(k, log, at)
    BY <2>1a
  <2>2. PICK last : last = End(accepted, at)
    OBVIOUS
  <2>3. /\ log = disk \o buffer /\ Layout(log, accepted, at)
        /\ last \in Nat /\ Len(log) = last + k
    BY <1>2, <2>1, <2>2, OpenKept
  <2>4. /\ Len(disk) <= Len(disk') /\ Len(disk') <= Len(log)
        /\ call # None => Len(disk') = Len(disk)
        /\ \A c \in 1 .. Len(disk') : disk'[c] = log[c]
        /\ Len(disk') \in Nat /\ Len(disk) \in Nat
    <3>1. Len(disk') \in Nat /\ Len(disk) \in Nat
      BY <1>2
    <3>2. QED
      BY <2>3, <3>1
  <2>5. Len(disk') <= last + 1
    <3>1. CASE call = None
      <4>1. k = 0
        BY <1>1, <3>1, FramesAreCalls DEF Progress
      <4>2. QED
        BY <2>3, <2>4, <4>1
    <3>2. CASE call # None
      BY <2>1, <2>2, <2>4, <3>2 DEF Kept
    <3>3. QED
      BY <3>1, <3>2
  <2>6. finished' => last <= Len(disk')
    <3>1. finished' => last <= Len(disk)
      BY <2>1, <2>2 DEF Kept
    <3>2. last \in Nat /\ Len(disk) <= Len(disk') /\ Len(disk') \in Nat /\ Len(disk) \in Nat
      BY <2>3, <2>4
    <3>3. QED
      BY <3>1, <3>2
  <2>7. Kept(0, log, at)'
    BY <2>2, <2>3, <2>4, <2>5, <2>6 DEF Kept
  <2>8. QED
    BY <2>7
<1>6. 0 \in 0 .. 2
  OBVIOUS
<1>7. QED
  BY <1>3, <1>4, <1>5, <1>6 DEF Inv

LEMMA DropSessionInv ==
  ASSUME Inv, DropSession
  PROVE  Inv'
<1>1. PICK taken \in 0 .. Len(buffer) : disk' = disk \o SubSeq(buffer, 1, taken)
  BY DEF DropSession
<1>2. /\ status = "open" /\ call = None /\ status' = "gone" /\ buffer' = << >>
      /\ UNCHANGED <<call, todo, calls, accepted, finished, torn>>
  BY DEF DropSession
<1>3. disk \in Seq(Nat) /\ buffer \in Seq(Nat)
  BY DEF Inv, TypeOK
<1>4. todo = << >>
  BY <1>2, FramesAreCalls DEF Inv, Progress
<1> DEFINE one == SubSeq(buffer, 1, taken)
           two == SubSeq(buffer, taken + 1, Len(buffer))
<1>5. one \in Seq(Nat) /\ two \in Seq(Nat) /\ one \o two = buffer
  BY <1>3, Cut
<1> HIDE DEF two
<1>6. disk \o one \in Seq(Nat) /\ (disk \o one) \o two = disk \o (one \o two)
      /\ Len(disk \o one) = Len(disk) + Len(one) /\ Len(one) \in Nat /\ Len(disk) \in Nat
  <2> HIDE DEF one
  <2>1. disk \in Seq(Nat) /\ one \in Seq(Nat) /\ two \in Seq(Nat)
    BY <1>3, <1>5
  <2>2. QED
    BY ONLY SMTT(20), <2>1, Concat, ConcatAssociative
<1>7. disk' = disk \o one
  BY <1>1
<1> HIDE DEF one
<1>8. /\ Len(disk') <= Len(disk \o buffer) /\ Len(disk) <= Len(disk')
      /\ \A c \in 1 .. Len(disk') : disk'[c] = (disk \o buffer)[c]
  <2>1. disk' \o two = disk \o buffer /\ disk' \in Seq(Nat) /\ two \in Seq(Nat)
    BY <1>5, <1>6, <1>7
  <2>2. /\ Len(disk') <= Len(disk' \o two)
        /\ \A c \in 1 .. Len(disk') : disk'[c] = (disk' \o two)[c]
    BY ONLY <2>1, DiskBeginsLog
  <2>3. Len(disk) <= Len(disk')
    BY <1>6, <1>7
  <2>4. QED
    BY <2>1, <2>2, <2>3
<1>9. disk' \in Seq(Nat)
  BY <1>6, <1>7
<1>10. QED
  BY <1>2, <1>4, <1>8, <1>9, GoneInv

LEMMA CrashInv ==
  ASSUME Inv, Crash
  PROVE  Inv'
<1>1. /\ status = "open" /\ status' = "gone" /\ call' = None /\ todo' = << >>
      /\ buffer' = << >> /\ UNCHANGED <<disk, calls, accepted, finished, torn>>
  BY DEF Crash, Idle
<1>2. disk \in Seq(Nat) /\ buffer \in Seq(Nat)
  BY DEF Inv, TypeOK
<1>3. /\ Len(disk) <= Len(disk \o buffer)
      /\ \A c \in 1 .. Len(disk) : disk[c] = (disk \o buffer)[c]
      /\ Len(disk) \in Nat
  BY <1>2, DiskBeginsLog
<1>4. QED
  BY <1>1, <1>2, <1>3, GoneInv

LEMMA InvIsInductive == Inv /\ [Next]_vars => Inv'
<1> SUFFICES ASSUME Inv, [Next]_vars PROVE Inv'
  OBVIOUS
<1>1. ASSUME NEW frame \in Frames \cup {EndOfStream}, Begin(frame) PROVE Inv'
  BY <1>1, BeginInv DEF AllFrames
<1>2. CASE WritePiece
  BY <1>2, WritePieceInv
<1>3. CASE FailPiece
  BY <1>3, FailPieceInv
<1>4. CASE FinishFlush
  BY <1>4, FinishFlushInv
<1>5. CASE DropSession
  BY <1>5, DropSessionInv
<1>6. CASE Crash
  BY <1>6, CrashInv
<1>7. CASE UNCHANGED vars
  <2>1. PICK k \in 0 .. 2 : Progress(k) /\ Stored(k)
    BY DEF Inv
  <2>2. TypeOK'
    BY <1>7 DEF Inv, TypeOK, vars
  <2>3. Progress(k)'
    BY <1>7, <2>1 DEF Progress, vars
  <2>4. Stored(k)'
    <3> SUFFICES ASSUME ~ torn' PROVE \E log \in Seq(Nat) : \E at : Kept(k, log, at)'
      BY DEF Stored
    <3>1a. PICK log \in Seq(Nat) : \E at : Kept(k, log, at)
      BY <1>7, <2>1 DEF Stored, vars
    <3>1. PICK at : Kept(k, log, at)
      BY <3>1a
    <3>2. Kept(k, log, at)'
      BY <1>7, <3>1 DEF Kept, vars
    <3>3. QED
      BY <3>2
  <2>5. QED
    BY <2>2, <2>3, <2>4 DEF Inv
<1>8. QED
  BY <1>1, <1>2, <1>3, <1>4, <1>5, <1>6, <1>7 DEF Next

LEMMA InvAlways == Spec => []Inv
<1>1. Init => Inv
  BY InitInv
<1>2. Inv /\ [Next]_vars => Inv'
  BY InvIsInductive
<1>3. QED
  BY <1>1, <1>2, PTL DEF Spec

----------------------------------------------------------------------------
(* What the recording promises *)

\* A file with anything in it reads without an error as a prefix of what was
\* accepted, and as all of it once it is finished.
LEMMA DiskReads ==
  ASSUME Inv, ~ torn, disk # << >>
  PROVE  \E j \in 0 .. Len(accepted) :
           /\ Analysis(disk) = Yield(SubSeq(accepted, 1, j), FALSE)
           /\ finished => j = Len(accepted)
<1>1. PICK k \in 0 .. 2 : Stored(k)
  BY DEF Inv
<1>2a. PICK log \in Seq(Nat) : \E at : Kept(k, log, at)
  BY <1>1 DEF Stored
<1>2. PICK at : Kept(k, log, at)
  BY <1>2a
<1>3. disk \in Seq(Nat) /\ accepted \in Seq(AllFrames)
  BY DEF Inv, TypeOK, AllFrames
<1>4. PICK cells : cells = Tail(disk)
  OBVIOUS
<1>5. cells \in Seq(Nat) /\ Len(disk) \in Nat /\ Len(cells) = Len(disk) - 1 /\ Len(disk) >= 1
      /\ \A c \in 1 .. Len(cells) : cells[c] = disk[c + 1]
  BY <1>3, <1>4
<1>6. PICK last : last = End(accepted, at)
  OBVIOUS
<1>7. /\ Layout(log, accepted, at) /\ Len(disk) <= last + 1
      /\ \A c \in 1 .. Len(disk) : disk[c] = log[c]
      /\ finished => last <= Len(disk)
      /\ log[1] = HeaderCell /\ last \in Nat
  <2>1. Len(accepted) \in Nat
    BY <1>3
  <2>2. Layout(log, accepted, at)
    BY <1>2 DEF Kept
  <2>3. last \in Nat
    BY <1>6, <2>1, <2>2, EndOf
  <2>4. QED
    BY <1>2, <1>6, <2>2, <2>3 DEF Kept, Layout
<1>8. HasHeader(disk)
  <2>1. 1 \in 1 .. Len(disk)
    BY <1>5
  <2>2. QED
    BY <1>7, <2>1 DEF HasHeader
<1>9. Analysis(disk) = ReadFrames(cells)
  BY <1>4, <1>8 DEF Analysis
<1>10. \A c \in 1 .. Len(cells) : cells[c] = log[c + 1]
  <2>1. \A c \in 1 .. Len(cells) : c + 1 \in 1 .. Len(disk)
    BY <1>5
  <2>2. QED
    BY <1>5, <1>7, <2>1
<1>11. Len(cells) <= last /\ (finished => Len(cells) + 1 >= last) /\ Len(log) \in Nat
  BY <1>5, <1>7
<1>12. PICK j \in 0 .. Len(accepted) :
         /\ ReadFrames(cells) = Yield(SubSeq(accepted, 1, j), FALSE)
         /\ Len(cells) + 1 >= last => j = Len(accepted)
  <2>1. last = at[Len(accepted) + 1]
    BY <1>6 DEF End
  <2>2. /\ accepted \in Seq(AllFrames) /\ Layout(log, accepted, at) /\ Len(log) \in Nat
        /\ cells \in Seq(Nat) /\ Len(cells) <= at[Len(accepted) + 1]
        /\ \A c \in 1 .. Len(cells) : cells[c] = log[c + 1]
    BY <1>3, <1>5, <1>7, <1>10, <1>11, <2>1
  <2>3. \E j \in 0 .. Len(accepted) :
           /\ ReadFrames(cells) = Yield(SubSeq(accepted, 1, j), FALSE)
           /\ Len(cells) + 1 >= at[Len(accepted) + 1] => j = Len(accepted)
    BY ZenonT(60), <2>2, ReadPrefix
  <2>4. QED
    BY <2>1, <2>3
<1>13. QED
  BY <1>9, <1>11, <1>12

\* The first frames of a recording are a prefix of it.
LEMMA FirstFramesArePrefix ==
  ASSUME NEW s \in Seq(AllFrames), NEW j \in 0 .. Len(s)
  PROVE  IsPrefix(SubSeq(s, 1, j), s)
BY DEF IsPrefix

\* Every variable keeps its type, and the buffer its capacity (BufWriter).
THEOREM TypeCorrect == Spec => []TypeOK
<1>1. Inv => TypeOK
  BY DEF Inv
<1>2. QED
  BY <1>1, InvAlways, PTL

\* Whenever the process dies, and whatever writes failed between two frames,
\* the file reads without an error as the first frames that were recorded
\* (Frame::write_to, BufWriter, FrameReader::next_frame).
THEOREM AnyCutReadsAsPrefixCorrect == Spec => []AnyCutReadsAsPrefix
<1>1. Inv => AnyCutReadsAsPrefix
  <2> SUFFICES ASSUME Inv, ~ torn, disk # << >>
               PROVE  /\ ~ Analysis(disk).malformed
                      /\ IsPrefix(Analysis(disk).frames, accepted)
    BY DEF AnyCutReadsAsPrefix
  <2>1. PICK j \in 0 .. Len(accepted) :
          Analysis(disk) = Yield(SubSeq(accepted, 1, j), FALSE)
    BY DiskReads
  <2>2. /\ Analysis(disk).frames = SubSeq(accepted, 1, j)
        /\ Analysis(disk).malformed = FALSE
    BY <2>1 DEF Yield
  <2>3. accepted \in Seq(AllFrames)
    BY DEF Inv, TypeOK, AllFrames
  <2>4. QED
    BY <2>2, <2>3, FirstFramesArePrefix
<1>2. QED
  BY <1>1, InvAlways, PTL

\* A finished file has something in it.
LEMMA FinishedIsNotEmpty ==
  ASSUME Inv, ~ torn, finished
  PROVE  disk # << >>
<1>1. PICK k \in 0 .. 2 : Stored(k)
  BY DEF Inv
<1>2a. PICK log \in Seq(Nat) : \E at : Kept(k, log, at)
  BY <1>1 DEF Stored
<1>2. PICK at : Kept(k, log, at)
  BY <1>2a
<1>3. Len(accepted) \in Nat /\ disk \in Seq(Nat)
  BY DEF Inv, TypeOK
<1>4. Layout(log, accepted, at) /\ End(accepted, at) <= Len(disk)
  BY <1>2 DEF Kept
<1>5. End(accepted, at) \in Nat /\ 1 <= End(accepted, at)
  BY <1>3, <1>4, EndOf
<1>6. Len(disk) \in Nat /\ Len(disk) >= 1
  BY <1>3, <1>4, <1>5
<1>7. QED
  BY <1>6

\* After a finish_recording that returned Ok every frame ever accepted is in
\* the file (Session::finish_recording's flush).
THEOREM FinishedIsOnDiskCorrect == Spec => []FinishedIsOnDisk
<1>1. Inv => FinishedIsOnDisk
  <2> SUFFICES ASSUME Inv, ~ torn, finished
               PROVE  Analysis(disk).frames = accepted
    BY DEF FinishedIsOnDisk
  <2>1. Analysis(disk) = Yield(SubSeq(accepted, 1, Len(accepted)), FALSE)
    BY FinishedIsNotEmpty, DiskReads
  <2>2. accepted \in Seq(AllFrames)
    BY DEF Inv, TypeOK, AllFrames
  <2>3. SubSeq(accepted, 1, Len(accepted)) = accepted
    BY <2>2, SubSeqFull
  <2>4. QED
    BY <2>1, <2>3 DEF Yield
<1>2. QED
  BY <1>1, InvAlways, PTL

\* What diverges in the first frames diverges in all of them.
LEMMA DivergenceGrows ==
  ASSUME NEW s \in Seq(AllFrames), NEW j \in 0 .. Len(s), Diverges(SubSeq(s, 1, j))
  PROVE  Diverges(s)
<1> DEFINE r == SubSeq(s, 1, j)
<1>1. DOMAIN r = 1 .. j /\ DOMAIN s = 1 .. Len(s) /\ Len(s) \in Nat
      /\ \A i \in 1 .. j : r[i] = s[i]
  OBVIOUS
<1>2. \A i \in DOMAIN r : i \in DOMAIN s /\ r[i] = s[i]
  BY <1>1
<1> HIDE DEF r
<1>3. Diverges(r)
  BY DEF r
<1>4. QED
  BY <1>2, <1>3 DEF Diverges

\* A drop or a crash never turns what was recorded into a verdict of its own
\* (ci-check's exit code).
THEOREM VerdictIsSoundCorrect == Spec => []VerdictIsSound
<1>1. Inv => VerdictIsSound
  <2> SUFFICES ASSUME Inv, ~ torn
               PROVE  /\ ci_check(disk) = 1 => Diverges(accepted)
                      /\ finished /\ ci_check(disk) = 0 => ~ Diverges(accepted)
    BY DEF VerdictIsSound
  <2>0. accepted \in Seq(AllFrames) /\ SubSeq(accepted, 1, Len(accepted)) = accepted
    <3>1. accepted \in Seq(AllFrames)
      BY DEF Inv, TypeOK, AllFrames
    <3>2. QED
      BY <3>1, SubSeqFull
  <2>1. CASE disk = << >>
    <3>1. Analysis(disk).malformed = TRUE
      BY <2>1 DEF Analysis, HasHeader, Yield
    <3>2. ci_check(disk) = 2 /\ ~ finished
      BY <2>1, <3>1, FinishedIsNotEmpty DEF ci_check
    <3>3. QED
      BY <3>2
  <2>2. CASE disk # << >>
    <3>1. PICK j \in 0 .. Len(accepted) :
            /\ Analysis(disk) = Yield(SubSeq(accepted, 1, j), FALSE)
            /\ finished => j = Len(accepted)
      BY <2>2, DiskReads
    <3>2. Analysis(disk).frames = SubSeq(accepted, 1, j) /\ ~ Analysis(disk).malformed
      BY <3>1 DEF Yield
    <3>3. ci_check(disk) = IF Diverges(SubSeq(accepted, 1, j)) THEN 1 ELSE 0
      BY <3>2 DEF ci_check
    <3>4. ci_check(disk) = 1 => Diverges(accepted)
      BY <2>0, <3>3, DivergenceGrows
    <3>5. finished /\ ci_check(disk) = 0 => ~ Diverges(accepted)
      <4>1. finished => SubSeq(accepted, 1, j) = accepted
        BY <2>0, <3>1
      <4>2. QED
        <5> SUFFICES ASSUME finished, ci_check(disk) = 0, Diverges(accepted) PROVE FALSE
          OBVIOUS
        <5>1. Diverges(SubSeq(accepted, 1, j))
          BY <4>1
        <5>2. ci_check(disk) = 1
          BY <3>3, <5>1
        <5>3. QED
          BY <5>2
    <3>6. QED
      BY <3>4, <3>5
  <2>3. QED
    BY <2>1, <2>2
<1>2. QED
  BY <1>1, InvAlways, PTL
==============================================================================
