------------------------ MODULE RtpDumpPlayer_proofs ------------------------
(***************************************************************************)
(* What RtpDumpPlayer promises for any recording, any speeds, jumps and    *)
(* start offsets: types for any callers, and for one caller the one chain  *)
(* of delayed tasks and the exact pace.                                    *)
(*                                                                         *)
(* The parser and the binary search are recursive functions.  That they    *)
(* have values at all is a fact to prove: the function is built up step by *)
(* step, and a smallest place where that fails would be the contradiction. *)
(***************************************************************************)
EXTENDS RtpDumpPlayer, FiniteSetTheorems, NaturalsInduction, TLAPS

----------------------------------------------------------------------------
(* Numbers and recursion                                                   *)

\* A set of numbers that is not empty has a least one.
LEMMA LeastNat ==
  ASSUME NEW T \in SUBSET Nat, T # {}
  PROVE  \E x \in T : \A y \in T : x <= y
<1> DEFINE R == {p \in Nat \X Nat : p[1] < p[2]}
<1>1. IsWellFoundedOn(R, Nat)
  BY NatLessThanWellFounded DEF OpToRel
<1> HIDE DEF R
<1>2. PICK x \in T : \A y \in T : ~ (<< y, x >> \in R)
  BY <1>1, WFMin
<1>3. \A y \in T : ~ (y < x)
  BY <1>2 DEF R
<1> QED
  BY <1>3

\* What holds at a and goes from each number to the next holds from a to b.
LEMMA Stepwise ==
  ASSUME NEW a \in Nat, NEW b \in Nat, NEW T, a \in T,
         \A i \in a .. b : i # a /\ i - 1 \in T => i \in T
  PROVE  \A i \in a .. b : i \in T
<1> SUFFICES ASSUME NEW i \in a .. b, i \notin T PROVE FALSE
  OBVIOUS
<1>1. PICK x \in {k \in a .. b : k \notin T} : \A y \in {k \in a .. b : k \notin T} : x <= y
  <2>1. {k \in a .. b : k \notin T} \in SUBSET Nat /\ i \in {k \in a .. b : k \notin T}
    OBVIOUS
  <2> QED
    BY <2>1, LeastNat
<1>2. x # a /\ x \in a .. b /\ x - 1 \in a .. b
  OBVIOUS
<1>3. x - 1 \in T
  BY <1>1, <1>2
<1> QED
  BY <1>2, <1>3

\* What a recursive definition from a to b asks for: steps that stay in a set, and a function
\* that records their results.
Stays(step, S, a, b) == \A i \in a .. b : \A x \in S : step[i][x] \in S
Records(g, base, step, a, b) ==
  g[a] = base /\ \A i \in a .. b : i # a => g[i] = step[i][g[i - 1]]

\* There is such a function.
LEMMA Recursion ==
  ASSUME NEW S, NEW base \in S, NEW a \in Nat, NEW b \in Nat, a <= b,
         NEW step, Stays(step, S, a, b)
  PROVE  \E g \in [a .. b -> S] : Records(g, base, step, a, b)
<1> DEFINE T == {m \in a .. b : \E g \in [a .. m -> S] : Records(g, base, step, a, m)}
<1>1. a \in T
  <2> DEFINE g == [i \in a .. a |-> base]
  <2>1. g \in [a .. a -> S] /\ g[a] = base /\ \A i \in a .. a : i = a
    OBVIOUS
  <2>2. \E f \in [a .. a -> S] : Records(f, base, step, a, a)
    <3>1. Records(g, base, step, a, a)
      BY <2>1 DEF Records
    <3> HIDE DEF g
    <3> QED
      BY <2>1, <3>1
  <2> QED
    BY <2>2
<1>2. ASSUME NEW m \in a .. b, m # a, m - 1 \in T PROVE m \in T
  <2>1. PICK g \in [a .. (m - 1) -> S] : Records(g, base, step, a, m - 1)
    BY <1>2
  <2> DEFINE h == [i \in a .. m |-> IF i = m THEN step[m][g[m - 1]] ELSE g[i]]
  <2>2. m - 1 \in a .. (m - 1) /\ g[m - 1] \in S
    BY <1>2
  <2>3. step[m][g[m - 1]] \in S
    BY <2>2 DEF Stays
  <2>4. h \in [a .. m -> S]
    BY <2>3
  <2>5. h[a] = base
    BY <2>1, <1>2 DEF Records
  <2>6. ASSUME NEW i \in a .. m, i # a PROVE h[i] = step[i][h[i - 1]]
    <3>1. i - 1 \in a .. (m - 1) /\ i - 1 # m /\ h[i - 1] = g[i - 1]
      BY <2>6
    <3>2. CASE i = m
      BY <3>1, <3>2
    <3>3. CASE i # m
      <4>1. i \in a .. (m - 1) /\ h[i] = g[i]
        BY <3>3
      <4> QED
        BY <2>1, <2>6, <3>1, <4>1 DEF Records
    <3> QED
      BY <3>2, <3>3
  <2>7. Records(h, base, step, a, m)
    BY <2>5, <2>6 DEF Records
  <2> HIDE DEF h
  <2> QED
    BY <2>4, <2>7
<1> HIDE DEF T
<1>3. b \in T
  <2>1. \A i \in a .. b : i # a /\ i - 1 \in T => i \in T
    BY <1>2
  <2>2. \A i \in a .. b : i \in T
    BY <1>1, <2>1, Stepwise
  <2> QED
    BY <2>2
<1> QED
  BY <1>3 DEF T

----------------------------------------------------------------------------
(* The parser                                                              *)

Frames == [len : {"ok", "small", "invalid"}, stamp : 0 .. (StampMod - 1)]
Ms == 0 .. (MsMod - 1)

\* The frames that become packets are frames of the file.
LEMMA ValidFramesType ==
  ASSUME NEW file \in Seq(Frames)
  PROVE  ValidFrames(file) \in Seq(Frames)
<1> DEFINE n == Len(file)
           S == Seq(Frames)
           none == << >>
           Keeps(i) == file[i].len = "ok" /\ \A k \in 1 .. (i - 1) : file[k].len # "invalid"
           Adds(i, x) == IF Keeps(i) THEN Append(x, file[i]) ELSE x
           Body(f) == [i \in 0 .. n |-> IF i = 0 THEN none ELSE Adds(i, f[i - 1])]
           kept == CHOOSE f : f = Body(f)
           step == [i \in 0 .. n |-> [x \in S |-> IF i = 0 THEN x ELSE Adds(i, x)]]
<1>1. n \in Nat /\ none \in S /\ 0 <= n
  OBVIOUS
<1>2. ASSUME NEW i \in 0 .. n, i # 0, NEW x \in S PROVE Adds(i, x) \in S
  <2>1. file[i] \in Frames
    BY <1>2
  <2>2. Append(x, file[i]) \in S
    BY <2>1
  <2> HIDE DEF Keeps, S
  <2> QED
    BY <2>2
<1>3. ValidFrames(file) = kept[n]
  BY DEF ValidFrames
<1> HIDE DEF n, S, none, Adds
<1>4. Stays(step, S, 0, n)
  BY <1>2 DEF Stays
<1>5. PICK g \in [0 .. n -> S] : Records(g, none, step, 0, n)
  <2> HIDE DEF step
  <2> QED
    BY 0 \in Nat, <1>1, <1>4, Recursion
<1>6. g = Body(g)
  <2>1. ASSUME NEW i \in 0 .. n, i # 0 PROVE g[i] = Adds(i, g[i - 1])
    <3>1. i - 1 \in 0 .. n
      BY <1>1, <2>1
    <3>2. g[i - 1] \in S
      BY <3>1
    <3>3. step[i] = [x \in S |-> Adds(i, x)]
      BY <2>1
    <3> QED
      BY <1>5, <2>1, <3>2, <3>3 DEF Records
  <2> QED
    BY <1>1, <1>5, <2>1 DEF Records
<1>7. kept = Body(kept)
  <2> HIDE DEF Body
  <2> QED
    BY <1>6
<1> HIDE DEF kept
<1> DEFINE T == {k \in 0 .. n : kept[k] \in S}
<1>8. 0 \in T
  BY <1>1, <1>7
<1>9. ASSUME NEW i \in 0 .. n, i # 0, i - 1 \in T PROVE i \in T
  <2>1. kept[i] = Adds(i, kept[i - 1])
    BY <1>7, <1>9
  <2> QED
    BY <1>2, <1>9, <2>1
<1>10. \A i \in 0 .. n : i \in T
  <2> HIDE DEF T
  <2> QED
    BY <1>1, <1>8, <1>9, Stepwise
<1>11. kept[n] \in S
  BY <1>1, <1>10
<1> QED
  BY <1>3, <1>11 DEF S

LEMMA ModType ==
  ASSUME NEW a \in Int, NEW m \in Nat \ {0}
  PROVE  a % m \in 0 .. (m - 1)
OBVIOUS

\* The distance of two packets, cast to uint64_t.
LEMMA DeltaType ==
  ASSUME NEW a \in 0 .. (StampMod - 1), NEW b \in 0 .. (StampMod - 1)
  PROVE  DeltaMs(StampDelta(a, b)) \in Ms
<1>1. HalfRange \in Int
  BY WidthAssumption DEF HalfRange
<1>2. StampDelta(a, b) \in Int
  <2> HIDE DEF HalfRange
  <2> QED
    BY <1>1, WidthAssumption DEF StampDelta
<1>3. ASSUME NEW d \in Int PROVE DeltaMs(d) \in Ms
  <2>1. d \div TicksPerMs \in Int /\ (-d) \div TicksPerMs \in Int
    BY WidthAssumption
  <2>2. \A x \in Int : x % MsMod \in Ms
    BY WidthAssumption, ModType DEF Ms
  <2> QED
    BY <2>1, <2>2 DEF DeltaMs
<1> QED
  BY <1>2, <1>3

\* parseDumpFile() gives every packet an offset.
LEMMA OffsetsType ==
  ASSUME NEW frames \in Seq(Frames)
  PROVE  /\ Offsets(frames) \in Seq(Ms) /\ Len(Offsets(frames)) = Len(frames)
         /\ frames # << >> => Offsets(frames)[1] = 0
<1> DEFINE n == Len(frames)
           Delta(i) == DeltaMs(StampDelta(frames[i - 1].stamp, frames[i].stamp))
           Adds(i, x) == (x + Delta(i)) % MsMod
           Body(f) == [i \in 1 .. n |-> IF i = 1 THEN 0 ELSE Adds(i, f[i - 1])]
           off == CHOOSE f : f = Body(f)
           step == [i \in 1 .. n |-> [x \in Ms |-> IF i = 1 THEN x ELSE Adds(i, x)]]
<1>1. n \in Nat /\ \A i \in 1 .. n : frames[i] \in Frames
  OBVIOUS
<1>2. Offsets(frames) = [i \in 1 .. n |-> off[i]]
  BY DEF Offsets
<1>3. 0 \in Ms /\ \A x \in Int : x % MsMod \in Ms
  BY WidthAssumption, ModType DEF Ms
<1>4. ASSUME NEW i \in 1 .. n, i # 1, NEW x \in Ms PROVE Adds(i, x) \in Ms
  <2>1. i \in 1 .. n /\ i - 1 \in 1 .. n
    BY <1>4
  <2>2. frames[i].stamp \in 0 .. (StampMod - 1) /\ frames[i - 1].stamp \in 0 .. (StampMod - 1)
    BY <1>1, <2>1 DEF Frames
  <2>3. Delta(i) \in Ms
    BY <2>2, DeltaType
  <2> HIDE DEF Delta
  <2>4. x + Delta(i) \in Int
    BY <2>3 DEF Ms
  <2> QED
    BY <1>3, <2>4
<1> HIDE DEF Adds
<1>5. CASE n = 0
  <2>1. frames = << >>
    BY <1>5
  <2>2. 1 .. n = {}
    BY <1>5
  <2> HIDE DEF n, off
  <2>3. Offsets(frames) = << >>
    BY <1>2, <2>2
  <2>4. << >> \in Seq(Ms) /\ Len(<< >>) = 0
    OBVIOUS
  <2> QED
    BY <1>5, <2>1, <2>3, <2>4 DEF n
<1>6. CASE n > 0
  <2> HIDE DEF n
  <2>1. Stays(step, Ms, 1, n)
    BY <1>4 DEF Stays
  <2>2. PICK g \in [1 .. n -> Ms] : Records(g, 0, step, 1, n)
    <3>1. 1 \in Nat /\ 1 <= n
      BY <1>1, <1>6
    <3> HIDE DEF step
    <3> QED
      BY <1>1, <1>3, <2>1, <3>1, Recursion
  <2>3. g = Body(g)
    <3>1. ASSUME NEW i \in 1 .. n, i # 1 PROVE g[i] = Adds(i, g[i - 1])
      <4>1. i - 1 \in 1 .. n
        BY <1>1, <3>1
      <4>2. g[i - 1] \in Ms
        BY <4>1
      <4>3. step[i] = [x \in Ms |-> Adds(i, x)]
        BY <3>1
      <4> QED
        BY <2>2, <3>1, <4>2, <4>3 DEF Records
    <3> QED
      BY <1>1, <2>2, <3>1 DEF Records
  <2>4. off = Body(off)
    <3> HIDE DEF Body
    <3> QED
      BY <2>3
  <2> HIDE DEF off
  <2> DEFINE T == {k \in 1 .. n : off[k] \in Ms}
  <2>5. 1 \in T
    BY <1>1, <1>3, <1>6, <2>4
  <2>6. ASSUME NEW i \in 1 .. n, i # 1, i - 1 \in T PROVE i \in T
    <3>1. off[i] = Adds(i, off[i - 1])
      BY <2>4, <2>6
    <3> QED
      BY <1>4, <2>6, <3>1
  <2>7. \A i \in 1 .. n : i \in T
    <3>1. 1 \in Nat
      OBVIOUS
    <3> HIDE DEF T
    <3> QED
      BY <1>1, <2>5, <2>6, <3>1, Stepwise
  <2>8. Offsets(frames) \in [1 .. n -> Ms] /\ Offsets(frames)[1] = 0
    BY <1>1, <1>2, <1>6, <2>4, <2>7
  <2>9. Offsets(frames) \in Seq(Ms) /\ Len(Offsets(frames)) = n
    BY <1>1, <2>8
  <2> QED
    BY <2>8, <2>9 DEF n
<1> QED
  BY <1>1, <1>5, <1>6

\* The offsets of a file's packets.
LEMMA ParseType ==
  ASSUME NEW file \in Files
  PROVE  ParseDumpFile(file) \in Seq(Ms)
<1>1. file \in Seq(Frames)
  BY ArgsAssumption DEF Frames
<1> QED
  BY <1>1, ValidFramesType, OffsetsType DEF ParseDumpFile

----------------------------------------------------------------------------
(* The binary search                                                       *)

\* A round of the loop leaves a shorter part of the stretch.
Mid(s) == s.first + s.len \div 2

LEMMA HalvedShrinks ==
  ASSUME NEW pkts \in Seq(Nat), NEW target \in Int, NEW s \in Spans(pkts), s.len # 0,
         NEW h, h = Halved(pkts, target, s)
  PROVE  /\ h \in Spans(pkts) /\ h.len < s.len
         /\ Mid(s) \in s.first .. (s.first + s.len - 1) /\ Mid(s) \in 1 .. Len(pkts)
         /\ \/ /\ pkts[Mid(s)] < target
               /\ h.first = Mid(s) + 1 /\ h.first + h.len = s.first + s.len
            \/ /\ ~ (pkts[Mid(s)] < target)
               /\ h.first = s.first /\ h.first + h.len = Mid(s)
<1>1. /\ s.first \in 1 .. (Len(pkts) + 1) /\ s.len \in 1 .. Len(pkts) /\ Len(pkts) \in Nat
      /\ s.first + s.len <= Len(pkts) + 1
  BY DEF Spans
<1>2. PICK L \in Nat, a \in Nat, n \in Nat : L = Len(pkts) /\ a = s.first /\ n = s.len
  BY <1>1
<1>3. a \in 1 .. (L + 1) /\ n \in 1 .. L /\ a + n <= L + 1
  BY <1>1, <1>2
<1>4. n \div 2 \in Nat /\ n \div 2 < n
  BY <1>3
<1>5. PICK half \in Nat : half = n \div 2
  BY <1>4
<1>6. half < n
  BY <1>4, <1>5
<1>7. a + half \in a .. (a + n - 1) /\ a + half \in 1 .. L
  BY <1>3, <1>6
<1>8. Mid(s) = a + half
  BY <1>2, <1>5 DEF Mid
<1>9. h = IF pkts[a + half] < target THEN [first |-> a + half + 1, len |-> n - half - 1]
                                     ELSE [first |-> a, len |-> half]
  BY <1>2, <1>5 DEF Halved
<1>10. CASE pkts[a + half] < target
  <2>1. h = [first |-> a + half + 1, len |-> n - half - 1]
    BY <1>9, <1>10
  <2>2. a + half + 1 \in 1 .. (L + 1) /\ n - half - 1 \in 0 .. L /\ n - half - 1 < n
        /\ (a + half + 1) + (n - half - 1) = a + n
    BY <1>3, <1>6
  <2>3. h \in Spans(pkts)
    BY <1>2, <1>3, <2>1, <2>2 DEF Spans
  <2> QED
    BY <1>2, <1>7, <1>8, <1>10, <2>1, <2>2, <2>3
<1>11. CASE ~ (pkts[a + half] < target)
  <2>1. h = [first |-> a, len |-> half]
    BY <1>9, <1>11
  <2>2. half \in 0 .. L /\ a + half <= L + 1
    BY <1>3, <1>6
  <2>3. h \in Spans(pkts)
    BY <1>2, <1>3, <2>1, <2>2 DEF Spans
  <2> QED
    BY <1>2, <1>6, <1>7, <1>8, <1>11, <2>1, <2>3
<1> QED
  BY <1>10, <1>11

Body(pkts, target, f) ==
  [s \in Spans(pkts) |-> IF s.len = 0 THEN s.first ELSE f[Halved(pkts, target, s)]]
Walk(pkts, target) == CHOOSE f : f = Body(pkts, target, f)

\* The search is a function of the stretch: it is built up by the length of the stretch.
LEMMA WalkExists ==
  ASSUME NEW pkts \in Seq(Nat), NEW target \in Int
  PROVE  Walk(pkts, target) = Body(pkts, target, Walk(pkts, target))
<1> DEFINE L == Len(pkts)
           Upto(m) == {s \in Spans(pkts) : s.len <= m}
           Part(f, m) == f = [s \in Upto(m) |->
                                IF s.len = 0 THEN s.first ELSE f[Halved(pkts, target, s)]]
           T == {m \in 0 .. L : \E f : Part(f, m)}
<1>1. L \in Nat
  OBVIOUS
<1>2. 0 \in T
  <2> DEFINE f == [s \in Upto(0) |-> s.first]
  <2>1. \A s \in Upto(0) : s.len = 0
    BY DEF Spans
  <2>2. Part(f, 0)
    BY <2>1
  <2> HIDE DEF f, Part
  <2> QED
    BY <1>1, <2>2
<1>3. ASSUME NEW m \in 0 .. L, m # 0, m - 1 \in T PROVE m \in T
  <2>1. PICK g : Part(g, m - 1)
    BY <1>3
  <2> DEFINE f == [s \in Upto(m) |-> IF s.len = 0 THEN s.first ELSE g[Halved(pkts, target, s)]]
  <2>2. ASSUME NEW s \in Upto(m - 1) PROVE f[s] = g[s]
    <3>1. s \in Upto(m)
      BY <1>1, <2>2 DEF Spans
    <3> QED
      BY <2>1, <2>2, <3>1
  <2>3. ASSUME NEW s \in Upto(m), s.len # 0 PROVE Halved(pkts, target, s) \in Upto(m - 1)
    <3>1. s \in Spans(pkts) /\ s.len \in Nat /\ s.len <= m
      BY <2>3 DEF Spans
    <3>2. Halved(pkts, target, s) \in Spans(pkts) /\ Halved(pkts, target, s).len < s.len
      BY <2>3, <3>1, HalvedShrinks
    <3>3. Halved(pkts, target, s).len \in Nat
      BY <3>2 DEF Spans
    <3> QED
      BY <1>1, <1>3, <3>1, <3>2, <3>3
  <2>4. Part(f, m)
    BY <2>2, <2>3
  <2> HIDE DEF f, Part
  <2> QED
    BY <2>4
<1>4. L \in T
  <2> HIDE DEF T
  <2>1. \A i \in 0 .. L : i \in T
    BY 0 \in Nat, <1>1, <1>2, <1>3, Stepwise
  <2> QED
    BY <1>1, <2>1
<1>5. PICK f : Part(f, L)
  BY <1>4
<1>6. Upto(L) = Spans(pkts)
  BY DEF Spans
<1>7. f = Body(pkts, target, f)
  BY <1>5, <1>6 DEF Body
<1> QED
  BY <1>7 DEF Walk

Sorted(pkts) == \A i, j \in DOMAIN pkts : i <= j => pkts[i] <= pkts[j]

\* Where the search of a stretch ends: behind what is before the target, in front of what is not.
Splits(pkts, target, s, r) ==
  /\ r \in s.first .. (s.first + s.len)
  /\ Sorted(pkts) => /\ \A k \in s.first .. (r - 1) : pkts[k] < target
                     /\ \A k \in r .. (s.first + s.len - 1) : target <= pkts[k]

LEMMA WalkSplits ==
  ASSUME NEW pkts \in Seq(Nat), NEW target \in Int
  PROVE  \A s \in Spans(pkts) : Splits(pkts, target, s, Walk(pkts, target)[s])
<1> DEFINE W == Walk(pkts, target)
           Bad == {s \in Spans(pkts) : ~ Splits(pkts, target, s, W[s])}
           Lens == {s.len : s \in Bad}
<1> SUFFICES ASSUME NEW s0 \in Bad PROVE FALSE
  OBVIOUS
<1>1. ASSUME NEW s \in Spans(pkts)
      PROVE  /\ s.first \in 1 .. (Len(pkts) + 1) /\ s.len \in Nat /\ Len(pkts) \in Nat
             /\ s.first + s.len <= Len(pkts) + 1
  BY DEF Spans
<1>2. PICK s \in Bad : \A x \in Bad : s.len <= x.len
  <2>1. Lens \in SUBSET Nat /\ s0.len \in Lens
    BY <1>1
  <2>2. PICK n \in Lens : \A m \in Lens : n <= m
    <3> HIDE DEF Lens
    <3> QED
      BY <2>1, LeastNat
  <2>3. PICK s \in Bad : s.len = n
    OBVIOUS
  <2>4. \A x \in Bad : x.len \in Lens
    OBVIOUS
  <2> QED
    BY <2>2, <2>3, <2>4
<1>3. s \in Spans(pkts) /\ ~ Splits(pkts, target, s, W[s])
  OBVIOUS
<1>4. /\ s.first \in 1 .. (Len(pkts) + 1) /\ s.len \in Nat /\ Len(pkts) \in Nat
      /\ s.first + s.len <= Len(pkts) + 1
  BY <1>1, <1>3
<1> DEFINE h == Halved(pkts, target, s)
<1>5. W[s] = IF s.len = 0 THEN s.first ELSE W[h]
  BY <1>3, WalkExists DEF Body
<1>6. CASE s.len = 0
  BY <1>3, <1>4, <1>5, <1>6 DEF Splits
<1>7. CASE s.len # 0
  <2>1. /\ h \in Spans(pkts) /\ h.len < s.len
        /\ Mid(s) \in s.first .. (s.first + s.len - 1) /\ Mid(s) \in 1 .. Len(pkts)
        /\ \/ /\ pkts[Mid(s)] < target
              /\ h.first = Mid(s) + 1 /\ h.first + h.len = s.first + s.len
           \/ /\ ~ (pkts[Mid(s)] < target)
              /\ h.first = s.first /\ h.first + h.len = Mid(s)
    BY <1>3, <1>7, HalvedShrinks
  <2>2. h.len \in Nat /\ h.first \in Nat
    BY <1>1, <2>1
  <2>3. W[s] = W[h]
    BY <1>5, <1>7
  <2>4. \A k \in 1 .. Len(pkts) : pkts[k] \in Nat
    OBVIOUS
  <2>5. Splits(pkts, target, h, W[h])
    <3>1. ASSUME ~ Splits(pkts, target, h, W[h]) PROVE FALSE
      <4>1. h \in Bad
        BY <2>1, <3>1
      <4> HIDE DEF Bad, h
      <4>2. s.len <= h.len
        BY <1>2, <4>1
      <4>3. h.len < s.len
        BY <2>1
      <4>4. s.len \in Nat
        BY <1>4
      <4> QED
        BY <2>2, <4>2, <4>3, <4>4
    <3> QED
      BY <3>1
  <2> HIDE DEF W, h, Bad, Lens
  <2>6. Mid(s) \in Nat /\ Len(pkts) \in Nat /\ s.first \in Nat /\ s.len \in Nat
    BY <1>4, <2>1
  <2>7. PICK L \in Nat, a \in Nat, n \in Nat, b \in Nat, l \in Nat, m \in Nat :
          L = Len(pkts) /\ a = s.first /\ n = s.len /\ b = h.first /\ l = h.len /\ m = Mid(s)
    BY <2>2, <2>6, Zenon
  <2>8. /\ 1 <= a /\ a + n <= L + 1 /\ a <= m /\ m < a + n /\ m \in 1 .. L
        /\ \/ pkts[m] < target /\ b = m + 1 /\ b + l = a + n
           \/ ~ (pkts[m] < target) /\ b = a /\ b + l = m
    <3>1. a \in 1 .. (L + 1) /\ a + n <= L + 1
      BY <1>4, <2>7
    <3>2. m \in a .. (a + n - 1) /\ m \in 1 .. L
      BY <2>1, <2>7
    <3>3. \/ pkts[m] < target /\ b = m + 1 /\ b + l = a + n
          \/ ~ (pkts[m] < target) /\ b = a /\ b + l = m
      BY <2>1, <2>7
    <3>4. 1 <= a /\ a <= m /\ m < a + n
      BY <3>1, <3>2
    <3> QED
      BY <3>1, <3>2, <3>3, <3>4
  <2>9. /\ W[s] \in b .. (b + l)
        /\ Sorted(pkts) => /\ \A k \in b .. (W[s] - 1) : pkts[k] < target
                           /\ \A k \in W[s] .. (b + l - 1) : target <= pkts[k]
    BY <2>3, <2>5, <2>7 DEF Splits
  <2>10. PICK r \in Nat : r = W[s]
    BY <2>9
  <2>11. /\ r \in b .. (b + l)
         /\ Sorted(pkts) => /\ \A k \in b .. (r - 1) : pkts[k] < target
                            /\ \A k \in r .. (b + l - 1) : target <= pkts[k]
    BY <2>9, <2>10
  <2>12. a <= r /\ r <= a + n
    BY <2>8, <2>11
  <2>13. ASSUME NEW k \in a .. (a + n - 1) PROVE k \in DOMAIN pkts /\ pkts[k] \in Nat
    <3>1. k \in 1 .. L
      BY <2>8
    <3>2. pkts[k] \in Nat
      BY <2>4, <2>7, <3>1
    <3>3. DOMAIN pkts = 1 .. L
      BY <2>7
    <3> QED
      BY <3>1, <3>2, <3>3
  <2>14. m \in DOMAIN pkts /\ pkts[m] \in Nat
    BY <2>8, <2>13
  <2>15. ASSUME Sorted(pkts), NEW k \in a .. (r - 1) PROVE pkts[k] < target
    <3>1. k \in DOMAIN pkts /\ pkts[k] \in Nat
      BY <2>12, <2>13
    <3>2. CASE k \in b .. (r - 1)
      BY <2>11, <2>15, <3>2
    <3>3. CASE k \notin b .. (r - 1)
      <4>1. k <= m /\ pkts[m] < target
        BY <2>8, <2>11, <2>12, <3>3
      <4>2. pkts[k] <= pkts[m]
        BY <2>14, <2>15, <3>1, <4>1 DEF Sorted
      <4> QED
        BY <2>14, <3>1, <4>1, <4>2
    <3> QED
      BY <3>2, <3>3
  <2>16. ASSUME Sorted(pkts), NEW k \in r .. (a + n - 1) PROVE target <= pkts[k]
    <3>1. k \in DOMAIN pkts /\ pkts[k] \in Nat
      BY <2>12, <2>13
    <3>2. CASE k \in r .. (b + l - 1)
      BY <2>11, <2>16, <3>2
    <3>3. CASE k \notin r .. (b + l - 1)
      <4>1. m <= k /\ ~ (pkts[m] < target)
        BY <2>8, <2>11, <2>12, <3>3
      <4>2. pkts[m] <= pkts[k]
        BY <2>14, <2>16, <3>1, <4>1 DEF Sorted
      <4> QED
        BY <2>14, <3>1, <4>1, <4>2
    <3> QED
      BY <3>2, <3>3
  <2>17. r \in a .. (a + n)
    BY <2>12
  <2>18. Splits(pkts, target, s, W[s])
    BY <2>7, <2>10, <2>17, <2>15, <2>16 DEF Splits
  <2> QED
    BY <1>3, <2>18
<1> QED
  BY <1>6, <1>7

LEMMA LowerBoundSplits ==
  ASSUME NEW pkts \in Seq(Nat), NEW target \in Int
  PROVE  /\ LowerBound(pkts, target) \in 1 .. (Len(pkts) + 1)
         /\ Sorted(pkts) => \A k \in DOMAIN pkts :
                             IF k < LowerBound(pkts, target) THEN pkts[k] < target
                                                             ELSE target <= pkts[k]
<1> DEFINE all == [first |-> 1, len |-> Len(pkts)]
<1>1. PICK L \in Nat : L = Len(pkts)
  OBVIOUS
<1>2. all \in Spans(pkts) /\ all.first = 1 /\ all.len = L
  BY <1>1 DEF Spans
<1>3. LowerBound(pkts, target) = Walk(pkts, target)[all]
  BY DEF LowerBound, Walk, Body
<1> HIDE DEF all
<1>4. PICK r : r = LowerBound(pkts, target)
  OBVIOUS
<1>5. Splits(pkts, target, all, r)
  BY <1>2, <1>3, <1>4, WalkSplits
<1>6. /\ r \in 1 .. (1 + L)
      /\ Sorted(pkts) => /\ \A k \in 1 .. (r - 1) : pkts[k] < target
                         /\ \A k \in r .. (1 + L - 1) : target <= pkts[k]
  BY <1>2, <1>5 DEF Splits
<1>7. Sorted(pkts) => \A k \in 1 .. L : IF k < r THEN pkts[k] < target ELSE target <= pkts[k]
  BY <1>6
<1>8. r \in 1 .. (L + 1)
  BY <1>6
<1> QED
  BY <1>1, <1>4, <1>7, <1>8

\* locateToMs() stays in the file; where the offsets are sorted it finds the first packet at or
\* after the target.
LEMMA LocateFinds ==
  ASSUME NEW pkts \in Seq(Nat), pkts # << >>, NEW ms \in Nat
  PROVE  /\ Locate(pkts, ms) \in DOMAIN pkts
         /\ Sorted(pkts) /\ ms <= Duration(pkts) =>
              /\ ms <= pkts[Locate(pkts, ms)]
              /\ \A k \in 1 .. (Locate(pkts, ms) - 1) : pkts[k] < ms
<1> DEFINE target == IF ms > Duration(pkts) THEN Duration(pkts) ELSE ms
           found == LowerBound(pkts, target)
<1>1. PICK L \in Nat : L = Len(pkts) /\ L \in DOMAIN pkts /\ DOMAIN pkts = 1 .. L
  <2>1. Len(pkts) \in Nat /\ Len(pkts) # 0 /\ DOMAIN pkts = 1 .. Len(pkts)
    OBVIOUS
  <2>2. PICK L \in Nat : L = Len(pkts)
    BY <2>1
  <2>3. L # 0 /\ DOMAIN pkts = 1 .. L
    BY <2>1, <2>2
  <2>4. L \in 1 .. L
    BY <2>3
  <2> QED
    BY <2>2, <2>3, <2>4
<1>2. Duration(pkts) = pkts[L] /\ Duration(pkts) \in Nat
  BY <1>1 DEF Duration
<1>3. target \in Int
  BY <1>2
<1>4. Locate(pkts, ms) = IF found > L THEN L ELSE found
  BY <1>1 DEF Locate
<1>5. PICK t \in Int : t = target
  BY <1>3
<1>6. /\ found \in 1 .. (L + 1)
      /\ Sorted(pkts) => \A k \in 1 .. L : IF k < found THEN pkts[k] < t ELSE t <= pkts[k]
  BY <1>1, <1>3, <1>5, LowerBoundSplits
<1> HIDE DEF target
<1> HIDE DEF found
<1>7. PICK f \in Nat, i \in Nat : f = found /\ i = Locate(pkts, ms)
  <2>1. \A f \in 1 .. (L + 1) : f \in Nat
    OBVIOUS
  <2>2. found \in Nat /\ Locate(pkts, ms) \in Nat
    BY <1>4, <1>6, <2>1
  <2> QED
    BY <2>2
<1>8. i = IF f > L THEN L ELSE f
  BY <1>4, <1>7
<1>9. f \in 1 .. (L + 1) /\ L \in 1 .. L
  BY <1>1, <1>6, <1>7
<1>10. i \in 1 .. L
  BY <1>8, <1>9
<1>11. ASSUME Sorted(pkts), ms <= pkts[L]
       PROVE  ms <= pkts[i] /\ \A k \in 1 .. (i - 1) : pkts[k] < ms
  <2>1. t = ms
    BY <1>2, <1>5, <1>11 DEF target
  <2>2. \A k \in 1 .. L : IF k < f THEN pkts[k] < ms ELSE ms <= pkts[k]
    BY <1>6, <1>7, <1>11, <2>1
  <2>3. \A k \in 1 .. (i - 1) : k \in 1 .. L /\ k < f
    BY <1>8, <1>9, <1>10
  <2>4. CASE f > L
    BY <1>8, <1>11, <2>2, <2>3, <2>4
  <2>5. CASE ~ (f > L)
    BY <1>8, <1>10, <2>2, <2>3, <2>5
  <2> QED
    BY <2>4, <2>5
<1> QED
  BY <1>1, <1>2, <1>7, <1>10, <1>11

----------------------------------------------------------------------------
(* Delayed tasks                                                           *)

Timers == [id : Nat \ {0}, due : Nat]

\* There is an id that no delayed task has.
LEMMA FreshIdIsFree ==
  ASSUME NEW tms \in SUBSET Timers, IsFiniteSet(tms)
  PROVE  FreshId(tms) \in Nat \ {0} /\ \A t \in tms : t.id # FreshId(tms)
<1>1. PICK c \in Nat : c = Cardinality(tms)
  BY FS_CardinalityType
<1>2. \E n \in 1 .. (c + 1) : \A t \in tms : t.id # n
  <2> SUFFICES ASSUME \A n \in 1 .. (c + 1) : \E t \in tms : t.id = n PROVE FALSE
    OBVIOUS
  <2> DEFINE holder == [n \in 1 .. (c + 1) |-> CHOOSE t \in tms : t.id = n]
  <2>1. \A n \in 1 .. (c + 1) : holder[n] \in tms /\ holder[n].id = n
    OBVIOUS
  <2>2. holder \in [1 .. (c + 1) -> tms]
    BY <2>1
  <2>3. IsFiniteSet(1 .. (c + 1)) /\ Cardinality(1 .. (c + 1)) = c + 1
    <3>1. 1 \in Int /\ c + 1 \in Int
      OBVIOUS
    <3>2. IsFiniteSet(1 .. (c + 1))
          /\ Cardinality(1 .. (c + 1)) = IF 1 > c + 1 THEN 0 ELSE (c + 1) - 1 + 1
      BY <3>1, FS_Interval
    <3> QED
      BY <3>2
  <2>4. Cardinality(tms) < Cardinality(1 .. (c + 1))
    BY <1>1, <2>3
  <2>5. PICK x \in 1 .. (c + 1), y \in 1 .. (c + 1) : x # y /\ holder[x] = holder[y]
    <3> HIDE DEF holder
    <3> QED
      BY <2>2, <2>3, <2>4, FS_PigeonHole
  <2> QED
    BY <2>1, <2>5
<1>3. FreshId(tms) \in 1 .. (c + 1) /\ \A t \in tms : t.id # FreshId(tms)
  BY <1>1, <1>2 DEF FreshId
<1> QED
  BY <1>3

LEMMA ScheduleType ==
  ASSUME NEW tms \in SUBSET Timers, IsFiniteSet(tms), NEW delay \in Nat, now \in Nat,
         Schedule(tms, delay)
  PROVE  /\ timers' \in SUBSET Timers /\ IsFiniteSet(timers') /\ delayTask' \in Nat \ {0}
         /\ timers' = tms \cup {[id |-> delayTask', due |-> now + delay]}
<1>1. FreshId(tms) \in Nat \ {0}
  BY FreshIdIsFree
<1>2. timers' = tms \cup {[id |-> FreshId(tms), due |-> now + delay]} /\ delayTask' = FreshId(tms)
  BY DEF Schedule
<1>3. [id |-> FreshId(tms), due |-> now + delay] \in Timers
  BY <1>1 DEF Timers
<1>4. IsFiniteSet(timers')
  BY <1>2, FS_AddElement
<1> QED
  BY <1>1, <1>2, <1>3, <1>4

LEMMA CancelledType ==
  ASSUME NEW tms \in SUBSET Timers, IsFiniteSet(tms), NEW handle
  PROVE  Cancelled(tms, handle) \in SUBSET Timers /\ IsFiniteSet(Cancelled(tms, handle))
<1>1. Cancelled(tms, handle) \in SUBSET tms
  BY DEF Cancelled
<1> QED
  BY <1>1, FS_Subset

----------------------------------------------------------------------------
(* sendNextPacket()                                                        *)

Clocks == [speed : Nat \ {0}, baseOffset : Nat, baseElapsed : Nat,
           pausedDuration : Nat, pauseBegin : Nat]
Drifts == [ahead : Int, behind : Nat]

LEMMA MinusType ==
  ASSUME NEW a \in Int, NEW b \in Int
  PROVE  Minus(a, b) \in Ms
<1>1. a - b \in Int
  OBVIOUS
<1> QED
  BY <1>1, WidthAssumption, ModType DEF Minus, Ms

LEMMA MsNat == \A x \in Ms : x \in Nat
BY DEF Ms

LEMMA DivType ==
  ASSUME NEW a \in Int, NEW m \in Nat \ {0}
  PROVE  a \div m \in Int
OBVIOUS

LEMMA TargetType ==
  ASSUME NEW off \in Nat, NEW ck \in Clocks
  PROVE  TargetElapsed(off, ck) \in Ms
<1>1. ck.baseOffset \in Int /\ ck.baseElapsed \in Int /\ ck.speed \in Nat \ {0}
  BY DEF Clocks
<1>2. 2 * Minus(off, ck.baseOffset) \in Int
  <2>1. off \in Int
    OBVIOUS
  <2>2. Minus(off, ck.baseOffset) \in Ms
    BY <1>1, <2>1, MinusType
  <2>3. Minus(off, ck.baseOffset) \in Nat
    BY <2>2, MsNat
  <2> QED
    BY <2>3
<1>3. (2 * Minus(off, ck.baseOffset)) \div ck.speed \in Int
  BY <1>1, <1>2, DivType
<1>4. ck.baseElapsed + (2 * Minus(off, ck.baseOffset)) \div ck.speed \in Int
  BY <1>1, <1>3
<1> QED
  BY <1>4, WidthAssumption, ModType DEF TargetElapsed, Ms

LEMMA EffectiveType ==
  ASSUME now \in Nat, NEW ck \in Clocks
  PROVE  EffectiveElapsed(ck) \in Ms
<1>1. ck.pausedDuration \in Int
  BY DEF Clocks
<1> QED
  BY <1>1, MinusType DEF EffectiveElapsed

\* The packets the loop compares with the one before: the first, and those of a new offset.
Opens(i, k) == k = i \/ packets[k] # packets[k - 1]

\* The loop of sendNextPacket() ends.
LEMMA SendUpToStops ==
  ASSUME packets \in Seq(Ms), NEW i \in 1 .. (Len(packets) + 1), NEW ck
  PROVE  /\ SendUpTo(i, ck) \in i .. (Len(packets) + 1)
         /\ \/ SendUpTo(i, ck) = Len(packets) + 1
            \/ Opens(i, SendUpTo(i, ck)) /\ ~ Due(SendUpTo(i, ck), ck)
         /\ \A k \in i .. (SendUpTo(i, ck) - 1) : Opens(i, k) => Due(k, ck)
<1> DEFINE Stop(j) == j = Len(packets) + 1 \/ (Opens(i, j) /\ ~ Due(j, ck))
           T == {j \in i .. (Len(packets) + 1) : Stop(j)}
<1>1. PICK L \in Nat : L = Len(packets)
  OBVIOUS
<1> HIDE DEF Stop
<1>2. T \in SUBSET Nat /\ L + 1 \in T
  BY <1>1 DEF Stop
<1>3. PICK j \in T : \A k \in T : j <= k
  BY <1>2, LeastNat
<1>4. j \in i .. (L + 1) /\ Stop(j)
  BY <1>1, <1>3
<1>5. ASSUME NEW k \in i .. (j - 1) PROVE ~ Stop(k)
  <2>1. k \in i .. (L + 1) /\ ~ (j <= k)
    BY <1>4
  <2> QED
    BY <1>1, <1>3, <2>1
<1> DEFINE P(x) == /\ Stop(x)
                   /\ \A k \in i .. (x - 1) : Opens(i, k) => Due(k, ck)
<1>6. P(j)
  BY <1>4, <1>5 DEF Stop
<1>7. SendUpTo(i, ck) = CHOOSE x \in i .. (Len(packets) + 1) : P(x)
  BY DEF SendUpTo, P, Stop, Opens
<1> HIDE DEF P
<1>8. SendUpTo(i, ck) \in i .. (Len(packets) + 1) /\ P(SendUpTo(i, ck))
  BY <1>1, <1>4, <1>6, <1>7
<1> QED
  BY <1>8 DEF P, Stop

Wait(i, ck) == TargetElapsed(packets[i], ck) - EffectiveElapsed(ck)
Poll(i, ck) == IF Wait(i, ck) > PollMs THEN PollMs ELSE Wait(i, ck)

LEMMA PollType ==
  ASSUME packets \in Seq(Ms), NEW i \in DOMAIN packets, NEW ck \in Clocks, now \in Nat,
         ~ Due(i, ck)
  PROVE  Wait(i, ck) \in Nat \ {0} /\ Poll(i, ck) \in Nat \ {0} /\ Poll(i, ck) <= Wait(i, ck)
<1>1. packets[i] \in Nat
  <2>1. packets[i] \in Ms
    OBVIOUS
  <2> QED
    BY <2>1, MsNat
<1>2. TargetElapsed(packets[i], ck) \in Nat /\ EffectiveElapsed(ck) \in Nat
  BY <1>1, TargetType, EffectiveType DEF Ms
<1>3. Wait(i, ck) \in Nat \ {0}
  BY <1>2 DEF Due, Wait
<1> QED
  BY <1>3, WidthAssumption DEF Poll

\* The outcomes of sendNextPacket() that the invariants tell apart.
Completes(i, ck, live, isPaused, tms, handle) ==
  /\ \/ ~ live \/ i > Len(packets)
     \/ ~ isPaused /\ SendUpTo(i, ck) = Len(packets) + 1
  /\ playing' = FALSE /\ timers' = Cancelled(tms, handle) /\ delayTask' = NoTimer
  /\ socket' = Closed /\ events' = Append(events, "complete")
  /\ index' \in i .. (Len(packets) + 1)
  /\ sent' = i .. (index' - 1)
  /\ index' = IF live /\ i <= Len(packets) THEN SendUpTo(i, ck) ELSE i

Holds(i, live, isPaused, tms, handle) ==
  /\ live /\ i <= Len(packets) /\ isPaused
  /\ playing' = live /\ timers' = tms /\ delayTask' = handle /\ index' = i /\ sent' = {}
  /\ socket' = socket /\ events' = events

Polls(i, ck, live, isPaused, tms) ==
  /\ live /\ ~ isPaused
  /\ playing' = live /\ index' = SendUpTo(i, ck) /\ index' \in i .. Len(packets)
  /\ Opens(i, index') /\ ~ Due(index', ck)
  /\ sent' = i .. (index' - 1)
  /\ Schedule(tms, Poll(index', ck))
  /\ socket' = socket /\ events' = events

LEMMA Outcomes ==
  ASSUME packets \in Seq(Ms), NEW i \in 1 .. (Len(packets) + 1), NEW ck,
         NEW live, NEW isPaused, NEW tms, NEW handle,
         SendNextPacket(i, ck, live, isPaused, tms, handle)
  PROVE  \/ Completes(i, ck, live, isPaused, tms, handle)
         \/ Holds(i, live, isPaused, tms, handle)
         \/ Polls(i, ck, live, isPaused, tms)
<1>1. PICK L \in Nat : L = Len(packets)
  OBVIOUS
<1>2. PICK j \in Nat : j = SendUpTo(i, ck)
  BY <1>1, SendUpToStops
<1>3. j \in i .. (L + 1) /\ i \in 1 .. (L + 1)
  BY <1>1, <1>2, SendUpToStops
<1>4. j = L + 1 \/ (Opens(i, j) /\ ~ Due(j, ck))
  BY <1>1, <1>2, SendUpToStops
<1>5. \/ /\ ~ live \/ i > Len(packets)
         /\ OnPlayCompleted(tms, handle) /\ index' = i /\ sent' = {}
      \/ Holds(i, live, isPaused, tms, handle)
      \/ /\ live /\ i <= Len(packets) /\ ~ isPaused
         /\ sent' = i .. (SendUpTo(i, ck) - 1) /\ index' = SendUpTo(i, ck)
         /\ \/ SendUpTo(i, ck) > Len(packets) /\ OnPlayCompleted(tms, handle)
            \/ /\ SendUpTo(i, ck) <= Len(packets)
               /\ Schedule(tms, Poll(SendUpTo(i, ck), ck))
               /\ playing' = live /\ socket' = socket /\ events' = events
  BY Zenon DEF SendNextPacket, Poll, Wait, Holds
<1>6. CASE /\ ~ live \/ i > Len(packets)
           /\ OnPlayCompleted(tms, handle) /\ index' = i /\ sent' = {}
  <2>1. i .. (i - 1) = {} /\ i \in i .. (Len(packets) + 1) /\ (i > Len(packets) => ~ (i <= Len(packets)))
    BY <1>1, <1>3
  <2> QED
    BY <1>6, <2>1, Zenon DEF Completes, OnPlayCompleted
<1>7. CASE /\ live /\ i <= Len(packets) /\ ~ isPaused
           /\ sent' = i .. (SendUpTo(i, ck) - 1) /\ index' = SendUpTo(i, ck)
           /\ \/ SendUpTo(i, ck) > Len(packets) /\ OnPlayCompleted(tms, handle)
              \/ /\ SendUpTo(i, ck) <= Len(packets)
                 /\ Schedule(tms, Poll(SendUpTo(i, ck), ck))
                 /\ playing' = live /\ socket' = socket /\ events' = events
  <2>1. index' \in i .. (Len(packets) + 1)
    BY <1>1, <1>2, <1>3, <1>7
  <2>2. CASE SendUpTo(i, ck) > Len(packets) /\ OnPlayCompleted(tms, handle)
    <3>1. j > L => j = L + 1
      BY <1>3
    <3>2. SendUpTo(i, ck) = Len(packets) + 1
      BY <1>1, <1>2, <2>2, <3>1, Zenon
    <3> QED
      BY <1>7, <2>1, <2>2, <3>2, Zenon DEF Completes, OnPlayCompleted
  <2>3. CASE /\ SendUpTo(i, ck) <= Len(packets)
             /\ Schedule(tms, Poll(SendUpTo(i, ck), ck))
             /\ playing' = live /\ socket' = socket /\ events' = events
    <3>1. j <= L => j # L + 1 /\ j \in i .. L
      BY <1>3
    <3>2. j <= L
      BY <1>1, <1>2, <2>3, Zenon
    <3>3. Opens(i, j) /\ ~ Due(j, ck) /\ j \in i .. Len(packets)
      BY <1>1, <1>4, <3>1, <3>2, Zenon
    <3> QED
      BY <1>2, <1>7, <2>3, <3>3, Zenon DEF Polls
  <2> QED
    BY <1>7, <2>2, <2>3, Zenon
<1> QED
  BY <1>5, <1>6, <1>7, Zenon

----------------------------------------------------------------------------
(* Types                                                                   *)

\* What a lambda carries.
Carries(task, pkts) ==
  /\ task.op = "speed" => task.arg \in Speeds
  /\ task.op = "seek" => pkts # << >>

Typed ==
  /\ TypeOK /\ IsFiniteSet(timers)
  /\ \A k \in DOMAIN queue : Carries(queue[k], packets)

\* What sendNextPacket() and the endings may change.
Moving ==
  /\ playing \in BOOLEAN /\ index \in 1 .. (Len(packets) + 1)
  /\ timers \in SUBSET Timers /\ IsFiniteSet(timers) /\ delayTask \in Nat
  /\ socket \in {"open", "closed", "none"} /\ events \in Seq({"complete", "error"})
  /\ sent \in SUBSET Nat

\* What the lambdas and the control methods may change.
Queued ==
  /\ queue \in Seq(Tasks)
  /\ \A k \in DOMAIN queue : Carries(queue[k], packets)

Fixed ==
  /\ args \in [file : Files, tcp : BOOLEAN, startOffset : StartOffsets]
  /\ transport \in {"new", "resolving", "resolved", "connecting", "up"}
  /\ notified \in BOOLEAN /\ shutdown \in BOOLEAN /\ paused \in BOOLEAN
  /\ packets \in Seq(Ms)
  /\ clock \in Clocks /\ now \in Nat /\ content \in Nat /\ drift \in Drifts /\ budget \in Nat

LEMMA TypedParts == (Typed <=> Moving /\ Queued /\ Fixed) /\ (Typed' <=> Moving' /\ Queued' /\ Fixed')
BY DEF Typed, TypeOK, Moving, Queued, Fixed, Timers, Clocks, Drifts, Ms

LEMMA SendKeepsTypes ==
  ASSUME Typed, NEW i \in 1 .. (Len(packets) + 1), NEW ck \in Clocks, NEW live \in BOOLEAN,
         NEW isPaused, NEW tms \in SUBSET Timers, IsFiniteSet(tms), NEW handle \in Nat,
         SendNextPacket(i, ck, live, isPaused, tms, handle), packets' = packets
  PROVE  Moving'
<1>1. /\ packets \in Seq(Ms) /\ now \in Nat /\ socket \in {"open", "closed", "none"}
      /\ events \in Seq({"complete", "error"})
  BY TypedParts DEF Moving, Fixed
<1>2. \A a, b \in Nat : a .. b \in SUBSET Nat /\ a .. (b - 1) \in SUBSET Nat
  OBVIOUS
<1>3. PICK L \in Nat : L = Len(packets)
  BY <1>1
<1>4. i \in Nat /\ \A k \in i .. (L + 1) : k \in 1 .. (L + 1) /\ k \in Nat
  BY <1>3
<1>5. \A k \in i .. L : k \in i .. (L + 1) /\ k \in 1 .. L
  BY <1>3
<1>6. CASE Completes(i, ck, live, isPaused, tms, handle)
  <2>1. Cancelled(tms, handle) \in SUBSET Timers /\ IsFiniteSet(Cancelled(tms, handle))
    BY CancelledType
  <2>2. index' \in 1 .. (L + 1) /\ sent' \in SUBSET Nat
    BY <1>2, <1>3, <1>4, <1>6 DEF Completes
  <2>3. Append(events, "complete") \in Seq({"complete", "error"})
    BY <1>1
  <2> QED
    BY <1>1, <1>3, <1>6, <2>1, <2>2, <2>3 DEF Completes, Moving, Closed, NoTimer
<1>7. CASE Holds(i, live, isPaused, tms, handle)
  BY <1>1, <1>2, <1>7 DEF Holds, Moving
<1>8. CASE Polls(i, ck, live, isPaused, tms)
  <2>1. index' \in i .. L /\ index' \in 1 .. L /\ index' \in 1 .. (L + 1) /\ index' \in Nat
    BY <1>3, <1>4, <1>5, <1>8 DEF Polls
  <2>2. index' \in DOMAIN packets /\ ~ Due(index', ck)
    BY <1>1, <1>3, <1>8, <2>1 DEF Polls
  <2>3. Poll(index', ck) \in Nat
    BY <1>1, <2>2, PollType
  <2>4. Schedule(tms, Poll(index', ck))
    BY <1>8 DEF Polls
  <2>5. timers' \in SUBSET Timers /\ IsFiniteSet(timers') /\ delayTask' \in Nat
    BY <1>1, <2>3, <2>4, ScheduleType
  <2>6. sent' \in SUBSET Nat
    BY <1>2, <1>4, <1>8, <2>1 DEF Polls
  <2> QED
    BY <1>1, <1>3, <1>8, <2>1, <2>5, <2>6 DEF Polls, Moving
<1> QED
  BY <1>1, <1>6, <1>7, <1>8, Outcomes

LEMMA ErrorKeepsTypes ==
  ASSUME Typed, NotifyError, packets' = packets, index' = index, sent' = sent
  PROVE  Moving' /\ shutdown' \in BOOLEAN
<1>1. Moving
  BY TypedParts
<1>2. Cancelled(timers, delayTask) \in SUBSET Timers /\ IsFiniteSet(Cancelled(timers, delayTask))
  BY <1>1, CancelledType DEF Moving
<1>3. Append(events, "error") \in Seq({"complete", "error"})
  BY <1>1 DEF Moving
<1> QED
  BY <1>1, <1>2, <1>3 DEF NotifyError, Moving, Closed, NoTimer

LEMMA AppendKeeps ==
  ASSUME Typed, NEW e \in Tasks, Carries(e, packets), queue' = Append(queue, e), packets' = packets
  PROVE  Queued'
<1>1. queue \in Seq(Tasks) /\ \A k \in DOMAIN queue : Carries(queue[k], packets)
  BY TypedParts DEF Queued
<1>2. queue' \in Seq(Tasks)
  BY <1>1
<1>3. ASSUME NEW k \in DOMAIN queue' PROVE queue'[k] = e \/ (k \in DOMAIN queue /\ queue'[k] = queue[k])
  BY <1>1
<1>4. \A k \in DOMAIN queue' : Carries(queue'[k], packets')
  BY <1>1, <1>3
<1> QED
  BY <1>2, <1>4 DEF Queued

LEMMA TailKeeps ==
  ASSUME Typed, queue # << >>, queue' = Tail(queue), packets' = packets
  PROVE  Queued'
<1>1. queue \in Seq(Tasks) /\ \A k \in DOMAIN queue : Carries(queue[k], packets)
  BY TypedParts DEF Queued
<1>2. queue' \in Seq(Tasks)
  BY <1>1
<1>3. ASSUME NEW k \in DOMAIN queue' PROVE k + 1 \in DOMAIN queue /\ queue'[k] = queue[k + 1]
  BY <1>1
<1>4. \A k \in DOMAIN queue' : Carries(queue'[k], packets')
  BY <1>1, <1>3
<1> QED
  BY <1>2, <1>4 DEF Queued

LEMMA HeadCarries ==
  ASSUME Typed, queue # << >>
  PROVE  Head(queue) \in Tasks /\ Carries(Head(queue), packets)
<1>1. queue \in Seq(Tasks) /\ \A k \in DOMAIN queue : Carries(queue[k], packets)
  BY TypedParts DEF Queued
<1>2. 1 \in DOMAIN queue /\ Head(queue) = queue[1]
  BY <1>1
<1> QED
  BY <1>1, <1>2

LEMMA OffsetType ==
  ASSUME packets \in Seq(Ms), NEW i \in DOMAIN packets
  PROVE  packets[i] \in Nat /\ i \in 1 .. (Len(packets) + 1)
<1>1. packets[i] \in Ms
  OBVIOUS
<1>2. PICK L \in Nat : L = Len(packets)
  OBVIOUS
<1>3. i \in 1 .. L
  BY <1>2
<1>4. i \in 1 .. (L + 1)
  BY <1>3
<1> QED
  BY <1>1, <1>2, <1>4, MsNat

LEMMA NatSeq == \A s \in Seq(Ms) : s \in Seq(Nat)
<1> SUFFICES ASSUME NEW s \in Seq(Ms) PROVE s \in Seq(Nat)
  OBVIOUS
<1>1. Len(s) \in Nat /\ s \in [1 .. Len(s) -> Ms]
  OBVIOUS
<1>2. s \in [1 .. Len(s) -> Nat]
  BY <1>1, MsNat
<1> QED
  BY <1>1, <1>2

LEMMA LocateType ==
  ASSUME packets \in Seq(Ms), packets # << >>, NEW ms \in Nat
  PROVE  Locate(packets, ms) \in DOMAIN packets
BY NatSeq, LocateFinds

LEMMA CurrentOffsetType ==
  ASSUME packets \in Seq(Ms), NEW i \in 1 .. (Len(packets) + 1)
  PROVE  CurrentOffset(i) \in Nat
<1>1. PICK L \in Nat : L = Len(packets) /\ DOMAIN packets = 1 .. L /\ (packets # << >> => L # 0)
  <2>1. Len(packets) \in Nat /\ DOMAIN packets = 1 .. Len(packets)
        /\ (packets # << >> => Len(packets) # 0)
    OBVIOUS
  <2> QED
    BY <2>1
<1>2. L # 0 => L \in 1 .. L
  OBVIOUS
<1>3. i <= L => i \in 1 .. L
  BY <1>1
<1>4. CASE packets = << >>
  BY <1>4 DEF CurrentOffset
<1>5. CASE packets # << >> /\ i > L
  BY <1>1, <1>2, <1>5, OffsetType DEF CurrentOffset, Duration
<1>6. CASE packets # << >> /\ i <= L
  <2>1. packets[i] \in Nat
    BY <1>1, <1>3, <1>6, OffsetType
  <2> QED
    BY <1>1, <1>6, <2>1 DEF CurrentOffset
<1> QED
  BY <1>1, <1>4, <1>5, <1>6

\* What a change of speed may move the stream by.
LEMMA BeforeType ==
  ASSUME packets \in Seq(Ms), NEW i \in 1 .. (Len(packets) + 1)
  PROVE  /\ Before(i) \in Nat
         /\ i # 1 => i - 1 \in DOMAIN packets /\ Before(i) = packets[i - 1]
<1>1. PICK L \in Nat : L = Len(packets) /\ DOMAIN packets = 1 .. L
  OBVIOUS
<1>2. i # 1 => i - 1 \in 1 .. L
  BY <1>1
<1> QED
  BY <1>1, <1>2, OffsetType DEF Before

LEMMA ShiftedType ==
  ASSUME packets \in Seq(Ms), index \in 1 .. (Len(packets) + 1), clock \in Clocks,
         drift \in Drifts
  PROVE  Shifted \in Drifts
<1>1. CurrentOffset(index) \in Nat /\ Before(index) \in Nat
  BY CurrentOffsetType, BeforeType
<1>2. clock.speed \in Nat /\ drift.ahead \in Int /\ drift.behind \in Nat /\ MaxLag \in Nat
  BY BoundAssumption DEF Clocks, Drifts
<1>3. drift.ahead + 2 * (CurrentOffset(index) - Before(index)) + clock.speed \in Int
  BY <1>1, <1>2
<1>4. drift.behind + clock.speed * MaxLag \in Nat
  <2>1. \A s, lag \in Nat : s * lag \in Nat
    OBVIOUS
  <2>2. clock.speed * MaxLag \in Nat
    BY <1>2, <2>1
  <2> QED
    BY <1>2, <2>2
<1> QED
  BY <1>3, <1>4 DEF Shifted, Drifts

LEMMA AnchoredType ==
  ASSUME now \in Nat, NEW ck \in Clocks, NEW isPaused, NEW speed \in Nat \ {0}, NEW base \in Nat
  PROVE  Anchored(ck, isPaused, speed, base) \in Clocks
<1>1. ck.pausedDuration \in Int /\ ck.pauseBegin \in Int
  BY DEF Clocks
<1> DEFINE pause == IF isPaused THEN Minus(now, ck.pauseBegin) ELSE 0
<1>2. pause \in Int
  <2>1. Minus(now, ck.pauseBegin) \in Ms
    BY <1>1, MinusType
  <2>2. Minus(now, ck.pauseBegin) \in Nat
    BY <2>1, MsNat
  <2> QED
    BY <2>2
<1>3. Minus(now, ck.pausedDuration) \in Int
  <2>1. Minus(now, ck.pausedDuration) \in Ms
    BY <1>1, MinusType
  <2> QED
    BY <2>1 DEF Ms
<1> HIDE DEF pause
<1>4. Minus(Minus(now, ck.pausedDuration), pause) \in Nat
  <2>1. Minus(Minus(now, ck.pausedDuration), pause) \in Ms
    BY <1>2, <1>3, MinusType
  <2> QED
    BY <2>1, MsNat
<1> DEFINE elapsed == Minus(Minus(now, ck.pausedDuration), pause)
<1>5. Anchored(ck, isPaused, speed, base) =
        [ck EXCEPT !.speed = speed, !.baseOffset = base, !.baseElapsed = elapsed]
  BY DEF Anchored, pause
<1>6. elapsed \in Nat
  BY <1>4
<1> HIDE DEF elapsed
<1> QED
  BY <1>5, <1>6 DEF Clocks

\* The packet playback starts from.
LEMMA StartType ==
  ASSUME Fixed, packets # << >>
  PROVE  LET i == IF args.startOffset = 0 THEN 1 ELSE Locate(packets, args.startOffset)
         IN  i \in DOMAIN packets
<1>1. args.startOffset \in Nat
  <2>1. args.startOffset \in 0 .. (MsMod - 1)
    BY ArgsAssumption DEF Fixed
  <2> QED
    BY <2>1
<1>2. packets \in Seq(Ms) /\ 1 \in DOMAIN packets
  BY DEF Fixed
<1>3. Locate(packets, args.startOffset) \in DOMAIN packets
  BY <1>1, <1>2, LocateType
<1> QED
  BY <1>2, <1>3

LEMMA PrepareKeepsTypes ==
  ASSUME Typed, PrepareAndStart, packets' = packets
  PROVE  /\ Moving' /\ shutdown' \in BOOLEAN /\ paused' \in BOOLEAN
         /\ clock' \in Clocks /\ content' \in Nat /\ drift' \in Drifts
<1>1. Moving /\ Fixed
  BY TypedParts
<1>2. CASE PrepareGivesUp
  BY <1>1, <1>2 DEF PrepareGivesUp, Moving, Fixed
<1>3. CASE PrepareFails
  BY <1>1, <1>3, ErrorKeepsTypes DEF PrepareFails, Fixed
<1>4. CASE PrepareStarts
  <2> DEFINE i == IF args.startOffset = 0 THEN 1 ELSE Locate(packets, args.startOffset)
             ck == [clock EXCEPT !.baseOffset = packets[i], !.baseElapsed = 0,
                                 !.pausedDuration = 0]
             tms == IF args.startOffset = 0 THEN timers ELSE Cancelled(timers, delayTask)
  <2>1. packets # << >> /\ clock' = ck /\ paused' = FALSE /\ content' = 2 * packets[i]
        /\ SendNextPacket(i, ck, TRUE, FALSE, tms, delayTask) /\ UNCHANGED shutdown
    BY <1>4 DEF PrepareStarts
  <2>2. i \in DOMAIN packets
    BY <1>1, <2>1, StartType
  <2> HIDE DEF i
  <2>3. packets[i] \in Nat /\ i \in 1 .. (Len(packets) + 1)
    BY <1>1, <2>2, OffsetType DEF Fixed
  <2>4. ck \in Clocks
    BY <1>1, <2>3 DEF Fixed, Clocks
  <2>5. tms \in SUBSET Timers /\ IsFiniteSet(tms) /\ delayTask \in Nat
    BY <1>1, CancelledType DEF Moving
  <2> HIDE DEF ck, tms
  <2>6. Moving'
    BY <2>1, <2>3, <2>4, <2>5, SendKeepsTypes
  <2>7. content' \in Nat
    BY <2>1, <2>3
  <2>8. drift' \in Drifts
    BY <1>4 DEF PrepareStarts, NoDrift, Drifts
  <2> QED
    BY <1>1, <2>1, <2>4, <2>6, <2>7, <2>8 DEF Fixed
<1> QED
  BY <1>2, <1>3, <1>4 DEF PrepareAndStart

LEMMA ContinueKeepsTypes ==
  ASSUME Typed, NEW i \in 1 .. (Len(packets) + 1), NEW ck \in Clocks, ContinueFrom(i, ck)
  PROVE  Moving' /\ clock' \in Clocks
<1>1. Moving /\ Fixed
  BY TypedParts
<1>2. Cancelled(timers, delayTask) \in SUBSET Timers /\ IsFiniteSet(Cancelled(timers, delayTask))
  BY <1>1, CancelledType DEF Moving
<1>3. packets' = packets /\ clock' = ck
  BY DEF ContinueFrom
<1>5. CASE paused
  <2>1. /\ timers' = Cancelled(timers, delayTask) /\ delayTask' = NoTimer
        /\ index' = i /\ sent' = {} /\ UNCHANGED << playing, socket, events >>
    BY <1>5 DEF ContinueFrom
  <2> QED
    BY <1>1, <1>2, <1>3, <2>1 DEF Moving, NoTimer
<1>6. CASE ~ paused
  <2>1. SendNextPacket(i, ck, playing, FALSE, Cancelled(timers, delayTask), NoTimer)
    BY <1>6 DEF ContinueFrom
  <2>2. playing \in BOOLEAN /\ NoTimer \in Nat
    BY <1>1 DEF Moving, NoTimer
  <2> QED
    BY <1>2, <1>3, <2>1, <2>2, SendKeepsTypes
<1> QED
  BY <1>5, <1>6

\* The clocks resume(), setSpeed() and seek() go on with.
LEMMA ResumedType ==
  ASSUME Fixed
  PROVE  [clock EXCEPT !.pausedDuration = (@ + Minus(now, clock.pauseBegin)) % MsMod] \in Clocks
<1> DEFINE pd == (clock.pausedDuration + Minus(now, clock.pauseBegin)) % MsMod
<1>1. pd \in Nat
  <2>1. now \in Int /\ clock.pauseBegin \in Int /\ clock.pausedDuration \in Int
    BY DEF Fixed, Clocks
  <2>2. Minus(now, clock.pauseBegin) \in Ms
    BY <2>1, MinusType
  <2>3. clock.pausedDuration + Minus(now, clock.pauseBegin) \in Int
    BY <2>1, <2>2 DEF Ms
  <2> QED
    BY <2>3, WidthAssumption, ModType
<1> HIDE DEF pd
<1>2. [clock EXCEPT !.pausedDuration = pd] \in Clocks
  BY <1>1 DEF Fixed, Clocks
<1> QED
  BY <1>2 DEF pd

LEMMA SpeedAnchor ==
  ASSUME Typed, Task("speed")
  PROVE  Anchored(clock, paused, Head(queue).arg, CurrentOffset(index)) \in Clocks
<1>1. Moving /\ Fixed
  BY TypedParts
<1>2. Head(queue).arg \in Nat \ {0}
  BY HeadCarries, ArgsAssumption DEF Carries, Task
<1>3. CurrentOffset(index) \in Nat
  BY <1>1, CurrentOffsetType DEF Moving, Fixed
<1> QED
  BY <1>1, <1>2, <1>3, AnchoredType DEF Fixed

LEMMA SeekAnchor ==
  ASSUME Typed, DoSeek
  PROVE  \E i \in DOMAIN packets, ck \in Clocks :
           /\ ck = Anchored(clock, paused, clock.speed, packets[i])
           /\ Task("seek") /\ ContinueFrom(i, ck)
           /\ content' = 2 * packets[i] /\ drift' = NoDrift
<1> DEFINE wanted == CurrentOffset(index) + Head(queue).arg
           ms == IF wanted < 0 THEN 0 ELSE wanted
           i == Locate(packets, ms)
           ck == Anchored(clock, paused, clock.speed, packets[i])
<1>1. Moving /\ Fixed
  BY TypedParts
<1>2. /\ queue # << >> /\ Head(queue).op = "seek" /\ Task("seek") /\ ContinueFrom(i, ck)
      /\ content' = 2 * packets[i] /\ drift' = NoDrift
  BY DEF DoSeek, Task
<1>3. Head(queue).arg \in Int /\ packets # << >>
  BY <1>2, HeadCarries DEF Carries, Tasks
<1>4. CurrentOffset(index) \in Nat
  BY <1>1, CurrentOffsetType DEF Moving, Fixed
<1>5. ms \in Nat
  BY <1>3, <1>4
<1> HIDE DEF ms
<1>6. i \in DOMAIN packets
  BY <1>1, <1>3, <1>5, LocateType DEF Fixed
<1>7. packets[i] \in Nat
  BY <1>1, <1>6, OffsetType DEF Fixed
<1> HIDE DEF i
<1>8. clock.speed \in Nat \ {0}
  BY <1>1 DEF Fixed, Clocks
<1>9. ck \in Clocks
  BY <1>1, <1>7, <1>8, AnchoredType DEF Fixed
<1>10. ck = Anchored(clock, paused, clock.speed, packets[i])
  OBVIOUS
<1> HIDE DEF ck
<1> QED
  BY <1>2, <1>6, <1>9, <1>10

LEMMA InitiallyTyped == Init => Typed
<1> SUFFICES ASSUME Init PROVE Typed
  OBVIOUS
<1>1. args \in [file : Files, tcp : BOOLEAN, startOffset : StartOffsets]
  BY DEF Init
<1>2. packets \in Seq(Ms)
  BY <1>1, ParseType DEF Init
<1>3. 1 \in 1 .. (Len(packets) + 1)
  BY <1>2
<1>4. clock \in Clocks
  BY ArgsAssumption DEF Init, Clocks
<1>5. Moving
  <2>1. timers = {} /\ IsFiniteSet({})
    BY FS_EmptySet DEF Init
  <2>2. /\ playing = FALSE /\ index = 1 /\ delayTask = 0 /\ socket = "none"
        /\ events = << >> /\ sent = {}
    BY DEF Init, NoTimer
  <2> QED
    BY <1>3, <2>1, <2>2, << >> \in Seq({"complete", "error"}) DEF Moving
<1>6. Queued
  BY DEF Init, Queued
<1>7. Fixed
  <2>1. drift \in Drifts
    BY DEF Init, NoDrift, Drifts
  <2> QED
    BY <1>1, <1>2, <1>4, <2>1, BoundAssumption DEF Init, Fixed
<1> QED
  BY <1>5, <1>6, <1>7, TypedParts

LEMMA CallKeepsTypes ==
  ASSUME Typed, NEW c \in Callers, NEW op \in {"stop", "pause", "resume", "speed", "seek"},
         NEW arg \in Int, op = "speed" => arg \in Speeds, op = "seek" => packets # << >>,
         Call(c, op, arg)
  PROVE  Typed'
<1>1. Moving /\ Fixed
  BY TypedParts
<1> DEFINE e == [op |-> op, arg |-> arg, by |-> c]
<1>2. e \in Tasks /\ Carries(e, packets)
  BY DEF Tasks, Carries
<1>3. queue' = Append(queue, e) /\ packets' = packets
  BY DEF Call
<1>4. Queued'
  <2> HIDE DEF e
  <2> QED
    BY <1>2, <1>3, AppendKeeps
<1>5. Moving' /\ Fixed'
  BY <1>1 DEF Call, Moving, Fixed
<1> QED
  BY <1>4, <1>5, TypedParts

\* Every step keeps the types.
LEMMA TypesKept ==
  ASSUME Typed, [Next]_vars
  PROVE  Typed'
<1>1. Moving /\ Queued /\ Fixed
  BY TypedParts
<1> SUFFICES Moving' /\ Queued' /\ Fixed'
  BY TypedParts
<1>2. UNCHANGED queue /\ packets' = packets => Queued'
  BY <1>1 DEF Queued
<1>3. CASE UNCHANGED vars
  BY <1>1, <1>3 DEF vars, Moving, Queued, Fixed
<1>4. CASE StartTcp \/ StartUdp
  BY <1>1, <1>2, <1>4 DEF StartTcp, StartUdp, Moving, Fixed
<1>5. CASE StartBindFails
  BY <1>1, <1>2, <1>5, ErrorKeepsTypes DEF StartBindFails, Fixed
<1>6. ASSUME NEW ok \in BOOLEAN, Resolved(ok) PROVE Moving' /\ Queued' /\ Fixed'
  <2> DEFINE e == [op |-> IF ok THEN "prepare" ELSE "dnsError", arg |-> 0, by |-> "worker"]
  <2>1. e \in Tasks /\ Carries(e, packets)
    BY DEF Tasks, Carries
  <2>2. queue' = Append(queue, e) /\ packets' = packets
    BY <1>6 DEF Resolved
  <2>3. Queued'
    <3> HIDE DEF e
    <3> QED
      BY <2>1, <2>2, AppendKeeps
  <2> QED
    BY <1>1, <1>6, <2>3 DEF Resolved, Moving, Fixed
<1>7. ASSUME NEW ok \in BOOLEAN, ConnectResult(ok) PROVE Moving' /\ Queued' /\ Fixed'
  <2>1. CASE notified
    BY <1>1, <1>7, <2>1 DEF ConnectResult, vars, Moving, Queued, Fixed
  <2>2. CASE ~ notified
    <3>1. /\ notified' = TRUE /\ transport' = "up"
          /\ UNCHANGED << args, packets, now, queue, budget >>
      BY <1>7, <2>2 DEF ConnectResult
    <3>2. Moving' /\ shutdown' \in BOOLEAN /\ paused' \in BOOLEAN
          /\ clock' \in Clocks /\ content' \in Nat /\ drift' \in Drifts
      <4>1. CASE shutdown
        BY <1>1, <1>7, <2>2, <3>1, <4>1 DEF ConnectResult, Moving, Fixed
      <4>2. CASE ~ shutdown /\ ok
        BY <1>7, <2>2, <3>1, <4>2, PrepareKeepsTypes DEF ConnectResult
      <4>3. CASE ~ shutdown /\ ~ ok
        BY <1>1, <1>7, <2>2, <3>1, <4>3, ErrorKeepsTypes DEF ConnectResult, Fixed
      <4> QED
        BY <4>1, <4>2, <4>3
    <3> QED
      BY <1>1, <1>2, <3>1, <3>2 DEF Fixed
  <2> QED
    BY <2>1, <2>2
<1>8. CASE SocketError
  BY <1>1, <1>2, <1>8, ErrorKeepsTypes DEF SocketError, Fixed
<1>9. CASE FireTimer
  <2>1. PICK t \in timers :
          /\ SendNextPacket(index, clock, playing, paused, timers \ {t},
                            IF delayTask = t.id THEN NoTimer ELSE delayTask)
          /\ UNCHANGED << args, transport, notified, shutdown, paused, packets, clock, now, queue,
                          content, drift, budget >>
    BY <1>9 DEF FireTimer
  <2>2. timers \ {t} \in SUBSET Timers /\ IsFiniteSet(timers \ {t})
    BY <1>1, FS_RemoveElement DEF Moving
  <2>3. (IF delayTask = t.id THEN NoTimer ELSE delayTask) \in Nat
    BY <1>1 DEF Moving, NoTimer
  <2>4. index \in 1 .. (Len(packets) + 1) /\ clock \in Clocks /\ playing \in BOOLEAN
    BY <1>1 DEF Moving, Fixed
  <2>5. Moving'
    BY <2>1, <2>2, <2>3, <2>4, SendKeepsTypes
  <2> QED
    BY <1>1, <1>2, <2>1, <2>5 DEF Fixed
<1>10. ASSUME NEW op, Task(op), packets' = packets PROVE Queued' /\ queue # << >>
  BY <1>10, TailKeeps DEF Task
<1>11. CASE DoPrepare
  <2>1. /\ PrepareAndStart /\ transport' = "up" /\ Queued'
        /\ UNCHANGED << args, notified, packets, now, budget >>
    BY <1>10, <1>11 DEF DoPrepare
  <2> QED
    BY <1>1, <2>1, PrepareKeepsTypes DEF Fixed
<1>12. CASE DoDnsError
  <2>1. /\ NotifyError /\ transport' = "up" /\ Queued'
        /\ UNCHANGED << args, notified, paused, packets, index, clock, now, content, drift,
                        sent, budget >>
    BY <1>10, <1>12 DEF DoDnsError
  <2> QED
    BY <1>1, <2>1, ErrorKeepsTypes DEF Fixed
<1>13. Cancelled(timers, delayTask) \in SUBSET Timers /\ IsFiniteSet(Cancelled(timers, delayTask))
  BY <1>1, CancelledType DEF Moving
<1>14. CASE DoStop
  <2>1. Queued' /\ clock' = [clock EXCEPT !.pausedDuration = 0]
    BY <1>10, <1>14 DEF DoStop
  <2>2. clock' \in Clocks
    BY <1>1, <2>1 DEF Fixed, Clocks
  <2> QED
    BY <1>1, <1>13, <1>14, <2>1, <2>2 DEF DoStop, Moving, Fixed, NoTimer
<1>15. CASE DoPause
  <2>1. Queued' /\ clock' = [clock EXCEPT !.pauseBegin = now]
    BY <1>10, <1>15 DEF DoPause
  <2>2. clock' \in Clocks
    BY <1>1, <2>1 DEF Fixed, Clocks
  <2> QED
    BY <1>1, <1>13, <1>15, <2>1, <2>2 DEF DoPause, Moving, Fixed, NoTimer
<1>16. CASE DoResume
  <2> DEFINE ck == [clock EXCEPT !.pausedDuration =
                      (@ + Minus(now, clock.pauseBegin)) % MsMod]
  <2>1. /\ clock' = ck /\ paused' = FALSE /\ Queued'
        /\ SendNextPacket(index, ck, playing, FALSE, timers, delayTask)
        /\ UNCHANGED << args, transport, notified, shutdown, packets, now, content, drift, budget >>
    BY <1>10, <1>16 DEF DoResume
  <2>2. ck \in Clocks
    BY <1>1, ResumedType
  <2>3. /\ index \in 1 .. (Len(packets) + 1) /\ playing \in BOOLEAN /\ delayTask \in Nat
        /\ timers \in SUBSET Timers /\ IsFiniteSet(timers)
    BY <1>1 DEF Moving
  <2> HIDE DEF ck
  <2>4. Moving'
    BY <2>1, <2>2, <2>3, SendKeepsTypes
  <2> QED
    BY <1>1, <2>1, <2>2, <2>4 DEF Fixed
<1>17. ASSUME NEW i \in 1 .. (Len(packets) + 1), NEW ck \in Clocks, NEW op, Task(op),
              ContinueFrom(i, ck), content' \in Nat, drift' \in Drifts
       PROVE  Moving' /\ Queued' /\ Fixed'
  <2>1. /\ Moving' /\ clock' \in Clocks
        /\ UNCHANGED << args, transport, notified, shutdown, paused, packets, now, budget >>
    BY <1>17, ContinueKeepsTypes DEF ContinueFrom
  <2> QED
    BY <1>1, <1>10, <1>17, <2>1 DEF Fixed
<1>18. CASE DoSetSpeed
  <2> DEFINE ck == Anchored(clock, paused, Head(queue).arg, CurrentOffset(index))
  <2>1. Task("speed") /\ ContinueFrom(index, ck)
    BY <1>18 DEF DoSetSpeed
  <2>2. ck \in Clocks /\ index \in 1 .. (Len(packets) + 1)
    BY <1>1, <2>1, SpeedAnchor DEF Moving
  <2>3. content' \in Nat /\ drift' \in Drifts
    <3>1. content' = content /\ drift' = Shifted
      BY <1>18 DEF DoSetSpeed
    <3> QED
      BY <1>1, <2>2, <3>1, ShiftedType DEF Fixed
  <2> HIDE DEF ck
  <2> QED
    BY <1>17, <2>1, <2>2, <2>3
<1>19. CASE DoSeek
  <2>1. PICK i \in DOMAIN packets, ck \in Clocks :
          /\ Task("seek") /\ ContinueFrom(i, ck)
          /\ content' = 2 * packets[i] /\ drift' = NoDrift
    BY <1>19, SeekAnchor
  <2>2. i \in 1 .. (Len(packets) + 1) /\ packets[i] \in Nat
    BY <1>1, <2>1, OffsetType DEF Fixed
  <2>3. content' \in Nat /\ drift' \in Drifts
    BY <2>1, <2>2 DEF NoDrift, Drifts
  <2> QED
    BY <1>17, <2>1, <2>2, <2>3
<1>20. CASE Control
  <2>1. ASSUME NEW c \in Callers, CallStop(c) \/ CallPause(c) \/ CallResume(c) PROVE Typed'
    BY <2>1, CallKeepsTypes DEF CallStop, CallPause, CallResume
  <2>2. ASSUME NEW c \in Callers, NEW s \in Speeds, CallSetSpeed(c, s) PROVE Typed'
    BY <2>2, CallKeepsTypes, ArgsAssumption DEF CallSetSpeed
  <2>3. ASSUME NEW c \in Callers, NEW ms \in SeekSteps, CallSeek(c, ms) PROVE Typed'
    BY <2>3, CallKeepsTypes, ArgsAssumption DEF CallSeek
  <2>4. Typed'
    BY <1>20, <2>1, <2>2, <2>3 DEF Control
  <2> QED
    BY <2>4, TypedParts
<1>21. CASE Tick
  <2>1. content' \in Nat /\ now' \in Nat
    <3>1. clock.speed \in Nat /\ content \in Nat /\ now \in Nat
      BY <1>1 DEF Fixed, Clocks
    <3> QED
      BY <1>21, <3>1 DEF Tick
  <2>2. sent' \in SUBSET Nat
    BY <1>21 DEF Tick
  <2> QED
    BY <1>1, <1>2, <1>21, <2>1, <2>2 DEF Tick, Moving, Fixed
<1> QED
  BY <1>3, <1>4, <1>5, <1>6, <1>7, <1>8, <1>9, <1>11, <1>12, <1>14, <1>15, <1>16, <1>18, <1>19,
     <1>20, <1>21 DEF Next, Start, Poller

\* TypeOK: every variable of the player has its type in every reachable state, whatever the
\* number of callers and whatever file is replayed.  The finiteness of the poller's delayed
\* tasks and what a queued lambda carries are what makes it inductive.
THEOREM PlayerTyping == Spec => []TypeOK
<1>1. Typed => TypeOK
  BY DEF Typed
<1> QED
  BY <1>1, InitiallyTyped, TypesKept, PTL DEF Spec

----------------------------------------------------------------------------
(* One caller: one chain of delayed tasks                                  *)

OneCaller == \A c, d \in Callers : c = d

\* How far start() got.
Starting ==
  /\ transport # "up" => ~ playing /\ ~ shutdown
  /\ transport \in {"new", "resolving", "connecting"} => queue = << >>
  /\ transport \in {"resolving", "resolved", "connecting"} => socket = "open"
  /\ transport \in {"resolving", "resolved"} => ~ args.tcp
  /\ args.tcp /\ transport = "up" => notified

\* A lambda in the queue, while nothing but the poller has changed what its caller tested.
Messages ==
  /\ Len(queue) <= 1
  /\ \A k \in DOMAIN queue :
       /\ queue[k].op \in {"prepare", "dnsError"} <=> transport = "resolved"
       /\ transport = "up" => queue[k].by \in Callers
       /\ playing /\ queue[k].op = "pause" => ~ paused
       /\ playing /\ queue[k].op = "resume" => paused

\* While it plays and is not paused there is the one delayed task; otherwise there is none.
Chained ==
  /\ playing => /\ transport = "up" /\ ~ shutdown /\ socket = "open"
                /\ index \in DOMAIN packets
  /\ playing /\ ~ paused => \E t \in timers : timers = {t} /\ t.id = delayTask
  /\ ~ (playing /\ ~ paused) => timers = {}

IChain == Typed /\ Starting /\ Messages /\ Chained

LEMMA InitiallyChained == Init => IChain
<1> SUFFICES ASSUME Init PROVE IChain
  OBVIOUS
<1>1. Typed
  BY InitiallyTyped
<1>2. /\ transport = "new" /\ shutdown = FALSE /\ playing = FALSE /\ queue = << >>
      /\ timers = {}
  BY DEF Init
<1>3. Starting /\ Chained
  BY <1>2 DEF Starting, Chained
<1>4. Messages
  BY <1>2 DEF Messages
<1> QED
  BY <1>1, <1>3, <1>4 DEF IChain

\* Cancelling _delay_task leaves the poller without a delayed task.
LEMMA NothingLeft ==
  ASSUME Typed, Chained
  PROVE  Cancelled(timers, delayTask) = {} /\ Cancelled({}, delayTask) = {}
<1>1. timers = {} \/ \E t \in timers : timers = {t} /\ t.id = delayTask
  <2>1. playing \in BOOLEAN /\ paused \in BOOLEAN
    BY DEF Typed, TypeOK
  <2> QED
    BY <2>1 DEF Chained
<1> QED
  BY <1>1 DEF Cancelled

\* sendNextPacket(), entered with no delayed task left, ends the playback or arms one.
LEMMA SendChains ==
  ASSUME Typed, NEW i \in 1 .. (Len(packets) + 1), NEW ck \in Clocks, NEW live \in BOOLEAN,
         NEW handle, SendNextPacket(i, ck, live, FALSE, {}, handle), packets' = packets
  PROVE  \/ ~ playing' /\ timers' = {}
         \/ /\ live /\ playing' = live /\ socket' = socket /\ index' \in DOMAIN packets
            /\ \E t \in timers' : timers' = {t} /\ t.id = delayTask'
<1>1. packets \in Seq(Ms) /\ now \in Nat
  BY TypedParts DEF Fixed
<1>2. CASE Completes(i, ck, live, FALSE, {}, handle)
  <2>1. Cancelled({}, handle) = {}
    BY DEF Cancelled
  <2> QED
    BY <1>2, <2>1 DEF Completes
<1>3. ~ Holds(i, live, FALSE, {}, handle)
  BY DEF Holds
<1>4. CASE Polls(i, ck, live, FALSE, {})
  <2>1. PICK L \in Nat : L = Len(packets)
    BY <1>1
  <2>2. \A k \in i .. L : k \in 1 .. L
    BY <2>1
  <2>3. index' \in DOMAIN packets
    BY <1>1, <1>4, <2>1, <2>2 DEF Polls
  <2>4. timers' = {[id |-> FreshId({}), due |-> now + Poll(index', ck)]} /\ delayTask' = FreshId({})
    BY <1>4 DEF Polls, Schedule
  <2> QED
    BY <1>4, <2>3, <2>4 DEF Polls
<1> QED
  BY <1>1, <1>2, <1>3, <1>4, Outcomes

\* The one lambda of the queue is run: none is left.
LEMMA QueueEmpties ==
  ASSUME Typed, Starting, Messages, NEW op, Task(op)
  PROVE  /\ queue' = << >> /\ Messages'
         /\ transport = IF op \in {"prepare", "dnsError"} THEN "resolved" ELSE "up"
         /\ op = "pause" /\ playing => ~ paused
         /\ op = "resume" /\ playing => paused
<1>1. queue \in Seq(Tasks) /\ Len(queue) <= 1 /\ queue # << >>
  BY TypedParts DEF Queued, Messages, Task
<1>2. queue' = << >> /\ 1 \in DOMAIN queue /\ queue[1].op = op
  BY <1>1 DEF Task
<1>3. op \in {"prepare", "dnsError"} <=> transport = "resolved"
  BY <1>2, Zenon DEF Messages
<1>4. transport \in {"resolved", "up"}
  BY <1>1, TypedParts DEF Fixed, Starting
<1>5. Messages'
  BY <1>2 DEF Messages
<1> QED
  BY <1>2, <1>3, <1>4, <1>5 DEF Messages

\* An ending, from whatever thread of events, leaves nothing armed.
LEMMA ErrorChains ==
  ASSUME Typed, Chained, NotifyError
  PROVE  Chained' /\ playing' = FALSE
<1>1. playing' = FALSE /\ timers' = {}
  BY NothingLeft DEF NotifyError
<1> QED
  BY <1>1 DEF Chained

\* prepareAndStart() finds the socket of start() and nothing armed.
LEMMA PrepareChains ==
  ASSUME Typed, Chained, ~ playing, socket = "open", transport' = "up", packets' = packets,
         PrepareAndStart
  PROVE  Chained'
<1>1. timers = {} /\ playing \in BOOLEAN /\ shutdown \in BOOLEAN
  BY DEF Chained, Typed, TypeOK
<1>2. CASE PrepareGivesUp
  BY <1>1, <1>2 DEF PrepareGivesUp, Chained
<1>3. CASE PrepareFails
  BY <1>3, ErrorChains DEF PrepareFails
<1>4. CASE PrepareStarts
  <2> DEFINE i == IF args.startOffset = 0 THEN 1 ELSE Locate(packets, args.startOffset)
             ck == [clock EXCEPT !.baseOffset = packets[i], !.baseElapsed = 0,
                                 !.pausedDuration = 0]
             tms == IF args.startOffset = 0 THEN timers ELSE Cancelled(timers, delayTask)
  <2>1. /\ packets # << >> /\ ~ shutdown /\ paused' = FALSE
        /\ SendNextPacket(i, ck, TRUE, FALSE, tms, delayTask) /\ UNCHANGED shutdown
    BY <1>4 DEF PrepareStarts
  <2>2. i \in DOMAIN packets /\ packets \in Seq(Ms) /\ clock \in Clocks
    BY <2>1, StartType, TypedParts DEF Fixed
  <2>3. tms = {}
    BY <1>1, NothingLeft
  <2> HIDE DEF i, tms
  <2>4. packets[i] \in Nat /\ i \in 1 .. (Len(packets) + 1)
    BY <2>2, OffsetType
  <2>5. ck \in Clocks
    BY <2>2, <2>4 DEF Clocks
  <2> HIDE DEF ck
  <2>6. SendNextPacket(i, ck, TRUE, FALSE, {}, delayTask)
    BY <2>1, <2>3
  <2>7. \/ ~ playing' /\ timers' = {}
        \/ /\ playing' = TRUE /\ socket' = socket /\ index' \in DOMAIN packets
           /\ \E t \in timers' : timers' = {t} /\ t.id = delayTask'
    BY <2>4, <2>5, <2>6, SendChains
  <2> QED
    BY <2>1, <2>7 DEF Chained
<1> QED
  BY <1>2, <1>3, <1>4 DEF PrepareAndStart

\* resume() goes on from the next packet with nothing armed; so does a delayed task that
\* fires, and setSpeed() and seek() unless paused.
LEMMA GoesOnChained ==
  ASSUME Typed, Chained, NEW i \in 1 .. (Len(packets) + 1), NEW ck \in Clocks, NEW handle,
         SendNextPacket(i, ck, playing, FALSE, {}, handle), paused' = FALSE,
         UNCHANGED << packets, transport, shutdown >>
  PROVE  Chained' /\ (playing' => playing)
<1>1. playing \in BOOLEAN
  BY DEF Typed, TypeOK
<1>2. \/ ~ playing' /\ timers' = {}
      \/ /\ playing /\ playing' = playing /\ socket' = socket /\ index' \in DOMAIN packets
         /\ \E t \in timers' : timers' = {t} /\ t.id = delayTask'
  BY <1>1, SendChains
<1> QED
  BY <1>1, <1>2 DEF Chained

LEMMA ContinueChains ==
  ASSUME Typed, Chained, NEW i \in 1 .. (Len(packets) + 1), playing => i \in DOMAIN packets,
         NEW ck \in Clocks, ContinueFrom(i, ck)
  PROVE  Chained'
<1>1. Cancelled(timers, delayTask) = {} /\ paused \in BOOLEAN
  BY NothingLeft DEF Typed, TypeOK
<1>2. CASE paused
  <2>1. /\ timers' = {} /\ index' = i
        /\ UNCHANGED << playing, paused, socket, transport, shutdown, packets >>
    BY <1>1, <1>2 DEF ContinueFrom
  <2> QED
    BY <1>2, <2>1 DEF Chained
<1>3. CASE ~ paused
  <2>1. /\ SendNextPacket(i, ck, playing, FALSE, {}, NoTimer) /\ paused' = paused /\ paused' = FALSE
        /\ UNCHANGED << packets, transport, shutdown >>
    BY <1>1, <1>3 DEF ContinueFrom
  <2> QED
    BY <2>1, GoesOnChained
<1> QED
  BY <1>2, <1>3

\* An ending that leaves the rest of the session alone keeps what is queued in order.
LEMMA EndingKeepsMessages ==
  ASSUME Typed, Messages, UNCHANGED << queue, paused, transport >>, playing' => playing
  PROVE  Messages'
BY DEF Messages

\* The only caller has waited for its last lambda.
LEMMA CallChains ==
  ASSUME OneCaller, IChain, playing, NEW c \in Callers, NEW arg,
         NEW op \in {"stop", "pause", "resume", "speed", "seek"}, Call(c, op, arg),
         op = "pause" => ~ paused, op = "resume" => paused
  PROVE  Starting' /\ Messages' /\ Chained'
<1>1. Typed /\ Starting /\ Messages /\ Chained
  BY DEF IChain
<1>2. queue \in Seq(Tasks) /\ Len(queue) <= 1 /\ transport = "up"
  BY <1>1, TypedParts DEF Queued, Messages, Chained
<1>3. queue = << >>
  <2> SUFFICES ASSUME queue # << >> PROVE FALSE
    OBVIOUS
  <2>1. 1 \in DOMAIN queue
    BY <1>2
  <2>2. queue[1].by = c
    BY <1>1, <1>2, <2>1 DEF Messages, OneCaller
  <2> QED
    BY <2>1, <2>2 DEF Call, Waiting
<1>4. queue' = << [op |-> op, arg |-> arg, by |-> c] >>
  BY <1>3 DEF Call
<1>5. UNCHANGED << args, transport, notified, shutdown, playing, paused, packets, index,
                  socket, timers, delayTask >>
  BY DEF Call
<1>6. Messages'
  <2>1. Len(queue') <= 1 /\ \A k \in DOMAIN queue' : k = 1
    BY <1>4
  <2>2. queue'[1].op = op /\ queue'[1].by = c
    BY <1>4
  <2> QED
    BY <1>2, <1>5, <2>1, <2>2 DEF Messages
<1>7. Starting' /\ Chained'
  BY <1>1, <1>2, <1>5 DEF Starting, Chained
<1> QED
  BY <1>6, <1>7

\* With one caller, every step keeps the chain.
LEMMA ChainKept ==
  ASSUME OneCaller, IChain, [Next]_vars
  PROVE  Starting' /\ Messages' /\ Chained'
<1>1. Typed /\ Starting /\ Messages /\ Chained /\ Moving /\ Queued /\ Fixed
  BY TypedParts DEF IChain
<1>2. playing \in BOOLEAN /\ paused \in BOOLEAN /\ shutdown \in BOOLEAN
      /\ index \in 1 .. (Len(packets) + 1) /\ clock \in Clocks
  BY <1>1 DEF Moving, Fixed
<1>3. transport # "up" => timers = {} /\ ~ playing /\ ~ shutdown
  BY <1>1 DEF Starting, Chained
<1>4. CASE UNCHANGED vars
  BY <1>1, <1>4 DEF vars, Starting, Messages, Chained
<1>5. CASE StartTcp \/ StartUdp
  <2>1. transport = "new" /\ queue = << >> /\ queue' = << >>
    BY <1>1, <1>5 DEF StartTcp, StartUdp, Starting
  <2>2. Messages'
    BY <2>1 DEF Messages
  <2>3. Starting' /\ Chained'
    BY <1>1, <1>3, <1>5, <2>1 DEF StartTcp, StartUdp, Starting, Chained
  <2> QED
    BY <2>2, <2>3
<1>6. CASE StartBindFails
  <2>1. transport = "new" /\ queue = << >> /\ queue' = << >> /\ ~ args.tcp /\ transport' = "up"
        /\ args' = args
    BY <1>1, <1>6 DEF StartBindFails, Starting
  <2>2. Messages'
    BY <2>1 DEF Messages
  <2>3. Chained'
    BY <1>1, <1>6, ErrorChains DEF StartBindFails
  <2>4. Starting'
    BY <2>1 DEF Starting
  <2> QED
    BY <2>2, <2>3, <2>4
<1>7. ASSUME NEW ok \in BOOLEAN, Resolved(ok) PROVE Starting' /\ Messages' /\ Chained'
  <2>1. /\ transport = "resolving" /\ transport' = "resolved" /\ queue = << >>
        /\ queue' = Append(queue, [op |-> IF ok THEN "prepare" ELSE "dnsError",
                                   arg |-> 0, by |-> "worker"])
        /\ UNCHANGED << args, notified, shutdown, playing, paused, packets, index, socket, timers,
                        delayTask >>
    BY <1>1, <1>7 DEF Resolved, Starting
  <2>2. queue' = << [op |-> IF ok THEN "prepare" ELSE "dnsError", arg |-> 0, by |-> "worker"] >>
    BY <2>1
  <2>3. Len(queue') <= 1 /\ \A k \in DOMAIN queue' : k = 1
    BY <2>2
  <2>4. queue'[1].op \in {"prepare", "dnsError"}
    BY <2>2
  <2>5. Messages'
    BY <1>3, <2>1, <2>3, <2>4 DEF Messages
  <2>6. Starting' /\ Chained'
    BY <1>1, <1>3, <2>1 DEF Starting, Chained
  <2> QED
    BY <2>5, <2>6
<1>8. ASSUME NEW ok \in BOOLEAN, ConnectResult(ok) PROVE Starting' /\ Messages' /\ Chained'
  <2>1. CASE notified
    <3>1. UNCHANGED vars
      BY <1>8, <2>1 DEF ConnectResult
    <3> QED
      BY <1>4, <3>1
  <2>2. CASE ~ notified
    <3>1. /\ notified' = TRUE /\ transport' = "up" /\ args.tcp
          /\ UNCHANGED << args, packets, now, queue, budget >>
      BY <1>8, <2>2 DEF ConnectResult
    <3>2. transport = "connecting" /\ queue = << >> /\ socket = "open"
      BY <1>1, <1>8, <2>2 DEF ConnectResult, Starting
    <3>3. Messages'
      BY <3>1, <3>2 DEF Messages
    <3>4. Starting'
      BY <3>1 DEF Starting
    <3>5. Chained'
      <4>1. CASE ok
        <5>1. PrepareAndStart
          BY <1>3, <1>8, <2>2, <3>2, <4>1 DEF ConnectResult
        <5> QED
          BY <1>1, <1>3, <3>1, <3>2, <5>1, PrepareChains
      <4>2. CASE ~ ok
        <5>1. NotifyError
          BY <1>3, <1>8, <2>2, <3>2, <4>2 DEF ConnectResult
        <5> QED
          BY <1>1, <5>1, ErrorChains
      <4> QED
        BY <4>1, <4>2
    <3> QED
      BY <3>3, <3>4, <3>5
  <2> QED
    BY <2>1, <2>2
<1>9. CASE SocketError
  <2>1. transport = "up" /\ UNCHANGED << args, transport, notified, paused, queue >> /\ NotifyError
    BY <1>9 DEF SocketError
  <2>2. Chained' /\ playing' = FALSE
    BY <1>1, <2>1, ErrorChains
  <2>3. Messages'
    BY <1>1, <2>1, <2>2, EndingKeepsMessages
  <2>4. Starting'
    BY <1>1, <2>1 DEF Starting
  <2> QED
    BY <2>2, <2>3, <2>4
<1>10. CASE FireTimer
  <2>1. PICK t \in timers :
          /\ SendNextPacket(index, clock, playing, paused, timers \ {t},
                            IF delayTask = t.id THEN NoTimer ELSE delayTask)
          /\ UNCHANGED << args, transport, notified, shutdown, paused, packets, clock, now, queue,
                          content, drift, budget >>
    BY <1>10 DEF FireTimer
  <2>2. playing /\ paused = FALSE /\ timers \ {t} = {} /\ transport = "up" /\ paused' = FALSE
    BY <1>1, <1>2, <2>1 DEF Chained
  <2>3. Chained' /\ (playing' => playing)
    BY <1>1, <1>2, <2>1, <2>2, GoesOnChained
  <2>4. Messages'
    BY <1>1, <2>1, <2>3, EndingKeepsMessages
  <2>5. Starting'
    BY <1>1, <2>1, <2>2 DEF Starting
  <2> QED
    BY <2>3, <2>4, <2>5
<1>11. CASE DoPrepare
  <2>1. /\ PrepareAndStart /\ transport' = "up" /\ packets' = packets /\ args' = args
        /\ transport = "resolved" /\ Messages'
    BY <1>1, <1>11, QueueEmpties DEF DoPrepare
  <2>2. Starting' /\ ~ playing /\ socket = "open"
    BY <1>1, <1>3, <2>1 DEF Starting
  <2>3. Chained'
    BY <1>1, <2>1, <2>2, PrepareChains
  <2> QED
    BY <2>1, <2>2, <2>3
<1>12. CASE DoDnsError
  <2>1. /\ NotifyError /\ transport' = "up" /\ args' = args
        /\ transport = "resolved" /\ Messages'
    BY <1>1, <1>12, QueueEmpties DEF DoDnsError
  <2>2. Starting'
    BY <1>1, <2>1 DEF Starting
  <2>3. Chained'
    BY <1>1, <2>1, ErrorChains
  <2> QED
    BY <2>1, <2>2, <2>3
<1>13. ASSUME transport = "up", UNCHANGED << args, transport, notified >> PROVE Starting'
  BY <1>1, <1>13 DEF Starting
<1>14. CASE DoStop
  <2>1. /\ transport = "up" /\ Messages' /\ playing' = FALSE
        /\ UNCHANGED << args, transport, notified >> /\ timers' = Cancelled(timers, delayTask)
    BY <1>1, <1>14, QueueEmpties DEF DoStop
  <2>2. Chained'
    BY <1>1, <2>1, NothingLeft DEF Chained
  <2> QED
    BY <1>13, <2>1, <2>2
<1>15. CASE DoPause
  <2>1. /\ transport = "up" /\ Messages' /\ paused' = TRUE
        /\ UNCHANGED << args, transport, notified, playing, shutdown, socket, index, packets >>
        /\ timers' = Cancelled(timers, delayTask)
    BY <1>1, <1>15, QueueEmpties DEF DoPause
  <2>2. Chained'
    BY <1>1, <2>1, NothingLeft DEF Chained
  <2> QED
    BY <1>13, <2>1, <2>2
<1>16. CASE DoResume
  <2> DEFINE ck == [clock EXCEPT !.pausedDuration =
                      (@ + Minus(now, clock.pauseBegin)) % MsMod]
  <2>1. /\ transport = "up" /\ Messages' /\ paused' = FALSE
        /\ UNCHANGED << args, transport, notified, shutdown, packets >>
        /\ SendNextPacket(index, ck, playing, FALSE, timers, delayTask)
        /\ (playing => paused)
    <3>1. Task("resume")
      BY <1>16 DEF DoResume
    <3>2. transport = "up" /\ Messages' /\ (playing => paused)
      BY <1>1, <3>1, QueueEmpties
    <3> QED
      BY <1>16, <3>2 DEF DoResume
  <2>2. timers = {}
    BY <1>1, <2>1 DEF Chained
  <2>3. ck \in Clocks
    BY <1>1, ResumedType
  <2> HIDE DEF ck
  <2>4. Chained'
    BY <1>1, <1>2, <2>1, <2>2, <2>3, GoesOnChained
  <2> QED
    BY <1>13, <2>1, <2>4
<1>17. CASE DoSetSpeed
  <2> DEFINE ck == Anchored(clock, paused, Head(queue).arg, CurrentOffset(index))
  <2>1. transport = "up" /\ Messages' /\ ContinueFrom(index, ck)
    BY <1>1, <1>17, QueueEmpties DEF DoSetSpeed
  <2>2. ck \in Clocks
    BY <1>1, <1>17, SpeedAnchor DEF DoSetSpeed
  <2> HIDE DEF ck
  <2>3. Chained'
    BY <1>1, <1>2, <2>1, <2>2, ContinueChains DEF Chained
  <2>4. UNCHANGED << args, transport, notified >>
    BY <2>1 DEF ContinueFrom
  <2> QED
    BY <1>13, <2>1, <2>3, <2>4
<1>18. CASE DoSeek
  <2>1. PICK i, ck : Task("seek") /\ ContinueFrom(i, ck) /\ ck \in Clocks /\ i \in DOMAIN packets
    BY <1>1, <1>18, SeekAnchor
  <2>2. transport = "up" /\ Messages'
    BY <1>1, <2>1, QueueEmpties
  <2>3. i \in 1 .. (Len(packets) + 1)
    BY <1>1, <2>1, OffsetType DEF Fixed
  <2>4. Chained'
    BY <1>1, <2>1, <2>3, ContinueChains
  <2>5. UNCHANGED << args, transport, notified >>
    BY <2>1 DEF ContinueFrom
  <2> QED
    BY <1>13, <2>2, <2>4, <2>5
<1>19. CASE Control
  <2>1. ASSUME NEW c \in Callers, CallStop(c) \/ CallPause(c) \/ CallResume(c)
        PROVE  Starting' /\ Messages' /\ Chained'
    <3>1. playing
      BY <2>1 DEF CallStop, CallPause, CallResume
    <3>2. CASE CallStop(c)
      BY <3>1, <3>2, CallChains DEF CallStop
    <3>3. CASE CallPause(c)
      BY <3>1, <3>3, CallChains DEF CallPause
    <3>4. CASE CallResume(c)
      BY <3>1, <3>4, CallChains DEF CallResume
    <3> QED
      BY <2>1, <3>2, <3>3, <3>4
  <2>2. ASSUME NEW c \in Callers, NEW s \in Speeds, CallSetSpeed(c, s)
        PROVE  Starting' /\ Messages' /\ Chained'
    BY <2>2, CallChains DEF CallSetSpeed
  <2>3. ASSUME NEW c \in Callers, NEW ms \in SeekSteps, CallSeek(c, ms)
        PROVE  Starting' /\ Messages' /\ Chained'
    BY <2>3, CallChains DEF CallSeek
  <2> QED
    BY <1>19, <2>1, <2>2, <2>3 DEF Control
<1>20. CASE Tick
  BY <1>1, <1>20 DEF Tick, Starting, Messages, Chained
<1> QED
  BY <1>4, <1>5, <1>6, <1>7, <1>8, <1>9, <1>10, <1>11, <1>12, <1>14, <1>15, <1>16, <1>17, <1>18,
     <1>19, <1>20 DEF Next, Start, Poller

\* PlaysOnOneChain: with one thread at a time in the control methods (OneCaller), a session
\* that plays is not shut down, has its open socket and its next packet, and exactly one
\* delayed task, the one _delay_task holds (none while paused).
THEOREM OneChain == OneCaller => (Spec => []PlaysOnOneChain)
<1> SUFFICES ASSUME OneCaller PROVE Spec => []PlaysOnOneChain
  OBVIOUS
<1>1. IChain /\ [Next]_vars => IChain'
  BY ChainKept, TypesKept DEF IChain
<1>2. IChain => PlaysOnOneChain
  <2> SUFFICES ASSUME Typed, Chained, playing PROVE PlaysOnOneChain
    BY DEF IChain, PlaysOnOneChain
  <2>1. ~ shutdown /\ socket = "open" /\ index \in DOMAIN packets
    BY DEF Chained
  <2>2. CASE paused
    BY <2>1, <2>2, FS_EmptySet DEF Chained, PlaysOnOneChain
  <2>3. CASE ~ paused
    <3>1. PICK t \in timers : timers = {t} /\ t.id = delayTask
      BY <2>3 DEF Chained
    <3>2. Cardinality({t}) = 1
      BY FS_Singleton
    <3>3. timers = {u \in timers : u.id = delayTask} /\ Cardinality(timers) = 1
      BY <3>1, <3>2
    <3> QED
      BY <2>1, <2>3, <3>3 DEF PlaysOnOneChain
  <2> QED
    BY <2>2, <2>3
<1> QED
  BY <1>1, <1>2, InitiallyChained, PTL DEF Spec

----------------------------------------------------------------------------
(* One caller, a sorted recording: the pace                                *)

\* The time that has passed for the recording: every pause is taken out, the running one too.
Elapsed == IF paused THEN clock.pauseBegin - clock.pausedDuration
                     ELSE now - clock.pausedDuration

\* When the packet at offset off is due, in that time.
DueAt(off, ck) == ck.baseElapsed + (2 * (off - ck.baseOffset)) \div ck.speed

\* No clock value reaches the width of the code's counters.
Fits == now + 2 * Duration(packets) < MsMod

\* The place in the recording, in half ms, where the pacing with clock ck is when e has passed.
Place(ck, e) == 2 * ck.baseOffset + ck.speed * (e - ck.baseElapsed)

\* The pacing, at place pl and speed s with packet i the next, has passed the packet before it,
\* and is no further from the exact player than the changes of speed allow.
OnTrack(pl, s, i, where, moved) ==
  /\ 2 * Before(i) < pl + s
  /\ pl <= where + moved.ahead /\ where <= pl + moved.behind

\* The anchors stay behind, the pacing is where the exact player is but for the changes of
\* speed, and the next packet is late by no more than the poller.
Paced ==
  playing =>
    /\ clock.pausedDuration <= now /\ clock.baseElapsed <= Elapsed
    /\ paused => clock.pausedDuration <= clock.pauseBegin /\ clock.pauseBegin <= now
    /\ clock.baseOffset <= packets[index]
    /\ OnTrack(Place(clock, Elapsed), clock.speed, index, content, drift)
    /\ Elapsed <= DueAt(packets[index], clock) + MaxLag
    /\ ~ paused => \A t \in timers :
         /\ now <= t.due + MaxLag
         /\ t.due <= DueAt(packets[index], clock) + clock.pausedDuration

SentInTime == \A i \in sent : 2 * packets[i] < content + drift.ahead + clock.speed

IPace ==
  /\ IChain /\ Sorted(packets)
  /\ transport # "up" => now = 0
  /\ Fits => Paced /\ SentInTime

LEMMA DivBounds ==
  ASSUME NEW d \in Nat, NEW s \in Nat \ {0}
  PROVE  (2 * d) \div s \in Nat /\ s * ((2 * d) \div s) <= 2 * d
         /\ 2 * d < s * ((2 * d) \div s + 1)
OBVIOUS

LEMMA TimesGrows ==
  ASSUME NEW s \in Nat, NEW a \in Int, NEW b \in Int, a <= b
  PROVE  s * a <= s * b
OBVIOUS

LEMMA MinusExact ==
  ASSUME NEW a \in Nat, NEW b \in Nat, b <= a, a < MsMod
  PROVE  Minus(a, b) = a - b
<1>1. PICK d \in Nat : d = a - b /\ d < MsMod
  BY WidthAssumption
<1>2. d % MsMod = d
  BY <1>1, WidthAssumption
<1> QED
  BY <1>1, <1>2 DEF Minus

LEMMA DurationType ==
  ASSUME packets \in Seq(Ms)
  PROVE  Duration(packets) \in Nat
<1>1. CASE packets = << >>
  BY <1>1 DEF Duration
<1>2. CASE packets # << >>
  <2>1. Len(packets) \in DOMAIN packets
    BY <1>2
  <2>2. packets[Len(packets)] \in Nat
    BY <2>1, OffsetType
  <2> QED
    BY <1>2, <2>2 DEF Duration
<1> QED
  BY <1>1, <1>2

\* Within a sorted recording no packet lies behind its end.
LEMMA DurationLast ==
  ASSUME packets \in Seq(Ms), Sorted(packets), NEW i \in DOMAIN packets
  PROVE  Duration(packets) \in Nat /\ packets[i] \in Nat /\ packets[i] <= Duration(packets)
<1>1. PICK L \in Nat : L = Len(packets) /\ DOMAIN packets = 1 .. L
  OBVIOUS
<1>2. i \in 1 .. L
  BY <1>1
<1>3. L \in 1 .. L /\ i <= L
  BY <1>2
<1>4. packets # << >>
  BY <1>1, <1>2
<1>5. Duration(packets) = packets[L] /\ packets[i] <= packets[L]
  BY <1>1, <1>2, <1>3, <1>4 DEF Duration, Sorted
<1>6. packets[L] \in Nat /\ packets[i] \in Nat
  BY <1>1, <1>3, OffsetType
<1> QED
  BY <1>5, <1>6

\* The product and the sum stay within the counters' width.
LEMMA TargetExact ==
  ASSUME packets \in Seq(Ms), Sorted(packets), now \in Nat, Fits, NEW i \in DOMAIN packets,
         NEW ck \in Clocks, ck.baseOffset <= packets[i], ck.baseElapsed <= now
  PROVE  DueAt(packets[i], ck) \in Nat /\ TargetElapsed(packets[i], ck) = DueAt(packets[i], ck)
<1>1. PICK p \in Nat, D \in Nat : p = packets[i] /\ D = Duration(packets) /\ p <= D
  BY DurationLast
<1>2. PICK o \in Nat, e \in Nat, s \in Nat \ {0} :
        o = ck.baseOffset /\ e = ck.baseElapsed /\ s = ck.speed
  BY DEF Clocks
<1>3. PICK d \in Nat : d = p - o
  BY <1>1, <1>2
<1>4. now + 2 * D < MsMod /\ MsMod \in Nat
  BY <1>1, WidthAssumption DEF Fits
<1>5. Minus(p, o) = d
  <2>1. o <= p /\ p < MsMod
    BY <1>1, <1>2, <1>4
  <2> QED
    BY <1>3, <2>1, MinusExact
<1>6. PICK q \in Nat : q = (2 * d) \div s /\ q <= 2 * d
  <2>1. (2 * d) \div s \in Nat /\ s * ((2 * d) \div s) <= 2 * d
    BY DivBounds
  <2>2. PICK q \in Nat : q = (2 * d) \div s
    BY <2>1
  <2>3. s * q <= 2 * d
    BY <2>1, <2>2
  <2>4. 1 * q <= s * q
    OBVIOUS
  <2> QED
    BY <2>2, <2>3, <2>4
<1>7. e + q \in Nat /\ e + q < MsMod
  <2>1. e <= now
    BY <1>2
  <2>2. d <= D
    <3>1. p <= D /\ d = p - o
      BY <1>1, <1>3
    <3> QED
      BY <3>1
  <2>3. q <= 2 * d
    BY <1>6
  <2> QED
    BY <1>4, <2>1, <2>2, <2>3
<1>8. (e + q) % MsMod = e + q
  BY <1>4, <1>7
<1>9. TargetElapsed(packets[i], ck) = (e + q) % MsMod
  BY <1>1, <1>2, <1>5, <1>6 DEF TargetElapsed
<1>10. DueAt(packets[i], ck) = e + q
  BY <1>1, <1>2, <1>3, <1>6 DEF DueAt
<1> QED
  BY <1>7, <1>8, <1>9, <1>10

LEMMA EffectiveExact ==
  ASSUME now \in Nat, Fits, NEW ck \in Clocks, ck.pausedDuration <= now,
         packets \in Seq(Ms)
  PROVE  EffectiveElapsed(ck) = now - ck.pausedDuration
<1>1. ck.pausedDuration \in Nat /\ Duration(packets) \in Nat
  BY DurationType DEF Clocks
<1>2. now < MsMod
  BY <1>1, WidthAssumption DEF Fits
<1> QED
  BY <1>1, <1>2, MinusExact DEF EffectiveElapsed

\* What is due at elapsed time e is at or before the place an exact player reaches by the end
\* of that millisecond, and what is not due yet is behind the place reached by then.
LEMMA DueInTime ==
  ASSUME NEW off \in Nat, NEW ck \in Clocks, ck.baseOffset <= off, NEW e \in Nat,
         NEW lag \in Nat
  PROVE  /\ DueAt(off, ck) <= e => 2 * off < Place(ck, e) + ck.speed
         /\ e <= DueAt(off, ck) + lag => Place(ck, e) <= 2 * off + ck.speed * lag
<1>1. PICK o \in Nat, b \in Nat, s \in Nat \ {0} :
        o = ck.baseOffset /\ b = ck.baseElapsed /\ s = ck.speed
  BY DEF Clocks
<1>2. PICK d \in Nat : d = off - o
  BY <1>1
<1>3. PICK q \in Nat : q = (2 * d) \div s /\ s * q <= 2 * d /\ 2 * d < s * (q + 1)
  BY DivBounds
<1>4. DueAt(off, ck) = b + q
  BY <1>1, <1>2, <1>3 DEF DueAt
<1>5. 2 * off = 2 * o + 2 * d
  BY <1>2
<1>6. ASSUME b + q <= e PROVE 2 * off < 2 * o + s * (e - b) + s
  <2>1. s * (q + 1) <= s * (e - b + 1)
    BY <1>6, TimesGrows
  <2>2. s * (e - b + 1) = s * (e - b) + s
    OBVIOUS
  <2>3. PICK x \in Int, y \in Int : x = s * (q + 1) /\ y = s * (e - b)
    OBVIOUS
  <2>4. 2 * d < x /\ x <= y + s
    BY <1>3, <2>1, <2>2, <2>3
  <2>5. 2 * off < 2 * o + y + s
    BY <1>5, <2>4
  <2> QED
    BY <2>3, <2>5
<1>7. ASSUME e <= b + q + lag PROVE 2 * o + s * (e - b) <= 2 * off + s * lag
  <2>1. s * (e - b) <= s * (q + lag)
    BY <1>7, TimesGrows
  <2>2. s * (q + lag) = s * q + s * lag
    OBVIOUS
  <2>3. PICK x \in Int, y \in Int, z \in Int : x = s * q /\ y = s * (e - b) /\ z = s * lag
    OBVIOUS
  <2>4. y <= x + z /\ x <= 2 * d
    BY <1>3, <2>1, <2>2, <2>3
  <2>5. 2 * o + y <= 2 * off + z
    BY <1>5, <2>4
  <2> QED
    BY <2>3, <2>5
<1>8. b + q + lag = DueAt(off, ck) + lag
  BY <1>4
<1>9. Place(ck, e) = 2 * o + s * (e - b)
  BY <1>1 DEF Place
<1> QED
  BY <1>1, <1>4, <1>6, <1>7, <1>8, <1>9

\* The packets the loop of sendNextPacket() passes are due, those of one offset with the first.
LEMMA PassedAreDue ==
  ASSUME packets \in Seq(Ms), Sorted(packets), now \in Nat, Fits, NEW i \in DOMAIN packets,
         NEW ck \in Clocks, ck.baseOffset <= packets[i], ck.pausedDuration <= now,
         ck.baseElapsed <= now - ck.pausedDuration, NEW k \in i .. (SendUpTo(i, ck) - 1)
  PROVE  /\ k \in DOMAIN packets /\ ck.baseOffset <= packets[k]
         /\ DueAt(packets[k], ck) <= now - ck.pausedDuration
<1>1. PICK L \in Nat : L = Len(packets) /\ DOMAIN packets = 1 .. L
  OBVIOUS
<1>2. i \in 1 .. L /\ i \in Nat /\ i \in 1 .. (L + 1)
  BY <1>1
<1>3. PICK j \in Nat : j = SendUpTo(i, ck) /\ j \in i .. (L + 1)
  <2>1. SendUpTo(i, ck) \in i .. (L + 1)
    BY <1>1, <1>2, SendUpToStops
  <2> QED
    BY <1>2, <2>1
<1>4. \A x \in i .. (j - 1) : Opens(i, x) => Due(x, ck)
  BY <1>1, <1>2, <1>3, SendUpToStops
<1>5. \A x \in i .. (j - 1) : x \in 1 .. L
  BY <1>2, <1>3
<1>6. ck.baseOffset \in Nat /\ ck.baseElapsed \in Nat /\ ck.pausedDuration \in Nat
  BY DEF Clocks
<1>7. ck.baseElapsed <= now
  BY <1>6
<1>8. ASSUME NEW x \in i .. (j - 1) PROVE ck.baseOffset <= packets[x]
  <2>1. x \in 1 .. L /\ i <= x
    BY <1>5
  <2>2. packets[i] <= packets[x] /\ packets[i] \in Nat /\ packets[x] \in Nat
    BY <1>1, <2>1, OffsetType DEF Sorted
  <2> QED
    BY <1>6, <2>2
<1>9. ASSUME NEW x \in i .. (j - 1), Due(x, ck)
      PROVE  DueAt(packets[x], ck) <= now - ck.pausedDuration
  <2>1. x \in DOMAIN packets
    BY <1>1, <1>5
  <2>2. TargetElapsed(packets[x], ck) = DueAt(packets[x], ck)
    BY <1>7, <1>8, <2>1, TargetExact
  <2>3. EffectiveElapsed(ck) = now - ck.pausedDuration
    BY EffectiveExact
  <2> QED
    BY <1>9, <2>2, <2>3 DEF Due
<1> DEFINE T == {x \in i .. (j - 1) : DueAt(packets[x], ck) <= now - ck.pausedDuration}
<1>10. k \in i .. (j - 1) /\ i \in i .. (j - 1) /\ j - 1 \in Nat
  BY <1>2, <1>3
<1>11. i \in T
  BY <1>4, <1>9, <1>10 DEF Opens
<1>12. ASSUME NEW x \in i .. (j - 1), x # i, x - 1 \in T PROVE x \in T
  <2>1. CASE packets[x] # packets[x - 1]
    BY <1>4, <1>9, <2>1 DEF Opens
  <2>2. CASE packets[x] = packets[x - 1]
    BY <1>12, <2>2
  <2> QED
    BY <2>1, <2>2
<1> HIDE DEF T
<1>13. k \in T
  <2>1. \A x \in i .. (j - 1) : x # i /\ x - 1 \in T => x \in T
    BY <1>12
  <2> QED
    BY <1>2, <1>10, <1>11, <2>1, Stepwise
<1> QED
  BY <1>1, <1>5, <1>8, <1>10, <1>13 DEF T

\* sendNextPacket(), entered on time with nothing armed, sends on time and waits for no longer
\* than the next packet asks for.
LEMMA SendPaced ==
  ASSUME Typed, Sorted(packets), Fits, NEW i \in 1 .. (Len(packets) + 1), NEW ck \in Clocks,
         NEW live \in BOOLEAN, NEW handle, SendNextPacket(i, ck, live, FALSE, {}, handle),
         UNCHANGED << packets, now >>, paused' = FALSE, clock' = ck,
         live => /\ i \in DOMAIN packets /\ ck.baseOffset <= packets[i]
                 /\ ck.pausedDuration <= now /\ ck.baseElapsed <= now - ck.pausedDuration
                 /\ OnTrack(Place(ck, now - ck.pausedDuration), ck.speed, i, content', drift'),
         content' \in Nat, drift' \in Drifts
  PROVE  Paced' /\ SentInTime'
<1>1. packets \in Seq(Ms) /\ now \in Nat /\ MaxLag \in Nat
  BY TypedParts, BoundAssumption DEF Fixed
<1>2. PICK L \in Nat : L = Len(packets) /\ DOMAIN packets = 1 .. L
  BY <1>1
<1>3. i \in Nat /\ i .. (i - 1) = {}
  BY <1>2
<1>4. PICK o \in Nat, b \in Nat, u \in Nat, s \in Nat \ {0} :
        o = ck.baseOffset /\ b = ck.baseElapsed /\ u = ck.pausedDuration /\ s = ck.speed
  BY DEF Clocks
<1>5. PICK pl \in Int, ahead \in Int, behind \in Nat, where \in Nat :
        /\ pl = Place(ck, now - u) /\ where = content'
        /\ ahead = drift'.ahead /\ behind = drift'.behind
  <2>1. Place(ck, now - u) \in Int
    <3>1. \A x, y \in Int : x * y \in Int
      OBVIOUS
    <3>2. now - u - b \in Int
      BY <1>1, <1>4
    <3>3. s * (now - u - b) \in Int
      BY <3>1, <3>2
    <3> QED
      BY <1>4, <3>3 DEF Place
  <2> QED
    BY <2>1 DEF Drifts
<1>6. live => pl <= where + ahead /\ where <= pl + behind /\ 2 * Before(i) < pl + s
  BY <1>4, <1>5 DEF OnTrack
<1>7. ASSUME live, NEW k \in i .. (SendUpTo(i, ck) - 1)
       PROVE  2 * packets[k] < pl + s /\ packets[k] \in Nat
  <2>1. k \in DOMAIN packets /\ ck.baseOffset <= packets[k]
        /\ DueAt(packets[k], ck) <= now - ck.pausedDuration
    BY <1>1, <1>7, PassedAreDue
  <2>2. packets[k] \in Nat /\ now - u \in Nat
    <3>1. u <= now
      BY <1>4, <1>7
    <3> QED
      BY <1>1, <2>1, <3>1, OffsetType
  <2>3. DueAt(packets[k], ck) <= now - u
    BY <1>4, <2>1
  <2>4. 2 * packets[k] < Place(ck, now - u) + ck.speed
    BY <2>1, <2>2, <2>3, DueInTime, 0 \in Nat
  <2> QED
    BY <1>4, <1>5, <2>2, <2>4
<1>8. ASSUME live, sent' = i .. (SendUpTo(i, ck) - 1) PROVE SentInTime'
  <2>1. SUFFICES ASSUME NEW k \in i .. (SendUpTo(i, ck) - 1)
                 PROVE  2 * packets[k] < content' + drift'.ahead + ck.speed
    BY <1>8 DEF SentInTime
  <2>2. PICK p \in Nat : p = packets[k] /\ 2 * p < pl + s
    BY <1>7, <1>8
  <2>3. 2 * p < where + ahead + s
    BY <1>6, <1>8, <2>2
  <2> QED
    BY <1>4, <1>5, <2>2, <2>3
<1>9. CASE Completes(i, ck, live, FALSE, {}, handle)
  <2>1. Paced'
    BY <1>9 DEF Completes, Paced
  <2>2. CASE live
    <3>1. i <= Len(packets)
      BY <1>2, <2>2
    <3>2. sent' = i .. (SendUpTo(i, ck) - 1)
      BY <1>9, <2>2, <3>1 DEF Completes
    <3> QED
      BY <1>8, <2>1, <2>2, <3>2
  <2>3. CASE ~ live
    <3>1. sent' = {}
      BY <1>3, <1>9, <2>3 DEF Completes
    <3> QED
      BY <2>1, <3>1 DEF SentInTime
  <2> QED
    BY <2>2, <2>3
<1>10. ~ Holds(i, live, FALSE, {}, handle)
  BY DEF Holds
<1>11. CASE Polls(i, ck, live, FALSE, {})
  <2>1. PICK j \in Nat : j = index' /\ j \in i .. L /\ j \in 1 .. L
    <3>1. index' \in i .. L
      BY <1>2, <1>11 DEF Polls
    <3>2. \A x \in i .. L : x \in Nat /\ x \in 1 .. L
      BY <1>2
    <3> QED
      BY <3>1, <3>2
  <2>2. live /\ ~ Due(j, ck) /\ Schedule({}, Poll(j, ck)) /\ sent' = i .. (SendUpTo(i, ck) - 1)
    BY <1>11, <2>1 DEF Polls
  <2>3. SentInTime'
    BY <1>8, <2>2
  <2>4. PICK p \in Nat : p = packets[j] /\ o <= p
    <3>1. i <= j /\ packets[i] \in Nat /\ packets[j] \in Nat
      BY <1>1, <1>2, <2>1, <2>2, OffsetType
    <3>2. packets[i] <= packets[j]
      BY <1>2, <2>1, <2>2, <3>1 DEF Sorted
    <3> QED
      BY <1>4, <2>2, <3>1, <3>2
  <2>5. u <= now /\ b <= now - u /\ b <= now
    BY <1>1, <1>4, <2>2
  <2>6. PICK t \in Nat : t = DueAt(packets[j], ck) /\ TargetElapsed(packets[j], ck) = t
    BY <1>1, <1>2, <1>4, <2>1, <2>4, <2>5, TargetExact
  <2>7. EffectiveElapsed(ck) = now - u
    BY <1>1, <1>4, <2>5, EffectiveExact
  <2>8. now - u < t
    BY <1>1, <2>2, <2>5, <2>6, <2>7 DEF Due
  <2>9. PICK w \in Nat : w = Poll(j, ck) /\ w <= t - (now - u)
    <3>1. Poll(j, ck) \in Nat /\ Poll(j, ck) <= Wait(j, ck)
      BY <1>1, <1>2, <2>1, <2>2, PollType
    <3>2. Wait(j, ck) = t - (now - u)
      BY <2>6, <2>7 DEF Wait
    <3> QED
      BY <3>1, <3>2
  <2>10. \A x \in timers' : x.due = now + w
    BY <2>2, <2>9 DEF Schedule
  <2>11. now <= now + w + MaxLag /\ now + w <= t + u /\ now - u <= t + MaxLag
    BY <1>1, <2>5, <2>8, <2>9
  <2>12. Elapsed' = now - u
    BY <1>4 DEF Elapsed
  <2>13. t = DueAt(packets'[index'], clock')
    BY <2>1, <2>6
  <2>14. clock'.pausedDuration <= now' /\ clock'.baseElapsed <= Elapsed' /\ ~ paused'
    BY <1>4, <2>5, <2>12
  <2>15. Paced'
    <3>1. clock'.baseOffset <= packets'[index']
      BY <1>4, <2>1, <2>4
    <3>2. OnTrack(Place(clock, Elapsed), clock.speed, index, content, drift)'
      <4>1. 2 * Before(j) < pl + s
        <5>1. CASE j = i
          BY <1>6, <2>2, <5>1
        <5>2. CASE j # i
          <6>1. j = SendUpTo(i, ck)
            BY <1>11, <2>1 DEF Polls
          <6>2. j - 1 \in i .. (j - 1) /\ j # 1
            <7>1. i \in Nat /\ j \in Nat /\ 1 <= i /\ i <= j /\ i # j
              BY <1>2, <2>1, <5>2
            <7> QED
              BY <7>1
          <6>3. Before(j) = packets[j - 1]
            BY <6>2 DEF Before
          <6> QED
            BY <1>7, <2>2, <6>1, <6>2, <6>3
        <5> QED
          BY <5>1, <5>2
      <4>2. Place(clock, Elapsed)' = pl
        BY <1>4, <1>5, <2>12 DEF Place
      <4>3. Before(index)' = Before(j)
        BY <2>1 DEF Before
      <4> QED
        BY <1>4, <1>5, <1>6, <2>2, <4>1, <4>2, <4>3 DEF OnTrack
    <3>3. Elapsed' <= DueAt(packets'[index'], clock') + MaxLag
      BY <2>11, <2>12, <2>13
    <3>4. \A x \in timers' : /\ now' <= x.due + MaxLag
                             /\ x.due <= DueAt(packets'[index'], clock') + clock'.pausedDuration
      BY <1>4, <2>10, <2>11, <2>13
    <3> QED
      BY <2>14, <3>1, <3>2, <3>3, <3>4 DEF Paced
  <2> QED
    BY <2>3, <2>15
<1> QED
  BY <1>1, <1>9, <1>10, <1>11, Outcomes

\* Steps that send nothing leave what the last one sent where it was.
LEMMA SentStays ==
  ASSUME SentInTime, UNCHANGED << sent, content, drift, packets >>, clock'.speed = clock.speed
  PROVE  SentInTime'
BY DEF SentInTime

\* In a sorted recording the packet before the next is not behind it.
LEMMA BeforeIsEarlier ==
  ASSUME packets \in Seq(Ms), Sorted(packets), NEW i \in DOMAIN packets, NEW s \in Nat \ {0}
  PROVE  2 * Before(i) < 2 * packets[i] + s
<1>1. packets[i] \in Nat /\ i \in 1 .. (Len(packets) + 1)
  BY OffsetType
<1>2. Before(i) \in Nat /\ (i # 1 => i - 1 \in DOMAIN packets /\ Before(i) = packets[i - 1])
  BY <1>1, BeforeType
<1>3. Before(i) <= packets[i]
  <2>1. CASE i = 1
    BY <1>1, <2>1 DEF Before
  <2>2. CASE i # 1
    <3>1. i - 1 <= i
      BY <1>1
    <3> QED
      BY <1>2, <2>2, <3>1 DEF Sorted
  <2> QED
    BY <2>1, <2>2
<1> QED
  BY <1>1, <1>2, <1>3

LEMMA PreparePaced ==
  ASSUME Typed, Chained, Sorted(packets), Fits, SentInTime, now = 0, transport # "up",
         PrepareAndStart, UNCHANGED << packets, now >>
  PROVE  Paced' /\ SentInTime'
<1>1. ~ playing /\ timers = {}
  BY DEF Chained
<1>2. CASE PrepareGivesUp
  BY <1>1, <1>2, SentStays DEF PrepareGivesUp, Paced
<1>3. CASE PrepareFails
  BY <1>3, SentStays DEF PrepareFails, NotifyError, Paced
<1>4. CASE PrepareStarts
  <2> DEFINE i == IF args.startOffset = 0 THEN 1 ELSE Locate(packets, args.startOffset)
             ck == [clock EXCEPT !.baseOffset = packets[i], !.baseElapsed = 0,
                                 !.pausedDuration = 0]
             tms == IF args.startOffset = 0 THEN timers ELSE Cancelled(timers, delayTask)
  <2>1. /\ packets # << >> /\ paused' = FALSE /\ clock' = ck /\ content' = 2 * packets[i]
        /\ drift' = NoDrift
        /\ SendNextPacket(i, ck, TRUE, FALSE, tms, delayTask)
    BY <1>4 DEF PrepareStarts
  <2>2. i \in DOMAIN packets /\ packets \in Seq(Ms) /\ clock \in Clocks
    BY <2>1, StartType, TypedParts DEF Fixed
  <2>3. tms = {}
    BY <1>1, NothingLeft
  <2> HIDE DEF i, tms
  <2>4. packets[i] \in Nat /\ i \in 1 .. (Len(packets) + 1)
    BY <2>2, OffsetType
  <2>5. /\ ck \in Clocks /\ ck.baseOffset = packets[i] /\ ck.baseElapsed = 0
        /\ ck.pausedDuration = 0 /\ ck.speed \in Nat \ {0}
    BY <2>2, <2>4 DEF Clocks
  <2> HIDE DEF ck
  <2>6. ck.speed * (now - ck.pausedDuration - ck.baseElapsed) = 0
    <3>1. now - ck.pausedDuration - ck.baseElapsed = 0
      BY <2>5
    <3> QED
      BY <2>5, <3>1
  <2>7. OnTrack(Place(ck, now - ck.pausedDuration), ck.speed, i, content', drift')
    <3>1. Place(ck, now - ck.pausedDuration) = 2 * packets[i]
      BY <2>4, <2>5, <2>6 DEF Place
    <3>2. 2 * Before(i) < 2 * packets[i] + ck.speed
      BY <2>2, <2>4, <2>5, BeforeIsEarlier
    <3> QED
      BY <2>1, <2>4, <3>1, <3>2 DEF OnTrack, NoDrift
  <2>8. ck.baseOffset <= packets[i] /\ ck.pausedDuration <= now
        /\ ck.baseElapsed <= now - ck.pausedDuration
    BY <2>4, <2>5
  <2>9. SendNextPacket(i, ck, TRUE, FALSE, {}, delayTask)
    BY <2>1, <2>3
  <2>10. content' \in Nat /\ drift' \in Drifts
    BY <2>1, <2>4 DEF NoDrift, Drifts
  <2> QED
    BY <2>1, <2>2, <2>4, <2>5, <2>7, <2>8, <2>9, <2>10, SendPaced
<1> QED
  BY <1>2, <1>3, <1>4 DEF PrepareAndStart

\* While it plays the clock is within the width of the counters, and what has passed is known.
LEMMA ElapsedType ==
  ASSUME Typed, Fits, Paced, playing
  PROVE  /\ Elapsed \in Nat /\ Elapsed <= now /\ now < MsMod
         /\ Elapsed = IF paused THEN clock.pauseBegin - clock.pausedDuration
                                ELSE now - clock.pausedDuration
<1>1. now \in Nat /\ packets \in Seq(Ms) /\ clock \in Clocks
  BY TypedParts DEF Fixed
<1>2. clock.pausedDuration \in Nat /\ clock.pauseBegin \in Nat /\ Duration(packets) \in Nat
  BY <1>1, DurationType DEF Clocks
<1>3. clock.pausedDuration <= now
      /\ (paused => clock.pausedDuration <= clock.pauseBegin /\ clock.pauseBegin <= now)
  BY DEF Paced
<1>4. now < MsMod
  BY <1>1, <1>2, WidthAssumption DEF Fits
<1>5. Elapsed \in Nat /\ Elapsed <= now
  BY <1>1, <1>2, <1>3 DEF Elapsed
<1> QED
  BY <1>4, <1>5 DEF Elapsed

LEMMA PlaceType ==
  ASSUME NEW ck \in Clocks, NEW e \in Int
  PROVE  Place(ck, e) \in Int /\ \A lag \in Nat : ck.speed * lag \in Nat
<1>1. PICK o \in Nat, b \in Nat, s \in Nat : o = ck.baseOffset /\ b = ck.baseElapsed /\ s = ck.speed
  BY DEF Clocks
<1>2. s * (e - b) \in Int /\ \A lag \in Nat : s * lag \in Nat
  OBVIOUS
<1> QED
  BY <1>1, <1>2 DEF Place

\* The anchor of setSpeed() and seek() is the time that has passed, and no pause is lost.
LEMMA AnchoredExact ==
  ASSUME Typed, Fits, Paced, playing, NEW speed, NEW base
  PROVE  LET ck == Anchored(clock, paused, speed, base)
         IN  /\ ck.baseElapsed = Elapsed /\ ck.baseOffset = base /\ ck.speed = speed
             /\ ck.pausedDuration = clock.pausedDuration /\ ck.pauseBegin = clock.pauseBegin
<1>1. now \in Nat /\ clock \in Clocks
  BY TypedParts DEF Fixed
<1>2. PICK n \in Nat, u \in Nat, b \in Nat :
        n = now /\ u = clock.pausedDuration /\ b = clock.pauseBegin
  BY <1>1 DEF Clocks
<1>3. n < MsMod /\ u <= n /\ (paused => u <= b /\ b <= n)
  BY <1>2, ElapsedType DEF Paced
<1> DEFINE pause == IF paused THEN Minus(now, clock.pauseBegin) ELSE 0
<1>4. Minus(n, u) = n - u /\ n - u \in Nat /\ n - u < MsMod
  BY <1>3, MinusExact, WidthAssumption
<1>5. pause = IF paused THEN n - b ELSE 0
  BY <1>2, <1>3, MinusExact
<1>6. Minus(n - u, pause) = IF paused THEN b - u ELSE n - u
  <2>1. CASE paused
    <3>1. n - b \in Nat /\ n - b <= n - u /\ (n - u) - (n - b) = b - u
      BY <1>3, <2>1
    <3> QED
      BY <1>4, <1>5, <2>1, <3>1, MinusExact
  <2>2. CASE ~ paused
    BY <1>4, <1>5, <2>2, MinusExact
  <2> QED
    BY <2>1, <2>2
<1>7. Minus(Minus(now, clock.pausedDuration), pause) = Elapsed
  BY <1>2, <1>4, <1>6 DEF Elapsed
<1> HIDE DEF pause
<1>8. Anchored(clock, paused, speed, base) =
        [clock EXCEPT !.speed = speed, !.baseOffset = base, !.baseElapsed = Elapsed]
  BY <1>7 DEF Anchored, pause
<1> HIDE DEF Elapsed
<1> QED
  BY <1>1, <1>8 DEF Clocks

\* Playback goes on at a packet that is due at once.
LEMMA ContinuePaced ==
  ASSUME Typed, Chained, Sorted(packets), Fits, Paced, NEW i \in 1 .. (Len(packets) + 1),
         NEW ck \in Clocks, ContinueFrom(i, ck),
         content' \in Nat, drift' \in Drifts,
         playing => /\ i \in DOMAIN packets
                    /\ OnTrack(2 * packets[i], ck.speed, i, content', drift')
                    /\ ck.baseOffset = packets[i] /\ ck.baseElapsed = Elapsed
                    /\ ck.pausedDuration = clock.pausedDuration
                    /\ ck.pauseBegin = clock.pauseBegin
  PROVE  Paced' /\ SentInTime'
<1>1. packets \in Seq(Ms) /\ now \in Nat /\ MaxLag \in Nat /\ playing \in BOOLEAN
  BY TypedParts, BoundAssumption DEF Moving, Fixed
<1>2. clock' = ck /\ UNCHANGED << paused, packets, now >>
  BY DEF ContinueFrom
<1>3. ck.speed \in Nat \ {0} /\ ck.baseOffset \in Nat /\ ck.baseElapsed \in Nat
      /\ ck.speed * 0 = 0 /\ ck.baseOffset - ck.baseOffset = 0
  BY DEF Clocks
<1>4. Cancelled(timers, delayTask) = {}
  BY NothingLeft
<1>5. CASE paused
  <2>1. sent' = {} /\ index' = i /\ playing' = playing
    BY <1>5 DEF ContinueFrom
  <2>2. SentInTime'
    BY <2>1 DEF SentInTime
  <2>3. CASE playing
    <3>1. Elapsed = clock.pauseBegin - clock.pausedDuration /\ Elapsed' = Elapsed
      BY <1>2, <1>5, <2>3 DEF Elapsed
    <3>2. clock'.pausedDuration <= now' /\ clock'.baseElapsed <= Elapsed'
          /\ clock'.pausedDuration <= clock'.pauseBegin /\ clock'.pauseBegin <= now' /\ paused'
      <4>1. ck.baseElapsed = Elapsed' /\ Elapsed' \in Nat
        BY <1>3, <2>3, <3>1
      <4> QED
        BY <1>2, <1>5, <2>3, <4>1 DEF Paced
    <3>3. clock'.baseOffset <= packets'[index'] /\ packets'[index'] = ck.baseOffset
      BY <1>2, <1>3, <2>1, <2>3
    <3>4. OnTrack(Place(clock, Elapsed), clock.speed, index, content, drift)'
      <4>1. Elapsed' - ck.baseElapsed = 0
        BY <1>2, <1>3, <2>3, <3>1
      <4>2. Place(ck, Elapsed') = 2 * packets[i]
        BY <1>3, <2>3, <4>1 DEF Place
      <4>3. Before(index)' = Before(i)
        BY <1>2, <2>1 DEF Before
      <4> QED
        BY <1>2, <2>1, <2>3, <4>2, <4>3 DEF OnTrack, Place
    <3>5. Elapsed' <= DueAt(packets'[index'], clock') + MaxLag
      <4>1. PICK q \in Nat : q = (2 * 0) \div ck.speed
        BY <1>3, DivBounds, 0 \in Nat
      <4>2. DueAt(ck.baseOffset, ck) = ck.baseElapsed + q
        BY <1>3, <4>1 DEF DueAt
      <4>3. ck.baseElapsed <= ck.baseElapsed + q + MaxLag
        BY <1>1, <1>3, <4>1
      <4>4. DueAt(packets'[index'], clock') = ck.baseElapsed + q
        BY <1>2, <3>3, <4>2
      <4> QED
        BY <2>3, <3>1, <4>3, <4>4
    <3>6. Paced'
      BY <3>2, <3>3, <3>4, <3>5 DEF Paced
    <3> QED
      BY <2>2, <3>6
  <2>4. CASE ~ playing
    BY <2>1, <2>2, <2>4 DEF Paced
  <2> QED
    BY <2>3, <2>4
<1>6. CASE ~ paused
  <2>1. SendNextPacket(i, ck, playing, FALSE, {}, NoTimer) /\ paused' = FALSE
    <3>1. paused \in BOOLEAN
      BY TypedParts DEF Fixed
    <3> QED
      BY <1>2, <1>4, <1>6, <3>1 DEF ContinueFrom
  <2>2. ASSUME playing
        PROVE  /\ i \in DOMAIN packets /\ ck.baseOffset <= packets[i]
               /\ ck.pausedDuration <= now /\ ck.baseElapsed <= now - ck.pausedDuration
               /\ OnTrack(Place(ck, now - ck.pausedDuration), ck.speed, i, content', drift')
    <3>1. Elapsed = now - ck.pausedDuration /\ Elapsed \in Nat
      BY <1>6, <2>2, ElapsedType
    <3>2. ck.baseElapsed = now - ck.pausedDuration /\ ck.pausedDuration <= now
      BY <2>2, <3>1 DEF Paced
    <3>3. now - ck.pausedDuration - ck.baseElapsed = 0
      BY <3>1, <3>2
    <3>4. Place(ck, now - ck.pausedDuration) = 2 * packets[i]
      BY <1>3, <2>2, <3>3 DEF Place
    <3>5. OnTrack(Place(ck, now - ck.pausedDuration), ck.speed, i, content', drift')
      BY <2>2, <3>4
    <3>6. ck.baseElapsed <= ck.baseElapsed /\ ck.baseOffset <= ck.baseOffset
      BY <1>3
    <3> QED
      BY <2>2, <3>2, <3>5, <3>6
  <2> QED
    BY <1>1, <1>2, <2>1, <2>2, SendPaced
<1> QED
  BY <1>5, <1>6

\* What every step leaves: the file, and all but one the clock.
LEMMA NothingElse ==
  ASSUME Typed, [Next]_vars
  PROVE  packets' = packets /\ (now' = now \/ Tick)
<1>1. CASE UNCHANGED vars
  BY <1>1 DEF vars
<1>2. CASE Start \/ \E ok \in BOOLEAN : Resolved(ok)
  BY <1>2 DEF Start, StartTcp, StartUdp, StartBindFails, Resolved
<1>3. CASE Poller
  BY <1>3 DEF Poller, ConnectResult, vars, SocketError, FireTimer, DoPrepare, DoDnsError, DoStop,
     DoPause, DoResume, DoSetSpeed, DoSeek, ContinueFrom
<1>4. CASE Control
  BY <1>4 DEF Control, CallStop, CallPause, CallResume, CallSetSpeed, CallSeek, Call
<1>5. CASE Tick
  BY <1>5 DEF Tick
<1> QED
  BY <1>1, <1>2, <1>3, <1>4, <1>5 DEF Next

LEMMA TickPaced ==
  ASSUME Typed, Chained, Paced, Fits, Tick
  PROVE  Paced' /\ SentInTime'
<1>1. /\ playing /\ now' = now + 1 /\ sent' = {}
      /\ content' = IF paused THEN content ELSE content + clock.speed
      /\ drift' = drift
      /\ \A t \in timers : now < t.due + MaxLag
      /\ UNCHANGED << playing, paused, packets, index, clock, timers >>
  BY DEF Tick
<1>2. SentInTime'
  BY <1>1 DEF SentInTime
<1>3. now \in Nat /\ packets \in Seq(Ms) /\ clock \in Clocks /\ MaxLag \in Nat
      /\ timers \in SUBSET Timers /\ index \in DOMAIN packets
  BY <1>1, TypedParts, BoundAssumption DEF Moving, Fixed, Chained
<1>4. PICK o \in Nat, b \in Nat, u \in Nat, s \in Nat \ {0}, n \in Nat, pb \in Nat :
        /\ o = clock.baseOffset /\ b = clock.baseElapsed /\ u = clock.pausedDuration
        /\ s = clock.speed /\ n = now /\ pb = clock.pauseBegin
  BY <1>3 DEF Clocks
<1>5. PICK e \in Nat : e = Elapsed /\ b <= e /\ u <= n
                       /\ (paused => u <= pb /\ pb <= n /\ e = pb - u)
                       /\ (~ paused => e = n - u)
  <2>1. Elapsed \in Nat
    BY <1>1, ElapsedType
  <2> QED
    BY <1>1, <1>4, <2>1, ElapsedType DEF Paced
<1>6. PICK p \in Nat : p = packets[index] /\ o <= p
  <2>1. packets[index] \in Nat
    BY <1>3, OffsetType
  <2> QED
    BY <1>1, <1>4, <2>1 DEF Paced
<1>7. PICK due \in Nat : due = DueAt(packets[index], clock)
  <2>1. PICK d \in Nat : d = p - o
    BY <1>6
  <2>2. (2 * d) \div s \in Nat
    BY DivBounds
  <2> QED
    BY <1>4, <1>6, <2>1, <2>2 DEF DueAt
<1>8. e <= due + MaxLag /\ OnTrack(Place(clock, e), s, index, content, drift)
  BY <1>1, <1>4, <1>5, <1>7 DEF Paced
<1>9. due = DueAt(packets'[index'], clock')
  BY <1>1, <1>7
<1>10. CASE paused
  <2>1. Elapsed' = e
    BY <1>1, <1>5, <1>10 DEF Elapsed
  <2>2. u <= n + 1 /\ pb <= n + 1
    BY <1>5, <1>10
  <2>3. clock'.pausedDuration <= now' /\ clock'.baseElapsed <= Elapsed' /\ paused'
        /\ clock'.pausedDuration <= clock'.pauseBegin /\ clock'.pauseBegin <= now'
    BY <1>1, <1>4, <1>5, <1>10, <2>1, <2>2
  <2>4. clock'.baseOffset <= packets'[index'] /\ Elapsed' <= DueAt(packets'[index'], clock') + MaxLag
    BY <1>1, <1>4, <1>6, <1>8, <1>9, <2>1
  <2>5. OnTrack(Place(clock, Elapsed), clock.speed, index, content, drift)'
    BY <1>1, <1>4, <1>8, <1>10, <2>1 DEF OnTrack, Place, Before
  <2> QED
    BY <1>2, <2>3, <2>4, <2>5 DEF Paced
<1>11. CASE ~ paused
  <2>1. e = n - u /\ Elapsed' = (n + 1) - u /\ (n + 1) - u = e + 1
    BY <1>1, <1>4, <1>5, <1>11 DEF Elapsed
  <2>2. Elapsed' = e + 1
    BY <2>1
  <2>3. u <= n + 1 /\ b <= e + 1
    BY <1>5
  <2>4. ASSUME NEW t \in timers PROVE n + 1 <= t.due + MaxLag /\ t.due <= due + u /\ t.due \in Nat
    <3>1. t.due \in Nat
      BY <1>3 DEF Timers
    <3>2. n < t.due + MaxLag /\ t.due <= due + u
      BY <1>1, <1>4, <1>7, <1>11, <2>4 DEF Paced
    <3>3. PICK x \in Nat : x = t.due
      BY <3>1
    <3>4. n < x + MaxLag => n + 1 <= x + MaxLag
      BY <1>3
    <3> QED
      BY <3>2, <3>3, <3>4
  <2>5. e + 1 <= due + MaxLag
    <3>1. PICK t \in timers : TRUE
      BY <1>1, <1>11 DEF Chained
    <3>2. PICK x \in Nat : x = t.due /\ n + 1 <= x + MaxLag /\ x <= due + u
      BY <2>4
    <3>3. n + 1 <= due + u + MaxLag
      BY <1>3, <3>2
    <3> QED
      BY <1>3, <1>5, <2>1, <3>3
  <2>6. Place(clock, e + 1) = Place(clock, e) + s /\ Place(clock, e) \in Int
    <3>1. s * (e + 1 - b) = s * (e - b) + s /\ s * (e - b) \in Int
      OBVIOUS
    <3>2. PICK x \in Int : x = s * (e - b)
      BY <3>1
    <3> QED
      BY <1>4, <3>1, <3>2 DEF Place
  <2>7. clock'.pausedDuration <= now' /\ clock'.baseElapsed <= Elapsed' /\ ~ paused'
    BY <1>1, <1>4, <1>11, <2>2, <2>3
  <2>8. clock'.baseOffset <= packets'[index'] /\ Elapsed' <= DueAt(packets'[index'], clock') + MaxLag
    BY <1>1, <1>4, <1>6, <1>9, <2>2, <2>5
  <2>9. OnTrack(Place(clock, Elapsed), clock.speed, index, content, drift)'
    <3>1. PICK pl \in Int, where \in Nat, ahead \in Int, behind \in Nat, before \in Nat :
            /\ pl = Place(clock, e) /\ where = content /\ before = Before(index)
            /\ ahead = drift.ahead /\ behind = drift.behind
      <4>1. index \in 1 .. (Len(packets) + 1) /\ content \in Nat /\ drift \in Drifts
        BY TypedParts DEF Moving, Fixed
      <4> QED
        BY <1>3, <2>6, <4>1, BeforeType DEF Drifts
    <3>2. 2 * before < pl + s /\ pl <= where + ahead /\ where <= pl + behind
      BY <1>8, <3>1 DEF OnTrack
    <3>3. 2 * before < (pl + s) + s /\ pl + s <= (where + s) + ahead /\ where + s <= (pl + s) + behind
      BY <3>2
    <3>4. Place(clock, Elapsed)' = pl + s
      BY <1>1, <2>2, <2>6, <3>1 DEF Place
    <3>5. content' = where + s /\ drift' = drift /\ Before(index)' = before /\ clock'.speed = s
      BY <1>1, <1>4, <1>11, <3>1 DEF Before
    <3> QED
      BY <3>1, <3>3, <3>4, <3>5 DEF OnTrack
  <2>10. \A t \in timers' : /\ now' <= t.due + MaxLag
                            /\ t.due <= DueAt(packets'[index'], clock') + clock'.pausedDuration
    BY <1>1, <1>4, <1>9, <2>4
  <2> QED
    BY <1>2, <2>7, <2>8, <2>9, <2>10 DEF Paced
<1> QED
  BY <1>10, <1>11

LEMMA PausePaced ==
  ASSUME Typed, Paced, SentInTime, playing => ~ paused, paused' = TRUE,
         clock' = [clock EXCEPT !.pauseBegin = now],
         UNCHANGED << playing, packets, index, now, content, drift, sent >>
  PROVE  Paced' /\ SentInTime'
<1>1. now \in Nat /\ clock \in Clocks
  BY TypedParts DEF Fixed
<1>2. /\ clock'.speed = clock.speed /\ clock'.baseOffset = clock.baseOffset
      /\ clock'.baseElapsed = clock.baseElapsed
      /\ clock'.pausedDuration = clock.pausedDuration /\ clock'.pauseBegin = now
  BY <1>1 DEF Clocks
<1>3. SentInTime'
  BY <1>2, SentStays
<1>4. CASE playing
  <2>1. Elapsed' = Elapsed
    BY <1>2, <1>4 DEF Elapsed
  <2>2. DueAt(packets'[index'], clock') = DueAt(packets[index], clock)
    BY <1>2 DEF DueAt
  <2>3. now <= now
    BY <1>1
  <2>4. OnTrack(Place(clock, Elapsed), clock.speed, index, content, drift)'
    <3>1. Place(clock, Elapsed)' = Place(clock, Elapsed) /\ Before(index)' = Before(index)
      BY <1>2, <2>1 DEF Place, Before
    <3> QED
      BY <1>2, <1>4, <3>1 DEF OnTrack, Paced
  <2> QED
    BY <1>2, <1>3, <1>4, <2>1, <2>2, <2>3, <2>4 DEF Paced
<1>5. CASE ~ playing
  BY <1>3, <1>5 DEF Paced
<1> QED
  BY <1>4, <1>5

\* resume() adds the pause that ends to those that are over.
LEMMA ResumePaced ==
  ASSUME Typed, Chained, Sorted(packets), Fits, Paced, playing => paused, paused' = FALSE,
         NEW ck, ck = [clock EXCEPT !.pausedDuration =
                         (@ + Minus(now, clock.pauseBegin)) % MsMod], clock' = ck,
         SendNextPacket(index, ck, playing, FALSE, timers, delayTask),
         UNCHANGED << packets, now, content, drift >>
  PROVE  Paced' /\ SentInTime'
<1>1. now \in Nat /\ clock \in Clocks /\ playing \in BOOLEAN /\ Fixed
      /\ index \in 1 .. (Len(packets) + 1)
  BY TypedParts DEF Moving, Fixed
<1>2. timers = {}
  BY <1>1 DEF Chained
<1>3. ck \in Clocks
  BY <1>1, ResumedType
<1>4. ASSUME playing
      PROVE  /\ index \in DOMAIN packets /\ ck.baseOffset <= packets[index]
             /\ ck.pausedDuration <= now /\ ck.baseElapsed <= now - ck.pausedDuration
             /\ OnTrack(Place(ck, now - ck.pausedDuration), ck.speed, index, content', drift')
  <2>1. PICK u \in Nat, b \in Nat, n \in Nat :
          u = clock.pausedDuration /\ b = clock.pauseBegin /\ n = now
    BY <1>1 DEF Clocks
  <2>2. u <= b /\ b <= n /\ n < MsMod /\ Elapsed = b - u
    BY <1>4, <2>1, ElapsedType DEF Paced
  <2>3. Minus(n, b) = n - b
    BY <2>2, MinusExact
  <2>4. (u + (n - b)) % MsMod = u + (n - b)
    <3>1. PICK x \in Nat : x = u + (n - b) /\ x <= n
      BY <2>2
    <3>2. x < MsMod
      BY <2>2, <3>1, WidthAssumption
    <3>3. x % MsMod = x
      BY <3>1, <3>2, WidthAssumption
    <3> QED
      BY <3>1, <3>3
  <2>5. /\ ck.pausedDuration = u + (n - b) /\ ck.baseOffset = clock.baseOffset
        /\ ck.baseElapsed = clock.baseElapsed /\ ck.speed = clock.speed
    <3>1. (clock.pausedDuration + Minus(now, clock.pauseBegin)) % MsMod = u + (n - b)
      BY <2>1, <2>3, <2>4
    <3> QED
      BY <1>1, <3>1 DEF Clocks
  <2>6. n - (u + (n - b)) = b - u /\ u + (n - b) <= n
    BY <2>2
  <2>7. now - ck.pausedDuration = Elapsed /\ ck.pausedDuration <= now
    BY <2>1, <2>2, <2>5, <2>6
  <2>8. Place(ck, now - ck.pausedDuration) = Place(clock, Elapsed)
    BY <2>5, <2>7 DEF Place
  <2> QED
    BY <1>4, <2>5, <2>7, <2>8 DEF Paced, Chained
<1>5. content' \in Nat /\ drift' \in Drifts
  BY <1>1 DEF Fixed
<1> QED
  BY <1>1, <1>2, <1>3, <1>4, <1>5, SendPaced

\* A change of speed goes on from the next packet: that is ahead of the pacing by no more than
\* the gap in front of it, and behind by no more than the poller is late.
LEMMA ShiftedOnTrack ==
  ASSUME Typed, Sorted(packets), Fits, Paced, playing, index \in DOMAIN packets,
         drift' = Shifted, content' = content, NEW speed \in Nat \ {0}
  PROVE  OnTrack(2 * packets[index], speed, index, content', drift')
<1>1. /\ packets \in Seq(Ms) /\ clock \in Clocks /\ now \in Nat /\ MaxLag \in Nat
      /\ content \in Nat /\ drift \in Drifts /\ index \in 1 .. (Len(packets) + 1)
  BY TypedParts, BoundAssumption DEF Moving, Fixed
<1>2. packets[index] \in Nat /\ Before(index) \in Nat
  BY <1>1, OffsetType, BeforeType
<1>3. /\ Elapsed \in Nat /\ clock.baseOffset <= packets[index]
      /\ Elapsed <= DueAt(packets[index], clock) + MaxLag
      /\ OnTrack(Place(clock, Elapsed), clock.speed, index, content, drift)
  BY ElapsedType DEF Paced
<1>4. Place(clock, Elapsed) <= 2 * packets[index] + clock.speed * MaxLag
  BY <1>1, <1>2, <1>3, DueInTime
<1>5. Place(clock, Elapsed) \in Int /\ clock.speed * MaxLag \in Nat
  BY <1>1, <1>3, PlaceType
<1>6. PICK p \in Nat, q \in Nat, pl \in Int, c \in Nat, a \in Int, b \in Nat, s \in Nat, x \in Nat :
        /\ p = packets[index] /\ q = Before(index) /\ pl = Place(clock, Elapsed)
        /\ c = content
        /\ a = drift.ahead /\ b = drift.behind /\ s = clock.speed /\ x = clock.speed * MaxLag
  BY <1>1, <1>2, <1>5 DEF Clocks, Drifts
<1>7. pl <= 2 * p + x /\ 2 * q < pl + s /\ pl <= c + a /\ c <= pl + b
  BY <1>3, <1>4, <1>6 DEF OnTrack
<1>8. 2 * p <= c + (a + 2 * (p - q) + s) /\ c <= 2 * p + (b + x)
  BY <1>7
<1>9. CurrentOffset(index) = p
  BY <1>1, <1>6 DEF CurrentOffset
<1>10. drift'.ahead = a + 2 * (p - q) + s /\ drift'.behind = b + x
  BY <1>6, <1>9 DEF Shifted
<1>11. 2 * Before(index) < 2 * packets[index] + speed
  BY <1>1, BeforeIsEarlier
<1> QED
  BY <1>6, <1>8, <1>10, <1>11 DEF OnTrack

\* With one caller and a sorted recording, every step keeps the pace.
LEMMA PaceKept ==
  ASSUME OneCaller, IPace, [Next]_vars
  PROVE  IPace'
<1>1. /\ IChain /\ Typed /\ Starting /\ Messages /\ Chained /\ Moving /\ Queued /\ Fixed
      /\ Sorted(packets)
  BY TypedParts DEF IPace, IChain
<1>2. IChain'
  BY <1>1, ChainKept, TypesKept DEF IChain
<1>3. packets' = packets /\ (now' = now \/ Tick)
  BY <1>1, NothingElse
<1>4. Sorted(packets)'
  BY <1>1, <1>3 DEF Sorted
<1>5. transport' # "up" => now' = 0
  <2>1. CASE Tick
    BY <1>1, <2>1 DEF Tick, Chained
  <2>2. CASE now' = now
    <3>1. SUFFICES ASSUME transport = "up" PROVE transport' = "up"
      BY <2>2 DEF IPace
    <3>2. CASE UNCHANGED vars
      BY <3>1, <3>2 DEF vars
    <3>3. CASE Start \/ \E ok \in BOOLEAN : Resolved(ok)
      BY <3>1, <3>3 DEF Start, StartTcp, StartUdp, StartBindFails, Resolved
    <3>4. CASE Poller
      BY <3>1, <3>4 DEF Poller, ConnectResult, vars, SocketError, FireTimer, DoPrepare, DoDnsError,
         DoStop, DoPause, DoResume, DoSetSpeed, DoSeek, ContinueFrom
    <3>5. CASE Control
      BY <3>1, <3>5 DEF Control, CallStop, CallPause, CallResume, CallSetSpeed, CallSeek, Call
    <3>6. CASE Tick
      BY <3>1, <3>6 DEF Tick
    <3> QED
      BY <3>2, <3>3, <3>4, <3>5, <3>6 DEF Next
  <2> QED
    BY <1>3, <2>1, <2>2
<1> SUFFICES ASSUME Fits' PROVE Paced' /\ SentInTime'
  BY <1>2, <1>4, <1>5 DEF IPace
<1>6. Fits
  <2>1. PICK n \in Nat, D \in Nat : n = now /\ D = Duration(packets)
    BY <1>1, DurationType DEF Fixed
  <2>2. now' = n \/ now' = n + 1
    BY <1>3, <2>1 DEF Tick
  <2>3. now' + 2 * D < MsMod
    BY <1>3, <2>1 DEF Fits
  <2>4. n + 2 * D < MsMod
    BY <2>2, <2>3, WidthAssumption
  <2> QED
    BY <2>1, <2>4 DEF Fits
<1>7. Paced /\ SentInTime
  BY <1>6 DEF IPace
<1>8. playing \in BOOLEAN /\ paused \in BOOLEAN /\ clock \in Clocks
      /\ index \in 1 .. (Len(packets) + 1) /\ packets \in Seq(Ms)
  BY <1>1 DEF Moving, Fixed
<1>9. CASE UNCHANGED << playing, paused, packets, index, clock, now, timers, content, drift, sent >>
  <2>1. Elapsed' = Elapsed
    BY <1>9 DEF Elapsed
  <2>2. Paced'
    <3>1. Place(clock, Elapsed)' = Place(clock, Elapsed) /\ Before(index)' = Before(index)
      BY <1>9, <2>1 DEF Place, Before
    <3> QED
      BY <1>7, <1>9, <2>1, <3>1 DEF Paced, OnTrack
  <2> QED
    BY <1>7, <1>9, <2>2, SentStays
<1>10. ASSUME playing' = FALSE, UNCHANGED << sent, content, drift, packets, clock >>
       PROVE  Paced' /\ SentInTime'
  BY <1>7, <1>10, SentStays DEF Paced
<1>11. CASE UNCHANGED vars
  BY <1>9, <1>11 DEF vars
<1>12. CASE StartTcp \/ StartUdp \/ \E ok \in BOOLEAN : Resolved(ok)
  BY <1>9, <1>12 DEF StartTcp, StartUdp, Resolved
<1>13. CASE StartBindFails \/ SocketError \/ DoDnsError
  BY <1>10, <1>13 DEF StartBindFails, SocketError, DoDnsError, NotifyError
<1>14. ASSUME NEW ok \in BOOLEAN, ConnectResult(ok) PROVE Paced' /\ SentInTime'
  <2>1. CASE notified
    BY <1>9, <1>14, <2>1 DEF ConnectResult, vars
  <2>2. CASE ~ notified
    <3>1. transport # "up" /\ now = 0 /\ UNCHANGED << packets, now >> /\ ~ shutdown
      BY <1>1, <1>14, <2>2 DEF ConnectResult, Starting, IPace
    <3>2. PrepareAndStart \/ (NotifyError /\ UNCHANGED << sent, content, drift, packets, clock >>)
      BY <1>14, <2>2, <3>1 DEF ConnectResult
    <3>3. CASE PrepareAndStart
      BY <1>1, <1>6, <1>7, <3>1, <3>3, PreparePaced
    <3>4. CASE NotifyError /\ UNCHANGED << sent, content, drift, packets, clock >>
      BY <1>10, <3>4 DEF NotifyError
    <3> QED
      BY <3>2, <3>3, <3>4
  <2> QED
    BY <2>1, <2>2
<1>15. CASE FireTimer
  <2>1. PICK t \in timers :
          /\ SendNextPacket(index, clock, playing, paused, timers \ {t},
                            IF delayTask = t.id THEN NoTimer ELSE delayTask)
          /\ UNCHANGED << args, transport, notified, shutdown, paused, packets, clock, now, queue,
                          content, drift, budget >>
    BY <1>15 DEF FireTimer
  <2>2. playing /\ paused = FALSE /\ timers \ {t} = {} /\ index \in DOMAIN packets
    BY <1>1, <1>8, <2>1 DEF Chained
  <2>3. Elapsed = now - clock.pausedDuration
    BY <2>2 DEF Elapsed
  <2>4. /\ clock.baseOffset <= packets[index]
        /\ clock.pausedDuration <= now /\ clock.baseElapsed <= now - clock.pausedDuration
        /\ OnTrack(Place(clock, now - clock.pausedDuration), clock.speed, index, content', drift')
    BY <1>7, <2>1, <2>2, <2>3 DEF Paced
  <2>5. /\ UNCHANGED << packets, now >> /\ paused' = FALSE /\ clock' = clock
        /\ content' \in Nat /\ drift' \in Drifts
    BY <1>1, <2>1, <2>2 DEF Fixed
  <2> DEFINE handle == IF delayTask = t.id THEN NoTimer ELSE delayTask
  <2>6. SendNextPacket(index, clock, playing, FALSE, {}, handle)
    BY <2>1, <2>2
  <2> HIDE DEF handle
  <2> QED
    BY <1>1, <1>6, <1>8, <2>2, <2>4, <2>5, <2>6, SendPaced
<1>16. CASE DoPrepare
  <2>1. PrepareAndStart /\ UNCHANGED << packets, now >> /\ transport = "resolved"
    BY <1>1, <1>16, QueueEmpties DEF DoPrepare
  <2>2. now = 0
    BY <2>1 DEF IPace
  <2> QED
    BY <1>1, <1>6, <1>7, <2>1, <2>2, PreparePaced
<1>17. CASE DoStop
  <2>1. playing' = FALSE /\ UNCHANGED << sent, content, drift, packets >> /\ clock'.speed = clock.speed
    BY <1>8, <1>17 DEF DoStop, Clocks
  <2> QED
    BY <1>7, <2>1, SentStays DEF Paced
<1>18. CASE DoPause
  <2>1. Task("pause")
    BY <1>18 DEF DoPause
  <2>2. playing => ~ paused
    BY <1>1, <2>1, QueueEmpties
  <2> QED
    BY <1>1, <1>7, <1>18, <2>2, PausePaced DEF DoPause
<1>19. CASE DoResume
  <2>1. Task("resume")
    BY <1>19 DEF DoResume
  <2>2. playing => paused
    BY <1>1, <2>1, QueueEmpties
  <2> DEFINE ck == [clock EXCEPT !.pausedDuration =
                      (@ + Minus(now, clock.pauseBegin)) % MsMod]
  <2>3. /\ clock' = ck /\ paused' = FALSE /\ UNCHANGED << packets, now, content, drift >>
        /\ SendNextPacket(index, ck, playing, FALSE, timers, delayTask)
    BY <1>19 DEF DoResume
  <2> QED
    BY <1>1, <1>6, <1>7, <2>2, <2>3, ResumePaced
<1>20. CASE DoSetSpeed
  <2> DEFINE ck == Anchored(clock, paused, Head(queue).arg, CurrentOffset(index))
  <2>1. Task("speed") /\ ContinueFrom(index, ck) /\ drift' = Shifted /\ content' = content
    BY <1>20 DEF DoSetSpeed
  <2>2. ck \in Clocks
    BY <1>1, <2>1, SpeedAnchor
  <2>3. ASSUME playing
        PROVE  /\ index \in DOMAIN packets
               /\ ck.baseOffset = packets[index] /\ ck.baseElapsed = Elapsed
               /\ ck.pausedDuration = clock.pausedDuration
               /\ ck.pauseBegin = clock.pauseBegin
    <3>1. index \in DOMAIN packets
      BY <1>1, <2>3 DEF Chained
    <3>2. CurrentOffset(index) = packets[index]
      BY <1>8, <3>1 DEF CurrentOffset
    <3> QED
      BY <1>1, <1>6, <1>7, <2>3, <3>1, <3>2, AnchoredExact
  <2>4. content' \in Nat /\ drift' \in Drifts
    BY <1>1, <1>8, <2>1, ShiftedType DEF Fixed
  <2>5. ck.speed \in Nat \ {0}
    BY <2>2 DEF Clocks
  <2> HIDE DEF ck
  <2>6. playing => OnTrack(2 * packets[index], ck.speed, index, content', drift')
    BY <1>1, <1>6, <1>7, <2>1, <2>3, <2>5, ShiftedOnTrack
  <2> QED
    BY <1>1, <1>6, <1>7, <1>8, <2>1, <2>2, <2>3, <2>4, <2>6, ContinuePaced
<1>21. CASE DoSeek
  <2>1. PICK i \in DOMAIN packets, ck \in Clocks :
          /\ ck = Anchored(clock, paused, clock.speed, packets[i])
          /\ Task("seek") /\ ContinueFrom(i, ck)
          /\ content' = 2 * packets[i] /\ drift' = NoDrift
    BY <1>1, <1>21, SeekAnchor
  <2>2. i \in 1 .. (Len(packets) + 1) /\ packets[i] \in Nat /\ ck.speed \in Nat \ {0}
    BY <1>8, OffsetType DEF Clocks
  <2>3. playing => /\ ck.baseOffset = packets[i] /\ ck.baseElapsed = Elapsed
                   /\ ck.pausedDuration = clock.pausedDuration
                   /\ ck.pauseBegin = clock.pauseBegin
    BY <1>1, <1>6, <1>7, <2>1, AnchoredExact
  <2>4. content' \in Nat /\ drift' \in Drifts
    BY <2>1, <2>2 DEF NoDrift, Drifts
  <2>5. OnTrack(2 * packets[i], ck.speed, i, content', drift')
    <3>1. 2 * Before(i) < 2 * packets[i] + ck.speed
      BY <1>1, <1>8, <2>2, BeforeIsEarlier
    <3>2. drift'.ahead = 0 /\ drift'.behind = 0
      BY <2>1 DEF NoDrift
    <3>3. 2 * packets[i] <= 2 * packets[i] + 0
      BY <2>2
    <3> QED
      BY <2>1, <3>1, <3>2, <3>3 DEF OnTrack
  <2> QED
    BY <1>1, <1>6, <1>7, <2>1, <2>2, <2>3, <2>4, <2>5, ContinuePaced
<1>22. CASE Control
  BY <1>9, <1>22 DEF Control, CallStop, CallPause, CallResume, CallSetSpeed, CallSeek, Call
<1>23. CASE Tick
  BY <1>1, <1>6, <1>7, <1>23, TickPaced
<1> QED
  BY <1>11, <1>12, <1>13, <1>14, <1>15, <1>16, <1>17, <1>18, <1>19, <1>20, <1>21, <1>22, <1>23
     DEF Next, Start, Poller

\* The recordings whose packets lie in the order of their offsets, as a stream without B frames
\* leaves them.
SortedFiles == \A file \in Files : Sorted(ParseDumpFile(file))

LEMMA InitiallyPaced == SortedFiles /\ Init => IPace
<1> SUFFICES ASSUME SortedFiles, Init PROVE IPace
  OBVIOUS
<1>1. IChain
  BY InitiallyChained
<1>2. Sorted(packets)
  BY DEF Init, SortedFiles
<1>3. now = 0 /\ playing = FALSE /\ sent = {}
  BY DEF Init
<1>4. Paced /\ SentInTime
  BY <1>3 DEF Paced, SentInTime
<1> QED
  BY <1>1, <1>2, <1>3, <1>4 DEF IPace

LEMMA FindsFirst ==
  ASSUME packets \in Seq(Ms), Sorted(packets)
  PROVE  LocateFindsFirst
<1>1. packets \in Seq(Nat)
  BY NatSeq
<1> SUFFICES ASSUME NEW ms \in 0 .. Duration(packets), packets # << >>
             PROVE  /\ packets[Locate(packets, ms)] >= ms
                    /\ \A k \in 1 .. (Locate(packets, ms) - 1) : packets[k] < ms
  BY DEF LocateFindsFirst
<1>2. ms \in Nat /\ ms <= Duration(packets)
  BY DurationType
<1>3. /\ Locate(packets, ms) \in DOMAIN packets
      /\ ms <= packets[Locate(packets, ms)]
      /\ \A k \in 1 .. (Locate(packets, ms) - 1) : packets[k] < ms
  BY <1>1, <1>2, LocateFinds
<1>4. packets[Locate(packets, ms)] \in Nat
  BY <1>3, OffsetType
<1> QED
  BY <1>2, <1>3, <1>4

\* LocateFindsFirst: in a sorted recording locateToMs() finds the first packet at or after the
\* target, wherever a seek goes and however many threads call.
THEOREM SeeksFindFirst == SortedFiles => (Spec => []LocateFindsFirst)
<1> SUFFICES ASSUME SortedFiles PROVE Spec => []LocateFindsFirst
  OBVIOUS
<1> DEFINE I == Typed /\ Sorted(packets)
<1>1. Init => I
  BY InitiallyTyped DEF Init, SortedFiles
<1>2. I /\ [Next]_vars => I'
  <2> SUFFICES ASSUME I, [Next]_vars PROVE I'
    OBVIOUS
  <2>1. Typed' /\ packets' = packets
    BY TypesKept, NothingElse
  <2> QED
    BY <2>1 DEF Sorted
<1>3. I => LocateFindsFirst
  BY FindsFirst, TypedParts DEF Fixed
<1> QED
  BY <1>1, <1>2, <1>3, PTL DEF Spec

\* OnTime: with one thread at a time in the control methods and a sorted recording, no packet
\* leaves before its place at the speeds that were in force, and the next packet is never
\* further behind than the poller is late, across any pauses and jumps; each change of speed
\* since the last jump may bring the stream forward by one gap and a millisecond, and back by
\* the poller's lateness, and no more.  A seek goes where it should.  All this as long as the
\* session's clock and the recording fit the counters' 64 bits (Fits).
THEOREM ExactPace == OneCaller /\ SortedFiles => (Spec => [](Fits => OnTime))
<1> SUFFICES ASSUME OneCaller, SortedFiles PROVE Spec => [](Fits => OnTime)
  OBVIOUS
<1>1. Init => IPace
  BY InitiallyPaced
<1>2. IPace /\ [Next]_vars => IPace'
  <2>1. CASE [Next]_vars
    BY <2>1, PaceKept
  <2> QED
    BY <2>1
<1>3. IPace => (Fits => OnTime)
  <2> SUFFICES ASSUME IPace, Fits PROVE OnTime
    OBVIOUS
  <2>1. Typed /\ Chained /\ Sorted(packets) /\ Paced /\ SentInTime
    BY DEF IPace, IChain
  <2>2. packets \in Seq(Ms) /\ clock \in Clocks /\ now \in Nat /\ MaxLag \in Nat
    BY <2>1, TypedParts, BoundAssumption DEF Fixed
  <2>3. LocateFindsFirst
    BY <2>1, <2>2, FindsFirst
  <2>4. ASSUME playing
        PROVE  content <= 2 * packets[index] + drift.behind + clock.speed * MaxLag
    <3>1. index \in DOMAIN packets /\ packets[index] \in Nat
      BY <2>1, <2>2, <2>4, OffsetType DEF Chained
    <3>2. /\ Elapsed \in Nat /\ Elapsed <= DueAt(packets[index], clock) + MaxLag
          /\ clock.baseOffset <= packets[index]
          /\ content <= Place(clock, Elapsed) + drift.behind
      BY <2>1, <2>4, ElapsedType DEF Paced, OnTrack
    <3>3. Place(clock, Elapsed) <= 2 * packets[index] + clock.speed * MaxLag
      BY <2>2, <3>1, <3>2, DueInTime
    <3>4. Place(clock, Elapsed) \in Int /\ clock.speed * MaxLag \in Nat
      BY <2>2, <3>2, PlaceType
    <3>5. content \in Nat /\ drift.behind \in Nat
      BY <2>1, TypedParts DEF Fixed, Drifts
    <3> QED
      BY <3>1, <3>2, <3>3, <3>4, <3>5
  <2> QED
    BY <2>1, <2>3, <2>4 DEF OnTime, SentInTime
<1> QED
  BY <1>1, <1>2, <1>3, PTL DEF Spec
=============================================================================
