------------------------- MODULE PacketSortor_proofs -------------------------
(***************************************************************************)
(* The buffers of PacketSortor are bounded and the stream goes on, for     *)
(* every width of the sequence number, limits, and network.  What the      *)
(* network only reorders is put in order, and nothing of it is lost.       *)
(***************************************************************************)
EXTENDS PacketSortor, FiniteSetTheorems, WellFoundedInduction, TLAPS

\* A sorter between two calls: its maps are finite and within their limits.
Sound(st) == st \in Sorters /\ IsFiniteSet(st.cache) /\ IsFiniteSet(st.drops)

WithinLimits(st) ==
  /\ Cardinality(st.cache) <= MaxBufferSize \/ Cardinality(st.cache) <= MaxDistance
  /\ Cardinality(st.drops) <= MaxDistance

\* Every packet that was received without one being handed on is in one of the maps, and the
\* cache has taken no more of them than its limit.
Waiting ==
  /\ idle <= Cardinality(sorter.cache) + Cardinality(sorter.drops)
  /\ idle <= MaxBufferSize + Cardinality(sorter.drops)

IInv == TypeOK /\ Sound(sorter) /\ WithinLimits(sorter) /\ Waiting

----------------------------------------------------------------------------
(* The least element of a set of numbers, and what is chosen with it       *)

LEMMA LeastNat ==
  ASSUME NEW S \in SUBSET Nat, S # {}
  PROVE  \E n \in S : \A m \in S : n <= m
<1> DEFINE upTo == {0 .. n : n \in S}
<1>1. upTo \subseteq FiniteSubsetsOf(Nat) /\ upTo # {}
  <2>1. ASSUME NEW n \in S PROVE 0 .. n \in SUBSET Nat /\ IsFiniteSet(0 .. n)
    <3>1. n \in Int /\ 0 .. n \in SUBSET Nat
      OBVIOUS
    <3> QED
      BY <3>1, FS_Interval
  <2> QED
    BY <2>1 DEF FiniteSubsetsOf
<1>2. PICK T \in upTo : \A U \in upTo : ~ (<< U, T >> \in StrictSubsetOrdering(Nat))
  BY <1>1, FS_StrictSubsetOrderingWellFounded, WFMin
<1>3. PICK n \in S : T = 0 .. n
  OBVIOUS
<1>4. ASSUME NEW m \in S, m < n PROVE FALSE
  <2>1. 0 .. m \subseteq 0 .. n /\ n \in 0 .. n /\ n \notin 0 .. m
    BY <1>4
  <2>2. 0 .. m \in upTo
    OBVIOUS
  <2>3. << 0 .. m, 0 .. n >> \in StrictSubsetOrdering(Nat)
    BY <2>1 DEF StrictSubsetOrdering
  <2> QED
    BY <1>2, <1>3, <2>2, <2>3
<1> QED
  BY <1>4

\* std::map: its first element.
LEMMA LowestIsIn ==
  ASSUME NEW map \in SUBSET Packets, map # {}
  PROVE  Lowest(map) \in map /\ \A q \in map : Lowest(map).seq <= q.seq
<1>1. Seqs(map) \in SUBSET Nat /\ Seqs(map) # {}
  BY Assumption DEF Seqs, Packets
<1>2. PICK n \in Seqs(map) : \A m \in Seqs(map) : n <= m
  BY <1>1, LeastNat
<1>3. \E p \in map : \A q \in map : p.seq <= q.seq
  BY <1>2 DEF Seqs
<1> QED
  BY <1>3 DEF Lowest

\* The run of packets without a gap ends within the numbers.
LEMMA RunEndFacts ==
  ASSUME NEW map \in SUBSET Packets, NEW next \in 0 .. SeqMax
  PROVE  /\ RunEnd(map, next) \in next .. (SeqMax + 1) /\ RunEnd(map, next) \notin Seqs(map)
         /\ \A q \in next .. (RunEnd(map, next) - 1) : q \in Seqs(map)
<1> DEFINE ends == {e \in next .. (SeqMax + 1) : e \notin Seqs(map)}
<1>1. SeqMax + 1 \in ends
  BY Assumption DEF Seqs, Packets
<1>2. ends \in SUBSET Nat
  BY Assumption
<1>3. PICK e \in ends : \A m \in ends : e <= m
  BY <1>1, <1>2, LeastNat
<1>4. \A q \in next .. (e - 1) : q \in Seqs(map)
  BY <1>2, <1>3, Assumption
<1>5. \E f \in next .. (SeqMax + 1) :
        f \notin Seqs(map) /\ \A q \in next .. (f - 1) : q \in Seqs(map)
  BY <1>3, <1>4
<1> QED
  BY <1>5 DEF RunEnd

----------------------------------------------------------------------------
(* The steps of sortPacket(), from the inside out                          *)

LEMMA EmplaceFacts ==
  ASSUME NEW map \in SUBSET Packets, IsFiniteSet(map), NEW p \in Packets
  PROVE  /\ Emplace(map, p) \in SUBSET Packets /\ IsFiniteSet(Emplace(map, p))
         /\ Emplace(map, p) # {}
         /\ p.seq \in Seqs(map) => Emplace(map, p) = map
         /\ p.seq \notin Seqs(map) => Cardinality(Emplace(map, p)) = Cardinality(map) + 1
<1>1. CASE p.seq \in Seqs(map)
  BY <1>1 DEF Emplace, Seqs
<1>2. CASE p.seq \notin Seqs(map)
  <2>1. p \notin map
    BY <1>2 DEF Seqs
  <2> QED
    BY <1>2, <2>1, FS_AddElement DEF Emplace
<1> QED
  BY <1>1, <1>2

LEMMA EmplaceGrows ==
  ASSUME NEW map \in SUBSET Packets, IsFiniteSet(map), NEW p \in Packets
  PROVE  /\ Cardinality(map) \in Nat /\ Cardinality(Emplace(map, p)) \in Nat
         /\ Cardinality(Emplace(map, p)) <= Cardinality(map) + 1
<1>1. Cardinality(map) \in Nat
  BY FS_CardinalityType
<1>2. IsFiniteSet(Emplace(map, p))
  BY EmplaceFacts
<1>3. Cardinality(Emplace(map, p)) \in Nat
  BY <1>2, FS_CardinalityType
<1>4. \/ Cardinality(Emplace(map, p)) = Cardinality(map)
      \/ Cardinality(Emplace(map, p)) = Cardinality(map) + 1
  BY EmplaceFacts
<1> QED
  BY <1>1, <1>3, <1>4

LEMMA SuccessorType == ASSUME NEW seq \in Int PROVE Successor(seq) \in 0 .. SeqMax
  BY Assumption DEF Successor

LEMMA OutputFacts ==
  ASSUME NEW st, Sound(st), NEW p \in Packets
  PROVE  /\ Sound(Output(st, p)) /\ Len(Output(st, p).out) = Len(st.out) + 1
         /\ Output(st, p).cache = st.cache /\ Output(st, p).drops = st.drops
<1>1. p.seq \in Int /\ p.id \in Nat
  BY Assumption DEF Packets
<1>2. Successor(p.seq) \in 0 .. SeqMax
  BY <1>1, SuccessorType
<1>3. Append(st.out, p.id) \in Seq(Nat) /\ Len(Append(st.out, p.id)) = Len(st.out) + 1
  BY <1>1 DEF Sound, Sorters
<1> QED
  BY <1>2, <1>3 DEF Output, Sound, Sorters

LEMMA PopFacts ==
  ASSUME NEW st, Sound(st), NEW p \in st.cache
  PROVE  /\ Sound(Pop(st, p)) /\ Len(Pop(st, p).out) = Len(st.out) + 1
         /\ Cardinality(Pop(st, p).cache) = Cardinality(st.cache) - 1
         /\ Pop(st, p).drops = st.drops
<1>1. p \in Packets
  BY DEF Sound, Sorters
<1>2. /\ Sound(Output(st, p)) /\ Len(Output(st, p).out) = Len(st.out) + 1
      /\ Output(st, p).cache = st.cache /\ Output(st, p).drops = st.drops
  BY <1>1, OutputFacts
<1>3. /\ IsFiniteSet(st.cache \ {p})
      /\ Cardinality(st.cache \ {p}) = Cardinality(st.cache) - 1
  BY FS_RemoveElement DEF Sound
<1> QED
  BY <1>2, <1>3 DEF Pop, Sound, Sorters

\* flushPacket() only takes out of the cache and only adds to the output.
LEMMA FlushPacketFacts ==
  ASSUME NEW st, Sound(st)
  PROVE  /\ Sound(FlushPacket(st)) /\ Len(FlushPacket(st).out) >= Len(st.out)
         /\ Cardinality(FlushPacket(st).cache) <= Cardinality(st.cache)
         /\ FlushPacket(st).drops = st.drops
<1> DEFINE kept == IF MayLooped(st.next, st.next) THEN st.cache
                   ELSE {p \in st.cache : p.seq >= st.next}
           end  == RunEnd(kept, st.next)
           run  == {p \in kept : p.seq >= st.next /\ p.seq < end}
           at(seq) == CHOOSE p \in run : p.seq = seq
           ids  == [i \in 1 .. (end - st.next) |-> at(st.next + i - 1).id]
<1>1. kept \in SUBSET Packets /\ kept \subseteq st.cache /\ st.next \in 0 .. SeqMax
  BY DEF Sound, Sorters
<1>2. /\ end \in st.next .. (SeqMax + 1)
      /\ \A q \in st.next .. (end - 1) : q \in Seqs(kept)
  <2> HIDE DEF kept
  <2> QED
    BY <1>1, RunEndFacts
<1>3. \A i \in 1 .. (end - st.next) : at(st.next + i - 1).id \in Nat
  <2> HIDE DEF end, kept
  <2> SUFFICES ASSUME NEW i \in 1 .. (end - st.next) PROVE at(st.next + i - 1).id \in Nat
    OBVIOUS
  <2>1. st.next + i - 1 \in st.next .. (end - 1)
    BY <1>1, <1>2, Assumption
  <2>2. PICK p \in kept : p.seq = st.next + i - 1
    BY <1>2, <2>1 DEF Seqs
  <2>3. p \in run
    BY <1>1, <1>2, <2>1, <2>2
  <2>4. at(st.next + i - 1) \in run
    BY <2>2, <2>3
  <2> QED
    BY <1>1, <2>4 DEF Packets
<1>4. ids \in Seq(Nat) /\ Len(ids) \in Nat
  <2> HIDE DEF end, at
  <2>1. end - st.next \in Nat
    BY <1>1, <1>2, Assumption
  <2> QED
    BY <1>3, <2>1
<1>5. st.out \o ids \in Seq(Nat) /\ Len(st.out \o ids) >= Len(st.out)
  <2> HIDE DEF ids
  <2> QED
    BY <1>4 DEF Sound, Sorters
<1>6. /\ kept \ run \subseteq st.cache /\ IsFiniteSet(kept \ run)
      /\ Cardinality(kept \ run) <= Cardinality(st.cache)
  <2> HIDE DEF kept, run
  <2>1. kept \ run \in SUBSET st.cache
    BY <1>1
  <2> QED
    BY <2>1, FS_Subset DEF Sound
<1>7. (IF run = {} THEN st.next ELSE Successor(end - 1)) \in 0 .. SeqMax
  <2>1. end - 1 \in Int
    BY <1>1, <1>2, Assumption
  <2> HIDE DEF run, end
  <2> QED
    BY <1>1, <2>1, SuccessorType
<1>8. FlushPacket(st) = [st EXCEPT !.next = IF run = {} THEN @ ELSE Successor(end - 1),
                                   !.cache = kept \ run, !.out = @ \o ids]
  BY DEF FlushPacket
<1> HIDE DEF kept, run, end, ids
<1> QED
  BY <1>5, <1>6, <1>7, <1>8 DEF Sound, Sorters

\* forceFlush() takes at least one packet out of a cache that is not empty, and hands it on.
LEMMA ForceFlushFacts ==
  ASSUME NEW st, Sound(st)
  PROVE  /\ Sound(ForceFlush(st)) /\ ForceFlush(st).drops = st.drops
         /\ st.cache = {} => ForceFlush(st) = st
         /\ st.cache # {} => /\ Cardinality(ForceFlush(st).cache) < Cardinality(st.cache)
                             /\ Len(ForceFlush(st).out) > Len(st.out)
<1>1. CASE st.cache = {}
  BY <1>1 DEF ForceFlush
<1>2. CASE st.cache # {}
  <2> DEFINE ahead == {p \in st.cache : p.seq >= st.next}
             first == Lowest(IF ahead = {} THEN st.cache ELSE ahead)
             popped  == Pop(st, first)
             flushed == FlushPacket(popped)
             near == {p \in flushed.cache : Distance(flushed.next, p.seq) <= MaxDistance}
  <2>1. first \in st.cache
    <3>1. st.cache \in SUBSET Packets /\ ahead \in SUBSET Packets /\ ahead \subseteq st.cache
      BY DEF Sound, Sorters
    <3> QED
      BY <1>2, <3>1, LowestIsIn
  <2> HIDE DEF first
  <2>2. /\ Sound(popped) /\ Len(popped.out) = Len(st.out) + 1 /\ popped.drops = st.drops
        /\ Cardinality(popped.cache) = Cardinality(st.cache) - 1
    BY <2>1, PopFacts
  <2> HIDE DEF popped
  <2>3. /\ Sound(flushed) /\ Len(flushed.out) >= Len(popped.out)
        /\ flushed.drops = popped.drops
        /\ Cardinality(flushed.cache) <= Cardinality(popped.cache)
    BY <2>2, FlushPacketFacts
  <2> HIDE DEF flushed
  <2>4. IsFiniteSet(near) /\ Cardinality(near) <= Cardinality(flushed.cache)
    BY <2>3, FS_Subset DEF Sound
  <2>5. ForceFlush(st) = [flushed EXCEPT !.cache = near]
    BY <1>2 DEF ForceFlush, first, popped, flushed
  <2>6. near \subseteq flushed.cache
    OBVIOUS
  <2> HIDE DEF near
  <2>7. /\ Sound(ForceFlush(st)) /\ ForceFlush(st).drops = flushed.drops
        /\ ForceFlush(st).out = flushed.out /\ ForceFlush(st).cache = near
    BY <2>3, <2>4, <2>5, <2>6 DEF Sound, Sorters
  <2>8. /\ Cardinality(st.cache) \in Nat /\ Cardinality(popped.cache) \in Nat
        /\ Cardinality(flushed.cache) \in Nat /\ Cardinality(near) \in Nat
    BY <2>2, <2>3, <2>4, FS_CardinalityType DEF Sound
  <2>9. Len(st.out) \in Nat /\ Len(popped.out) \in Nat /\ Len(flushed.out) \in Nat
    BY <2>2, <2>3 DEF Sound, Sorters
  <2> QED
    BY <1>2, <2>2, <2>3, <2>4, <2>7, <2>8, <2>9
<1> QED
  BY <1>1, <1>2

\* What a call of sortPacket() does to the buffers: it hands something on, or the packet goes
\* into one of the maps.
Waits(st, p, r) ==
  \/ Len(r.out) > Len(st.out)
  \/ r.cache = Emplace(st.cache, p) /\ r.drops = st.drops /\ Cardinality(r.cache) <= MaxBufferSize
  \/ r.cache = st.cache /\ r.drops = Emplace(st.drops, p)

LEMMA BegunFacts ==
  ASSUME NEW st, Sound(st), WithinLimits(st), NEW p \in Packets
  PROVE  /\ Sound(Begun(st, p)) /\ WithinLimits(Begun(st, p))
         /\ Begun(st, p).cache = st.cache /\ Begun(st, p).drops = st.drops
         /\ Begun(st, p).out = st.out
  BY DEF Begun, Sound, Sorters, WithinLimits, Packets

LEMMA InTurnFacts ==
  ASSUME NEW st, Sound(st), WithinLimits(st), NEW p \in Packets
  PROVE  /\ Sound(InTurn(st, p)) /\ WithinLimits(InTurn(st, p))
         /\ Waits(st, p, InTurn(st, p))
<1> DEFINE flushed == FlushPacket(Output(st, p))
<1>1. /\ Sound(Output(st, p)) /\ Len(Output(st, p).out) = Len(st.out) + 1
      /\ Output(st, p).cache = st.cache
  BY OutputFacts
<1>2. /\ Sound(flushed) /\ Len(flushed.out) >= Len(Output(st, p).out)
      /\ Cardinality(flushed.cache) <= Cardinality(st.cache)
  BY <1>1, FlushPacketFacts
<1>3. InTurn(st, p) = [flushed EXCEPT !.drops = {}]
  BY DEF InTurn
<1> HIDE DEF flushed
<1>4. /\ Sound(InTurn(st, p)) /\ InTurn(st, p).out = flushed.out
      /\ InTurn(st, p).cache = flushed.cache /\ InTurn(st, p).drops = {}
  BY <1>2, <1>3, FS_EmptySet DEF Sound, Sorters
<1>5. Cardinality(st.cache) \in Nat /\ Cardinality(flushed.cache) \in Nat
  BY <1>2, FS_CardinalityType DEF Sound
<1>6. Len(st.out) \in Nat /\ Len(Output(st, p).out) \in Nat /\ Len(flushed.out) \in Nat
  BY <1>1, <1>2 DEF Sound, Sorters
<1>7. Cardinality({}) = 0
  BY FS_EmptySet
<1> QED
  BY <1>1, <1>2, <1>4, <1>5, <1>6, <1>7, Assumption DEF WithinLimits, Waits

LEMMA BehindFacts ==
  ASSUME NEW st, Sound(st), WithinLimits(st), NEW p \in Packets, NEW quiet \in BOOLEAN
  PROVE  /\ Sound(Behind(st, p, quiet)) /\ WithinLimits(Behind(st, p, quiet))
         /\ Waits(st, p, Behind(st, p, quiet))
<1> DEFINE drops == Emplace(st.drops, p)
           fresh == [ForceFlush(st) EXCEPT !.cache = drops, !.drops = {}]
<1>1. /\ drops \in SUBSET Packets /\ IsFiniteSet(drops) /\ drops # {}
      /\ Cardinality(drops) \in Nat
      /\ Cardinality(drops) <= Cardinality(st.drops) + 1
  <2>1. st.drops \in SUBSET Packets /\ IsFiniteSet(st.drops)
    BY DEF Sound, Sorters
  <2> QED
    BY <2>1, EmplaceFacts, EmplaceGrows
<1> HIDE DEF drops
<1>2. Sound(ForceFlush(st)) /\ Len(ForceFlush(st).out) >= Len(st.out)
  <2>1. Len(st.out) \in Nat /\ Len(ForceFlush(st).out) \in Nat
    BY ForceFlushFacts DEF Sound, Sorters
  <2> QED
    BY <2>1, ForceFlushFacts
<1>3. CASE Cardinality(drops) > MaxDistance \/ quiet
  <2>1. /\ Sound(fresh) /\ fresh.cache = drops /\ fresh.drops = {}
        /\ fresh.out = ForceFlush(st).out
    BY <1>1, <1>2, FS_EmptySet DEF Sound, Sorters
  <2> HIDE DEF fresh
  <2> DEFINE popped == Pop(fresh, Lowest(drops))
  <2>2. Lowest(drops) \in fresh.cache
    BY <1>1, <2>1, LowestIsIn
  <2>3. /\ Sound(popped) /\ Len(popped.out) = Len(fresh.out) + 1 /\ popped.drops = {}
        /\ Cardinality(popped.cache) = Cardinality(drops) - 1
    BY <2>1, <2>2, PopFacts
  <2>4. Behind(st, p, quiet) = popped
    BY <1>3 DEF Behind, drops, fresh
  <2> HIDE DEF popped
  <2>5. Cardinality(popped.cache) <= MaxDistance /\ Cardinality(popped.drops) = 0
    BY <1>1, <2>3, FS_EmptySet, FS_CardinalityType, Assumption DEF WithinLimits, Sound
  <2>6. Len(popped.out) > Len(st.out)
    BY <1>2, <2>1, <2>3 DEF Sound, Sorters
  <2>7. MaxDistance \in Nat
    BY Assumption
  <2>8. WithinLimits(popped)
    BY <2>5, <2>7 DEF WithinLimits
  <2>9. Waits(st, p, popped)
    BY <2>6 DEF Waits
  <2> QED
    BY <2>3, <2>4, <2>8, <2>9
<1>4. CASE ~ (Cardinality(drops) > MaxDistance \/ quiet)
  <2>1. Behind(st, p, quiet) = [st EXCEPT !.drops = drops]
    BY <1>4 DEF Behind, drops
  <2>2. Cardinality(drops) <= MaxDistance
    BY <1>1, <1>4, Assumption
  <2> QED
    BY <1>1, <2>1, <2>2 DEF Sound, Sorters, WithinLimits, Waits, drops
<1> QED
  BY <1>3, <1>4

LEMMA AheadFacts ==
  ASSUME NEW st, Sound(st), WithinLimits(st), NEW p \in Packets, NEW quiet \in BOOLEAN
  PROVE  /\ Sound(Ahead(st, p, quiet)) /\ WithinLimits(Ahead(st, p, quiet))
         /\ Waits(st, p, Ahead(st, p, quiet))
<1> DEFINE cache == Emplace(st.cache, p)
           held  == [st EXCEPT !.cache = cache]
           full  == \/ Cardinality(held.cache) > MaxBufferSize
                    \/ Distance(st.next, p.seq) > MaxDistance \/ quiet
<1>1. /\ cache \in SUBSET Packets /\ IsFiniteSet(cache) /\ cache # {}
      /\ Cardinality(cache) \in Nat /\ Cardinality(st.cache) \in Nat
      /\ Cardinality(cache) <= Cardinality(st.cache) + 1
  <2>1. st.cache \in SUBSET Packets /\ IsFiniteSet(st.cache)
    BY DEF Sound, Sorters
  <2> QED
    BY <2>1, EmplaceFacts, EmplaceGrows
<1> HIDE DEF cache
<1>2. Sound(held) /\ held.cache = cache /\ held.drops = st.drops /\ held.out = st.out
  BY <1>1 DEF Sound, Sorters
<1> HIDE DEF held
<1>3. CASE full
  <2>1. Ahead(st, p, quiet) = ForceFlush(held)
    BY <1>3 DEF Ahead, held, cache
  <2>2. /\ Sound(ForceFlush(held)) /\ ForceFlush(held).drops = st.drops
        /\ Cardinality(ForceFlush(held).cache) < Cardinality(cache)
        /\ Len(ForceFlush(held).out) > Len(st.out)
    BY <1>1, <1>2, ForceFlushFacts
  <2>3. Cardinality(ForceFlush(held).cache) \in Nat
    BY <2>2, FS_CardinalityType DEF Sound
  <2> QED
    BY <1>1, <2>1, <2>2, <2>3, Assumption DEF WithinLimits, Waits
<1>4. CASE ~ full
  <2>1. Ahead(st, p, quiet) = held
    BY <1>4 DEF Ahead, held, cache
  <2>2. Cardinality(cache) <= MaxBufferSize
    BY <1>1, <1>2, <1>4, Assumption
  <2> QED
    BY <1>2, <2>1, <2>2 DEF WithinLimits, Waits, cache
<1> QED
  BY <1>3, <1>4

LEMMA SortPacketFacts ==
  ASSUME NEW st, Sound(st), WithinLimits(st), NEW p \in Packets, NEW quiet \in BOOLEAN
  PROVE  /\ Sound(SortPacket(st, p, quiet)) /\ WithinLimits(SortPacket(st, p, quiet))
         /\ Waits(st, p, SortPacket(st, p, quiet))
<1> DEFINE begun == Begun(st, p)
<1>1. /\ Sound(begun) /\ WithinLimits(begun)
      /\ begun.cache = st.cache /\ begun.drops = st.drops /\ begun.out = st.out
  BY BegunFacts
<1>2. \/ SortPacket(st, p, quiet) = InTurn(begun, p)
      \/ SortPacket(st, p, quiet) = Behind(begun, p, quiet)
      \/ SortPacket(st, p, quiet) = Ahead(begun, p, quiet)
  BY DEF SortPacket
<1> HIDE DEF begun
<1>3. \A r : Waits(begun, p, r) => Waits(st, p, r)
  BY <1>1 DEF Waits
<1> QED
  BY <1>1, <1>2, <1>3, InTurnFacts, BehindFacts, AheadFacts

----------------------------------------------------------------------------
(* The invariant                                                           *)

LEMMA InitIInv == Init => IInv
<1> SUFFICES ASSUME Init PROVE IInv
  OBVIOUS
<1>1. IsFiniteSet({}) /\ Cardinality({}) = 0
  BY FS_EmptySet
<1>2. TypeOK
  BY Assumption DEF Init, TypeOK, Sorters
<1>3. Sound(sorter) /\ WithinLimits(sorter) /\ Waiting
  BY <1>1, <1>2, Assumption DEF Init, TypeOK, Sound, WithinLimits, Waiting
<1> QED
  BY <1>2, <1>3 DEF IInv

\* Steps of the sender and the network leave the sorter alone.
LEMMA SorterUnchanged ==
  ASSUME IInv, TypeOK', UNCHANGED << sorter, idle >>
  PROVE  IInv'
  BY DEF IInv, Sound, WithinLimits, Waiting

LEMMA DisturbTypes ==
  ASSUME IInv, Disturb \/ Undisturbed
  PROVE  calm' \in BOOLEAN /\ budget' \in Nat
<1>1. calm' = FALSE \/ calm' = calm
  BY Zenon DEF Disturb, Undisturbed
<1>2. calm' \in BOOLEAN
  BY <1>1, Zenon DEF IInv, TypeOK
<1>3. budget' = budget \/ (budget > 0 /\ budget' = budget - 1)
  BY Zenon DEF Disturb, Undisturbed
<1>4. budget' \in Nat
  BY <1>3 DEF IInv, TypeOK
<1> QED
  BY <1>2, <1>4

LEMMA SendKeeps == ASSUME IInv, Send PROVE IInv'
<1>1. (sent + offset) % (SeqMax + 1) \in 0 .. SeqMax
  BY Assumption DEF IInv, TypeOK
<1>2. [seq |-> (sent + offset) % (SeqMax + 1), id |-> sent] \in Packets
  BY <1>1 DEF IInv, TypeOK, Packets
<1>3. TypeOK'
  BY <1>2 DEF IInv, TypeOK, Send
<1> QED
  BY <1>3, SorterUnchanged DEF Send

LEMMA LoseKeeps == ASSUME IInv, NEW p \in flight, Lose(p) PROVE IInv'
<1>1. TypeOK'
  BY DEF IInv, TypeOK, Lose, Packets
<1> QED
  BY <1>1, SorterUnchanged DEF Lose

LEMMA RestartKeeps == ASSUME IInv, NEW jump \in Jumps, Restart(jump) PROVE IInv'
<1>1. calm' \in BOOLEAN /\ budget' \in Nat
  BY DisturbTypes DEF Restart
<1>2. offset' \in Nat
  BY Assumption DEF IInv, TypeOK, Restart
<1>3. TypeOK'
  BY <1>1, <1>2 DEF IInv, TypeOK, Restart
<1> QED
  BY <1>3, SorterUnchanged DEF Restart

\* A packet that is new to both maps goes into one of them, or something is handed on.
LEMMA ReceiveWaits ==
  ASSUME IInv, NEW p \in flight, NEW quiet \in BOOLEAN, NEW copy \in BOOLEAN,
         Receive(p, quiet, copy), Sound(sorter'), Waits(sorter, p, sorter'), idle' \in Nat
  PROVE  Waiting'
<1>1. /\ p \in Packets /\ idle \in Nat
      /\ sorter.cache \in SUBSET Packets /\ IsFiniteSet(sorter.cache)
      /\ sorter.drops \in SUBSET Packets /\ IsFiniteSet(sorter.drops)
  BY DEF IInv, TypeOK, Sound, Sorters
<1>2. /\ Cardinality(sorter.cache) \in Nat /\ Cardinality(sorter.drops) \in Nat
      /\ Cardinality(sorter'.cache) \in Nat /\ Cardinality(sorter'.drops) \in Nat
      /\ MaxBufferSize \in Nat
  BY <1>1, FS_CardinalityType, Assumption DEF Sound
<1>3. CASE sorter'.out # sorter.out
  <2>1. idle' = 0
    BY <1>3 DEF Receive
  <2> QED
    BY <1>2, <2>1 DEF Waiting
<1>4. CASE sorter'.out = sorter.out
  <2>1. Len(sorter'.out) = Len(sorter.out) /\ Len(sorter.out) \in Nat
    BY <1>4 DEF IInv, Sound, Sorters
  <2>2. idle' = IF p.seq \in Seqs(sorter.cache) \cup Seqs(sorter.drops) THEN idle ELSE idle + 1
    BY <1>4 DEF Receive
  <2>3. CASE /\ sorter'.cache = Emplace(sorter.cache, p) /\ sorter'.drops = sorter.drops
             /\ Cardinality(sorter'.cache) <= MaxBufferSize
    <3>1. Cardinality(sorter'.cache) = IF p.seq \in Seqs(sorter.cache)
                                       THEN Cardinality(sorter.cache)
                                       ELSE Cardinality(sorter.cache) + 1
      BY <1>1, <2>3, EmplaceFacts
    <3>2. idle' <= Cardinality(sorter'.cache) + Cardinality(sorter'.drops)
      BY <1>1, <1>2, <2>2, <2>3, <3>1 DEF IInv, Waiting
    <3> QED
      BY <1>2, <2>3, <3>2 DEF Waiting
  <2>4. CASE sorter'.cache = sorter.cache /\ sorter'.drops = Emplace(sorter.drops, p)
    <3>1. Cardinality(sorter'.drops) = IF p.seq \in Seqs(sorter.drops)
                                       THEN Cardinality(sorter.drops)
                                       ELSE Cardinality(sorter.drops) + 1
      BY <1>1, <2>4, EmplaceFacts
    <3> QED
      BY <1>1, <1>2, <2>2, <2>4, <3>1 DEF IInv, Waiting
  <2> QED
    BY <2>1, <2>3, <2>4 DEF Waits
<1> QED
  BY <1>3, <1>4

LEMMA ReceiveKeeps ==
  ASSUME IInv, NEW p \in flight, NEW quiet \in BOOLEAN, NEW copy \in BOOLEAN,
         Receive(p, quiet, copy)
  PROVE  IInv'
<1>1. p \in Packets
  BY DEF IInv, TypeOK
<1>2. Sound(sorter') /\ WithinLimits(sorter') /\ Waits(sorter, p, sorter')
  <2>1. sorter' = SortPacket(sorter, p, quiet)
    BY DEF Receive
  <2> QED
    BY <1>1, <2>1, SortPacketFacts DEF IInv
<1>3. idle' \in Nat
  BY DEF Receive, IInv, TypeOK
<1>4. flight' \subseteq Packets
  BY DEF Receive, IInv, TypeOK
<1>5. calm' \in BOOLEAN /\ budget' \in Nat
  BY DisturbTypes, Zenon DEF Receive
<1>6. TypeOK'
  BY <1>2, <1>3, <1>4, <1>5 DEF Receive, IInv, TypeOK, Sound
<1>7. Waiting'
  BY <1>2, <1>3, ReceiveWaits
<1> QED
  BY <1>2, <1>6, <1>7 DEF IInv, Sound, WithinLimits

LEMMA ClearKeeps == ASSUME IInv, Clear PROVE IInv'
<1>1. /\ Sound(sorter') /\ sorter'.cache = {} /\ sorter'.drops = sorter.drops /\ idle' = 0
  BY FS_EmptySet DEF IInv, Clear, Sound, Sorters
<1>2. Cardinality(sorter'.cache) = 0 /\ Cardinality(sorter'.drops) \in Nat /\ MaxBufferSize \in Nat
  BY <1>1, FS_EmptySet, FS_CardinalityType, Assumption DEF Sound
<1>3. TypeOK'
  <2>1. calm' \in BOOLEAN /\ budget' \in Nat
    BY DisturbTypes DEF Clear
  <2> QED
    BY <1>1, <2>1 DEF IInv, TypeOK, Clear, Sound
<1>4. WithinLimits(sorter')
  BY <1>1, <1>2 DEF IInv, WithinLimits
<1>5. Waiting'
  BY <1>1, <1>2 DEF Waiting
<1> QED
  BY <1>1, <1>3, <1>4, <1>5 DEF IInv, Sound, WithinLimits

LEMMA FlushKeeps == ASSUME IInv, Flush PROVE IInv'
<1> DEFINE flushed == ForceFlush(sorter)
<1>1. /\ Sound(flushed) /\ flushed.drops = sorter.drops
      /\ sorter.cache = {} => flushed = sorter
      /\ sorter.cache # {} => Len(flushed.out) > Len(sorter.out)
  BY ForceFlushFacts DEF IInv
<1>2. sorter' = [flushed EXCEPT !.cache = {}]
  BY DEF Flush
<1> HIDE DEF flushed
<1>3. /\ Sound(sorter') /\ sorter'.cache = {} /\ sorter'.drops = sorter.drops
      /\ sorter'.out = flushed.out
  BY <1>1, <1>2, FS_EmptySet DEF Sound, Sorters
<1>4. /\ Cardinality({}) = 0 /\ Cardinality(sorter.drops) \in Nat
      /\ MaxBufferSize \in Nat
  BY FS_EmptySet, FS_CardinalityType, Assumption DEF IInv, Sound
<1>5. idle' = (IF sorter'.out # sorter.out THEN 0 ELSE idle) /\ idle \in Nat
  BY DEF Flush, IInv, TypeOK
<1>6. TypeOK'
  <2>1. calm' \in BOOLEAN /\ budget' \in Nat
    BY DisturbTypes DEF Flush
  <2> QED
    BY <1>3, <1>5, <2>1 DEF IInv, TypeOK, Flush, Sound
<1>7. WithinLimits(sorter')
  BY <1>3, <1>4 DEF IInv, WithinLimits
<1>8. Waiting'
  <2>1. CASE sorter.cache = {}
    BY <1>3, <1>4, <1>5, <2>1 DEF IInv, Waiting
  <2>2. CASE sorter.cache # {}
    <3>1. Len(sorter.out) \in Nat
      BY DEF IInv, Sound, Sorters
    <3>2. sorter'.out # sorter.out
      BY <1>1, <1>3, <2>2, <3>1
    <3> QED
      BY <1>3, <1>4, <1>5, <3>2 DEF Waiting
  <2> QED
    BY <2>1, <2>2
<1> QED
  BY <1>3, <1>6, <1>7, <1>8 DEF IInv, Sound, WithinLimits

LEMMA NextIInv == IInv /\ [Next]_vars => IInv'
<1> SUFFICES ASSUME IInv, [Next]_vars PROVE IInv'
  OBVIOUS
<1>1. CASE Send
  BY <1>1, SendKeeps
<1>2. ASSUME NEW p \in flight, Lose(p) PROVE IInv'
  BY <1>2, LoseKeeps
<1>3. ASSUME NEW p \in flight, NEW quiet \in BOOLEAN, NEW copy \in BOOLEAN,
             Receive(p, quiet, copy)
      PROVE IInv'
  BY <1>3, ReceiveKeeps
<1>4. ASSUME NEW jump \in Jumps, Restart(jump) PROVE IInv'
  BY <1>4, RestartKeeps
<1>5. CASE Clear
  BY <1>5, ClearKeeps
<1>6. CASE Flush
  BY <1>6, FlushKeeps
<1>7. CASE UNCHANGED vars
  BY <1>7 DEF IInv, TypeOK, Sound, WithinLimits, Waiting, vars
<1> QED
  BY <1>1, <1>2, <1>3, <1>4, <1>5, <1>6, <1>7 DEF Next

LEMMA InvariantHolds == Spec => []IInv
<1> QED
  BY InitIInv, NextIInv, PTL DEF Spec

----------------------------------------------------------------------------
(* Sequence numbers around the wrap                                        *)

\* The sequence number of a packet.
Number(off, id) == (id + off) % (SeqMax + 1)

\* What % leaves of a number, in a form the arithmetic of the provers can use.
LEMMA Division ==
  ASSUME NEW a \in Nat, NEW m \in Nat \ {0}
  PROVE  a \div m \in Nat /\ a = m * (a \div m) + (a % m)
OBVIOUS

LEMMA Remainder ==
  ASSUME NEW a \in Nat
  PROVE  \E q \in Nat : a = (SeqMax + 1) * q + (a % (SeqMax + 1))
<1>1. SeqMax + 1 \in Nat \ {0}
  BY Assumption
<1> QED
  BY <1>1, Division

LEMMA SameRemainder ==
  ASSUME NEW a \in Nat, NEW q \in Nat, NEW r \in 0 .. SeqMax, a = (SeqMax + 1) * q + r
  PROVE  a % (SeqMax + 1) = r
<1> QED
  BY Assumption

\* The number of a packet k places on.
LEMMA NumberAhead ==
  ASSUME NEW off \in Nat, NEW n \in Nat, NEW k \in 0 .. SeqMax
  PROVE  /\ Number(off, n) \in 0 .. SeqMax
         /\ Number(off, n + k) = IF Number(off, n) + k <= SeqMax THEN Number(off, n) + k
                                 ELSE Number(off, n) + k - (SeqMax + 1)
<1> DEFINE r == (n + off) % (SeqMax + 1)
<1>1. PICK q \in Nat : n + off = (SeqMax + 1) * q + r
  BY Remainder
<1>2. r \in 0 .. SeqMax
  BY Assumption
<1>3. Number(off, n) = r
  BY DEF Number
<1> HIDE DEF r
<1>4. CASE r + k <= SeqMax
  <2>1. n + k + off = (SeqMax + 1) * q + (r + k)
    BY <1>1, <1>2, Assumption
  <2>2. n + k + off \in Nat /\ r + k \in 0 .. SeqMax
    BY <1>2, <1>4, Assumption
  <2>3. (n + k + off) % (SeqMax + 1) = r + k
    BY <2>1, <2>2, SameRemainder
  <2> QED
    BY <1>2, <1>3, <1>4, <2>3 DEF Number
<1>5. CASE ~ (r + k <= SeqMax)
  <2>1. n + k + off = (SeqMax + 1) * (q + 1) + (r + k - (SeqMax + 1))
    BY <1>1, <1>2, Assumption
  <2>2. /\ n + k + off \in Nat /\ q + 1 \in Nat
        /\ r + k - (SeqMax + 1) \in 0 .. SeqMax
    BY <1>2, <1>5, Assumption
  <2>3. (n + k + off) % (SeqMax + 1) = r + k - (SeqMax + 1)
    BY <2>1, <2>2, SameRemainder
  <2> QED
    BY <1>2, <1>3, <1>5, <2>3 DEF Number
<1> QED
  BY <1>4, <1>5

\* Within one turn of the counter two packets have different numbers.
LEMMA NumbersDiffer ==
  ASSUME NEW off \in Nat, NEW i \in Nat, NEW j \in Nat, i < j, j <= i + SeqMax
  PROVE  Number(off, i) # Number(off, j)
<1> DEFINE k == j - i
<1>1. k \in 1 .. SeqMax /\ j = i + k
  BY Assumption
<1> HIDE DEF k
<1>2. k \in 0 .. SeqMax
  BY <1>1, Assumption
<1>3. /\ Number(off, i) \in 0 .. SeqMax
      /\ Number(off, i + k) = IF Number(off, i) + k <= SeqMax THEN Number(off, i) + k
                              ELSE Number(off, i) + k - (SeqMax + 1)
  BY <1>2, NumberAhead
<1> QED
  BY <1>1, <1>3, Assumption

\* The next number is the successor.
LEMMA SuccessorIsNext ==
  ASSUME NEW off \in Nat, NEW n \in Nat
  PROVE  Successor(Number(off, n)) = Number(off, n + 1)
<1> DEFINE r == Number(off, n)
<1>1. PICK q \in Nat : n + off = (SeqMax + 1) * q + r
  BY Remainder DEF Number
<1>2. r \in 0 .. SeqMax
  BY Assumption DEF Number
<1> HIDE DEF r
<1>3. CASE r = SeqMax
  <2>1. n + 1 + off = (SeqMax + 1) * (q + 1) + 0
    BY <1>1, <1>3, Assumption
  <2>2. (n + 1 + off) % (SeqMax + 1) = 0
    BY <2>1, SameRemainder, Assumption
  <2>3. r + 1 = (SeqMax + 1) * 1 + 0
    BY <1>3, Assumption
  <2>4. (r + 1) % (SeqMax + 1) = 0
    BY <1>2, <2>3, SameRemainder, Assumption
  <2> QED
    BY <2>2, <2>4 DEF Successor, Number, r
<1>4. CASE r # SeqMax
  <2>1. n + 1 + off = (SeqMax + 1) * q + (r + 1) /\ r + 1 \in 0 .. SeqMax
    BY <1>1, <1>2, <1>4, Assumption
  <2>2. (n + 1 + off) % (SeqMax + 1) = r + 1
    BY <2>1, SameRemainder, Assumption, SMTT(30)
  <2>3. r + 1 = (SeqMax + 1) * 0 + (r + 1)
    BY <2>1, Assumption
  <2>4. (r + 1) % (SeqMax + 1) = r + 1
    BY <2>1, <2>3, SameRemainder
  <2> QED
    BY <2>2, <2>4 DEF Successor, Number, r
<1> QED
  BY <1>3, <1>4

----------------------------------------------------------------------------
(* A network that only reorders: what the sorter holds and has handed on   *)

\* The packets of a map, by their place in the stream.
Ids(map) == {p.id : p \in map}

\* A sorter that has handed on the packets from the first one on, without a gap, and holds
\* later ones.
InStep(st, off) ==
  LET n == Len(st.out) IN
  /\ \A i \in 1 .. n : st.out[i] = i - 1
  /\ st.next = Number(off, n)
  /\ \A p \in st.cache : p.seq = Number(off, p.id) /\ n <= p.id

\* Where the number of a held packet lies.
LEMMA HeldNumber ==
  ASSUME NEW st, Sound(st), NEW off \in Nat, InStep(st, off), NEW p \in st.cache,
         p.id <= Len(st.out) + SeqMax
  PROVE  /\ p.id \in Nat /\ Len(st.out) \in Nat /\ st.next \in 0 .. SeqMax
         /\ p.id - Len(st.out) \in 0 .. SeqMax
         /\ p.seq = IF st.next + (p.id - Len(st.out)) <= SeqMax
                    THEN st.next + (p.id - Len(st.out))
                    ELSE st.next + (p.id - Len(st.out)) - (SeqMax + 1)
<1> DEFINE n == Len(st.out)
           k == p.id - n
<1>1. n \in Nat /\ p.id \in Nat /\ st.next \in 0 .. SeqMax
  BY DEF Sound, Sorters, Packets
<1>2. n <= p.id /\ p.seq = Number(off, p.id) /\ st.next = Number(off, n)
  BY DEF InStep
<1> HIDE DEF n
<1>3. k \in 0 .. SeqMax /\ p.id = n + k
  BY <1>1, <1>2, Assumption DEF n
<1> HIDE DEF k
<1>4. Number(off, n + k) = IF Number(off, n) + k <= SeqMax THEN Number(off, n) + k
                           ELSE Number(off, n) + k - (SeqMax + 1)
  BY <1>1, <1>3, NumberAhead
<1> QED
  BY <1>1, <1>2, <1>3, <1>4 DEF n, k

\* Two outputs after each other.
LEMMA Concatenated ==
  ASSUME NEW s \in Seq(Nat), NEW t \in Seq(Nat)
  PROVE  /\ s \o t \in Seq(Nat) /\ Len(s \o t) = Len(s) + Len(t)
         /\ \A i \in 1 .. Len(s) : (s \o t)[i] = s[i]
         /\ \A i \in 1 .. Len(t) : (s \o t)[Len(s) + i] = t[i]
OBVIOUS

\* The k-th number from next on, and the end of a run.
LEMMA Place ==
  ASSUME NEW next \in 0 .. SeqMax, NEW end \in next .. (SeqMax + 1), NEW k \in 0 .. SeqMax,
         NEW seq, seq = IF next + k <= SeqMax THEN next + k ELSE next + k - (SeqMax + 1)
  PROVE  /\ seq >= next /\ seq < end <=> k < end - next
         /\ seq >= next => k = seq - next
         /\ k = end - next /\ seq # end => seq = 0
BY Assumption

\* flushPacket() hands on what follows, in order; away from a wrap in the cache it throws
\* nothing away.  It leaves the next packet in the cache only at the wrap.
LEMMA FlushInStep ==
  ASSUME NEW st, Sound(st), NEW off \in Nat, InStep(st, off),
         \A p \in st.cache : /\ p.id <= Len(st.out) + SeqMax
                             /\ p.seq >= st.next \/ MayLooped(st.next, st.next)
  PROVE  LET r == FlushPacket(st)  m == Len(r.out) IN
         /\ InStep(r, off) /\ m \in Nat /\ m >= Len(st.out)
         /\ r.cache = {p \in st.cache : p.id >= m}
         /\ \A id \in Len(st.out) .. (m - 1) : id \in Ids(st.cache)
         /\ m \in Ids(r.cache) => r.next = 0
<1> DEFINE n    == Len(st.out)
           kept == IF MayLooped(st.next, st.next) THEN st.cache
                   ELSE {p \in st.cache : p.seq >= st.next}
           end  == RunEnd(kept, st.next)
           run  == {p \in kept : p.seq >= st.next /\ p.seq < end}
           at(seq) == CHOOSE p \in run : p.seq = seq
           ids  == [i \in 1 .. (end - st.next) |-> at(st.next + i - 1).id]
           m    == n + (end - st.next)
<1>1. kept = st.cache
  OBVIOUS
<1>2. st.cache \in SUBSET Packets /\ n \in Nat /\ st.next \in 0 .. SeqMax
  BY DEF Sound, Sorters
<1>3. /\ end \in st.next .. (SeqMax + 1) /\ end \notin Seqs(st.cache)
      /\ \A q \in st.next .. (end - 1) : q \in Seqs(st.cache)
  BY <1>1, <1>2, RunEndFacts
<1>4. run = {p \in st.cache : p.seq >= st.next /\ p.seq < end}
  BY <1>1
<1>5. FlushPacket(st) = [st EXCEPT !.next = IF run = {} THEN @ ELSE Successor(end - 1),
                                   !.cache = kept \ run, !.out = @ \o ids]
  BY DEF FlushPacket
<1> HIDE DEF end, kept
<1>6. ASSUME NEW p \in st.cache
      PROVE  /\ p.id \in Nat /\ p.id - n \in 0 .. SeqMax
             /\ p.seq = IF st.next + (p.id - n) <= SeqMax THEN st.next + (p.id - n)
                        ELSE st.next + (p.id - n) - (SeqMax + 1)
  BY HeldNumber
<1> HIDE DEF n
<1>7. m \in Nat /\ m >= n /\ end \in Int /\ SeqMax \in Nat
  BY <1>2, <1>3, Assumption
<1>8. ASSUME NEW p \in st.cache PROVE p \in run <=> p.id < m
  <2> DEFINE k == p.id - n
  <2>1. /\ k \in 0 .. SeqMax
        /\ p.seq = IF st.next + k <= SeqMax THEN st.next + k ELSE st.next + k - (SeqMax + 1)
    BY <1>6
  <2>2. k < end - st.next <=> p.id < m
    BY <1>2, <1>3, <1>6, <1>7, SMTT(30)
  <2> HIDE DEF k, m
  <2>3. p.seq >= st.next /\ p.seq < end <=> p.id < m
    BY <1>2, <1>3, <2>1, <2>2, Place
  <2> QED
    BY <1>4, <2>3
<1>9. ASSUME NEW i \in 1 .. (end - st.next)
      PROVE  /\ at(st.next + i - 1) \in run /\ at(st.next + i - 1).id = n + i - 1
  <2>1. st.next + i - 1 \in st.next .. (end - 1)
    BY <1>2, <1>3, <1>7, SMTT(30)
  <2>2. PICK p \in st.cache : p.seq = st.next + i - 1
    BY <1>3, <2>1 DEF Seqs
  <2>3. p \in run
    BY <1>2, <1>4, <1>7, <2>1, <2>2
  <2>4. at(st.next + i - 1) \in run /\ at(st.next + i - 1).seq = st.next + i - 1
    BY <2>2, <2>3
  <2> DEFINE q == at(st.next + i - 1)
  <2>5. q \in st.cache /\ q.id < m
    BY <1>4, <1>8, <2>4
  <2>6. q.seq = st.next + i - 1
    BY <2>4
  <2> HIDE DEF q
  <2>7. /\ q.id \in Nat /\ q.id - n \in 0 .. SeqMax
        /\ q.seq = IF st.next + (q.id - n) <= SeqMax THEN st.next + (q.id - n)
                   ELSE st.next + (q.id - n) - (SeqMax + 1)
    BY <1>6, <2>5
  <2>8. q.seq >= st.next /\ i \in Int
    BY <1>2, <1>3, <1>7, <2>1, <2>6
  <2>9. q.id - n = q.seq - st.next
    BY <1>2, <1>3, <2>7, <2>8, Place, SMTT(30)
  <2>10. q.id = n + i - 1
    <3>1. q.id \in Nat
      BY <2>7
    <3> QED
      BY <1>2, <2>6, <2>8, <2>9, <3>1
  <2> QED
    BY <2>4, <2>10 DEF q
<1>10. ids = [i \in 1 .. (end - st.next) |-> n + i - 1]
  BY <1>9
<1>11. /\ st.out \o ids \in Seq(Nat) /\ Len(st.out \o ids) = m
       /\ \A i \in 1 .. m : (st.out \o ids)[i] = i - 1
  <2> HIDE DEF ids, m
  <2>1. end - st.next \in Nat /\ m = n + (end - st.next)
    BY <1>2, <1>3, <1>7 DEF m
  <2>2. ids \in Seq(Nat) /\ Len(ids) = end - st.next
    BY <1>2, <1>10, <2>1
  <2>3. st.out \in Seq(Nat) /\ Len(st.out) = n /\ \A i \in 1 .. n : st.out[i] = i - 1
    BY DEF Sound, Sorters, InStep, n
  <2>4. \A i \in 1 .. (end - st.next) : ids[i] = n + i - 1
    BY <1>10
  <2>5. /\ st.out \o ids \in Seq(Nat) /\ Len(st.out \o ids) = n + (end - st.next)
        /\ \A i \in 1 .. n : (st.out \o ids)[i] = st.out[i]
        /\ \A i \in 1 .. (end - st.next) : (st.out \o ids)[n + i] = ids[i]
    <3>1. /\ st.out \o ids \in Seq(Nat) /\ Len(st.out \o ids) = Len(st.out) + Len(ids)
          /\ \A i \in 1 .. Len(st.out) : (st.out \o ids)[i] = st.out[i]
          /\ \A i \in 1 .. Len(ids) : (st.out \o ids)[Len(st.out) + i] = ids[i]
      BY <2>2, <2>3, Concatenated
    <3>2. Len(st.out) = n /\ Len(ids) = end - st.next
      BY <2>2, <2>3
    <3> QED
      BY <3>1, <3>2, Zenon
  <2> DEFINE t == st.out \o ids
  <2> HIDE DEF t
  <2>6. ASSUME NEW i \in 1 .. m PROVE t[i] = i - 1
    <3>1. CASE i <= n
      <4>1. i \in 1 .. n
        BY <1>2, <1>7, <3>1
      <4>2. t[i] = st.out[i] /\ st.out[i] = i - 1
        BY <2>3, <2>5, <4>1 DEF t
      <4> QED
        BY <4>2
    <3>2. CASE i > n
      <4> DEFINE j == i - n
      <4>1. j \in 1 .. (end - st.next) /\ i = n + j
        BY <1>2, <1>7, <2>1, <3>2, SMTT(30)
      <4> HIDE DEF j
      <4>2. t[n + j] = n + j - 1
        BY <2>4, <2>5, <4>1 DEF t
      <4> QED
        BY <1>2, <1>7, <4>1, <4>2
    <3>3. n \in Nat /\ i \in Nat
      BY <1>2, <1>7
    <3> QED
      BY <3>1, <3>2, <3>3
  <2> QED
    BY <2>1, <2>5, <2>6 DEF t
<1>12. (IF run = {} THEN st.next ELSE Successor(end - 1)) = Number(off, m)
  <2>1. st.next = Number(off, n)
    BY DEF InStep, n
  <2>2. CASE end = st.next
    <3>1. run = {} /\ m = n
      BY <1>2, <1>4, <1>7, <2>2, SMTT(30) DEF Packets
    <3> QED
      BY <2>1, <3>1
  <2>3. CASE end # st.next
    <3> DEFINE j == end - 1 - st.next
    <3>1. j \in 0 .. SeqMax /\ st.next + j = end - 1 /\ st.next + j <= SeqMax /\ m = n + j + 1
      BY <1>2, <1>3, <1>7, <2>3, SMTT(30)
    <3>2. run # {}
      <4>1. 1 \in 1 .. (end - st.next)
        BY <1>2, <1>3, <1>7, <2>3
      <4> QED
        BY <1>9, <4>1
    <3> HIDE DEF j, run
    <3>3. Number(off, n + j) = st.next + j
      BY <1>2, <2>1, <3>1, NumberAhead
    <3>4. n + j \in Nat
      BY <1>2, <3>1
    <3>5. Successor(Number(off, n + j)) = Number(off, n + j + 1)
      BY <3>4, SuccessorIsNext
    <3> QED
      BY <3>1, <3>2, <3>3, <3>5
  <2> QED
    BY <2>2, <2>3
<1>13. kept \ run = {p \in st.cache : p.id >= m}
  <2> HIDE DEF m, run
  <2>1. \A p \in st.cache : p \in run <=> p.id < m
    BY <1>8
  <2>2. \A p \in st.cache : p.id < m <=> ~ (p.id >= m)
    BY <1>6, <1>7
  <2> QED
    BY <1>1, <2>1, <2>2
<1>14. ASSUME NEW id \in n .. (m - 1) PROVE id \in Ids(st.cache)
  <2> DEFINE i == id - n + 1
  <2>1. i \in 1 .. (end - st.next) /\ n + i - 1 = id
    <3>1. n \in Nat /\ end \in Nat /\ st.next \in Nat /\ end >= st.next
      BY <1>2, <1>3, Assumption
    <3> DEFINE next == st.next
    <3>2. n \in Nat /\ end \in Nat /\ next \in Nat /\ end >= next
      BY <3>1
    <3>3. id \in Int /\ n <= id /\ id <= n + (end - next) - 1
      BY <3>1
    <3> HIDE DEF n, next
    <3> QED
      BY <3>2, <3>3 DEF next
  <2> HIDE DEF i
  <2>2. at(st.next + i - 1) \in run /\ at(st.next + i - 1).id = id
    BY <1>9, <2>1
  <2>3. run \subseteq st.cache
    BY <1>4
  <2> HIDE DEF at, run
  <2> QED
    BY <2>2, <2>3 DEF Ids
<1>15. ASSUME NEW q \in st.cache, q.id = m PROVE Number(off, m) = 0
  <2>1. q.seq # end
    BY <1>3 DEF Seqs
  <2>2. q.seq = 0
    <3> DEFINE k == q.id - n
    <3>1. /\ k \in 0 .. SeqMax
          /\ q.seq = IF st.next + k <= SeqMax THEN st.next + k
                     ELSE st.next + k - (SeqMax + 1)
      BY <1>6
    <3>2. k = end - st.next
      BY <1>2, <1>3, <1>7, <1>15
    <3> HIDE DEF k
    <3> QED
      BY <1>2, <1>3, <2>1, <3>1, <3>2, Place
  <2>3. q.seq = Number(off, q.id)
    BY DEF InStep
  <2> QED
    BY <1>15, <2>2, <2>3
<1> HIDE DEF run, ids, m
<1> DEFINE r == FlushPacket(st)
<1>16. /\ r.next = Number(off, m) /\ r.cache = {p \in st.cache : p.id >= m}
       /\ r.out = st.out \o ids
  <2>1. /\ DOMAIN st = DOMAIN r /\ "next" \in DOMAIN st /\ "cache" \in DOMAIN st
        /\ "out" \in DOMAIN st
    BY <1>5 DEF Sound, Sorters
  <2> QED
    BY <1>5, <1>12, <1>13, <2>1
<1> HIDE DEF r
<1>17. Len(r.out) = m /\ \A i \in 1 .. m : r.out[i] = i - 1
  BY <1>11, <1>16
<1>18. InStep(r, off)
  <2>1. \A p \in r.cache : p.seq = Number(off, p.id) /\ m <= p.id
    BY <1>6, <1>7, <1>16 DEF InStep
  <2> QED
    BY <1>16, <1>17, <2>1 DEF InStep
<1>19. m \in Ids(r.cache) => r.next = 0
  BY <1>15, <1>16 DEF Ids
<1> QED
  BY <1>7, <1>14, <1>16, <1>17, <1>18, <1>19 DEF r, n

----------------------------------------------------------------------------
(* The steps of sortPacket() on such a network                             *)

\* What the limits of the buffer leave room for: a packet that overtakes as far as the network
\* lets it is neither too far nor one too many, and the numbers do not run into each other.
Room ==
  /\ Window \in 1 .. (MaxDistance + 1) /\ Window <= MaxBufferSize + 1
  /\ 4 * MaxDistance + 2 <= SeqMax

\* Nothing is missing: what was sent is handed on, held, or on its way.
Accounted(st, off, fl, snt) ==
  LET n == Len(st.out) IN
  /\ InStep(st, off) /\ st.drops = {} /\ n <= snt
  /\ \A p \in st.cache : p.id < snt
  /\ \A p \in fl : /\ p.seq = Number(off, p.id) /\ n <= p.id /\ p.id < snt
                   /\ snt <= p.id + Window /\ p.id \notin Ids(st.cache)
  /\ \A id \in n .. (snt - 1) : id \in Ids(fl) \cup Ids(st.cache)

\* What is held is near, and the next packet is among it at the wrap only, where flushPacket()
\* stops.
Steady(st, off, fl, snt) ==
  /\ Accounted(st, off, fl, snt)
  /\ \A p \in st.cache : p.id <= Len(st.out) + MaxDistance
  /\ Len(st.out) \in Ids(st.cache) => st.next = 0

\* Distance() of a packet that is ahead: how far ahead it is, across the wrap one less.
LEMMA DistanceAhead ==
  ASSUME NEW next \in 0 .. SeqMax, NEW k \in Nat, 2 * k <= SeqMax, NEW seq,
         seq = IF next + k <= SeqMax THEN next + k ELSE next + k - (SeqMax + 1)
  PROVE  Distance(next, seq) \in 0 .. k /\ (next + k <= SeqMax => Distance(next, seq) = k)
<1>1. SeqMax \in Nat /\ SeqMax \div 2 \in Nat
      /\ 2 * (SeqMax \div 2) <= SeqMax /\ SeqMax < 2 * (SeqMax \div 2) + 2
  BY Assumption
<1>2. CASE next + k <= SeqMax
  BY <1>1, <1>2 DEF Distance
<1>3. CASE ~ (next + k <= SeqMax)
  <2>1. /\ seq \in Int /\ ~ (seq > next) /\ next - seq = SeqMax + 1 - k
        /\ next - seq > SeqMax \div 2 /\ k >= 1
    BY <1>1, <1>3
  <2>2. Distance(next, seq) = SeqMax - (next - seq)
    BY <2>1 DEF Distance
  <2> QED
    BY <1>1, <1>3, <2>1, <2>2
<1> QED
  BY <1>2, <1>3

\* How far ahead a packet on its way may be.
LEMMA ArrivalBound ==
  ASSUME Room, NEW st, Sound(st), NEW off \in Nat, NEW fl \in SUBSET Packets, NEW snt \in Nat,
         Steady(st, off, fl, snt), NEW p \in fl
  PROVE  /\ p.id \in Nat /\ Len(st.out) \in Nat /\ p.id >= Len(st.out)
         /\ p.id <= Len(st.out) + 2 * MaxDistance + 1
         /\ Len(st.out) \notin Ids(st.cache) => snt <= Len(st.out) + Window
<1> DEFINE n == Len(st.out)
<1>1. p.id \in Nat /\ n \in Nat /\ MaxDistance \in Nat /\ Window \in Nat
  BY Assumption DEF Sound, Sorters, Packets
<1>2. n <= p.id /\ p.id < snt
  BY DEF Steady, Accounted
<1>3. \A q \in fl : snt <= q.id + Window
  BY DEF Steady, Accounted
<1>4. \A id \in n .. (snt - 1) : id \in Ids(fl) \cup Ids(st.cache)
  BY DEF Steady, Accounted
<1>5. \A q \in st.cache : q.id <= n + MaxDistance
  BY DEF Steady, Accounted
<1> HIDE DEF n
<1>6. ASSUME NEW id \in n .. (snt - 1), id \notin Ids(st.cache) PROVE snt <= id + Window
  <2>1. id \in Ids(fl)
    BY <1>4, <1>6
  <2> QED
    BY <1>3, <2>1 DEF Ids
<1>7. ASSUME p.id > n + MaxDistance + 1 PROVE p.id <= n + 2 * MaxDistance + 1
  <2> DEFINE i == n + MaxDistance + 1
  <2>1. i \in n .. (snt - 1) /\ i > n + MaxDistance /\ i \in Nat
    BY <1>1, <1>2, <1>7
  <2>2. i \notin Ids(st.cache)
    <3> HIDE DEF i
    <3>1. SUFFICES ASSUME NEW q \in st.cache, q.id = i PROVE FALSE
      BY DEF Ids
    <3> QED
      BY <1>1, <1>5, <2>1, <3>1
  <2>3. snt <= i + Window
    BY <1>6, <2>1, <2>2
  <2>4. Window <= MaxDistance + 1
    BY DEF Room
  <2> QED
    BY <1>1, <1>2, <2>3, <2>4
<1>8. n \notin Ids(st.cache) => snt <= n + Window
  BY <1>1, <1>2, <1>6
<1>9. p.id <= n + 2 * MaxDistance + 1
  BY <1>1, <1>7
<1> QED
  BY <1>1, <1>2, <1>8, <1>9 DEF n

\* The branch of sortPacket() for the next packet: what waited for it follows it.
LEMMA InTurnSteady ==
  ASSUME Room, NEW st, Sound(st), NEW off \in Nat, NEW fl \in SUBSET Packets, NEW snt \in Nat,
         Steady(st, off, fl, snt), NEW p \in fl, p.id = Len(st.out)
  PROVE  Steady(InTurn(st, p), off, fl \ {p}, snt)
<1> DEFINE n == Len(st.out)
           o == Output(st, p)
           f == FlushPacket(o)
           r == InTurn(st, p)
           m == Len(f.out)
<1>1. /\ n \in Nat /\ p \in Packets /\ p.id \in Nat /\ p.seq = Number(off, n)
      /\ MaxDistance \in Nat /\ SeqMax \in Nat /\ 4 * MaxDistance + 2 <= SeqMax
  BY Assumption DEF Sound, Sorters, Packets, Steady, Accounted, Room
<1>2. /\ Sound(o) /\ Len(o.out) = n + 1 /\ o.cache = st.cache
  BY <1>1, OutputFacts
<1>3. o.next = Number(off, n + 1) /\ o.out = Append(st.out, p.id)
  <2>1. o.next = Successor(p.seq) /\ o.out = Append(st.out, p.id)
    BY DEF Output, Sound, Sorters
  <2> QED
    BY <1>1, <2>1, SuccessorIsNext
<1>4. ASSUME NEW q \in st.cache
      PROVE  /\ q.id \in Nat /\ n + 1 <= q.id /\ q.id < snt /\ q.id <= n + MaxDistance
             /\ q.seq = Number(off, q.id)
  <2>1. q.id \in Nat /\ n <= q.id /\ q.seq = Number(off, q.id)
    BY DEF Sound, Sorters, Packets, Steady, Accounted, InStep
  <2>2. q.id # n
    BY DEF Steady, Accounted, Ids
  <2> QED
    BY <1>1, <2>1, <2>2, SMTT(30) DEF Steady, Accounted
<1> HIDE DEF o, n
<1>5. InStep(o, off)
  <2>1. \A i \in 1 .. (n + 1) : o.out[i] = i - 1
    <3>1. \A i \in 1 .. n : st.out[i] = i - 1
      BY DEF Steady, Accounted, InStep, n
    <3>2. st.out \in Seq(Nat) /\ Len(st.out) = n /\ p.id = n
      BY DEF Sound, Sorters, n
    <3> QED
      BY <1>1, <1>3, <3>1, <3>2
  <2> QED
    BY <1>2, <1>3, <1>4, <2>1 DEF InStep
<1>6. ASSUME NEW q \in o.cache
      PROVE  /\ q.id <= Len(o.out) + SeqMax
             /\ q.seq >= o.next \/ MayLooped(o.next, o.next)
  <2>1. /\ q.id \in Nat /\ n + 1 <= q.id /\ q.id <= n + MaxDistance
    BY <1>2, <1>4
  <2>2. q.id <= Len(o.out) + SeqMax
    BY <1>1, <1>2, <2>1
  <2> DEFINE k == q.id - Len(o.out)
  <2>3. /\ o.next \in 0 .. SeqMax /\ k \in 0 .. SeqMax
        /\ q.seq = IF o.next + k <= SeqMax THEN o.next + k ELSE o.next + k - (SeqMax + 1)
    BY <1>2, <1>5, <2>2, HeldNumber
  <2>4. k < MaxDistance
    BY <1>1, <1>2, <2>1
  <2> HIDE DEF k
  <2>5. CASE o.next + k <= SeqMax
    BY <1>1, <2>2, <2>3, <2>5
  <2>6. CASE ~ (o.next + k <= SeqMax)
    BY <1>1, <2>2, <2>3, <2>4, <2>6, SMTT(30) DEF MayLooped
  <2> QED
    BY <2>5, <2>6
<1>7. /\ InStep(f, off) /\ m \in Nat /\ m >= n + 1
      /\ f.cache = {q \in st.cache : q.id >= m}
      /\ \A id \in (n + 1) .. (m - 1) : id \in Ids(st.cache)
      /\ m \in Ids(f.cache) => f.next = 0
  BY <1>2, <1>5, <1>6, FlushInStep
<1>8. Sound(f)
  BY <1>2, FlushPacketFacts
<1>9. r.out = f.out /\ r.next = f.next /\ r.cache = f.cache /\ r.drops = {}
  <2>1. r = [f EXCEPT !.drops = {}]
    BY DEF InTurn, o
  <2> HIDE DEF f, r
  <2> QED
    BY <1>8, <2>1 DEF Sound, Sorters
<1> HIDE DEF f, r, m
<1>10. InStep(r, off) /\ Len(r.out) = m /\ (m \in Ids(r.cache) => r.next = 0)
  BY <1>7, <1>9 DEF InStep, m
<1>11. \A q \in r.cache : q.id < snt /\ q.id <= m + MaxDistance
  BY <1>1, <1>4, <1>7, <1>9
<1>12. ASSUME NEW q \in fl \ {p}
       PROVE  /\ q.seq = Number(off, q.id) /\ m <= q.id /\ q.id < snt
              /\ snt <= q.id + Window /\ q.id \notin Ids(r.cache)
  <2>1. /\ q.seq = Number(off, q.id) /\ n <= q.id /\ q.id < snt /\ snt <= q.id + Window
        /\ q.id \notin Ids(st.cache) /\ q.id \in Nat
    BY DEF Steady, Accounted, n, Packets
  <2>2. q.id # n
    <3>1. q \in Packets /\ p \in Packets
      OBVIOUS
    <3>2. q.id = p.id => q = p
      BY <1>1, <2>1, <3>1 DEF n, Packets
    <3> QED
      BY <3>2 DEF n
  <2>3. m <= q.id
    <3> SUFFICES ASSUME q.id < m PROVE FALSE
      BY <1>7, <2>1
    <3>1. q.id \in (n + 1) .. (m - 1)
      BY <1>1, <1>7, <2>1, <2>2
    <3> QED
      BY <1>7, <2>1, <3>1
  <2>4. q.id \notin Ids(r.cache)
    BY <1>7, <1>9, <2>1 DEF Ids
  <2> QED
    BY <2>1, <2>3, <2>4
<1>13. ASSUME NEW id \in m .. (snt - 1) PROVE id \in Ids(fl \ {p}) \cup Ids(r.cache)
  <2>1. id \in n .. (snt - 1) /\ id # n /\ id >= m
    BY <1>1, <1>7
  <2>2. id \in Ids(fl) \cup Ids(st.cache)
    BY <2>1 DEF Steady, Accounted, n
  <2>3. CASE id \in Ids(fl)
    BY <2>1, <2>3 DEF Ids, n
  <2>4. CASE id \in Ids(st.cache)
    BY <1>7, <1>9, <2>1, <2>4 DEF Ids
  <2> QED
    BY <2>2, <2>3, <2>4
<1>14. m <= snt
  <2>1. p.id < snt /\ snt \in Nat
    BY DEF Steady, Accounted
  <2>2. CASE m = n + 1
    BY <1>1, <2>1, <2>2 DEF n
  <2>3. CASE m # n + 1
    <3>1. m - 1 \in (n + 1) .. (m - 1)
      BY <1>1, <1>7, <2>3
    <3>2. PICK q \in st.cache : q.id = m - 1
      BY <1>7, <3>1 DEF Ids
    <3> QED
      BY <1>4, <1>7, <2>1, <3>2
  <2> QED
    BY <2>2, <2>3
<1> QED
  BY <1>9, <1>10, <1>11, <1>12, <1>13, <1>14, Zenon DEF Steady, Accounted, r

\* Behind the wrap forceFlush() gives nothing up: the packet it begins with is the next one.
LEMMA ForceFlushSteady ==
  ASSUME Room, NEW st, Sound(st), NEW off \in Nat, NEW fl \in SUBSET Packets, NEW snt \in Nat,
         Accounted(st, off, fl, snt), st.next = 0, Len(st.out) \in Ids(st.cache),
         \A q \in st.cache : q.id <= Len(st.out) + 2 * MaxDistance + 1
  PROVE  Steady(ForceFlush(st), off, fl, snt)
<1> DEFINE n       == Len(st.out)
           ahead   == {q \in st.cache : q.seq >= st.next}
           first   == Lowest(IF ahead = {} THEN st.cache ELSE ahead)
           popped  == Pop(st, first)
           flushed == FlushPacket(popped)
           near    == {q \in flushed.cache : Distance(flushed.next, q.seq) <= MaxDistance}
           r       == ForceFlush(st)
           m       == Len(flushed.out)
<1>0. st.cache \in SUBSET Packets
  BY DEF Sound, Sorters
<1>1. /\ n \in Nat /\ MaxDistance \in Nat /\ SeqMax \in Nat /\ Window \in Nat
      /\ Window <= MaxDistance + 1 /\ 4 * MaxDistance + 2 <= SeqMax
      /\ 2 * MaxDistance + 2 <= SeqMax
  BY Assumption DEF Sound, Sorters, Room
<1>2. InStep(st, off) /\ Number(off, n) = 0
  BY DEF Accounted, InStep
<1>3. ASSUME NEW q \in st.cache
      PROVE  q.id \in Nat /\ n <= q.id /\ q.seq = q.id - n /\ q.id <= n + 2 * MaxDistance + 1
  <2>1. q.id \in Nat /\ n <= q.id /\ q.id <= n + 2 * MaxDistance + 1
    BY <1>0, <1>2 DEF InStep, Packets
  <2> HIDE DEF n
  <2>2. q.id <= n + SeqMax
    BY <1>1, <2>1, SMTT(30)
  <2>3. /\ q.id - n \in 0 .. SeqMax
        /\ q.seq = IF 0 + (q.id - n) <= SeqMax THEN 0 + (q.id - n)
                   ELSE 0 + (q.id - n) - (SeqMax + 1)
    BY <1>2, <2>2, HeldNumber DEF n
  <2>4. q.seq = q.id - n
    BY <1>1, <2>1, <2>3
  <2> QED
    BY <2>1, <2>4
<1>4. PICK next \in st.cache : next.id = n
  BY DEF Ids
<1> HIDE DEF n
<1>5. first = Lowest(st.cache)
  <2>1. \A q \in st.cache : q.seq >= st.next
    BY <1>1, <1>3
  <2>2. ahead = st.cache
    BY <2>1
  <2> QED
    BY <1>4, <2>2
<1>6. first \in st.cache /\ first.id = n
  <2>1. first \in st.cache /\ \A q \in st.cache : first.seq <= q.seq
    BY <1>0, <1>4, <1>5, LowestIsIn
  <2> HIDE DEF first
  <2>2. first.seq <= next.seq /\ next.seq = 0
    BY <1>1, <1>3, <1>4, <2>1
  <2> QED
    BY <1>1, <1>3, <2>1, <2>2
<1> HIDE DEF first
<1>7. /\ popped.next = Number(off, n + 1) /\ popped.out = Append(st.out, n)
      /\ popped.cache = st.cache \ {first} /\ popped.drops = {} /\ Sound(popped)
      /\ popped.out \in Seq(Nat) /\ Len(popped.out) = n + 1
  <2>1. first.seq = Number(off, n)
    BY <1>2, <1>6 DEF InStep
  <2>2. Successor(first.seq) = Number(off, n + 1)
    BY <1>1, <2>1, SuccessorIsNext
  <2>3. popped.next = Successor(first.seq)
    BY DEF Pop, Output, Sound, Sorters
  <2>4. popped.out = Append(st.out, n) /\ popped.cache = st.cache \ {first}
    BY <1>6 DEF Pop, Output, Sound, Sorters
  <2>5. Sound(popped) /\ popped.drops = st.drops /\ Len(popped.out) = n + 1
    BY <1>6, PopFacts DEF n
  <2>6. st.drops = {}
    BY DEF Accounted
  <2> HIDE DEF popped
  <2> QED
    BY <2>2, <2>3, <2>4, <2>5, <2>6 DEF Sound, Sorters
<1> HIDE DEF popped
<1>8. ASSUME NEW q \in popped.cache PROVE q \in st.cache /\ q.id >= n + 1
  <2>1. q \in st.cache /\ q # first /\ q \in Packets /\ first \in Packets
    BY <1>0, <1>6, <1>7
  <2>2. q.id # n
    <3> SUFFICES ASSUME q.id = n PROVE FALSE
      OBVIOUS
    <3>1. q.seq = first.seq /\ q.id = first.id
      BY <1>3, <1>6, <2>1
    <3> QED
      BY <2>1, <3>1 DEF Packets
  <2>3. q.id \in Nat /\ n <= q.id
    BY <1>3, <2>1
  <2>4. q.id >= n + 1
    BY <1>1, <2>2, <2>3
  <2> QED
    BY <2>1, <2>4
<1>9. popped.next = 1
  <2>1. 1 \in 0 .. SeqMax /\ 0 + 1 <= SeqMax
    BY <1>1
  <2>2. Number(off, n + 1) = IF Number(off, n) + 1 <= SeqMax THEN Number(off, n) + 1
                             ELSE Number(off, n) + 1 - (SeqMax + 1)
    BY <1>1, <2>1, NumberAhead
  <2> QED
    BY <1>2, <1>7, <2>1, <2>2
<1>10. InStep(popped, off)
  <2>1. ASSUME NEW i \in 1 .. (n + 1) PROVE popped.out[i] = i - 1
    <3>1. \A k \in 1 .. n : st.out[k] = k - 1
      BY <1>2 DEF InStep, n
    <3>2. st.out \in Seq(Nat) /\ Len(st.out) = n
      BY DEF Sound, Sorters, n
    <3> QED
      BY <1>1, <1>7, <3>1, <3>2
  <2>2. \A q \in popped.cache : q.seq = Number(off, q.id) /\ n + 1 <= q.id
    BY <1>1, <1>2, <1>3, <1>8 DEF InStep
  <2> QED
    BY <1>7, <2>1, <2>2 DEF InStep
<1>11. ASSUME NEW q \in popped.cache
       PROVE  q.id <= Len(popped.out) + SeqMax /\ q.seq >= popped.next
  BY <1>1, <1>3, <1>7, <1>8, <1>9
<1>12. /\ InStep(flushed, off) /\ m \in Nat /\ m >= n + 1
       /\ flushed.cache = {q \in popped.cache : q.id >= m}
       /\ \A id \in (n + 1) .. (m - 1) : id \in Ids(popped.cache)
  BY <1>7, <1>10, <1>11, FlushInStep
<1>13. Sound(flushed) /\ flushed.drops = {}
  BY <1>7, FlushPacketFacts
<1>14. r = [flushed EXCEPT !.cache = near]
  BY <1>4 DEF ForceFlush, first, popped
<1> HIDE DEF flushed, r, m
<1>15. \A id \in n .. (m - 1) : id \in Ids(st.cache)
  <2> SUFFICES ASSUME NEW id \in n .. (m - 1) PROVE id \in Ids(st.cache)
    OBVIOUS
  <2>1. CASE id = n
    BY <1>4, <2>1 DEF Ids
  <2>2. CASE id # n
    <3>1. id \in (n + 1) .. (m - 1)
      BY <1>1, <1>12, <2>2
    <3> QED
      BY <1>8, <1>12, <3>1 DEF Ids
  <2> QED
    BY <2>1, <2>2
<1>16. m <= n + 2 * MaxDistance + 2
  <2>1. m - 1 \in n .. (m - 1)
    BY <1>1, <1>12, SMTT(30)
  <2>2. PICK q \in st.cache : q.id = m - 1
    BY <1>15, <2>1 DEF Ids
  <2> QED
    BY <1>1, <1>3, <1>12, <2>2
<1>17. flushed.next = m - n /\ flushed.next # 0 /\ flushed.next \in Nat
  <2> DEFINE k == m - n
  <2>1. k \in 0 .. SeqMax /\ m = n + k /\ k # 0
    BY <1>1, <1>12, <1>16
  <2> HIDE DEF k
  <2>2. Number(off, n + k) = IF Number(off, n) + k <= SeqMax THEN Number(off, n) + k
                             ELSE Number(off, n) + k - (SeqMax + 1)
    BY <1>1, <2>1, NumberAhead
  <2>4. Number(off, n + k) = k
    BY <1>1, <1>2, <2>1, <2>2
  <2>3. flushed.next = Number(off, m)
    BY <1>12 DEF InStep, m
  <2> QED
    BY <1>1, <1>12, <2>1, <2>3, <2>4
<1>18. ASSUME NEW q \in flushed.cache
       PROVE  q \in st.cache /\ q.id >= m /\ q.id \in Nat /\ q.seq = q.id - n
  BY <1>3, <1>8, <1>12
<1>19. m \notin Ids(st.cache)
  <2> SUFFICES ASSUME NEW q \in st.cache, q.id = m PROVE FALSE
    BY DEF Ids
  <2>1. CASE q = first
    BY <1>1, <1>6, <1>12, <2>1
  <2>2. CASE q # first
    <3>1. q \in flushed.cache
      BY <1>7, <1>12, <2>2
    <3>2. q.id = Len(flushed.out)
      BY DEF m
    <3>3. q.seq = Number(off, m)
      BY <1>2 DEF InStep
    <3>4. m \in Ids(flushed.cache)
      BY <3>1 DEF Ids
    <3>5. flushed.next = 0
      <4>1. FlushPacket(popped) = flushed
        BY DEF flushed
      <4> QED
        BY <1>7, <1>10, <1>11, <3>4, <4>1, FlushInStep DEF m
    <3> QED
      BY <1>17, <3>5
  <2> QED
    BY <2>1, <2>2
<1>20. ASSUME NEW q \in flushed.cache PROVE q.id <= m + MaxDistance /\ q \in near
  <2>1. q.id < snt /\ q.id >= m /\ q.id \in Nat
    BY <1>18 DEF Accounted
  <2>2. m \in n .. (snt - 1)
    <3>1. m \in Nat /\ m >= n + 1
      BY <1>12
    <3>2. n \in Nat
      BY <1>1
    <3>3. m <= snt - 1
      BY <2>1, <3>1
    <3> QED
      BY <3>1, <3>2, <3>3
  <2>3. m \in Ids(fl)
    BY <1>19, <2>2 DEF Accounted, n
  <2>4. snt <= m + Window
    BY <2>3 DEF Accounted, Ids
  <2> DEFINE k == q.id - m
  <2>5. k \in Nat /\ k <= MaxDistance /\ 2 * k <= SeqMax
    BY <1>1, <1>12, <2>1, <2>4, SMTT(30)
  <2>6. q.seq = flushed.next + k /\ flushed.next \in 0 .. SeqMax
    BY <1>1, <1>12, <1>13, <1>17, <1>18 DEF Sound, Sorters
  <2>7. q.seq \in 0 .. SeqMax
    BY <1>0, <1>18 DEF Packets
  <2> HIDE DEF k
  <2>8. q.seq = IF flushed.next + k <= SeqMax THEN flushed.next + k
                ELSE flushed.next + k - (SeqMax + 1)
    BY <1>1, <2>6, <2>7
  <2>9. Distance(flushed.next, q.seq) \in 0 .. k
    BY <2>5, <2>6, <2>8, DistanceAhead
  <2>10. Distance(flushed.next, q.seq) <= MaxDistance
    BY <1>1, <2>5, <2>9
  <2> QED
    BY <1>1, <1>12, <2>1, <2>5, <2>10 DEF k
<1>21. r = [flushed EXCEPT !.cache = flushed.cache]
  <2>1. near = flushed.cache
    BY <1>20
  <2> QED
    BY <1>14, <2>1
<1>22. r.out = flushed.out /\ r.next = flushed.next /\ r.cache = flushed.cache /\ r.drops = {}
  BY <1>13, <1>21 DEF Sound, Sorters
<1>23. InStep(r, off) /\ Len(r.out) = m /\ m \notin Ids(r.cache)
  <2>1. m \notin Ids(flushed.cache)
    BY <1>18, <1>19 DEF Ids
  <2> QED
    BY <1>12, <1>22, <2>1 DEF InStep, m
<1>24. \A q \in r.cache : q.id < snt /\ q.id <= m + MaxDistance
  BY <1>18, <1>20, <1>22 DEF Accounted
<1>25. ASSUME NEW q \in fl
       PROVE  /\ q.seq = Number(off, q.id) /\ m <= q.id /\ q.id < snt
              /\ snt <= q.id + Window /\ q.id \notin Ids(r.cache)
  <2>1. /\ q.seq = Number(off, q.id) /\ n <= q.id /\ q.id < snt /\ snt <= q.id + Window
        /\ q.id \notin Ids(st.cache) /\ q.id \in Nat
    BY DEF Accounted, n, Packets
  <2>2. m <= q.id
    <3> SUFFICES ASSUME q.id < m PROVE FALSE
      BY <1>12, <2>1
    <3>1. q.id \in n .. (m - 1)
      BY <1>1, <1>12, <2>1
    <3> QED
      BY <1>15, <2>1, <3>1
  <2>3. q.id \notin Ids(r.cache)
    BY <1>18, <1>22, <2>1 DEF Ids
  <2> QED
    BY <2>1, <2>2, <2>3
<1>26. ASSUME NEW id \in m .. (snt - 1) PROVE id \in Ids(fl) \cup Ids(r.cache)
  <2>1. id \in n .. (snt - 1) /\ id >= m /\ id \in Nat
    BY <1>1, <1>12
  <2>2. id \in Ids(fl) \cup Ids(st.cache)
    BY <2>1 DEF Accounted, n
  <2>3. ASSUME NEW q \in st.cache, q.id = id PROVE q \in r.cache
    <3>1. q # first
      BY <1>1, <1>6, <1>12, <2>1, <2>3
    <3> QED
      BY <1>7, <1>12, <1>22, <2>1, <2>3, <3>1
  <2> QED
    BY <2>2, <2>3 DEF Ids
<1>27. m <= snt
  <2>1. m - 1 \in n .. (m - 1)
    BY <1>1, <1>12, SMTT(30)
  <2>2. PICK q \in st.cache : q.id = m - 1
    BY <1>15, <2>1 DEF Ids
  <2>3. q.id < snt
    BY <2>2 DEF Accounted
  <2> QED
    BY <1>12, <2>2, <2>3
<1> QED
  BY <1>22, <1>23, <1>24, <1>25, <1>26, <1>27, Zenon DEF Steady, Accounted, r

\* _pkt_sort_cache_map.emplace()
Hold(st, p) == [st EXCEPT !.cache = Emplace(@, p)]

IsHeld(st, p, off, fl, snt) ==
  /\ Sound(Hold(st, p)) /\ Accounted(Hold(st, p), off, fl \ {p}, snt)
  /\ Hold(st, p).cache = st.cache \cup {p} /\ Hold(st, p).out = st.out
  /\ Hold(st, p).next = st.next

\* A packet that is held and taken off the network stays accounted for.
LEMMA HoldAccounted ==
  ASSUME Room, NEW st, Sound(st), NEW off \in Nat, NEW fl \in SUBSET Packets, NEW snt \in Nat,
         Steady(st, off, fl, snt), NEW p \in fl, p.id # Len(st.out)
  PROVE  IsHeld(st, p, off, fl, snt)
<1> DEFINE n    == Len(st.out)
           held == Hold(st, p)
<1>1. /\ n \in Nat /\ MaxDistance \in Nat /\ SeqMax \in Nat
      /\ 2 * MaxDistance + 1 <= SeqMax
  <2>1. MaxDistance \in Nat /\ SeqMax \in Nat /\ 4 * MaxDistance + 2 <= SeqMax
    BY Assumption DEF Room
  <2>2. n \in Nat
    BY DEF Sound, Sorters
  <2> HIDE DEF n
  <2> QED
    BY <2>1, <2>2
<1>2. /\ p.id \in Nat /\ p.id >= n /\ p.id <= n + 2 * MaxDistance + 1
  BY ArrivalBound
<1>3. p.seq = Number(off, p.id) /\ p.id < snt /\ p.id \notin Ids(st.cache)
  BY DEF Steady, Accounted
<1>4. ASSUME NEW q \in st.cache
      PROVE  /\ q.id \in Nat /\ n <= q.id /\ q.id <= n + MaxDistance /\ q.id # p.id
             /\ q.seq = Number(off, q.id)
  BY <1>3 DEF Sound, Sorters, Packets, Steady, Accounted, InStep, Ids
<1> HIDE DEF n
<1>5. ASSUME NEW q \in st.cache PROVE q.seq # p.seq
  <2>1. q.id \in Nat /\ n <= q.id /\ q.id <= n + MaxDistance /\ q.id # p.id
    BY <1>4
  <2>2. CASE q.id < p.id
    <3>1. p.id <= q.id + SeqMax
      BY <1>1, <1>2, <2>1
    <3> QED
      BY <1>2, <1>3, <1>4, <2>1, <2>2, <3>1, NumbersDiffer
  <2>3. CASE p.id < q.id
    <3>1. q.id <= p.id + SeqMax
      BY <1>1, <1>2, <2>1
    <3> QED
      BY <1>2, <1>3, <1>4, <2>1, <2>3, <3>1, NumbersDiffer
  <2> QED
    BY <1>2, <2>1, <2>2, <2>3
<1>6. Emplace(st.cache, p) = st.cache \cup {p}
  BY <1>5 DEF Emplace, Seqs
<1>7. /\ st.cache \in SUBSET Packets /\ IsFiniteSet(st.cache) /\ p \in Packets
  BY DEF Sound, Sorters
<1>8. IsFiniteSet(st.cache \cup {p})
  BY <1>6, <1>7, EmplaceFacts
<1>9. /\ Sound(held) /\ held.cache = st.cache \cup {p} /\ held.out = st.out
      /\ held.next = st.next /\ held.drops = st.drops
  BY <1>6, <1>7, <1>8 DEF Sound, Sorters, Hold
<1> HIDE DEF held
<1>10. InStep(held, off)
  <2>1. /\ \A i \in 1 .. n : st.out[i] = i - 1
        /\ st.next = Number(off, n)
    BY DEF Steady, Accounted, InStep, n
  <2>2. \A q \in held.cache : q.seq = Number(off, q.id) /\ n <= q.id
    BY <1>1, <1>2, <1>3, <1>4, <1>9
  <2> QED
    BY <1>9, <2>1, <2>2 DEF InStep, n
<1>11. held.drops = {} /\ n <= snt /\ \A q \in held.cache : q.id < snt
  BY <1>3, <1>9 DEF Steady, Accounted, n
<1>12. ASSUME NEW q \in fl \ {p}
       PROVE  /\ q.seq = Number(off, q.id) /\ n <= q.id /\ q.id < snt
              /\ snt <= q.id + Window /\ q.id \notin Ids(held.cache)
  <2>1. /\ q.seq = Number(off, q.id) /\ n <= q.id /\ q.id < snt /\ snt <= q.id + Window
        /\ q.id \notin Ids(st.cache)
    BY DEF Steady, Accounted, n
  <2>2. q.id # p.id
    <3> SUFFICES ASSUME q.id = p.id PROVE FALSE
      OBVIOUS
    <3>1. q.seq = p.seq /\ q \in Packets
      BY <1>3, <2>1
    <3> QED
      BY <1>7, <3>1 DEF Packets
  <2> QED
    BY <1>9, <2>1, <2>2 DEF Ids
<1>13. ASSUME NEW id \in n .. (snt - 1) PROVE id \in Ids(fl \ {p}) \cup Ids(held.cache)
  <2>1. id \in Ids(fl) \cup Ids(st.cache)
    BY DEF Steady, Accounted, n
  <2> QED
    BY <1>9, <2>1 DEF Ids
<1>14. Accounted(held, off, fl \ {p}, snt)
  BY <1>9, <1>10, <1>11, <1>12, <1>13, Zenon DEF Accounted, n
<1> QED
  BY <1>9, <1>14 DEF held, IsHeld

\* As many packets as have different places within the window.
LEMMA WindowFull ==
  ASSUME NEW off \in Nat, NEW n \in Nat, NEW map \in SUBSET Packets, IsFiniteSet(map),
         Window \in Nat \ {0},
         \A q \in map : q.seq = Number(off, q.id) /\ q.id \in (n + 1) .. (n + Window - 1)
  PROVE  Cardinality(map) \in Nat /\ Cardinality(map) <= Window - 1
<1> DEFINE T == (n + 1) .. (n + Window - 1)
           f == [q \in map |-> q.id]
<1>1. f \in Injection(map, T)
  <2>1. f \in [map -> T]
    OBVIOUS
  <2>2. ASSUME NEW q \in map, NEW r \in map, q.id = r.id PROVE q = r
    BY <2>2 DEF Packets
  <2> QED
    BY <2>1, <2>2 DEF Injection, IsInjective
<1>2. n + 1 \in Int /\ n + Window - 1 \in Int
  OBVIOUS
<1>3. IsFiniteSet(T) /\ Cardinality(T) = IF n + 1 > n + Window - 1 THEN 0
                                         ELSE n + Window - 1 - (n + 1) + 1
  BY <1>2, FS_Interval
<1>4. Cardinality(T) = Window - 1
  BY <1>3
<1> HIDE DEF T, f
<1>5. Cardinality(map) <= Cardinality(T)
  BY <1>1, <1>3, FS_Injection
<1>6. Cardinality(map) \in Nat
  BY FS_CardinalityType
<1> QED
  BY <1>4, <1>5, <1>6

\* The branch of sortPacket() for a packet ahead of the next one, or around the wrap.
LEMMA AheadSteady ==
  ASSUME Room, NEW st, Sound(st), NEW off \in Nat, NEW fl \in SUBSET Packets, NEW snt \in Nat,
         Steady(st, off, fl, snt), NEW p \in fl, p.id # Len(st.out)
  PROVE  Steady(Ahead(st, p, FALSE), off, fl \ {p}, snt)
<1>0. /\ Sound(Hold(st, p)) /\ Accounted(Hold(st, p), off, fl \ {p}, snt)
      /\ Hold(st, p).cache = st.cache \cup {p} /\ Hold(st, p).out = st.out
      /\ Hold(st, p).next = st.next
  <2>1. IsHeld(st, p, off, fl, snt)
    BY HoldAccounted, Zenon
  <2> QED
    BY <2>1 DEF IsHeld
<1> DEFINE n    == Len(st.out)
           held == Hold(st, p)
           k    == p.id - n
           full == \/ Cardinality(held.cache) > MaxBufferSize
                   \/ Distance(st.next, p.seq) > MaxDistance
<1>1. /\ n \in Nat /\ MaxDistance \in Nat /\ SeqMax \in Nat /\ MaxBufferSize \in Nat
      /\ Window \in Nat \ {0} /\ Window <= MaxDistance + 1 /\ Window <= MaxBufferSize + 1
      /\ 4 * MaxDistance + 2 <= SeqMax
  BY Assumption DEF Sound, Sorters, Room
<1>2. /\ p.id \in Nat /\ p.id >= n /\ p.id <= n + 2 * MaxDistance + 1
      /\ n \notin Ids(st.cache) => snt <= n + Window
  BY ArrivalBound
<1>3. /\ Sound(held) /\ Accounted(held, off, fl \ {p}, snt)
      /\ held.cache = st.cache \cup {p} /\ held.out = st.out /\ held.next = st.next
  BY <1>0
<1>4. p.seq = Number(off, p.id) /\ st.next = Number(off, n) /\ p.id < snt
  BY DEF Steady, Accounted, InStep
<1>5. Ahead(st, p, FALSE) = IF full THEN ForceFlush(held) ELSE held
  BY DEF Ahead, Hold
<1> HIDE DEF held, n
<1>6. \A q \in st.cache : q.id \in Nat /\ n <= q.id /\ q.id <= n + MaxDistance /\ q.id < snt
  BY DEF Sound, Sorters, Packets, Steady, Accounted, InStep, n
<1>7. /\ k \in 1 .. (2 * MaxDistance + 1) /\ 2 * k <= SeqMax /\ k \in 0 .. SeqMax
      /\ p.id = n + k
  <2>1. p.id # n
    BY DEF n
  <2>2. k \in 1 .. (2 * MaxDistance + 1) /\ p.id = n + k
    BY <1>1, <1>2, <2>1
  <2> HIDE DEF k
  <2>3. 2 * k <= SeqMax /\ k \in 0 .. SeqMax
    BY <1>1, <2>2
  <2> QED
    BY <2>2, <2>3
<1> HIDE DEF k
<1>8. /\ st.next \in 0 .. SeqMax
      /\ p.seq = IF st.next + k <= SeqMax THEN st.next + k ELSE st.next + k - (SeqMax + 1)
  BY <1>1, <1>4, <1>7, NumberAhead
<1>9. /\ Distance(st.next, p.seq) \in 0 .. k
      /\ st.next + k <= SeqMax => Distance(st.next, p.seq) = k
  <2>1. k \in Nat
    BY <1>7
  <2> QED
    BY <1>7, <1>8, <2>1, DistanceAhead
<1>10. CASE n \notin Ids(st.cache)
  <2>1. snt <= n + Window /\ k <= MaxDistance
    BY <1>1, <1>2, <1>4, <1>7, <1>10
  <2>2. ~ (Distance(st.next, p.seq) > MaxDistance)
    BY <1>1, <1>7, <1>9, <2>1
  <2>3. ASSUME NEW q \in held.cache
        PROVE  q.seq = Number(off, q.id) /\ q.id \in (n + 1) .. (n + Window - 1)
    <3>1. q.id \in Nat /\ n <= q.id /\ q.id < snt
      BY <1>2, <1>3, <1>4, <1>6
    <3>2. q.id # n
      BY <1>3, <1>7, <1>10 DEF Ids, n
    <3>3. q.seq = Number(off, q.id)
      BY <1>3 DEF Accounted, InStep
    <3> QED
      BY <1>1, <2>1, <3>1, <3>2, <3>3
  <2>4. held.cache \in SUBSET Packets /\ IsFiniteSet(held.cache)
    BY <1>3 DEF Sound, Sorters
  <2>5. Cardinality(held.cache) \in Nat /\ Cardinality(held.cache) <= Window - 1
    BY <1>1, <2>3, <2>4, WindowFull
  <2>6. Ahead(st, p, FALSE) = held
    <3>1. ~ (Cardinality(held.cache) > MaxBufferSize)
      BY <1>1, <2>5
    <3> QED
      BY <1>5, <2>2, <3>1
  <2>7. n \notin Ids(held.cache)
    BY <1>1, <2>3 DEF Ids
  <2>8. \A q \in held.cache : q.id <= n + MaxDistance
    BY <1>1, <1>3, <1>6, <1>7, <2>1
  <2> QED
    BY <1>3, <2>6, <2>7, <2>8 DEF Steady, n
<1>11. CASE n \in Ids(st.cache)
  <2>1. st.next = 0
    BY <1>11 DEF Steady, n
  <2>2. Distance(st.next, p.seq) = k
    BY <1>1, <1>7, <1>9, <2>1
  <2>3. n \in Ids(held.cache)
    BY <1>3, <1>11 DEF Ids
  <2>4. CASE full
    <3>1. \A q \in held.cache : q.id <= n + 2 * MaxDistance + 1
      BY <1>1, <1>2, <1>3, <1>6
    <3>2. fl \ {p} \in SUBSET Packets
      OBVIOUS
    <3>3. Steady(ForceFlush(held), off, fl \ {p}, snt)
      BY <1>3, <2>1, <2>3, <3>1, <3>2, ForceFlushSteady DEF n
    <3> QED
      BY <1>5, <2>4, <3>3
  <2>5. CASE ~ full
    <3>1. k <= MaxDistance
      BY <1>1, <1>7, <2>2, <2>5
    <3>2. \A q \in held.cache : q.id <= n + MaxDistance
      BY <1>1, <1>3, <1>6, <1>7, <3>1
    <3>3. Steady(held, off, fl \ {p}, snt)
      BY <1>3, <2>1, <3>2 DEF Steady, n
    <3> QED
      BY <1>5, <2>5, <3>3
  <2> QED
    BY <2>4, <2>5
<1> QED
  BY <1>10, <1>11

\* The call of sortPacket() for a packet that is not the first one.
LEMMA SortPacketSteady ==
  ASSUME Room, NEW st, Sound(st), NEW off \in Nat, NEW fl \in SUBSET Packets, NEW snt \in Nat,
         Steady(st, off, fl, snt), st.started, NEW p \in fl
  PROVE  Steady(SortPacket(st, p, FALSE), off, fl \ {p}, snt)
<1> DEFINE n == Len(st.out)
           k == p.id - n
<1>1. /\ n \in Nat /\ MaxDistance \in Nat /\ SeqMax \in Nat /\ Window <= MaxDistance + 1
      /\ Window \in Nat /\ 4 * MaxDistance + 2 <= SeqMax
  BY Assumption DEF Sound, Sorters, Room
<1>2. Begun(st, p) = st
  BY DEF Begun
<1>3. p.seq = Number(off, p.id) /\ st.next = Number(off, n) /\ p.id < snt
  BY DEF Steady, Accounted, InStep
<1>4. /\ p.id \in Nat /\ p.id >= n /\ p.id <= n + 2 * MaxDistance + 1
      /\ n \notin Ids(st.cache) => snt <= n + Window
  BY ArrivalBound
<1>5. CASE p.id = n
  <2>1. SortPacket(st, p, FALSE) = InTurn(st, p)
    BY <1>2, <1>3, <1>5 DEF SortPacket
  <2> QED
    BY <1>5, <2>1, InTurnSteady
<1>6. CASE p.id # n
  <2>1. Steady(Ahead(st, p, FALSE), off, fl \ {p}, snt)
    BY <1>6, AheadSteady, Zenon
  <2>2. n \in Ids(st.cache) => st.next = 0
    BY DEF Steady
  <2> HIDE DEF n
  <2>3. k \in 1 .. (2 * MaxDistance + 1) /\ p.id = n + k
    BY <1>1, <1>4, <1>6
  <2>4. n \notin Ids(st.cache) => k <= MaxDistance
    BY <1>1, <1>3, <1>4
  <2> HIDE DEF k
  <2>5. k \in 0 .. SeqMax
    BY <1>1, <2>3
  <2>6. /\ st.next \in 0 .. SeqMax
        /\ p.seq = IF st.next + k <= SeqMax THEN st.next + k ELSE st.next + k - (SeqMax + 1)
    BY <1>1, <1>3, <2>3, <2>5, NumberAhead
  <2>7. p.seq # st.next
    BY <1>1, <2>3, <2>5, <2>6
  <2>8. ~ (p.seq < st.next /\ ~ MayLooped(st.next, p.seq))
    <3>1. CASE n \in Ids(st.cache)
      BY <1>1, <2>2, <2>3, <2>5, <2>6, <3>1
    <3>2. CASE n \notin Ids(st.cache)
      BY <1>1, <2>3, <2>4, <2>5, <2>6, <3>2 DEF MayLooped
    <3> QED
      BY <3>1, <3>2
  <2>9. SortPacket(st, p, FALSE) = Ahead(st, p, FALSE)
    BY <1>2, <2>7, <2>8 DEF SortPacket
  <2> QED
    BY <2>1, <2>9
<1> QED
  BY <1>5, <1>6

----------------------------------------------------------------------------
(* The invariant on such a network                                         *)

\* A sorter that waits for the first packet of the stream is one whose next packet it is.
Ready(st, off) == IF st.started THEN st ELSE [st EXCEPT !.next = Number(off, 0)]

\* While the network only reorders, the sorter is in step.
Reordering ==
  calm /\ lost = {} =>
    /\ ~ sorter.started => sorter.out = << >> /\ sorter.cache = {}
    /\ Steady(Ready(sorter, offset), offset, flight, sent)

\* Waiting for the first packet changes nothing but the next number.
LEMMA ReadyFacts ==
  ASSUME NEW st, Sound(st), NEW off \in Nat
  PROVE  /\ Sound(Ready(st, off)) /\ Ready(st, off).out = st.out
         /\ Ready(st, off).cache = st.cache /\ Ready(st, off).drops = st.drops
         /\ ~ st.started => Ready(st, off).next = Number(off, 0)
<1>1. 0 \in Nat /\ 0 \in 0 .. SeqMax
  BY Assumption
<1>2. Number(off, 0) \in 0 .. SeqMax
  BY <1>1, NumberAhead
<1> QED
  BY <1>2 DEF Ready, Sound, Sorters

LEMMA InitReordering == Init => Reordering
<1> SUFFICES ASSUME Init PROVE Reordering
  OBVIOUS
<1>1. Sound(sorter) /\ offset \in Nat
  BY InitIInv DEF IInv, TypeOK
<1> DEFINE st == Ready(sorter, offset)
<1>2. /\ st.out = << >> /\ st.cache = {} /\ st.drops = {} /\ st.next = Number(offset, 0)
  BY <1>1, ReadyFacts DEF Init
<1> HIDE DEF st
<1>3. Len(st.out) = 0
  BY <1>2
<1>4. InStep(st, offset)
  BY <1>2, <1>3 DEF InStep
<1>5. Ids(st.cache) = {}
  BY <1>2 DEF Ids
<1>6. Steady(st, offset, {}, 0)
  BY <1>2, <1>3, <1>4, <1>5 DEF Steady, Accounted
<1> QED
  BY <1>6 DEF Init, Reordering, st

\* The sender sends the next packet.
LEMMA SendSteady ==
  ASSUME Room, NEW st, Sound(st), NEW off \in Nat, NEW fl \in SUBSET Packets, NEW snt \in Nat,
         Steady(st, off, fl, snt), \A q \in fl : q.id + Window > snt
  PROVE  Steady(st, off, fl \cup {[seq |-> Number(off, snt), id |-> snt]}, snt + 1)
<1> DEFINE n    == Len(st.out)
           p    == [seq |-> Number(off, snt), id |-> snt]
           more == fl \cup {p}
<1>1. n \in Nat /\ n <= snt /\ Window \in Nat \ {0}
  BY Assumption DEF Sound, Sorters, Room, Steady, Accounted
<1>2. p.seq = Number(off, snt) /\ p.id = snt
  OBVIOUS
<1> HIDE DEF p
<1>3. ASSUME NEW q \in st.cache PROVE q.id \in Nat /\ q.id < snt + 1 /\ q.id # snt
  <2>1. q.id \in Nat /\ q.id < snt
    BY DEF Sound, Sorters, Packets, Steady, Accounted
  <2> QED
    BY <2>1
<1>4. ASSUME NEW q \in more
      PROVE  /\ q.seq = Number(off, q.id) /\ n <= q.id /\ q.id < snt + 1
             /\ snt + 1 <= q.id + Window /\ q.id \notin Ids(st.cache)
  <2>1. CASE q = p
    BY <1>1, <1>2, <1>3, <2>1 DEF Ids
  <2>2. CASE q \in fl
    <3>1. /\ q.seq = Number(off, q.id) /\ n <= q.id /\ q.id < snt /\ q.id \in Nat
          /\ q.id \notin Ids(st.cache) /\ q.id + Window > snt
      BY <2>2 DEF Steady, Accounted, Packets
    <3> QED
      BY <1>1, <3>1
  <2> QED
    BY <2>1, <2>2
<1>5. ASSUME NEW id \in n .. ((snt + 1) - 1) PROVE id \in Ids(more) \cup Ids(st.cache)
  <2>1. CASE id = snt
    BY <1>2, <2>1 DEF Ids
  <2>2. CASE id # snt
    <3>1. id \in n .. (snt - 1)
      BY <1>1, <2>2
    <3>2. id \in Ids(fl) \cup Ids(st.cache)
      BY <3>1 DEF Steady, Accounted
    <3> QED
      BY <3>2 DEF Ids
  <2> QED
    BY <2>1, <2>2
<1>6. n <= snt + 1
  BY <1>1
<1>7. InStep(st, off) /\ st.drops = {}
  BY DEF Steady, Accounted
<1> HIDE DEF more, n
<1>8. Accounted(st, off, more, snt + 1)
  <2>1. \A q \in st.cache : q.id < snt + 1
    BY <1>3
  <2>2. /\ \A q \in more : /\ q.seq = Number(off, q.id) /\ n <= q.id /\ q.id < snt + 1
                            /\ snt + 1 <= q.id + Window /\ q.id \notin Ids(st.cache)
        /\ \A id \in n .. ((snt + 1) - 1) : id \in Ids(more) \cup Ids(st.cache)
    BY <1>4, <1>5, Zenon
  <2> QED
    BY <1>6, <1>7, <2>1, <2>2, Zenon DEF Accounted, n
<1>9. /\ \A q \in st.cache : q.id <= Len(st.out) + MaxDistance
      /\ Len(st.out) \in Ids(st.cache) => st.next = 0
  BY DEF Steady
<1> QED
  BY <1>8, <1>9 DEF Steady, more, p

\* sortPacket() leaves _started alone but for the first packet.
LEMMA FlushPacketStarted ==
  ASSUME NEW st, Sound(st) PROVE FlushPacket(st).started = st.started
  BY DEF FlushPacket, Sound, Sorters

LEMMA PopStarted ==
  ASSUME NEW st, Sound(st), NEW p PROVE Pop(st, p).started = st.started
  BY DEF Pop, Output, Sound, Sorters

LEMMA ForceFlushStarted ==
  ASSUME NEW st, Sound(st) PROVE ForceFlush(st).started = st.started
<1>1. CASE st.cache = {}
  BY <1>1 DEF ForceFlush
<1>2. CASE st.cache # {}
  <2> DEFINE ahead == {p \in st.cache : p.seq >= st.next}
             first == Lowest(IF ahead = {} THEN st.cache ELSE ahead)
             popped  == Pop(st, first)
             flushed == FlushPacket(popped)
             near == {p \in flushed.cache : Distance(flushed.next, p.seq) <= MaxDistance}
  <2>1. first \in st.cache
    <3>1. st.cache \in SUBSET Packets /\ ahead \in SUBSET Packets /\ ahead \subseteq st.cache
      BY DEF Sound, Sorters
    <3> QED
      BY <1>2, <3>1, LowestIsIn
  <2> HIDE DEF first
  <2>2. Sound(popped) /\ popped.started = st.started
    BY <2>1, PopFacts, PopStarted
  <2> HIDE DEF popped
  <2>3. Sound(flushed) /\ flushed.started = st.started
    BY <2>2, FlushPacketFacts, FlushPacketStarted
  <2> HIDE DEF flushed
  <2>4. ForceFlush(st) = [flushed EXCEPT !.cache = near]
    BY <1>2 DEF ForceFlush, first, popped, flushed
  <2> HIDE DEF near
  <2> QED
    BY <2>3, <2>4 DEF Sound, Sorters
<1> QED
  BY <1>1, <1>2

LEMMA SortPacketStarted ==
  ASSUME NEW st, Sound(st), WithinLimits(st), NEW p \in Packets
  PROVE  SortPacket(st, p, FALSE).started
<1> DEFINE begun == Begun(st, p)
           drops == Emplace(begun.drops, p)
           fresh == [ForceFlush(begun) EXCEPT !.cache = drops, !.drops = {}]
           held  == [begun EXCEPT !.cache = Emplace(@, p)]
           out   == Output(begun, p)
<1>1. Sound(begun)
  BY BegunFacts
<1>2. begun.started
  BY DEF Begun, Sound, Sorters
<1>3. /\ begun.cache \in SUBSET Packets /\ IsFiniteSet(begun.cache)
      /\ begun.drops \in SUBSET Packets /\ IsFiniteSet(begun.drops)
  BY <1>1 DEF Sound, Sorters
<1> HIDE DEF begun
<1>4. InTurn(begun, p).started
  <2>1. Sound(out) /\ out.started
    BY <1>1, <1>2, OutputFacts DEF Output, Sound, Sorters
  <2> HIDE DEF out
  <2>2. Sound(FlushPacket(out)) /\ FlushPacket(out).started
    BY <2>1, FlushPacketFacts, FlushPacketStarted
  <2> QED
    BY <2>2 DEF InTurn, out, Sound, Sorters
<1>5. Behind(begun, p, FALSE).started
  <2>1. drops \in SUBSET Packets /\ drops # {} /\ IsFiniteSet(drops)
    BY <1>3, EmplaceFacts
  <2>2. Behind(begun, p, FALSE) \in {Pop(fresh, Lowest(drops)), [begun EXCEPT !.drops = drops]}
    BY DEF Behind
  <2> HIDE DEF drops
  <2>3. Sound(fresh) /\ fresh.started
    <3>1. Sound(ForceFlush(begun)) /\ ForceFlush(begun).started
      BY <1>1, <1>2, ForceFlushFacts, ForceFlushStarted
    <3> QED
      BY <2>1, <3>1, FS_EmptySet DEF Sound, Sorters
  <2> HIDE DEF fresh
  <2>4. Pop(fresh, Lowest(drops)).started
    BY <2>3, PopStarted
  <2>5. [begun EXCEPT !.drops = drops].started
    BY <1>1, <1>2 DEF Sound, Sorters
  <2> QED
    BY <2>2, <2>4, <2>5
<1>6. Ahead(begun, p, FALSE).started
  <2>1. Ahead(begun, p, FALSE) \in {ForceFlush(held), held}
    BY DEF Ahead
  <2>2. Sound(held) /\ held.started
    BY <1>1, <1>2, <1>3, EmplaceFacts DEF Sound, Sorters
  <2> HIDE DEF held
  <2> QED
    BY <2>1, <2>2, ForceFlushStarted
<1> QED
  BY <1>4, <1>5, <1>6 DEF SortPacket, begun

\* The first packet of the stream, which nothing overtook, starts the sorter with its number.
LEMMA FirstSteady ==
  ASSUME Room, NEW st, Sound(st), NEW off \in Nat, NEW fl \in SUBSET Packets, NEW snt \in Nat,
         Steady(Ready(st, off), off, fl, snt), ~ st.started, st.out = << >>, st.cache = {},
         NEW p \in fl, \A q \in fl : ~ (q.id < p.id)
  PROVE  Steady(SortPacket(st, p, FALSE), off, fl \ {p}, snt)
<1> DEFINE r == Ready(st, off)
           b == Begun(st, p)
<1>1. r.out = << >> /\ r.cache = {} /\ r.drops = st.drops /\ Sound(r)
      /\ r.next = Number(off, 0)
  BY ReadyFacts
<1>2. p.id = 0 /\ p.seq = Number(off, 0)
  <2>1. Len(r.out) = 0 /\ Ids(r.cache) = {}
    BY <1>1 DEF Ids
  <2>2. p.id < snt /\ p.id \in Nat /\ p.seq = Number(off, p.id)
    BY DEF Steady, Accounted, Packets
  <2>3. 0 \in 0 .. (snt - 1)
    BY <2>2
  <2>4. 0 \in Ids(fl)
    BY <2>1, <2>3 DEF Steady, Accounted
  <2>5. ~ (0 < p.id)
    BY <2>4 DEF Ids
  <2> QED
    BY <2>2, <2>5
<1>3. b = [r EXCEPT !.started = TRUE]
  BY <1>2 DEF Begun, Ready, Sound, Sorters
<1> HIDE DEF b, r
<1>4. /\ Sound(b) /\ b.started /\ b.out = r.out /\ b.cache = r.cache /\ b.drops = r.drops
      /\ b.next = r.next
  BY <1>1, <1>3 DEF Sound, Sorters
<1>5. Steady(b, off, fl, snt)
  <2>1. Steady(r, off, fl, snt)
    BY DEF r
  <2> QED
    BY <1>4, <2>1 DEF Steady, Accounted, InStep
<1>6. Steady(SortPacket(b, p, FALSE), off, fl \ {p}, snt)
  BY <1>4, <1>5, SortPacketSteady
<1>7. SortPacket(b, p, FALSE) = SortPacket(st, p, FALSE)
  <2>1. Begun(b, p) = b
    BY <1>4 DEF Begun
  <2> QED
    BY <2>1 DEF SortPacket, b
<1> QED
  BY <1>6, <1>7

LEMMA ReceiveReordering ==
  ASSUME Room, IInv, Reordering, NEW p \in flight, NEW quiet \in BOOLEAN,
         NEW copy \in BOOLEAN, Receive(p, quiet, copy)
  PROVE  Reordering'
<1> SUFFICES ASSUME calm', lost' = {} PROVE Reordering'
  BY DEF Reordering
<1>1. ~ (quiet \/ copy \/ Overtaken(p)) /\ calm /\ lost = {}
  BY DEF Receive, Disturb, Undisturbed
<1>2. /\ sorter' = SortPacket(sorter, p, FALSE) /\ flight' = flight \ {p}
      /\ offset' = offset /\ sent' = sent
  BY <1>1, Zenon DEF Receive
<1>3. /\ Sound(sorter) /\ WithinLimits(sorter) /\ offset \in Nat /\ sent \in Nat
      /\ flight \in SUBSET Packets /\ p \in Packets
  BY DEF IInv, TypeOK
<1>4. /\ ~ sorter.started => sorter.out = << >> /\ sorter.cache = {}
      /\ Steady(Ready(sorter, offset), offset, flight, sent)
  BY <1>1 DEF Reordering
<1>5. sorter'.started
  BY <1>2, <1>3, SortPacketStarted
<1>6. Steady(sorter', offset, flight \ {p}, sent)
  <2>1. CASE sorter.started
    <3>1. Steady(sorter, offset, flight, sent)
      BY <1>4, <2>1 DEF Ready
    <3> QED
      BY <1>2, <1>3, <2>1, <3>1, SortPacketSteady
  <2>2. CASE ~ sorter.started
    <3>1. \A q \in flight : ~ (q.id < p.id)
      BY <1>1, <2>2 DEF Overtaken
    <3> QED
      BY <1>2, <1>3, <1>4, <2>2, <3>1, FirstSteady
  <2> QED
    BY <2>1, <2>2
<1> QED
  BY <1>2, <1>5, <1>6 DEF Reordering, Ready

LEMMA SendReordering == ASSUME Room, IInv, Reordering, Send PROVE Reordering'
<1> SUFFICES ASSUME calm', lost' = {} PROVE Reordering'
  BY DEF Reordering
<1> DEFINE st == Ready(sorter, offset)
<1>1. /\ calm /\ lost = {} /\ sorter' = sorter /\ offset' = offset /\ sent' = sent + 1
      /\ flight' = flight \cup {[seq |-> Number(offset, sent), id |-> sent]}
      /\ \A p \in flight : p.id + Window > sent
  BY DEF Send, Number
<1>2. /\ Sound(sorter) /\ offset \in Nat /\ sent \in Nat /\ flight \in SUBSET Packets
  BY DEF IInv, TypeOK
<1>3. /\ ~ sorter.started => sorter.out = << >> /\ sorter.cache = {}
      /\ Steady(st, offset, flight, sent)
  BY <1>1 DEF Reordering
<1>4. Sound(st)
  BY <1>2, ReadyFacts
<1> HIDE DEF st
<1>5. Steady(st, offset, flight', sent + 1)
  BY <1>1, <1>2, <1>3, <1>4, SendSteady
<1>6. Steady(Ready(sorter', offset'), offset', flight', sent')
  BY <1>1, <1>5 DEF st
<1> QED
  BY <1>1, <1>3, <1>6 DEF Reordering

LEMMA NextReordering == ASSUME Room, IInv, Reordering, [Next]_vars PROVE Reordering'
<1>1. CASE Send
  BY <1>1, SendReordering
<1>2. ASSUME NEW p \in flight, Lose(p) PROVE Reordering'
  BY <1>2 DEF Lose, Reordering
<1>3. ASSUME NEW p \in flight, NEW quiet \in BOOLEAN, NEW copy \in BOOLEAN,
             Receive(p, quiet, copy)
      PROVE Reordering'
  BY <1>3, ReceiveReordering
<1>4. ASSUME NEW jump \in Jumps, Restart(jump) PROVE Reordering'
  BY <1>4 DEF Restart, Disturb, Reordering
<1>5. CASE Clear
  BY <1>5 DEF Clear, Disturb, Reordering
<1>6. CASE Flush
  BY <1>6 DEF Flush, Disturb, Reordering
<1>7. CASE UNCHANGED vars
  BY <1>7 DEF Reordering, vars
<1> QED
  BY <1>1, <1>2, <1>3, <1>4, <1>5, <1>6, <1>7 DEF Next

\* What being in step means for those who read the stream.
LEMMA ReorderingUndone ==
  ASSUME IInv, Reordering, lost = {}
  PROVE  InOrder /\ NothingDropped
<1> SUFFICES ASSUME calm PROVE InOrder /\ NothingDropped
  BY DEF InOrder, NothingDropped
<1> DEFINE n  == Len(sorter.out)
           st == Ready(sorter, offset)
<1>1. Sound(sorter) /\ n \in Nat /\ sorter.out \in Seq(Nat) /\ sent \in Nat
      /\ offset \in Nat /\ DOMAIN sorter.out = 1 .. n /\ flight \in SUBSET Packets
  BY DEF IInv, TypeOK, Sound, Sorters
<1>2. st.out = sorter.out /\ st.cache = sorter.cache
  BY <1>1, ReadyFacts
<1>3. Steady(st, offset, flight, sent)
  BY DEF Reordering
<1> HIDE DEF st
<1>4. \A i \in 1 .. n : sorter.out[i] = i - 1
  BY <1>2, <1>3 DEF Steady, Accounted, InStep
<1>5. n <= sent /\ \A id \in n .. (sent - 1) : id \in Ids(flight) \cup Ids(sorter.cache)
  BY <1>2, <1>3 DEF Steady, Accounted
<1>6. \A q \in flight : n <= q.id /\ q.id \notin Ids(sorter.cache)
  BY <1>2, <1>3 DEF Steady, Accounted
<1>7. \A q \in sorter.cache : q.id \in Nat /\ n <= q.id /\ q.id < sent
  BY <1>1, <1>2, <1>3 DEF Steady, Accounted, InStep, Sound, Sorters, Packets
<1> HIDE DEF n
<1>8. InOrder
  <2> SUFFICES ASSUME NEW i \in 1 .. n, NEW j \in 1 .. n, i < j
               PROVE  sorter.out[i] < sorter.out[j]
    BY <1>1 DEF InOrder
  <2>1. sorter.out[i] = i - 1 /\ sorter.out[j] = j - 1
    BY <1>4
  <2>2. i - 1 < j - 1
    BY <1>1
  <2> QED
    BY <2>1, <2>2
<1>9. HandedOn = 0 .. (n - 1)
  <2>1. ASSUME NEW id \in 0 .. (n - 1) PROVE id \in HandedOn
    <3>1. id + 1 \in 1 .. n
      BY <1>1
    <3>2. sorter.out[id + 1] = id
      BY <1>1, <1>4, <3>1
    <3> QED
      BY <1>1, <3>1, <3>2 DEF HandedOn
  <2>2. ASSUME NEW id \in HandedOn PROVE id \in 0 .. (n - 1)
    <3>1. PICK i \in 1 .. n : id = sorter.out[i]
      BY <1>1 DEF HandedOn
    <3> QED
      BY <1>1, <1>4, <3>1
  <2> QED
    BY <2>1, <2>2
<1>10. Received = Held \cup HandedOn
  <2>1. ASSUME NEW id \in Received PROVE id \in Held \cup HandedOn
    <3>1. id \in 0 .. (sent - 1) /\ id \notin Ids(flight)
      BY DEF Received, Ids
    <3>2. CASE id < n
      BY <1>1, <1>9, <3>1, <3>2
    <3>3. CASE ~ (id < n)
      <4>1. id \in n .. (sent - 1)
        BY <1>1, <3>1, <3>3
      <4> QED
        BY <1>5, <3>1, <4>1 DEF Ids, Held
    <3> QED
      BY <3>2, <3>3
  <2>2. ASSUME NEW id \in Held PROVE id \in Received
    <3>1. PICK q \in sorter.cache : id = q.id
      BY DEF Held
    <3>2. id \in 0 .. (sent - 1) /\ id \in Ids(sorter.cache)
      BY <1>1, <1>7, <3>1 DEF Ids
    <3> QED
      BY <1>6, <3>2 DEF Received
  <2>3. ASSUME NEW id \in HandedOn PROVE id \in Received
    <3>1. id \in 0 .. (sent - 1) /\ id < n
      BY <1>1, <1>5, <1>9
    <3>2. \A q \in flight : q.id # id
      BY <1>1, <1>6, <3>1 DEF Packets
    <3> QED
      BY <3>1, <3>2 DEF Received
  <2> QED
    BY <2>1, <2>2, <2>3
<1> QED
  BY <1>8, <1>10 DEF NothingDropped

----------------------------------------------------------------------------
(* The theorems                                                            *)

\* Every variable of the reorder buffer keeps its type: the next sequence number never leaves
\* its width, whichever branch of sortPacket() moved it.
THEOREM SorterTyping == Spec => []TypeOK
<1>1. IInv => TypeOK
  BY DEF IInv
<1> QED
  BY <1>1, InvariantHolds, PTL

\* Neither map of the reorder buffer grows beyond its limit, for any limits, any network and
\* any sender.
THEOREM BuffersBounded == Spec => []Bounded
<1>1. IInv => Bounded
  BY DEF IInv, WithinLimits, Bounded
<1> QED
  BY <1>1, InvariantHolds, PTL

\* The reorder buffer hands a packet on at the latest after MaxBufferSize + MaxDistance
\* packets of different sequence numbers, also when the sender restarts its counter.
THEOREM StreamGoesOn == Spec => []KeepsFlowing
<1>1. ASSUME IInv PROVE KeepsFlowing
  <2>1. /\ idle <= MaxBufferSize + Cardinality(sorter.drops) /\ idle \in Nat
        /\ Cardinality(sorter.drops) <= MaxDistance
        /\ Cardinality(sorter.drops) \in Nat /\ MaxBufferSize \in Nat /\ MaxDistance \in Nat
    BY <1>1, FS_CardinalityType, Assumption DEF IInv, TypeOK, Sound, WithinLimits, Waiting
  <2> QED
    BY <2>1 DEF KeepsFlowing
<1> QED
  BY <1>1, InvariantHolds, PTL

\* What the network only reorders comes out in the order it was sent in, each packet once, across
\* every wrap of the sequence number and however long the stream: for every width of the number
\* and all limits that leave Room for the reordering, as those of the code do.
THEOREM ReorderingIsUndone ==
  ASSUME Room
  PROVE  Spec => [](lost = {} => InOrder)
<1>1. IInv /\ Reordering /\ [Next]_vars => Reordering'
  BY NextReordering
<1>2. IInv /\ Reordering => (lost = {} => InOrder)
  BY ReorderingUndone
<1> QED
  BY <1>1, <1>2, InitReordering, InvariantHolds, PTL DEF Spec

\* Nor does reordering cost a packet: what has arrived is handed on or held, also when the next
\* packet waits behind the wrap and the buffer is forced to flush.
THEOREM ReorderingIsLossless ==
  ASSUME Room
  PROVE  Spec => [](lost = {} => NothingDropped)
<1>1. IInv /\ Reordering /\ [Next]_vars => Reordering'
  BY NextReordering
<1>2. IInv /\ Reordering => (lost = {} => NothingDropped)
  BY ReorderingUndone
<1> QED
  BY <1>1, <1>2, InitReordering, InvariantHolds, PTL DEF Spec

=============================================================================
