---------------------------- MODULE PacketSortor ----------------------------
(***************************************************************************)
(* PacketSortor of src/src/Rtsp/RtpReceiver.h: the reorder buffer between  *)
(* the network and the RTP depacketizers.  It is driven by one thread; the *)
(* order of its input is what the network makes of it.                     *)
(*                                                                         *)
(* A packet carries the sequence number the code sees and the number of    *)
(* the packet in the stream, id, which only the properties look at.        *)
(*                                                                         *)
(* The network is calm while packets overtake each other by less than      *)
(* Window and are lost now and then.  A copy, a pause of the stream longer *)
(* than _max_buffer_ms, a restart of the sender's counter, an overtaken    *)
(* first packet, and a call of clear() or flush(), are disturbances.       *)
(* Definitions whose names begin with Bug are mutants of the definition    *)
(* that follows them; no specification uses them.                          *)
(***************************************************************************)
EXTENDS Integers, Sequences, FiniteSets

CONSTANTS
  SeqMax,         \* SEQ_MAX (65535)
  MaxBufferSize,  \* _max_buffer_size (1024)
  MaxDistance,    \* _max_distance (256)
  Starts,         \* the first sequence number of the stream
  Jumps,          \* how far a restarted sender's counter is from where it was
  Window,         \* bound: a packet is overtaken by fewer than Window later ones
  MaxPackets,     \* bound: packets of the stream
  MaxLost,        \* bound: packets the network loses
  MaxDisturbances \* bound: disturbances

ASSUME Assumption ==
  /\ SeqMax \in Nat /\ MaxBufferSize \in Nat /\ MaxDistance \in 0 .. SeqMax
  /\ Starts \subseteq 0 .. SeqMax /\ Jumps \subseteq Nat
  /\ Window \in Nat /\ MaxPackets \in Nat /\ MaxLost \in Nat /\ MaxDisturbances \in Nat

VARIABLES
  sorter,   \* the members of the class (below)
  offset,   \* the sender: sequence number minus id
  sent,     \* the sender: packets sent
  flight,   \* the network: packets on their way
  lost,     \* history: ids the network lost
  calm,     \* history: no disturbance so far
  idle,     \* history: different packets received since the last one was handed on
  budget    \* disturbances still allowed (MaxDisturbances)

vars == << sorter, offset, sent, flight, lost, calm, idle, budget >>

----------------------------------------------------------------------------
(* The members: started, next (_next_seq), cache (_pkt_sort_cache_map),    *)
(* drops (_pkt_drop_cache_map), and out, the ids handed to the callback.   *)
(* The maps are sets of packets with different sequence numbers.           *)

Seqs(map) == {p.seq : p \in map}

\* std::map::emplace: a key that is there keeps its packet.
Emplace(map, p) == IF p.seq \in Seqs(map) THEN map ELSE map \cup {p}

Lowest(map) == CHOOSE p \in map : \A q \in map : p.seq <= q.seq

BugDistance(next, seq) == IF seq > next THEN seq - next ELSE next - seq

\* Distance of a sequence number from the next one, around the wrap.
Distance(next, seq) ==
  LET d == IF seq > next THEN seq - next ELSE next - seq
  IN  IF d > SeqMax \div 2 THEN SeqMax - d ELSE d

BugMayLooped(last, now) == FALSE

MayLooped(last, now) == last > SeqMax - MaxDistance \/ now < MaxDistance

BugSuccessor(seq) == seq + 1

\* static_cast<SEQ>(seq + 1)
Successor(seq) == (seq + 1) % (SeqMax + 1)

\* output()
Output(st, p) == [st EXCEPT !.next = Successor(p.seq), !.out = Append(@, p.id)]

\* popIterator()
Pop(st, p) == [Output(st, p) EXCEPT !.cache = @ \ {p}]

\* The first sequence number from next on that the map lacks, or SeqMax + 1: the loop of
\* flushPacket() ends with the map, it does not go round.
RunEnd(map, next) ==
  CHOOSE e \in next .. (SeqMax + 1) :
    /\ e \notin Seqs(map)
    /\ \A q \in next .. (e - 1) : q \in Seqs(map)

\* flushPacket(): what follows without a gap is handed on; away from the wrap, what is behind
\* the next packet is thrown away.
FlushPacket(st) ==
  LET kept == IF MayLooped(st.next, st.next) THEN st.cache
              ELSE {p \in st.cache : p.seq >= st.next}
      end  == RunEnd(kept, st.next)
      run  == {p \in kept : p.seq >= st.next /\ p.seq < end}
      at(seq) == CHOOSE p \in run : p.seq = seq
  IN  [st EXCEPT !.next = IF run = {} THEN @ ELSE Successor(end - 1),
                 !.cache = kept \ run,
                 !.out = @ \o [i \in 1 .. (end - st.next) |-> at(st.next + i - 1).id]]

\* forceFlush(): the gap is given up; the packet after it, or the lowest of all when none is
\* higher, becomes the next one.  What is then too far away is thrown away.
ForceFlush(st) ==
  LET ahead == {p \in st.cache : p.seq >= st.next}
      flushed == FlushPacket(Pop(st, Lowest(IF ahead = {} THEN st.cache ELSE ahead)))
  IN  IF st.cache = {} THEN st
      ELSE [flushed EXCEPT !.cache = {p \in @ : Distance(flushed.next, p.seq) <= MaxDistance}]

\* The first packet sets the next sequence number.
Begun(st, p) == IF st.started THEN st ELSE [st EXCEPT !.started = TRUE, !.next = p.seq]

\* The packet everybody waits for.
InTurn(st, p) == [FlushPacket(Output(st, p)) EXCEPT !.drops = {}]

BugBehind(st, p, quiet) == [st EXCEPT !.drops = Emplace(@, p)]

\* A packet behind the next one, away from the wrap.  Too many of them are a new counter: the
\* old buffer is flushed once and replaced by them.
Behind(st, p, quiet) ==
  LET drops == Emplace(st.drops, p)
      fresh == [ForceFlush(st) EXCEPT !.cache = drops, !.drops = {}]
  IN  IF Cardinality(drops) > MaxDistance \/ quiet
      THEN Pop(fresh, Lowest(drops))
      ELSE [st EXCEPT !.drops = drops]

BugAhead(st, p, quiet) ==
  LET held == [st EXCEPT !.cache = Emplace(@, p)]
  IN  IF quiet THEN ForceFlush(held) ELSE held

\* A packet ahead of the next one, or near the wrap.
Ahead(st, p, quiet) ==
  LET held == [st EXCEPT !.cache = Emplace(@, p)]
  IN  IF Cardinality(held.cache) > MaxBufferSize \/ Distance(st.next, p.seq) > MaxDistance
         \/ quiet
      THEN ForceFlush(held)
      ELSE held

\* sortPacket(); quiet is _ticker.elapsedTime() > _max_buffer_ms.
SortPacket(st, p, quiet) ==
  LET begun == Begun(st, p)
  IN  IF p.seq = begun.next THEN InTurn(begun, p)
      ELSE IF p.seq < begun.next /\ ~ MayLooped(begun.next, p.seq) THEN Behind(begun, p, quiet)
      ELSE Ahead(begun, p, quiet)

----------------------------------------------------------------------------
Init ==
  /\ sorter = [started |-> FALSE, next |-> 0, cache |-> {}, drops |-> {}, out |-> << >>]
  /\ offset \in Starts
  /\ sent = 0 /\ flight = {} /\ lost = {}
  /\ calm = TRUE /\ idle = 0 /\ budget = MaxDisturbances

Disturb == budget > 0 /\ budget' = budget - 1 /\ calm' = FALSE
Undisturbed == UNCHANGED << budget, calm >>

----------------------------------------------------------------------------
(* The sender and the network.                                             *)

Send ==
  /\ sent < MaxPackets
  /\ \A p \in flight : p.id + Window > sent
  /\ sent' = sent + 1
  /\ flight' = flight \cup {[seq |-> (sent + offset) % (SeqMax + 1), id |-> sent]}
  /\ UNCHANGED << sorter, offset, lost, calm, idle, budget >>

Lose(p) ==
  /\ p \in flight /\ Cardinality(lost) < MaxLost
  /\ flight' = flight \ {p} /\ lost' = lost \cup {p.id}
  /\ UNCHANGED << sorter, offset, sent, calm, idle, budget >>

\* The sender starts counting somewhere else.
Restart(jump) ==
  /\ Disturb
  /\ offset' = offset + jump
  /\ UNCHANGED << sorter, sent, flight, lost, idle >>

----------------------------------------------------------------------------
(* The receiver.                                                           *)

Overtaken(p) == ~ sorter.started /\ \E q \in flight : q.id < p.id

Receive(p, quiet, copy) ==
  /\ p \in flight
  /\ sorter' = SortPacket(sorter, p, quiet)
  /\ flight' = IF copy THEN flight ELSE flight \ {p}
  /\ idle' = IF sorter'.out # sorter.out THEN 0
             ELSE IF p.seq \in Seqs(sorter.cache) \cup Seqs(sorter.drops) THEN idle
             ELSE idle + 1
  /\ IF quiet \/ copy \/ Overtaken(p) THEN Disturb ELSE Undisturbed
  /\ UNCHANGED << offset, sent, lost >>

\* clear(): the packets behind are kept, the next packet sets the sequence number again.
Clear ==
  /\ Disturb
  /\ sorter' = [sorter EXCEPT !.started = FALSE, !.cache = {}]
  /\ idle' = 0
  /\ UNCHANGED << offset, sent, flight, lost >>

Flush ==
  /\ Disturb
  /\ sorter' = [ForceFlush(sorter) EXCEPT !.cache = {}]
  /\ idle' = IF sorter'.out # sorter.out THEN 0 ELSE idle
  /\ UNCHANGED << offset, sent, flight, lost >>

Next == \/ Send
        \/ \E p \in flight : Lose(p) \/ \E quiet, copy \in BOOLEAN : Receive(p, quiet, copy)
        \/ \E jump \in Jumps : Restart(jump)
        \/ Clear \/ Flush

Spec == Init /\ [][Next]_vars

----------------------------------------------------------------------------
(* Properties                                                              *)

Packets == [seq : 0 .. SeqMax, id : Nat]
Sorters == [started : BOOLEAN, next : 0 .. SeqMax, cache : SUBSET Packets,
            drops : SUBSET Packets, out : Seq(Nat)]

\* Every variable has its type.
TypeOK ==
  /\ sorter \in Sorters
  /\ offset \in Nat /\ sent \in Nat /\ flight \subseteq Packets /\ lost \subseteq Nat
  /\ calm \in BOOLEAN /\ idle \in Nat /\ budget \in Nat

\* Neither map grows beyond its limit, whatever arrives.
Bounded ==
  /\ Cardinality(sorter.cache) <= MaxBufferSize \/ Cardinality(sorter.cache) <= MaxDistance
  /\ Cardinality(sorter.drops) <= MaxDistance

\* The stream goes on: at most MaxBufferSize + MaxDistance packets of different sequence
\* numbers are received without one being handed on, whatever the sender does to its counter.
KeepsFlowing == idle <= MaxBufferSize + MaxDistance

\* On a calm network packets are handed on in the order they were sent, each once, across the
\* wrap of the sequence number.
InOrder ==
  calm => \A i, j \in DOMAIN sorter.out : i < j => sorter.out[i] < sorter.out[j]

Held == {p.id : p \in sorter.cache}
HandedOn == {sorter.out[i] : i \in DOMAIN sorter.out}
Received == (0 .. (sent - 1)) \ ({p.id : p \in flight} \cup lost)

\* On a calm network no packet that arrives is thrown away: it is handed on or held.  Reordering
\* alone never costs a packet, across the wrap or away from it; a single lost one costs no other
\* until the numbers wrap.
NothingDropped ==
  calm /\ (lost = {} \/ sent + offset <= SeqMax + 1) => Received = Held \cup HandedOn
=============================================================================
