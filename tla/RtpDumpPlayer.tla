--------------------------- MODULE RtpDumpPlayer ---------------------------
(***************************************************************************)
(* One RtpDumpPlayer: the object that replays a recorded RTP dump over UDP *)
(* or TCP at the recorded pace times a speed (src/src/Rtp/RtpDumpPlayer).  *)
(*                                                                         *)
(* Everything that touches the sending loop runs on the player's poller    *)
(* thread, one callback at a time: a lambda taken from the poller's queue, *)
(* a timer, a socket event.  The control methods are called by other       *)
(* threads (Callers): they test playing and paused THERE, and only then    *)
(* hand a lambda to the poller with sync() and wait for it.                *)
(*                                                                         *)
(* Time is the reference clock _start_ticker in milliseconds.  setSpeed()  *)
(* takes any positive float; here speeds are numbers of halves (2 is the   *)
(* recorded speed, 4 twice as fast), in which the speeds the interface     *)
(* documents, 0.5, 1.0, 1.5 and 2.0, are whole.                            *)
(*                                                                         *)
(* Definitions whose names begin with Bug are mutants of the definition    *)
(* that follows them; no specification uses them.                          *)
(***************************************************************************)
EXTENDS Integers, Sequences, FiniteSets

CONSTANTS
  Callers,      \* threads that may call the control methods
  Files,        \* the dump files a session may replay (sequences of frames)
  Transports,   \* subset of {"udp", "tcp"}
  Speeds,       \* speeds, in halves
  StartOffsets, \* start_offset_ms of PlayArgs
  SeekSteps,    \* offset_sec * 1000 of seek()
  StampMod,     \* RTP timestamps are modulo StampMod (2^32)
  MsMod,        \* offsets and clocks are uint64_t: modulo MsMod (2^64)
  TicksPerMs,   \* RTP clock ticks per millisecond (90)
  PollMs,       \* kPollIntervalMs
  MaxCalls,     \* bound: control calls of all threads together
  MaxPause,     \* bound: milliseconds a pause lasts
  MaxLag        \* bound: milliseconds the poller fires a timer late

ASSUME WidthAssumption ==
  /\ StampMod \in Nat \ {0} /\ MsMod \in Nat \ {0} /\ TicksPerMs \in Nat \ {0}
  /\ PollMs \in Nat \ {0}
ASSUME ArgsAssumption ==
  /\ Files \subseteq Seq([len : {"ok", "small", "invalid"}, stamp : 0 .. (StampMod - 1)])
  /\ Speeds \subseteq Nat \ {0}
  /\ StartOffsets \subseteq 0 .. (MsMod - 1)
  /\ SeekSteps \subseteq Int
  /\ Transports \subseteq {"udp", "tcp"}
ASSUME BoundAssumption == MaxCalls \in Nat /\ MaxPause \in Nat /\ MaxLag \in Nat

NoTimer == 0

VARIABLES
  args,         \* _args: the file, the transport and the start offset
  transport,    \* how far start() got: "new", "resolving" and "resolved" (UDP),
                \* "connecting" (TCP), "up"
  notified,     \* _connect_notified
  shutdown,     \* _shutdown
  playing,      \* _playing
  paused,       \* _paused
  packets,      \* _packets: the offset_ms of every packet of the file (filled by the parser
                \* when the transport is up; nothing reads it earlier)
  index,        \* _current_index + 1
  clock,        \* the anchors of the pacing: speed, base offset and elapsed, pause times
  now,          \* _start_ticker.elapsedTime()
  socket,       \* _socket: "open", "closed" (closeSock was called) or "none" (null)
  timers,       \* delayed tasks the poller still holds
  delayTask,    \* _delay_task: the id of a delayed task, or NoTimer
  queue,        \* lambdas queued on the poller
  events,       \* history: the calls of on_complete and on_error, in order
  content,      \* history: media position an exact player would be at, in half ms: it moves
                \* at the speed in force and jumps only when seek() asks for it
  drift,        \* history: how far the changes of speed since the last jump may have moved
                \* the stream ahead of content, and how far behind
  sent,         \* history: the packets the last step sent
  budget        \* control calls still allowed (MaxCalls)

vars == << args, transport, notified, shutdown, playing, paused, packets, index,
           clock, now, socket, timers, delayTask, queue, events, content, drift, sent, budget >>

----------------------------------------------------------------------------
(* Parsing: from the frames of the file to the offsets of the packets.     *)

\* Half the range of the timestamp, 0x7FFFFFFF.
HalfRange == StampMod \div 2 - 1

\* The parser stops at the first impossible length and skips frames shorter than an RTP header.
ValidFrames(file) ==
  LET kept[i \in 0 .. Len(file)] ==
        IF i = 0 THEN << >>
        ELSE IF file[i].len = "ok" /\ \A k \in 1 .. (i - 1) : file[k].len # "invalid"
             THEN Append(kept[i - 1], file[i])
             ELSE kept[i - 1]
  IN  kept[Len(file)]

\* Signed distance of two RTP timestamps, unwrapped once in either direction.
StampDelta(from, to) ==
  LET d == to - from
  IN  CASE d < -HalfRange -> d + StampMod
        [] d > HalfRange -> d - StampMod
        [] OTHER -> d

\* C++ integer division truncates toward zero; the cast to uint64_t wraps.
DeltaMs(d) ==
  (IF d >= 0 THEN d \div TicksPerMs ELSE -((-d) \div TicksPerMs)) % MsMod

\* offset_ms of every packet: the first is 0, each next adds the distance to its predecessor.
Offsets(frames) ==
  LET off[i \in 1 .. Len(frames)] ==
        IF i = 1 THEN 0
        ELSE (off[i - 1] + DeltaMs(StampDelta(frames[i - 1].stamp, frames[i].stamp))) % MsMod
  IN  [i \in 1 .. Len(frames) |-> off[i]]

ParseDumpFile(file) == Offsets(ValidFrames(file))

Duration(pkts) == IF pkts = << >> THEN 0 ELSE pkts[Len(pkts)]

\* Stretches of the packets that std::lower_bound may have left to search.
Spans(pkts) == {s \in [first : 1 .. (Len(pkts) + 1), len : 0 .. Len(pkts)] :
                  s.first + s.len <= Len(pkts) + 1}

\* A round of its loop, as libstdc++ writes it.
Halved(pkts, target, s) ==
  LET half == s.len \div 2
      mid  == s.first + half
  IN  IF pkts[mid] < target THEN [first |-> mid + 1, len |-> s.len - half - 1]
                            ELSE [first |-> s.first, len |-> half]

\* std::lower_bound: the first packet at or after the target only when the offsets are sorted.
\* The result may be Len(pkts) + 1.
LowerBound(pkts, target) ==
  LET walk[s \in Spans(pkts)] ==
        IF s.len = 0 THEN s.first ELSE walk[Halved(pkts, target, s)]
  IN  walk[[first |-> 1, len |-> Len(pkts)]]

BugLocate(pkts, ms) ==
  LET target == IF ms > Duration(pkts) THEN Duration(pkts) ELSE ms
      found  == LowerBound(pkts, target + 1)
  IN  IF found > Len(pkts) THEN Len(pkts) ELSE found

\* locateToMs(): the packet the playback continues from.
Locate(pkts, ms) ==
  LET target == IF ms > Duration(pkts) THEN Duration(pkts) ELSE ms
      found  == LowerBound(pkts, target)
  IN  IF found > Len(pkts) THEN Len(pkts) ELSE found

----------------------------------------------------------------------------
(* The pacing arithmetic, all of it in uint64_t.                           *)

Minus(a, b) == (a - b) % MsMod

\* How long the packets at offset off wait, in milliseconds of effective time.  The
\* product leaves uint64_t only for a wrapped distance at a speed below 1.
TargetElapsed(off, ck) ==
  (ck.baseElapsed + (2 * Minus(off, ck.baseOffset)) \div ck.speed) % MsMod

\* The clock without the pauses that are over.
EffectiveElapsed(ck) == Minus(now, ck.pausedDuration)

Due(i, ck) == TargetElapsed(packets[i], ck) <= EffectiveElapsed(ck)

\* Packets of one offset leave together: the loop of sendNextPacket stops before the
\* first packet that opens a new offset and is not due.
SendUpTo(i, ck) ==
  CHOOSE j \in i .. (Len(packets) + 1) :
    /\ \/ j = Len(packets) + 1
       \/ /\ j = i \/ packets[j] # packets[j - 1]
          /\ ~ Due(j, ck)
    /\ \A k \in i .. (j - 1) : (k = i \/ packets[k] # packets[k - 1]) => Due(k, ck)

\* getCurrentOffsetMs()
CurrentOffset(i) == IF packets = << >> THEN 0
                    ELSE IF i > Len(packets) THEN Duration(packets) ELSE packets[i]

BugAnchored(ck, isPaused, speed, base) ==
  [ck EXCEPT !.speed = speed, !.baseOffset = base,
             !.baseElapsed = Minus(now, ck.pausedDuration)]

\* The anchor setSpeed() and seek() take: the pause still running is deducted.
Anchored(ck, isPaused, speed, base) ==
  LET pause == IF isPaused THEN Minus(now, ck.pauseBegin) ELSE 0
  IN  [ck EXCEPT !.speed = speed,
                 !.baseOffset = base,
                 !.baseElapsed = Minus(Minus(now, ck.pausedDuration), pause)]

----------------------------------------------------------------------------
(* How far a change of speed may move the stream from its place.  These    *)
(* bounds are kept beside the code's anchors and do not depend on them.    *)

NoDrift == [ahead |-> 0, behind |-> 0]

\* The offset of the packet before packet i.
Before(i) == IF i = 1 THEN 0 ELSE packets[i - 1]

\* Ahead by no more than the gap in front of the next packet (and the fraction of a
\* millisecond that the packet before it may have been early), behind by no more than the
\* poller is late.
Shifted ==
  [ahead  |-> drift.ahead + 2 * (CurrentOffset(index) - Before(index)) + clock.speed,
   behind |-> drift.behind + clock.speed * MaxLag]

----------------------------------------------------------------------------
(* Delayed tasks of the poller.  Overwriting _delay_task does not cancel   *)
(* the task it held: an uncancelled task still fires.                      *)

Cancelled(tms, handle) == {t \in tms : t.id # handle}

FreshId(tms) == CHOOSE n \in 1 .. (Cardinality(tms) + 1) : \A t \in tms : t.id # n

BugSchedule(tms, delay) ==
  /\ timers' = tms \cup {[id |-> FreshId(tms), due |-> now - delay]}
  /\ delayTask' = FreshId(tms)

Schedule(tms, delay) ==
  LET id == FreshId(tms)
  IN  /\ timers' = tms \cup {[id |-> id, due |-> now + delay]}
      /\ delayTask' = id

----------------------------------------------------------------------------
(* What every ending does, and sendNextPacket().  They are written over    *)
(* the values the caller has already computed.                             *)

Closed == IF socket = "none" THEN "none" ELSE "closed"

\* onPlayCompleted(): no test of what happened before.
OnPlayCompleted(tms, handle) ==
  /\ playing' = FALSE
  /\ timers' = Cancelled(tms, handle)
  /\ delayTask' = NoTimer
  /\ socket' = Closed
  /\ events' = Append(events, "complete")

BugNotifyError ==
  /\ shutdown' = TRUE
  /\ timers' = Cancelled(timers, delayTask) /\ delayTask' = NoTimer
  /\ socket' = Closed
  /\ events' = Append(events, "error")
  /\ UNCHANGED playing

\* notifyError()
NotifyError ==
  /\ shutdown' = TRUE
  /\ playing' = FALSE
  /\ timers' = Cancelled(timers, delayTask)
  /\ delayTask' = NoTimer
  /\ socket' = Closed
  /\ events' = Append(events, "error")

\* sendNextPacket(), entered at packet i with clock ck; live and isPaused are the values of
\* playing and paused, tms and handle the delayed tasks at that point.
SendNextPacket(i, ck, live, isPaused, tms, handle) ==
  LET upTo == SendUpTo(i, ck)
      wait == TargetElapsed(packets[upTo], ck) - EffectiveElapsed(ck)
  IN
  \/ /\ ~ live \/ i > Len(packets)
     /\ OnPlayCompleted(tms, handle)
     /\ index' = i /\ sent' = {}
  \/ /\ live /\ i <= Len(packets) /\ isPaused
     /\ timers' = tms /\ delayTask' = handle
     /\ playing' = live /\ index' = i /\ sent' = {}
     /\ UNCHANGED << socket, events >>
  \/ /\ live /\ i <= Len(packets) /\ ~ isPaused
     /\ sent' = i .. (upTo - 1)
     /\ index' = upTo
     /\ \/ upTo > Len(packets) /\ OnPlayCompleted(tms, handle)
        \/ /\ upTo <= Len(packets)
           /\ Schedule(tms, IF wait > PollMs THEN PollMs ELSE wait)
           /\ playing' = live
           /\ UNCHANGED << socket, events >>

----------------------------------------------------------------------------
Init ==
  /\ args \in [file : Files, tcp : {t = "tcp" : t \in Transports}, startOffset : StartOffsets]
  /\ transport = "new" /\ notified = FALSE /\ shutdown = FALSE
  /\ playing = FALSE /\ paused = FALSE
  /\ packets = ParseDumpFile(args.file) /\ index = 1
  /\ \E s \in Speeds :
       clock = [speed |-> s, baseOffset |-> 0, baseElapsed |-> 0,
                pausedDuration |-> 0, pauseBegin |-> 0]
  /\ now = 0 /\ socket = "none" /\ timers = {} /\ delayTask = NoTimer /\ queue = << >>
  /\ events = << >> /\ content = 0 /\ drift = NoDrift /\ sent = {} /\ budget = MaxCalls

----------------------------------------------------------------------------
(* start(), on the thread of the HTTP request.                             *)

\* TCP: the connect is under way when start() returns.
StartTcp ==
  /\ transport = "new" /\ args.tcp
  /\ transport' = "connecting" /\ socket' = "open"
  /\ UNCHANGED << args, notified, shutdown, playing, paused, packets, index, clock, now,
                  timers, delayTask, queue, events, content, drift, sent, budget >>

\* UDP: the port is bound and a worker thread resolves the destination.
StartUdp ==
  /\ transport = "new" /\ ~ args.tcp
  /\ transport' = "resolving" /\ socket' = "open"
  /\ UNCHANGED << args, notified, shutdown, playing, paused, packets, index, clock, now,
                  timers, delayTask, queue, events, content, drift, sent, budget >>

\* UDP: the port cannot be bound; the error is reported from within start().
StartBindFails ==
  /\ transport = "new" /\ ~ args.tcp
  /\ transport' = "up"
  /\ NotifyError
  /\ UNCHANGED << args, notified, paused, packets, index, clock, now, queue, content, drift,
                  sent, budget >>

\* The worker thread hands the result of the resolution to the poller.
Resolved(ok) ==
  /\ transport = "resolving"
  /\ transport' = "resolved"
  /\ queue' = Append(queue, [op |-> IF ok THEN "prepare" ELSE "dnsError",
                             arg |-> 0, by |-> "worker"])
  /\ UNCHANGED << args, notified, shutdown, playing, paused, packets, index, clock, now,
                  socket, timers, delayTask, events, content, drift, sent, budget >>

----------------------------------------------------------------------------
(* prepareAndStart(), on the poller.  Its outcomes exclude each other.     *)

\* The file holds frames but no usable packet.
OnlyRunts == args.file # << >> /\ packets = << >>

\* The session was ended before the transport came up, or parseDumpFile() finds no packet:
\* it returns false and nobody is told.
PrepareGivesUp ==
  /\ shutdown \/ OnlyRunts
  /\ UNCHANGED << shutdown, playing, paused, index, clock, socket, timers, delayTask,
                  events, content, drift, sent >>

BugPrepareFails ==
  /\ ~ shutdown /\ args.startOffset > Duration(packets)
  /\ UNCHANGED << shutdown, playing, paused, index, clock, socket, timers, delayTask,
                  events, content, drift, sent >>

\* The file is unreadable, or the start offset lies beyond its end.
PrepareFails ==
  /\ ~ shutdown
  /\ \/ args.file = << >>
     \/ packets # << >> /\ args.startOffset > Duration(packets)
  /\ NotifyError
  /\ UNCHANGED << paused, index, clock, content, drift, sent >>

\* Playback starts at the packet of the start offset; the anchors are taken there.
PrepareStarts ==
  /\ ~ shutdown /\ packets # << >> /\ args.startOffset <= Duration(packets)
  /\ LET i  == IF args.startOffset = 0 THEN 1 ELSE Locate(packets, args.startOffset)
         ck == [clock EXCEPT !.baseOffset = packets[i], !.baseElapsed = 0,
                             !.pausedDuration = 0]
         tms == IF args.startOffset = 0 THEN timers ELSE Cancelled(timers, delayTask)
     IN  /\ clock' = ck
         /\ paused' = FALSE
         /\ content' = 2 * packets[i] /\ drift' = NoDrift
         /\ SendNextPacket(i, ck, TRUE, FALSE, tms, delayTask)
  /\ UNCHANGED shutdown

PrepareAndStart == PrepareGivesUp \/ PrepareFails \/ PrepareStarts

\* The callback of connect().  The connect timer and the writable event may both fire: only
\* the first result counts (and answers the HTTP request: PlaybackSessions).
ConnectResult(ok) ==
  /\ args.tcp /\ transport \in {"connecting", "up"}
  /\ IF notified THEN UNCHANGED vars
     ELSE /\ notified' = TRUE
          /\ transport' = "up"
          /\ IF shutdown
             THEN UNCHANGED << shutdown, playing, paused, index, clock, socket, timers,
                               delayTask, events, content, drift, sent >>
             ELSE IF ok THEN PrepareAndStart
             ELSE /\ NotifyError
                  /\ UNCHANGED << paused, index, clock, content, drift, sent >>
          /\ UNCHANGED << args, packets, now, queue, budget >>

\* The error callback of the socket.
SocketError ==
  /\ transport = "up" /\ socket = "open"
  /\ NotifyError
  /\ UNCHANGED << args, transport, notified, paused, packets, index, clock, now, queue,
                  content, drift, sent, budget >>

----------------------------------------------------------------------------
(* The control methods, on the calling thread: the tests, then sync().     *)

\* A thread inside sync() waits for its lambda.
Waiting(c) == \E i \in DOMAIN queue : queue[i].by = c

Call(c, op, arg) ==
  /\ ~ Waiting(c) /\ budget > 0
  /\ budget' = budget - 1
  /\ queue' = Append(queue, [op |-> op, arg |-> arg, by |-> c])
  /\ UNCHANGED << args, transport, notified, shutdown, playing, paused, packets, index,
                  clock, now, socket, timers, delayTask, events, content, drift, sent >>

CallStop(c)        == playing /\ Call(c, "stop", 0)
CallPause(c)       == playing /\ ~ paused /\ Call(c, "pause", 0)
CallResume(c)      == playing /\ paused /\ Call(c, "resume", 0)
CallSetSpeed(c, s) == playing /\ Call(c, "speed", s)
CallSeek(c, ms)    == playing /\ packets # << >> /\ Call(c, "seek", ms)

----------------------------------------------------------------------------
(* The lambdas, on the poller.  None repeats the tests of the caller.      *)

Task(op) == queue # << >> /\ Head(queue).op = op /\ queue' = Tail(queue)

DoPrepare ==
  /\ Task("prepare")
  /\ transport' = "up"
  /\ PrepareAndStart
  /\ UNCHANGED << args, notified, packets, now, budget >>

DoDnsError ==
  /\ Task("dnsError")
  /\ transport' = "up"
  /\ NotifyError
  /\ UNCHANGED << args, notified, paused, packets, index, clock, now, content, drift,
                  sent, budget >>

\* stopInPoller()
DoStop ==
  /\ Task("stop")
  /\ shutdown' = TRUE /\ playing' = FALSE /\ paused' = FALSE
  /\ clock' = [clock EXCEPT !.pausedDuration = 0]
  /\ timers' = Cancelled(timers, delayTask)
  /\ delayTask' = NoTimer
  /\ socket' = "none"
  /\ UNCHANGED << args, transport, notified, packets, index, now, events, content, drift,
                  sent, budget >>

BugDoPause ==
  /\ Task("pause")
  /\ paused' = TRUE
  /\ clock' = [clock EXCEPT !.pauseBegin = now]
  /\ UNCHANGED << args, transport, notified, shutdown, playing, packets, index, now, socket,
                  timers, delayTask, events, content, drift, sent, budget >>

DoPause ==
  /\ Task("pause")
  /\ paused' = TRUE
  /\ clock' = [clock EXCEPT !.pauseBegin = now]
  /\ timers' = Cancelled(timers, delayTask)
  /\ delayTask' = NoTimer
  /\ UNCHANGED << args, transport, notified, shutdown, playing, packets, index, now, socket,
                  events, content, drift, sent, budget >>

BugDoResume ==
  /\ Task("resume")
  /\ paused' = FALSE
  /\ SendNextPacket(index, clock, playing, FALSE, timers, delayTask)
  /\ UNCHANGED << args, transport, notified, shutdown, packets, clock, now, content, drift,
                  budget >>

BugDoResumeIdle ==
  /\ Task("resume")
  /\ paused' = FALSE
  /\ clock' = [clock EXCEPT !.pausedDuration = (@ + Minus(now, clock.pauseBegin)) % MsMod]
  /\ UNCHANGED << args, transport, notified, shutdown, playing, packets, index, now, socket,
                  timers, delayTask, events, content, drift, sent, budget >>

DoResume ==
  /\ Task("resume")
  /\ LET ck == [clock EXCEPT !.pausedDuration =
                  (@ + Minus(now, clock.pauseBegin)) % MsMod]
     IN  /\ clock' = ck
         /\ paused' = FALSE
         /\ SendNextPacket(index, ck, playing, FALSE, timers, delayTask)
  /\ UNCHANGED << args, transport, notified, shutdown, packets, now, content, drift,
                  budget >>

\* The common end of setSpeed() and seek(): no delayed task is left, go on unless paused.
ContinueFrom(i, ck) ==
  /\ clock' = ck
  /\ IF paused
     THEN /\ timers' = Cancelled(timers, delayTask) /\ delayTask' = NoTimer
          /\ index' = i /\ sent' = {}
          /\ UNCHANGED << playing, socket, events >>
     ELSE SendNextPacket(i, ck, playing, FALSE, Cancelled(timers, delayTask), NoTimer)
  /\ UNCHANGED << args, transport, notified, shutdown, paused, packets, now,
                  budget >>

\* The packet that is due next becomes the anchor of the new speed: whatever was left of the
\* gap in front of it is skipped, and whatever the poller was late is forgotten.  An exact
\* player would go on from where it is.
DoSetSpeed ==
  /\ Task("speed")
  /\ ContinueFrom(index, Anchored(clock, paused, Head(queue).arg, CurrentOffset(index)))
  /\ drift' = Shifted
  /\ UNCHANGED content

DoSeek ==
  /\ Task("seek")
  /\ LET wanted == CurrentOffset(index) + Head(queue).arg
         i      == Locate(packets, IF wanted < 0 THEN 0 ELSE wanted)
     IN  /\ ContinueFrom(i, Anchored(clock, paused, clock.speed, packets[i]))
         /\ content' = 2 * packets[i]
         /\ drift' = NoDrift

\* A delayed task fires once and is gone from the poller; _delay_task keeps pointing at it,
\* where cancelling it does nothing.
FireTimer ==
  \E t \in timers :
    /\ t.due <= now
    /\ LET handle == IF delayTask = t.id THEN NoTimer ELSE delayTask
       IN  SendNextPacket(index, clock, playing, paused, timers \ {t}, handle)
    /\ UNCHANGED << args, transport, notified, shutdown, paused, packets, clock, now, queue,
                    content, drift, budget >>

\* A millisecond passes, as long as something waits for it.  The poller is at most MaxLag
\* late, a pause lasts at most MaxPause.
Tick ==
  /\ playing /\ (paused \/ timers # {})
  /\ \A t \in timers : now < t.due + MaxLag
  /\ paused => now < clock.pauseBegin + MaxPause
  /\ now' = now + 1
  /\ content' = IF paused THEN content ELSE content + clock.speed
  /\ sent' = {}
  /\ UNCHANGED << args, transport, notified, shutdown, playing, paused, packets, index,
                  clock, socket, timers, delayTask, queue, events, drift, budget >>

----------------------------------------------------------------------------
Start == StartTcp \/ StartUdp \/ StartBindFails

Poller == \/ \E ok \in BOOLEAN : ConnectResult(ok)
          \/ SocketError \/ FireTimer
          \/ DoPrepare \/ DoDnsError \/ DoStop \/ DoPause \/ DoResume \/ DoSetSpeed \/ DoSeek

Control == \E c \in Callers :
             \/ CallStop(c) \/ CallPause(c) \/ CallResume(c)
             \/ \E s \in Speeds : CallSetSpeed(c, s)
             \/ \E ms \in SeekSteps : CallSeek(c, ms)

Next == Start \/ (\E ok \in BOOLEAN : Resolved(ok)) \/ Poller \/ Control \/ Tick

Lambdas == DoPrepare \/ DoDnsError \/ DoStop \/ DoPause \/ DoResume \/ DoSetSpeed \/ DoSeek

\* The worker and the poller run what they were given, connect() reports, time passes.
Fairness ==
  /\ WF_vars(Start)
  /\ WF_vars(\E ok \in BOOLEAN : Resolved(ok))
  /\ WF_vars(\E ok \in BOOLEAN : ConnectResult(ok))
  /\ WF_vars(Lambdas)
  /\ WF_vars(FireTimer)
  /\ WF_vars(Tick)

Spec == Init /\ [][Next]_vars
FairSpec == Spec /\ Fairness

----------------------------------------------------------------------------
(* Properties                                                              *)

Tasks == [op : {"prepare", "dnsError", "stop", "pause", "resume", "speed", "seek"},
          arg : Int, by : Callers \cup {"worker"}]

\* Every variable has its type.
TypeOK ==
  /\ args \in [file : Files, tcp : BOOLEAN, startOffset : StartOffsets]
  /\ transport \in {"new", "resolving", "resolved", "connecting", "up"}
  /\ notified \in BOOLEAN /\ shutdown \in BOOLEAN /\ playing \in BOOLEAN /\ paused \in BOOLEAN
  /\ packets \in Seq(0 .. (MsMod - 1)) /\ index \in 1 .. (Len(packets) + 1)
  /\ clock \in [speed : Nat \ {0}, baseOffset : Nat, baseElapsed : Nat,
                pausedDuration : Nat, pauseBegin : Nat]
  /\ now \in Nat /\ content \in Nat /\ drift \in [ahead : Int, behind : Nat] /\ budget \in Nat
  /\ socket \in {"open", "closed", "none"}
  /\ timers \subseteq [id : Nat \ {0}, due : Nat] /\ delayTask \in Nat
  /\ queue \in Seq(Tasks) /\ events \in Seq({"complete", "error"})
  /\ sent \subseteq Nat

\* While it plays the session is not shut down, its socket is open and the next packet
\* exists (sendNextPacket() uses _socket and _packets[_current_index] unchecked), and it has
\* exactly one delayed task, held by _delay_task, or none while paused: a second task would
\* send on its own and outlive stop().
PlaysOnOneChain ==
  playing =>
    /\ ~ shutdown /\ socket = "open" /\ index \in DOMAIN packets
    /\ timers = (IF paused THEN {} ELSE {t \in timers : t.id = delayTask})
    /\ Cardinality(timers) = (IF paused THEN 0 ELSE 1)

\* locateToMs() finds the first packet at or after the target, wherever a seek goes.
LocateFindsFirst ==
  \A ms \in 0 .. Duration(packets) :
    packets # << >> =>
      LET i == Locate(packets, ms)
      IN  packets[i] >= ms /\ \A k \in 1 .. (i - 1) : packets[k] < ms

\* No packet leaves before its place in the recording, at the speeds that were in force, with
\* every pause taken out, and the next packet is never further behind the exact media position
\* than the poller is late: from a start or a seek to the next change of speed the pacing
\* arithmetic is exact to a millisecond, and a seek goes on where LocateFindsFirst says.  The
\* exception is setSpeed(), which sends the next packet at once and goes on from there: each
\* change of speed may bring the stream forward, but by no more than one gap between packets
\* and a millisecond, and back, but by no more than the poller's lateness, until the next seek.
OnTime ==
  /\ \A i \in sent : 2 * packets[i] < content + drift.ahead + clock.speed
  /\ playing => content <= 2 * packets[index] + drift.behind + clock.speed * MaxLag
  /\ LocateFindsFirst

\* A started session eventually plays or reports an ending, whichever of the connect timer
\* and the writable event comes first, and an unpaused playback does not go on for ever: it
\* ends, or is paused again.  The exception is a file that holds frames and no usable packet:
\* parseDumpFile() returns false without a report, although prepareAndStart() takes it for
\* granted that it has made one, and the session neither plays nor ends.
PlaybackEnds ==
  /\ (transport \in {"resolving", "connecting"} /\ ~ OnlyRunts)
       ~> (playing \/ events # << >>)
  /\ []<>(~ playing \/ paused)
=============================================================================
