----------------------------- MODULE RtpProcess -----------------------------
(***************************************************************************)
(* One RtpProcess (src/src/Rtp/RtpProcess.cpp): the receiver of one RTP    *)
(* stream, from its first packet to its destructor.                        *)
(*                                                                         *)
(* The first packet asks the publish hook; until the answer has reached    *)
(* the poller of the stream, frames are cached.  A watchdog on the same    *)
(* poller detaches a stream that has been silent, unless a request has     *)
(* paused it.  recordSVAC and stopRecordSVAC (src/server/WebApi.cpp) add   *)
(* and remove recording slots, which get every packet.                     *)
(*                                                                         *)
(* Time advances in rounds of the watchdog; packets, answers and requests  *)
(* fall anywhere between two rounds.  One packet carries one frame.        *)
(* Definitions whose names begin with Bug are mutants of the definition    *)
(* that follows them; no specification uses them.                          *)
(***************************************************************************)
EXTENDS Naturals, Sequences, FiniteSets

CONSTANTS
  Handlers,    \* HTTP connections that send recording requests
  Names,       \* file names of recordings
  OneThread,   \* TRUE: the server has one poller, a handler runs without interruption
  CacheLimit,  \* kMaxCachedFrameMS, in rounds of the watchdog
  TimeoutSec,  \* RtpProxy::kTimeoutSec, in rounds
  Pauses,      \* the values of pause_seconds, in rounds
  MaxFrames,   \* bound: packets of the stream
  MaxFiles,    \* bound: recordings
  MaxAge       \* bound: ages from MaxAge on are not told apart

ASSUME Assumption ==
  /\ OneThread \in BOOLEAN /\ Pauses \subseteq Nat
  /\ CacheLimit \in Nat /\ TimeoutSec \in Nat /\ MaxFrames \in Nat /\ MaxFiles \in Nat
  /\ TimeoutSec > 0
  /\ MaxAge \in Nat /\ MaxAge > CacheLimit /\ MaxAge > TimeoutSec

VARIABLES
  publish,   \* "none", "asked", "granted" and "refused" (the lambda is queued), "done"
  auth_err,  \* _auth_err is set
  muxer,     \* _muxer: "none", "on", "closed" (its outputs are gone)
  wanted,    \* an output of the muxer is enabled: never watched yet, or watched
  is_enable, \* MultiMediaSourceMuxer::_is_enable, the remembered answer
  cached,    \* _cached_func: frames, by number
  got,       \* history: frames handed to the muxer, by number
  frames,    \* history: frames so far
  owed,      \* history: frames that arrived in time, or while the stream was used
  age,       \* _last_frame_time, _cache_ticker, _last_check_alive; history: silence
  pause,     \* _pause_timeout, _pause_seconds
  due,       \* a round of the watchdog is due
  detached,  \* "no", or why onDetach() was called first: "timeout", "closed", "refused"
  alive,     \* the destructor has not run
  slots,     \* _manual_slots: name -> [state, seq]; seq numbers the files of a name
  files,     \* name -> its files: [data]; history: [reports]
  pc         \* handler -> what it will do after isDumping(): "idle", "start" or "stop" a name

pubVars == << publish, auth_err, muxer >>
frameVars == << cached, got, frames, owed >>
recVars == << slots, files, pc >>
lifeVars == << pause, due, detached, alive >>
vars == << pubVars, wanted, is_enable, frameVars, age, lifeVars, recVars >>

Slot == [state : {"absent", "open", "broken"}, seq : Nat]
File == [data : BOOLEAN, reports : Nat]
Idle == [op |-> "idle"]
Step == {Idle} \cup [op : {"start", "stop"}, name : Names]

----------------------------------------------------------------------------
\* isDumping(), of a name and of any.
IsDumping(n) == slots[n].state # "absent"
Dumping == \E n \in Names : IsDumping(n)

\* With one poller nothing of the stream runs inside a handler.
Undisturbed == OneThread => \A h \in Handlers : pc[h] = Idle

\* The answers isEnabled() may give: a negative one is looked up again, a positive one is kept
\* for some seconds.
IsEnabled == IF wanted THEN {TRUE} ELSE {FALSE, is_enable}

\* fwrite() into every slot with a file; the data is on disk once the file is closed.
Written == [n \in Names |-> IF slots[n].state = "open"
                            THEN [files[n] EXCEPT ![slots[n].seq].data = TRUE]
                            ELSE files[n]]

\* A frame is owed to the stream when the hook can still answer in time, or when somebody
\* watches or records what the hook has granted.
Owed == IF muxer = "none" THEN publish = "none" \/ age.cache <= CacheLimit
        ELSE muxer = "on" /\ (wanted \/ Dumping)

----------------------------------------------------------------------------
Init ==
  /\ publish = "none" /\ auth_err = FALSE /\ muxer = "none"
  /\ wanted = TRUE /\ is_enable = FALSE
  /\ cached = << >> /\ got = << >> /\ frames = 0 /\ owed = {}
  /\ age = [frame |-> 0, cache |-> 0, check |-> 0, silence |-> 0]
  /\ pause = [on |-> FALSE, rounds |-> 0] /\ due = FALSE
  /\ detached = "no" /\ alive = TRUE
  /\ slots = [n \in Names |-> [state |-> "absent", seq |-> 0]]
  /\ files = [n \in Names |-> << >>]
  /\ pc = [h \in Handlers |-> Idle]

----------------------------------------------------------------------------
(* Packets.                                                                *)

\* emitOnPublish(): without a listener of the event the invoker answers in place.
EmitOnPublish ==
  IF publish # "none" THEN UNCHANGED pubVars
  ELSE /\ UNCHANGED auth_err
       /\ \/ publish' = "asked" /\ UNCHANGED muxer
          \/ publish' = "done" /\ muxer' = "on"

Refresh(a) == [a EXCEPT !.frame = 0]

\* inputFrame()
BugNoCache(f, a) ==
  /\ got' = IF muxer' = "none" THEN got ELSE Append(got, f)
  /\ age' = Refresh(a) /\ UNCHANGED cached

InputFrame(f, a) ==
  \/ /\ muxer' # "none"
     /\ got' = Append(got, f) /\ age' = Refresh(a) /\ UNCHANGED cached
  \/ /\ muxer' = "none" /\ a.cache > CacheLimit
     /\ age' = a /\ UNCHANGED << got, cached >>
  \/ /\ muxer' = "none" /\ a.cache <= CacheLimit
     /\ cached' = Append(cached, f) /\ age' = a /\ UNCHANGED got

\* Nobody watches, nobody records: the packet is dropped before it is decoded.
BugDropSilently(a) ==
  /\ muxer' # "none" /\ ~is_enable' /\ ~Dumping
  /\ age' = a /\ UNCHANGED << got, cached >>

BugDropRecorded(a) ==
  /\ muxer' # "none" /\ ~is_enable'
  /\ age' = Refresh(a) /\ UNCHANGED << got, cached >>

DropUnused(a) ==
  /\ muxer' # "none" /\ ~is_enable' /\ ~Dumping
  /\ age' = Refresh(a) /\ UNCHANGED << got, cached >>

\* inputRtp()
InputRtp ==
  /\ alive /\ Undisturbed /\ ~auth_err /\ frames < MaxFrames
  /\ frames' = frames + 1
  /\ EmitOnPublish
  /\ files' = Written
  /\ is_enable' \in IF muxer' = "none" THEN {is_enable} ELSE IsEnabled
  /\ owed' = IF Owed THEN owed \cup {frames'} ELSE owed
  /\ LET a == [age EXCEPT !.silence = 0, !.cache = IF publish = "none" THEN 0 ELSE @]
     IN  \/ DropUnused(a)
         \/ /\ muxer' # "none" => is_enable' \/ Dumping
            /\ InputFrame(frames', a)
  /\ UNCHANGED << wanted, lifeVars, slots, pc >>

\* A packet of a stream the hook has refused: inputRtp() throws, its caller detaches.
InputRefused ==
  /\ alive /\ Undisturbed /\ auth_err
  /\ detached' = IF detached = "no" THEN "refused" ELSE detached
  /\ UNCHANGED << pubVars, wanted, is_enable, frameVars, age, pause, due, alive, recVars >>

----------------------------------------------------------------------------
(* The publish hook.                                                       *)

\* The hook answers on its own thread, and the invoker queues a lambda.
HookAnswers ==
  /\ alive /\ publish = "asked"
  /\ publish' \in {"granted", "refused"}
  /\ UNCHANGED << auth_err, muxer, wanted, is_enable, frameVars, age, lifeVars, recVars >>

\* The lambda: the muxer is made, and doCachedFunc() replays what is cached.
BugReplayLost ==
  /\ publish' = "done" /\ muxer' = "on" /\ UNCHANGED auth_err
  /\ cached' = << >> /\ age' = [Refresh(age) EXCEPT !.silence = 0]
  /\ UNCHANGED got

BugReplayKept ==
  /\ publish' = "done" /\ muxer' = "on" /\ UNCHANGED auth_err
  /\ got' = got \o cached /\ age' = [Refresh(age) EXCEPT !.silence = 0]
  /\ UNCHANGED cached

Granted ==
  /\ publish' = "done" /\ muxer' = "on" /\ UNCHANGED auth_err
  /\ got' = got \o cached /\ cached' = << >>
  /\ age' = IF cached = << >> THEN age ELSE [Refresh(age) EXCEPT !.silence = 0]

AnswerRuns ==
  /\ alive /\ Undisturbed
  /\ \/ publish = "granted" /\ Granted
     \/ /\ publish = "refused"
        /\ publish' = "done" /\ auth_err' = TRUE
        /\ UNCHANGED << muxer, got, cached, age >>
  /\ UNCHANGED << wanted, is_enable, frames, owed, lifeVars, recVars >>

----------------------------------------------------------------------------
(* The stream at the muxer: its viewers, and close().                      *)

\* The tracks need frames before the source is in the table.
Registered == muxer = "on" /\ got # << >>

\* The first viewer comes, the last one leaves.
Viewers ==
  /\ alive /\ Undisturbed /\ Registered
  /\ wanted' = ~wanted
  /\ UNCHANGED << pubVars, is_enable, frameVars, age, lifeVars, recVars >>

\* MultiMediaSourceMuxer::close() and RtpProcess::close()
Close ==
  /\ alive /\ Undisturbed /\ Registered
  /\ muxer' = "closed" /\ wanted' = FALSE
  /\ detached' = IF detached = "no" THEN "closed" ELSE detached
  /\ UNCHANGED << publish, auth_err, is_enable, frameVars, age, pause, due, alive, recVars >>

----------------------------------------------------------------------------
(* The watchdog.                                                           *)

Older(n) == IF n < MaxAge THEN n + 1 ELSE n

Tick ==
  /\ alive /\ Undisturbed /\ ~due
  /\ age' = [frame |-> Older(age.frame), cache |-> Older(age.cache),
             check |-> Older(age.check), silence |-> Older(age.silence)]
  /\ due' = TRUE
  /\ UNCHANGED << pubVars, wanted, is_enable, frameVars, pause, detached, alive, recVars >>

\* alive(): a pause holds until pause_seconds after the last round that was not paused.
Paused == pause.on /\ age.check < pause.rounds

OnManager ==
  /\ alive /\ Undisturbed /\ due
  /\ due' = FALSE
  /\ IF Paused THEN UNCHANGED << pause, age, detached >>
     ELSE /\ pause' = [pause EXCEPT !.on = FALSE]
          /\ age' = [age EXCEPT !.check = 0]
          /\ detached' = IF age.frame >= TimeoutSec /\ detached = "no"
                         THEN "timeout" ELSE detached
  /\ UNCHANGED << pubVars, wanted, is_enable, frameVars, alive, recVars >>

\* pauseRtpTimeout(), from pauseRtpCheck and resumeRtpCheck
BugPauseAnew(p) ==
  /\ pause' = [on |-> TRUE, rounds |-> p]
  /\ age' = [age EXCEPT !.check = 0]

PauseFor(p) ==
  /\ pause' = [on |-> TRUE, rounds |-> p]
  /\ UNCHANGED age

BugResume ==
  /\ pause' = [on |-> FALSE, rounds |-> 0 - 1]
  /\ age' = [Refresh(age) EXCEPT !.silence = 0]

Resume ==
  /\ pause' = [pause EXCEPT !.on = FALSE]
  /\ age' = [Refresh(age) EXCEPT !.silence = 0]

PauseRtpTimeout ==
  /\ alive /\ Undisturbed /\ Registered
  /\ \/ \E p \in Pauses : PauseFor(p)
     \/ Resume
  /\ UNCHANGED << pubVars, wanted, is_enable, frameVars, due, detached, alive, recVars >>

----------------------------------------------------------------------------
(* Recording.                                                              *)

\* emitRecordSVAC(), after the file is closed: a file without data is not reported.
Reported(f) == IF f.data THEN [f EXCEPT !.reports = @ + 1] ELSE f

\* The files of a name after its slot is closed.
BugUnflushed(n) == files[n]

Closed(n) == IF slots[n].state = "open"
             THEN [files[n] EXCEPT ![slots[n].seq] = Reported(@)]
             ELSE files[n]

Made == {r \in Names \X (1 .. MaxFiles) : r[2] \in DOMAIN files[r[1]]}

\* recordSVAC up to isDumping(); a name that is recorded already is ignored.
BugRecordAgain(h, n) ==
  pc' = [pc EXCEPT ![h] = [op |-> "start", name |-> n]]

RecordFinds(h, n) ==
  /\ ~IsDumping(n)
  /\ pc' = [pc EXCEPT ![h] = [op |-> "start", name |-> n]]

RecordSVAC(h, n) ==
  /\ alive /\ Undisturbed /\ Registered /\ pc[h] = Idle
  /\ Cardinality(Made) < MaxFiles
  /\ RecordFinds(h, n)
  /\ UNCHANGED << pubVars, wanted, is_enable, frameVars, age, lifeVars, slots, files >>

\* startManualDump(), openRtpDumpFile(): the first name that is not on disk, which may fail
\* to open.  The shared pointer closes the file it replaces.
StartManualDump(h) ==
  /\ pc[h].op = "start"
  /\ LET n == pc[h].name
         seq == Len(files[n]) + 1
     IN  \/ /\ files' = [files EXCEPT ![n] = Append(@, [data |-> FALSE, reports |-> 0])]
            /\ slots' = [slots EXCEPT ![n] = [state |-> "open", seq |-> seq]]
         \/ /\ slots' = [slots EXCEPT ![n] = [state |-> "broken", seq |-> seq]]
            /\ UNCHANGED files
  /\ pc' = [pc EXCEPT ![h] = Idle]
  /\ UNCHANGED << pubVars, wanted, is_enable, frameVars, age, lifeVars >>

\* stopRecordSVAC up to isDumping() and getSlotPath()
StopRecordSVAC(h, n) ==
  /\ alive /\ Undisturbed /\ Registered /\ pc[h] = Idle
  /\ IsDumping(n)
  /\ pc' = [pc EXCEPT ![h] = [op |-> "stop", name |-> n]]
  /\ UNCHANGED << pubVars, wanted, is_enable, frameVars, age, lifeVars, slots, files >>

\* stopDump()
StopDump(h) ==
  /\ pc[h].op = "stop"
  /\ LET n == pc[h].name
     IN  /\ files' = [files EXCEPT ![n] = Closed(n)]
         /\ slots' = [slots EXCEPT ![n].state = "absent"]
  /\ pc' = [pc EXCEPT ![h] = Idle]
  /\ UNCHANGED << pubVars, wanted, is_enable, frameVars, age, lifeVars >>

\* The server or session drops a detached process; a handler that has found it still holds it.
\* ~RtpProcess() ends the recordings.
BugSlotsForgotten == UNCHANGED files

EndRecordings == files' = [n \in Names |-> Closed(n)]

Destroy ==
  /\ alive /\ detached # "no" /\ \A h \in Handlers : pc[h] = Idle
  /\ alive' = FALSE
  /\ EndRecordings
  /\ slots' = [n \in Names |-> [slots[n] EXCEPT !.state = "absent"]]
  /\ UNCHANGED << pubVars, wanted, is_enable, frameVars, age, pause, due, detached, pc >>

----------------------------------------------------------------------------
Recording(h) ==
  \/ \E n \in Names : RecordSVAC(h, n) \/ StopRecordSVAC(h, n)
  \/ StartManualDump(h)
  \/ StopDump(h)

Next ==
  \/ InputRtp \/ InputRefused
  \/ HookAnswers \/ AnswerRuns
  \/ Viewers \/ Close
  \/ Tick \/ OnManager \/ PauseRtpTimeout
  \/ \E h \in Handlers : Recording(h)
  \/ Destroy

Spec == Init /\ [][Next]_vars

----------------------------------------------------------------------------
(* Properties.                                                             *)

\* Type invariant of the members of RtpProcess, of the slots and of the files.
TypeOK ==
  /\ publish \in {"none", "asked", "granted", "refused", "done"}
  /\ auth_err \in BOOLEAN /\ muxer \in {"none", "on", "closed"}
  /\ wanted \in BOOLEAN /\ is_enable \in BOOLEAN
  /\ cached \in Seq(Nat) /\ got \in Seq(Nat) /\ frames \in Nat /\ owed \subseteq Nat
  /\ age \in [frame : Nat, cache : Nat, check : Nat, silence : Nat]
  /\ pause \in [on : BOOLEAN, rounds : Nat] /\ due \in BOOLEAN
  /\ detached \in {"no", "timeout", "closed", "refused"} /\ alive \in BOOLEAN
  /\ slots \in [Names -> Slot] /\ files \in [Names -> Seq(File)]
  /\ pc \in [Handlers -> Step]

Stream == got \o cached

Increasing(s) == \A i, j \in DOMAIN s : i < j => s[i] < s[j]

\* Across the publish answer, the replay of _cached_func and the packets around it, frames reach
\* the muxer in the order of arrival, none twice; and none is missing of those that came
\* within kMaxCachedFrameMS of the first packet, or while the stream was watched or recorded.
\* Once the hook has granted the stream nothing stays behind in the cache.
FramesKept ==
  /\ Increasing(Stream)
  /\ \A f \in owed : \E i \in DOMAIN Stream : Stream[i] = f
  /\ muxer # "none" => cached = << >>

\* A published stream is detached by the watchdog only after kTimeoutSec without a packet,
\* whether its packets were forwarded, recorded or dropped because nobody watched.
PublishedIsKept ==
  [][detached = "no" /\ detached' = "timeout" /\ muxer # "none" => age.silence >= TimeoutSec]_vars

\* However often the check is paused, a stream that has fallen silent and is not resumed is
\* detached once the timeout and the longest pause are over.
DetachedInTime ==
  \A p \in Pauses \cup {0} :
    (\A q \in Pauses : q <= p) /\ age.silence > TimeoutSec + p => detached # "no"

\* Each file that a recording has put packets into is reported once, when the recording has
\* ended by stopRecordSVAC or with the stream, and not before; an empty one never.
RecordedOnce ==
  \A n \in Names : \A i \in DOMAIN files[n] :
    LET open == slots[n].state = "open" /\ slots[n].seq = i
    IN  files[n][i].reports = IF files[n][i].data /\ ~open THEN 1 ELSE 0

=============================================================================
