-------------------------- MODULE RtpProcess_proofs --------------------------
(***************************************************************************)
(* What an RtpProcess does with frames, silence and recordings, for every  *)
(* length of the stream, of the cache, of the timeout and of the pauses.   *)
(***************************************************************************)
EXTENDS RtpProcess, TLAPS

\* Frames are in the cache or at the muxer, never in both.
Current == IF muxer = "none" THEN cached ELSE got

FramesInv ==
  /\ muxer = "none" => got = << >> /\ wanted
  /\ muxer # "none" => cached = << >>
  /\ publish = "none" => muxer = "none" /\ cached = << >>
  /\ publish \in {"asked", "granted", "refused"} => muxer = "none" /\ cached # << >>
  /\ \A i \in DOMAIN Current : Current[i] <= frames
  /\ Increasing(Current)
  /\ \A f \in owed : \E i \in DOMAIN Current : Current[i] = f

\* The silence is what _last_frame_time measures, once there is a muxer; and it is no longer
\* than the timeout and the time since the last round that was not paused.
AgesInv ==
  /\ age.silence <= age.frame
  /\ muxer # "none" => age.frame <= age.silence
  /\ detached = "no" => age.silence < TimeoutSec + age.check
  /\ pause.rounds \in Pauses \cup {0}
  /\ detached = "no" /\ ~ due => age.check = 0 \/ \E q \in Pauses : age.check < q
  /\ detached = "no" /\ due => age.check <= 1 \/ \E q \in Pauses : age.check <= q

IInv == TypeOK /\ FramesInv /\ AgesInv

----------------------------------------------------------------------------
(* Types                                                                   *)

LEMMA OlderIsNat == ASSUME NEW n \in Nat PROVE Older(n) \in Nat
  BY DEF Older

\* One element of a sequence changes; beyond its end nothing does.
LEMMA SeqExcept ==
  ASSUME NEW S, NEW s \in Seq(S), NEW i, NEW e, i \in DOMAIN s => e \in S
  PROVE  [s EXCEPT ![i] = e] \in Seq(S)
<1> DEFINE t == [s EXCEPT ![i] = e]
<1>1. Len(s) \in Nat /\ DOMAIN s = 1 .. Len(s) /\ s \in [1 .. Len(s) -> S]
  OBVIOUS
<1>2. t \in [1 .. Len(s) -> S]
  BY <1>1
<1> QED
  BY <1>1, <1>2

\* Files change their contents, never their number, except when one is made.
LEMMA WrittenType ==
  ASSUME TypeOK
  PROVE  Written \in [Names -> Seq(File)]
<1>1. ASSUME NEW n \in Names
      PROVE  files[n] \in Seq(File) /\ [files[n] EXCEPT ![slots[n].seq].data = TRUE] \in Seq(File)
  <2>1. files[n] \in Seq(File)
    BY DEF TypeOK
  <2>2. \A f \in File : [f EXCEPT !.data = TRUE] \in File
    BY DEF File
  <2>3. slots[n].seq \in DOMAIN files[n] => files[n][slots[n].seq] \in File
    BY <2>1
  <2> QED
    BY <2>1, <2>2, <2>3, SeqExcept
<1> QED
  BY <1>1 DEF Written

LEMMA ClosedType ==
  ASSUME TypeOK, NEW n \in Names
  PROVE  Closed(n) \in Seq(File)
<1>1. files[n] \in Seq(File)
  BY DEF TypeOK
<1>2. ASSUME NEW f \in File PROVE Reported(f) \in File
  BY DEF Reported, File
<1>3. slots[n].seq \in DOMAIN files[n] => Reported(files[n][slots[n].seq]) \in File
  BY <1>1, <1>2
<1>4. [files[n] EXCEPT ![slots[n].seq] = Reported(@)] \in Seq(File)
  BY <1>1, <1>3, SeqExcept
<1> QED
  BY <1>1, <1>4 DEF Closed

\* The clocks are set back or go on.
LEMMA AgeType ==
  ASSUME TypeOK
  PROVE  /\ Refresh(age) \in [frame : Nat, cache : Nat, check : Nat, silence : Nat]
         /\ [Refresh(age) EXCEPT !.silence = 0] \in
              [frame : Nat, cache : Nat, check : Nat, silence : Nat]
  BY DEF TypeOK, Refresh

LEMMA PacketType ==
  ASSUME TypeOK, InputRtp
  PROVE  TypeOK'
<1> DEFINE a == [age EXCEPT !.silence = 0, !.cache = IF publish = "none" THEN 0 ELSE @]
           Ages == [frame : Nat, cache : Nat, check : Nat, silence : Nat]
<1>1. a \in Ages /\ Refresh(a) \in Ages
  <2>1. age.cache \in Nat /\ (IF publish = "none" THEN 0 ELSE age.cache) \in Nat
    BY DEF TypeOK
  <2>2. \A n \in Nat : [age EXCEPT !.silence = 0, !.cache = n] \in Ages
    BY DEF TypeOK
  <2>3. a \in Ages
    BY <2>1, <2>2
  <2> QED
    BY <2>3 DEF Refresh
<1>2. frames' \in Nat /\ owed' \subseteq Nat
  BY DEF TypeOK, InputRtp
<1>3. got' \in Seq(Nat) /\ cached' \in Seq(Nat)
  <2>1. /\ got \in Seq(Nat) /\ Append(got, frames') \in Seq(Nat)
        /\ cached \in Seq(Nat) /\ Append(cached, frames') \in Seq(Nat)
    BY <1>2 DEF TypeOK
  <2> QED
    BY <2>1 DEF InputRtp, InputFrame, DropUnused
<1>4. age' \in Ages
  BY <1>1 DEF InputRtp, InputFrame, DropUnused
<1>5. publish' \in {"none", "asked", "granted", "refused", "done"} /\ auth_err' \in BOOLEAN
        /\ muxer' \in {"none", "on", "closed"}
  BY DEF TypeOK, InputRtp, EmitOnPublish, pubVars
<1>6. is_enable' \in BOOLEAN
  BY DEF TypeOK, InputRtp, IsEnabled
<1>7. files' \in [Names -> Seq(File)]
  BY WrittenType DEF InputRtp
<1> QED
  BY <1>2, <1>3, <1>4, <1>5, <1>6, <1>7 DEF TypeOK, InputRtp, lifeVars

LEMMA AnswerType ==
  ASSUME TypeOK, HookAnswers \/ AnswerRuns
  PROVE  TypeOK'
<1>1. CASE HookAnswers
  BY <1>1 DEF HookAnswers, TypeOK, frameVars, lifeVars, recVars
<1>2. CASE AnswerRuns
  <2>1. /\ got \o cached \in Seq(Nat) /\ << >> \in Seq(Nat)
        /\ got \in Seq(Nat) /\ cached \in Seq(Nat)
    BY DEF TypeOK
  <2>2. got' \in Seq(Nat) /\ cached' \in Seq(Nat)
    BY <1>2, <2>1 DEF AnswerRuns, Granted
  <2>3. age' \in [frame : Nat, cache : Nat, check : Nat, silence : Nat]
    BY <1>2, AgeType DEF TypeOK, AnswerRuns, Granted
  <2>4. publish' = "done" /\ auth_err' \in BOOLEAN /\ muxer' \in {"none", "on", "closed"}
    BY <1>2 DEF TypeOK, AnswerRuns, Granted
  <2> QED
    BY <1>2, <2>2, <2>3, <2>4 DEF AnswerRuns, TypeOK, lifeVars, recVars
<1> QED
  BY <1>1, <1>2

LEMMA StreamType ==
  ASSUME TypeOK, InputRefused \/ Viewers \/ Close
  PROVE  TypeOK'
<1>1. CASE InputRefused
  BY <1>1 DEF InputRefused, TypeOK, pubVars, frameVars, recVars
<1>2. CASE Viewers
  BY <1>2 DEF Viewers, TypeOK, pubVars, frameVars, lifeVars, recVars
<1>3. CASE Close
  BY <1>3 DEF Close, TypeOK, frameVars, recVars
<1> QED
  BY <1>1, <1>2, <1>3

LEMMA WatchdogType ==
  ASSUME TypeOK, Tick \/ OnManager \/ PauseRtpTimeout
  PROVE  TypeOK'
<1> DEFINE Ages == [frame : Nat, cache : Nat, check : Nat, silence : Nat]
<1>1. age \in Ages /\ [age EXCEPT !.check = 0] \in Ages
  BY DEF TypeOK
<1>2. pause \in [on : BOOLEAN, rounds : Nat] /\ [pause EXCEPT !.on = FALSE] \in
                                                [on : BOOLEAN, rounds : Nat]
  BY DEF TypeOK
<1>3. CASE Tick
  <2>1. age' \in Ages
    BY <1>1, <1>3, OlderIsNat DEF Tick
  <2> QED
    BY <1>3, <2>1 DEF Tick, TypeOK, pubVars, frameVars, recVars
<1>4. CASE OnManager
  <2>1. age' \in Ages /\ pause' \in [on : BOOLEAN, rounds : Nat]
    BY <1>1, <1>2, <1>4 DEF OnManager
  <2>2. detached' \in {"no", "timeout", "closed", "refused"} /\ due' \in BOOLEAN
    BY <1>4 DEF OnManager, TypeOK
  <2> QED
    BY <1>4, <2>1, <2>2 DEF OnManager, TypeOK, pubVars, frameVars, recVars
<1>5. CASE PauseRtpTimeout
  <2>1. age' \in Ages
    BY <1>5, AgeType DEF PauseRtpTimeout, PauseFor, Resume, TypeOK
  <2>2. pause' \in [on : BOOLEAN, rounds : Nat]
    <3>1. \A p \in Pauses : [on |-> TRUE, rounds |-> p] \in [on : BOOLEAN, rounds : Nat]
      BY Assumption
    <3> QED
      BY <1>2, <1>5, <3>1 DEF PauseRtpTimeout, PauseFor, Resume
  <2> QED
    BY <1>5, <2>1, <2>2 DEF PauseRtpTimeout, TypeOK, pubVars, frameVars, recVars
<1> QED
  BY <1>3, <1>4, <1>5

LEMMA RecordingType ==
  ASSUME TypeOK, NEW h \in Handlers, Recording(h)
  PROVE  TypeOK'
<1>1. ASSUME NEW n \in Names, RecordSVAC(h, n) \/ StopRecordSVAC(h, n) PROVE TypeOK'
  <2>1. pc' \in [Handlers -> Step]
    <3>1. \A op \in {"start", "stop"} : [op |-> op, name |-> n] \in Step
      BY DEF Step
    <3>2. pc \in [Handlers -> Step]
      BY DEF TypeOK
    <3>3. \E op \in {"start", "stop"} : pc' = [pc EXCEPT ![h] = [op |-> op, name |-> n]]
      BY <1>1 DEF RecordSVAC, RecordFinds, StopRecordSVAC
    <3> QED
      BY <3>1, <3>2, <3>3
  <2> QED
    <3>1. UNCHANGED << pubVars, wanted, is_enable, frameVars, age, lifeVars, slots, files >>
      BY <1>1 DEF RecordSVAC, StopRecordSVAC
    <3> QED
      BY <2>1, <3>1 DEF TypeOK, pubVars, frameVars, lifeVars
<1>2. ASSUME pc[h].op # "idle" PROVE pc[h].name \in Names
  BY <1>2 DEF TypeOK, Step, Idle
<1>3. [pc EXCEPT ![h] = Idle] \in [Handlers -> Step]
  BY DEF TypeOK, Step
<1>4. CASE StartManualDump(h)
  <2> DEFINE n == pc[h].name
             f == [data |-> FALSE, reports |-> 0]
  <2>1. n \in Names
    BY <1>2, <1>4 DEF StartManualDump
  <2>2. files[n] \in Seq(File) /\ f \in File /\ Len(files[n]) + 1 \in Nat
    BY <2>1 DEF TypeOK, File
  <2>3. Append(files[n], f) \in Seq(File)
    BY <2>2
  <2>4. \A st \in {"open", "broken"} : [state |-> st, seq |-> Len(files[n]) + 1] \in Slot
    BY <2>2 DEF Slot
  <2>5. files' \in [Names -> Seq(File)] /\ slots' \in [Names -> Slot]
    <3>1. files \in [Names -> Seq(File)] /\ slots \in [Names -> Slot]
      BY DEF TypeOK
    <3>2. \/ files' = files
          \/ files' = [files EXCEPT ![n] = Append(files[n], f)]
      BY <1>4 DEF StartManualDump
    <3>3. \E st \in {"open", "broken"} :
            slots' = [slots EXCEPT ![n] = [state |-> st, seq |-> Len(files[n]) + 1]]
      BY <1>4 DEF StartManualDump
    <3>4. files' \in [Names -> Seq(File)]
      BY <2>1, <2>3, <3>1, <3>2
    <3>5. slots' \in [Names -> Slot]
      BY <2>1, <2>4, <3>1, <3>3
    <3> QED
      BY <3>4, <3>5
  <2> QED
    BY <1>3, <1>4, <2>5 DEF StartManualDump, TypeOK, pubVars, frameVars, lifeVars
<1>5. CASE StopDump(h)
  <2> DEFINE n == pc[h].name
  <2>1. n \in Names
    BY <1>2, <1>5 DEF StopDump
  <2>2. [slots[n] EXCEPT !.state = "absent"] \in Slot
    BY <2>1 DEF TypeOK, Slot
  <2>3. files' \in [Names -> Seq(File)] /\ slots' \in [Names -> Slot]
    BY <1>5, <2>1, <2>2, ClosedType DEF StopDump, TypeOK
  <2> QED
    BY <1>3, <1>5, <2>3 DEF StopDump, TypeOK, pubVars, frameVars, lifeVars
<1> QED
  BY <1>1, <1>4, <1>5 DEF Recording

LEMMA DestroyType ==
  ASSUME TypeOK, Destroy
  PROVE  TypeOK'
<1>1. files' \in [Names -> Seq(File)]
  BY ClosedType DEF Destroy, EndRecordings
<1>2. \A n \in Names : [slots[n] EXCEPT !.state = "absent"] \in Slot
  BY DEF TypeOK, Slot
<1>3. slots' \in [Names -> Slot] /\ alive' \in BOOLEAN
  BY <1>2 DEF Destroy
<1>4. UNCHANGED << publish, auth_err, muxer, wanted, is_enable, cached, got, frames, owed,
                   age, pause, due, detached, pc >>
  BY DEF Destroy, pubVars, frameVars
<1> QED
  BY <1>1, <1>3, <1>4 DEF TypeOK

LEMMA TypeInitially == Init => TypeOK
<1> SUFFICES ASSUME Init PROVE TypeOK
  OBVIOUS
<1>1. pc \in [Handlers -> Step]
  BY DEF Init, Step
<1>2. slots \in [Names -> Slot] /\ files \in [Names -> Seq(File)]
  BY DEF Init, Slot
<1>3. /\ age \in [frame : Nat, cache : Nat, check : Nat, silence : Nat]
      /\ pause \in [on : BOOLEAN, rounds : Nat]
      /\ cached \in Seq(Nat) /\ got \in Seq(Nat) /\ frames \in Nat /\ owed \subseteq Nat
  BY DEF Init
<1>4. /\ publish = "none" /\ auth_err = FALSE /\ muxer = "none" /\ wanted = TRUE
      /\ is_enable = FALSE /\ due = FALSE /\ detached = "no" /\ alive = TRUE
  BY DEF Init
<1> QED
  BY <1>1, <1>2, <1>3, <1>4 DEF TypeOK

LEMMA TypeInductive == TypeOK /\ [Next]_vars => TypeOK'
<1> SUFFICES ASSUME TypeOK, [Next]_vars PROVE TypeOK'
  OBVIOUS
<1>1. CASE UNCHANGED vars
  BY <1>1 DEF vars, pubVars, frameVars, lifeVars, recVars, TypeOK
<1> QED
  BY <1>1, PacketType, AnswerType, StreamType, WatchdogType, RecordingType, DestroyType DEF Next

----------------------------------------------------------------------------
(* Frames                                                                  *)

\* What holds for a sequence of frames, seen by itself.
Ordered(s, n, must) ==
  /\ \A i \in DOMAIN s : s[i] <= n
  /\ Increasing(s)
  /\ \A f \in must : \E i \in DOMAIN s : s[i] = f

\* A new frame at the end keeps the order, and pays for itself.
LEMMA AppendKeeps ==
  ASSUME NEW s \in Seq(Nat), NEW n \in Nat, NEW must \in SUBSET Nat, Ordered(s, n, must)
  PROVE  /\ Append(s, n + 1) # << >>
         /\ Ordered(Append(s, n + 1), n + 1, must)
         /\ Ordered(Append(s, n + 1), n + 1, must \cup {n + 1})
<1> DEFINE t == Append(s, n + 1)
<1>1. /\ Len(s) \in Nat /\ DOMAIN s = 1 .. Len(s) /\ DOMAIN t = 1 .. (Len(s) + 1)
      /\ t[Len(s) + 1] = n + 1 /\ \A i \in 1 .. Len(s) : t[i] = s[i] /\ s[i] \in Nat
  OBVIOUS
<1>2. t # << >>
  BY <1>1
<1> HIDE DEF t
<1>3. \A i \in DOMAIN t : t[i] <= n + 1
  BY <1>1 DEF Ordered
<1>4. Increasing(t)
  BY <1>1 DEF Ordered, Increasing
<1>5. \A f \in must \cup {n + 1} : \E i \in DOMAIN t : t[i] = f
  <2>1. Len(s) + 1 \in DOMAIN t
    BY <1>1
  <2>2. \A i \in DOMAIN s : i \in DOMAIN t
    BY <1>1
  <2> QED
    BY <1>1, <2>1, <2>2 DEF Ordered
<1>6. Ordered(t, n + 1, must) /\ Ordered(t, n + 1, must \cup {n + 1})
  BY <1>3, <1>4, <1>5 DEF Ordered
<1> QED
  BY <1>2, <1>6 DEF t

LEMMA DroppedKeeps ==
  ASSUME NEW s \in Seq(Nat), NEW n \in Nat, NEW must, Ordered(s, n, must)
  PROVE  Ordered(s, n + 1, must)
  BY DEF Ordered

LEMMA FramesAlt == FramesInv <=>
  /\ muxer = "none" => got = << >> /\ wanted
  /\ muxer # "none" => cached = << >>
  /\ publish = "none" => muxer = "none" /\ cached = << >>
  /\ publish \in {"asked", "granted", "refused"} => muxer = "none" /\ cached # << >>
  /\ Ordered(Current, frames, owed)
  BY DEF FramesInv, Ordered

LEMMA PacketFrames ==
  ASSUME TypeOK, FramesInv, InputRtp
  PROVE  FramesInv'
<1> DEFINE a == [age EXCEPT !.silence = 0, !.cache = IF publish = "none" THEN 0 ELSE @]
           f == frames + 1
<1>1. /\ got \in Seq(Nat) /\ cached \in Seq(Nat) /\ frames \in Nat /\ owed \in SUBSET Nat
      /\ frames' = f /\ Ordered(Current, frames, owed) /\ Current \in Seq(Nat)
  BY FramesAlt DEF TypeOK, InputRtp, Current
<1>2. /\ Append(Current, f) # << >>
      /\ Ordered(Append(Current, f), f, owed) /\ Ordered(Append(Current, f), f, owed \cup {f})
      /\ Ordered(Current, f, owed)
  BY <1>1, AppendKeeps, DroppedKeeps
<1>3. owed' = owed \/ (owed' = owed \cup {f} /\ Owed)
  BY <1>1 DEF InputRtp
<1>4. wanted' = wanted
  BY DEF InputRtp
<1>5. a.cache = IF publish = "none" THEN 0 ELSE age.cache
  BY DEF TypeOK
<1>6. CASE muxer' # "none" /\ muxer' = muxer
  <2>1. cached = << >> /\ Current = got /\ publish = publish'
    BY <1>6 DEF FramesInv, Current, InputRtp, EmitOnPublish, pubVars
  <2>2. \/ got' = Append(got, f) /\ cached' = cached
        \/ DropUnused(a)
    BY <1>1, <1>6 DEF InputRtp, InputFrame
  <2>3. CASE got' = Append(got, f) /\ cached' = cached
    <3>1. Current' = Append(Current, f)
      BY <1>6, <2>1, <2>3 DEF Current
    <3>2. Ordered(Current', frames', owed')
      BY <1>1, <1>2, <1>3, <3>1
    <3> QED
      BY <1>4, <1>6, <2>1, <2>3, <3>2, FramesAlt DEF FramesInv, Ordered
  <2>4. CASE DropUnused(a)
    <3>1. ~ wanted /\ ~ Dumping /\ got' = got /\ cached' = cached
      BY <1>6, <2>4 DEF DropUnused, InputRtp, IsEnabled
    <3>2. owed' = owed
      BY <1>3, <1>6, <3>1 DEF Owed
    <3>3. Current' = Current
      BY <1>6, <3>1 DEF Current
    <3>4. Ordered(Current', frames', owed')
      BY <1>1, <1>2, <3>2, <3>3
    <3> QED
      BY <1>4, <1>6, <2>1, <3>1, <3>4 DEF FramesInv, Ordered
  <2> QED
    BY <2>2, <2>3, <2>4
<1>7. CASE muxer' # "none" /\ muxer = "none"
  <2>1. /\ publish = "none" /\ publish' = "done" /\ muxer' = "on"
        /\ cached = << >> /\ got = << >> /\ wanted
    BY <1>7 DEF FramesInv, InputRtp, EmitOnPublish, pubVars
  <2>2. is_enable'
    BY <1>7, <2>1 DEF InputRtp, IsEnabled
  <2>3. got' = Append(got, f) /\ cached' = cached
    BY <1>1, <1>7, <2>2 DEF InputRtp, InputFrame, DropUnused
  <2>4. Current' = Append(Current, f)
    BY <1>7, <2>1, <2>3 DEF Current
  <2>5. Ordered(Current', frames', owed')
    BY <1>1, <1>2, <1>3, <2>4
  <2> QED
    BY <1>4, <1>7, <2>1, <2>3, <2>5 DEF FramesInv, Ordered
<1>8. CASE muxer' = "none"
  <2>1. /\ muxer = "none" /\ got = << >> /\ wanted /\ got' = got
        /\ publish' = publish \/ (publish = "none" /\ publish' = "asked")
    BY <1>8 DEF FramesInv, InputRtp, EmitOnPublish, InputFrame, DropUnused, pubVars
  <2>2. \/ a.cache <= CacheLimit /\ cached' = Append(cached, f)
        \/ a.cache > CacheLimit /\ cached' = cached
    BY <1>1, <1>8 DEF InputRtp, InputFrame, DropUnused
  <2>3. publish' # "none"
    BY <1>8 DEF InputRtp, EmitOnPublish, pubVars
  <2>4. CASE a.cache <= CacheLimit /\ cached' = Append(cached, f)
    <3>1. Current' = Append(Current, f) /\ cached' # << >>
      BY <1>2, <1>8, <2>1, <2>4 DEF Current
    <3>2. Ordered(Current', frames', owed')
      BY <1>1, <1>2, <1>3, <3>1
    <3> QED
      BY <1>4, <1>8, <2>1, <2>3, <3>1, <3>2 DEF FramesInv, Ordered
  <2>5. CASE a.cache > CacheLimit /\ cached' = cached
    <3>1. publish # "none"
      BY <1>5, <2>5, Assumption
    <3>2. owed' = owed
      BY <1>3, <1>5, <2>1, <2>5, <3>1, Assumption DEF Owed, TypeOK
    <3>3. Current' = Current /\ publish' = publish
      BY <1>8, <2>1, <2>5, <3>1 DEF Current
    <3>4. Ordered(Current', frames', owed')
      BY <1>1, <1>2, <3>2, <3>3
    <3> QED
      BY <1>4, <1>8, <2>1, <2>3, <2>5, <3>3, <3>4 DEF FramesInv, Ordered
  <2> QED
    BY <2>2, <2>4, <2>5
<1>9. muxer' = muxer \/ (muxer = "none" /\ muxer' = "on")
  BY DEF InputRtp, EmitOnPublish, FramesInv, pubVars
<1> QED
  BY <1>6, <1>7, <1>8, <1>9

LEMMA ReplayFrames ==
  ASSUME TypeOK, FramesInv, AnswerRuns
  PROVE  FramesInv'
<1>1. /\ got \in Seq(Nat) /\ cached \in Seq(Nat) /\ muxer = "none" /\ got = << >>
      /\ UNCHANGED << wanted, frames, owed >> /\ publish' = "done"
      /\ Ordered(cached, frames, owed)
  BY FramesAlt DEF TypeOK, FramesInv, AnswerRuns, Granted, Current
<1>2. got \o cached = cached
  BY <1>1
<1>3. CASE Granted
  <2>1. got' = cached /\ cached' = << >> /\ muxer' = "on"
    BY <1>2, <1>3 DEF Granted
  <2>2. Ordered(Current', frames', owed')
    BY <1>1, <2>1 DEF Current
  <2> QED
    BY <1>1, <2>1, <2>2 DEF FramesInv, Ordered
<1>4. CASE UNCHANGED << muxer, got, cached >>
  <2>1. Ordered(Current', frames', owed')
    BY <1>1, <1>4 DEF Current
  <2> QED
    BY <1>1, <1>4, <2>1 DEF FramesInv, Ordered
<1> QED
  BY <1>3, <1>4 DEF AnswerRuns

\* Every other step leaves the frames where they are.
LEMMA OtherFrames ==
  ASSUME FramesInv, UNCHANGED frameVars,
         muxer' = muxer \/ (muxer = "on" /\ muxer' = "closed"),
         publish' = publish \/ (publish = "asked" /\ publish' \in {"granted", "refused"}),
         wanted' = wanted \/ muxer # "none"
  PROVE  FramesInv'
<1>1. Current' = Current /\ frames' = frames /\ owed' = owed
  BY DEF frameVars, Current
<1>2. Ordered(Current', frames', owed')
  BY <1>1, FramesAlt
<1>3. got' = got /\ cached' = cached
  BY DEF frameVars
<1> QED
  BY <1>2, <1>3 DEF FramesInv, Ordered

LEMMA FramesInductive == TypeOK /\ FramesInv /\ [Next]_vars => FramesInv'
<1> SUFFICES ASSUME TypeOK, FramesInv, [Next]_vars PROVE FramesInv'
  OBVIOUS
<1>1. CASE InputRtp
  BY <1>1, PacketFrames
<1>2. CASE AnswerRuns
  BY <1>2, ReplayFrames
<1>3. CASE HookAnswers
  BY <1>3, OtherFrames DEF HookAnswers
<1>4. CASE InputRefused \/ Tick \/ OnManager \/ PauseRtpTimeout \/ Destroy
  BY <1>4, OtherFrames DEF InputRefused, Tick, OnManager, PauseRtpTimeout, Destroy, pubVars
<1>5. CASE Viewers \/ Close
  BY <1>5, OtherFrames DEF Viewers, Close, Registered, pubVars
<1>6. CASE \E h \in Handlers : Recording(h)
  BY <1>6, OtherFrames DEF Recording, RecordSVAC, StopRecordSVAC, StartManualDump, StopDump,
                           pubVars
<1>7. CASE UNCHANGED vars
  BY <1>7, OtherFrames DEF vars, pubVars
<1> QED
  BY <1>1, <1>2, <1>3, <1>4, <1>5, <1>6, <1>7 DEF Next

----------------------------------------------------------------------------
(* Silence                                                                 *)

LEMMA OlderFacts ==
  ASSUME NEW m \in Nat, NEW n \in Nat
  PROVE  /\ Older(n) >= n /\ Older(n) <= n + 1
         /\ m <= n => Older(m) <= Older(n)
         /\ m < TimeoutSec + n => Older(m) < TimeoutSec + Older(n)
  BY Assumption DEF Older

LEMMA AgeFields ==
  ASSUME TypeOK
  PROVE  /\ age.frame \in Nat /\ age.cache \in Nat /\ age.check \in Nat /\ age.silence \in Nat
         /\ TimeoutSec \in Nat /\ TimeoutSec > 0
         /\ \A q \in Pauses \cup {0} : q \in Nat
  BY Assumption DEF TypeOK

\* A packet or a resume ends the silence; it may leave _last_frame_time alone as long as there
\* is no muxer.
LEMMA HeardAges ==
  ASSUME TypeOK, AgesInv, age'.silence = 0, age'.check = age.check,
         age'.frame = 0 \/ (age'.frame = age.frame /\ muxer' = "none"),
         due' = due, detached' = detached \/ detached' # "no",
         pause'.rounds \in Pauses \cup {0}
  PROVE  AgesInv'
<1>1. age'.silence <= age'.frame /\ (muxer' # "none" => age'.frame <= age'.silence)
  BY AgeFields
<1>2. detached' = "no" => age'.silence < TimeoutSec + age'.check
  BY AgeFields
<1> QED
  BY <1>1, <1>2 DEF AgesInv

LEMMA QuietAges ==
  ASSUME AgesInv, age' = age, due' = due, detached' = detached \/ detached' # "no",
         pause'.rounds \in Pauses \cup {0}, muxer' # "none" => muxer # "none"
  PROVE  AgesInv'
  BY DEF AgesInv

LEMMA TickAges == ASSUME TypeOK, AgesInv, Tick PROVE AgesInv'
<1>1. /\ age'.frame = Older(age.frame) /\ age'.check = Older(age.check)
      /\ age'.silence = Older(age.silence)
      /\ due' /\ ~ due /\ UNCHANGED << muxer, detached, pause >>
  BY DEF Tick, pubVars
<1>2. /\ age'.silence <= age'.frame
      /\ muxer' # "none" => age'.frame <= age'.silence
      /\ detached' = "no" => age'.silence < TimeoutSec + age'.check
  BY <1>1, AgeFields, OlderFacts DEF AgesInv
<1>3. detached' = "no" => age'.check <= 1 \/ \E q \in Pauses : age'.check <= q
  <2> SUFFICES ASSUME detached' = "no" PROVE age'.check <= 1 \/ \E q \in Pauses : age'.check <= q
    OBVIOUS
  <2>1. age.check = 0 \/ \E q \in Pauses : age.check < q
    BY <1>1 DEF AgesInv
  <2>2. age'.check <= age.check + 1 /\ age.check \in Nat /\ age'.check \in Nat
    BY <1>1, AgeFields, OlderFacts, OlderIsNat
  <2>3. CASE age.check = 0
    BY <2>2, <2>3
  <2>4. ASSUME NEW q \in Pauses, age.check < q PROVE age'.check <= q
    BY <2>2, <2>4, AgeFields
  <2> QED
    BY <2>1, <2>3, <2>4
<1> QED
  BY <1>1, <1>2, <1>3 DEF AgesInv

LEMMA WatchAges == ASSUME TypeOK, AgesInv, OnManager PROVE AgesInv'
<1>1. due /\ ~ due' /\ UNCHANGED muxer
  BY DEF OnManager, pubVars
<1>2. CASE Paused
  <2>1. UNCHANGED << pause, age, detached >>
    BY <1>2 DEF OnManager
  <2>2. age.check < pause.rounds /\ pause.rounds \in Pauses \cup {0}
    BY <1>2 DEF Paused, AgesInv
  <2>3. \E q \in Pauses : age.check < q
    BY <2>2, AgeFields
  <2> QED
    BY <1>1, <2>1, <2>3 DEF AgesInv
<1>3. CASE ~ Paused
  <2>1. /\ age' = [age EXCEPT !.check = 0] /\ pause' = [pause EXCEPT !.on = FALSE]
        /\ detached' = IF age.frame >= TimeoutSec /\ detached = "no" THEN "timeout" ELSE detached
    BY <1>3 DEF OnManager
  <2>2. /\ age'.check = 0 /\ age'.frame = age.frame /\ age'.silence = age.silence
        /\ pause'.rounds = pause.rounds
    BY <2>1 DEF TypeOK
  <2>3. detached' = "no" => age.frame < TimeoutSec
    BY <2>1, AgeFields
  <2>4. detached' = "no" => age'.silence < TimeoutSec + age'.check
    BY <2>2, <2>3, AgeFields DEF AgesInv
  <2> QED
    BY <1>1, <2>2, <2>4 DEF AgesInv
<1> QED
  BY <1>2, <1>3

LEMMA PacketAges == ASSUME TypeOK, FramesInv, AgesInv, InputRtp PROVE AgesInv'
<1> DEFINE a == [age EXCEPT !.silence = 0, !.cache = IF publish = "none" THEN 0 ELSE @]
<1>1. a.silence = 0 /\ a.frame = age.frame /\ a.check = age.check
  BY DEF TypeOK
<1>2. /\ Refresh(a).silence = 0 /\ Refresh(a).frame = 0 /\ Refresh(a).check = age.check
  BY DEF TypeOK, Refresh
<1>3. (age' = a /\ muxer' = "none") \/ age' = Refresh(a)
  BY DEF InputRtp, InputFrame, DropUnused
<1>4. due' = due /\ detached' = detached /\ pause' = pause
  BY DEF InputRtp, lifeVars
<1>5. pause'.rounds \in Pauses \cup {0}
  BY <1>4 DEF AgesInv
<1>6. /\ age'.silence = 0 /\ age'.check = age.check
      /\ age'.frame = 0 \/ (age'.frame = age.frame /\ muxer' = "none")
  BY <1>1, <1>2, <1>3
<1> QED
  BY <1>4, <1>5, <1>6, HeardAges

LEMMA AnswerAges == ASSUME TypeOK, FramesInv, AgesInv, AnswerRuns PROVE AgesInv'
<1>1. due' = due /\ detached' = detached /\ pause' = pause
  BY DEF AnswerRuns, lifeVars
<1>2. pause'.rounds \in Pauses \cup {0}
  BY <1>1 DEF AgesInv
<1>3. CASE Granted /\ publish = "granted"
  <2>1. age' = [Refresh(age) EXCEPT !.silence = 0]
    BY <1>3 DEF Granted, FramesInv
  <2>2. age'.silence = 0 /\ age'.frame = 0 /\ age'.check = age.check
    BY <2>1 DEF TypeOK, Refresh
  <2> QED
    BY <1>1, <1>2, <2>2, HeardAges
<1>4. CASE UNCHANGED << muxer, age >>
  BY <1>1, <1>2, <1>4, QuietAges
<1> QED
  BY <1>3, <1>4 DEF AnswerRuns

LEMMA PauseAges == ASSUME TypeOK, AgesInv, PauseRtpTimeout PROVE AgesInv'
<1>1. due' = due /\ detached' = detached /\ muxer' = muxer
  BY DEF PauseRtpTimeout, pubVars
<1>2. CASE Resume
  <2>1. age'.silence = 0 /\ age'.frame = 0 /\ age'.check = age.check
    BY <1>2 DEF Resume, TypeOK, Refresh
  <2>2. pause'.rounds = pause.rounds
    BY <1>2 DEF Resume, TypeOK
  <2>3. pause'.rounds \in Pauses \cup {0}
    BY <2>2 DEF AgesInv
  <2> QED
    BY <1>1, <2>1, <2>3, HeardAges
<1>3. ASSUME NEW p \in Pauses, PauseFor(p) PROVE AgesInv'
  <2>1. age' = age /\ pause'.rounds \in Pauses \cup {0}
    BY <1>3 DEF PauseFor
  <2> QED
    BY <1>1, <2>1, QuietAges
<1> QED
  BY <1>2, <1>3 DEF PauseRtpTimeout

LEMMA AgesInductive == IInv /\ [Next]_vars => AgesInv'
<1> SUFFICES ASSUME TypeOK, FramesInv, AgesInv, [Next]_vars PROVE AgesInv'
  BY DEF IInv
<1>1. pause.rounds \in Pauses \cup {0}
  BY DEF AgesInv
<1>2. CASE InputRtp \/ AnswerRuns \/ Tick \/ OnManager \/ PauseRtpTimeout
  BY <1>2, PacketAges, AnswerAges, TickAges, WatchAges, PauseAges
<1>3. CASE HookAnswers \/ Viewers
  BY <1>1, <1>3, QuietAges DEF HookAnswers, Viewers, pubVars, lifeVars
<1>4. CASE InputRefused \/ Destroy
  BY <1>1, <1>4, QuietAges DEF InputRefused, Destroy, pubVars
<1>5. CASE Close
  BY <1>1, <1>5, QuietAges DEF Close, Registered
<1>6. CASE \E h \in Handlers : Recording(h)
  BY <1>1, <1>6, QuietAges DEF Recording, RecordSVAC, StopRecordSVAC, StartManualDump,
                               StopDump, pubVars, lifeVars
<1>7. CASE UNCHANGED vars
  BY <1>1, <1>7, QuietAges DEF vars, pubVars, lifeVars
<1> QED
  BY <1>2, <1>3, <1>4, <1>5, <1>6, <1>7 DEF Next

LEMMA Initially == Init => IInv
<1> SUFFICES ASSUME Init PROVE IInv
  OBVIOUS
<1>1. FramesInv
  BY DEF Init, FramesInv, Current, Increasing
<1>2. AgesInv
  <2>1. /\ age.silence = 0 /\ age.frame = 0 /\ age.check = 0 /\ pause.rounds = 0
        /\ muxer = "none" /\ detached = "no" /\ due = FALSE
    BY DEF Init
  <2>2. 0 < TimeoutSec + 0
    BY Assumption
  <2> QED
    BY <2>1, <2>2 DEF AgesInv
<1> QED
  BY <1>1, <1>2, TypeInitially DEF IInv

THEOREM Invariant == Spec => []IInv
<1>1. IInv /\ [Next]_vars => IInv'
  BY TypeInductive, FramesInductive, AgesInductive DEF IInv
<1> QED
  BY <1>1, Initially, PTL DEF Spec

----------------------------------------------------------------------------
(* Recordings, on one poller                                               *)

\* What RecordedOnce says of the files of one name.
Settled(fs, slot) ==
  \A i \in DOMAIN fs :
    fs[i].reports = IF fs[i].data /\ ~ (slot.state = "open" /\ slot.seq = i) THEN 1 ELSE 0

\* At most one handler is between its two steps, and nothing runs there: the slot it has found
\* free is still free.
RecordingsInv ==
  /\ \A n \in Names : Settled(files[n], slots[n])
  /\ \A h \in Handlers : pc[h].op = "start" => slots[pc[h].name].state = "absent"
  /\ \A h, g \in Handlers : pc[h] # Idle /\ pc[g] # Idle => h = g

LEMMA WrittenSettled ==
  ASSUME TypeOK, NEW n \in Names, Settled(files[n], slots[n])
  PROVE  Settled(Written[n], slots[n])
<1> DEFINE fs == files[n]
           k == slots[n].seq
<1>1. CASE slots[n].state = "open"
  <2>1. Written[n] = [fs EXCEPT ![k] = [fs[k] EXCEPT !.data = TRUE]]
    BY <1>1 DEF Written
  <2>2. DOMAIN Written[n] = DOMAIN fs /\ fs \in Seq(File)
    BY <2>1 DEF TypeOK
  <2>3. ASSUME NEW i \in DOMAIN fs, i # k
        PROVE  Written[n][i] = fs[i]
    BY <2>1, <2>3
  <2>4. ASSUME k \in DOMAIN fs
        PROVE  Written[n][k].reports = fs[k].reports
    <3>1. fs[k] \in File
      BY <2>2, <2>4
    <3>2. Written[n][k] = [fs[k] EXCEPT !.data = TRUE]
      BY <2>1, <2>4
    <3>3. \A f \in File : [f EXCEPT !.data = TRUE].reports = f.reports
      BY DEF File
    <3> QED
      BY <3>1, <3>2, <3>3
  <2>5. k \in DOMAIN fs => fs[k].reports = 0
    BY <1>1 DEF Settled
  <2> QED
    BY <1>1, <2>2, <2>3, <2>4, <2>5 DEF Settled
<1>2. CASE slots[n].state # "open"
  BY <1>2 DEF Written
<1> QED
  BY <1>1, <1>2

\* A slot that is closed, whichever way, has settled all its files.
LEMMA ClosedSettled ==
  ASSUME TypeOK, NEW n \in Names, Settled(files[n], slots[n])
  PROVE  Settled(Closed(n), [slots[n] EXCEPT !.state = "absent"])
<1> DEFINE fs == files[n]
           k == slots[n].seq
           free == [slots[n] EXCEPT !.state = "absent"]
<1>0. free.state = "absent" /\ fs \in Seq(File)
  BY DEF TypeOK, Slot
<1> SUFFICES ASSUME NEW i \in DOMAIN Closed(n)
             PROVE  Closed(n)[i].reports = IF Closed(n)[i].data THEN 1 ELSE 0
  BY <1>0 DEF Settled
<1>1. CASE slots[n].state = "open"
  <2>1. Closed(n) = [fs EXCEPT ![k] = Reported(fs[k])]
    BY <1>1 DEF Closed
  <2>2. i \in DOMAIN fs
    BY <2>1
  <2>3. CASE i # k
    BY <2>1, <2>2, <2>3 DEF Settled
  <2>4. CASE i = k
    <3>1. Closed(n)[i] = Reported(fs[k]) /\ fs[k] \in File /\ fs[k].reports = 0
      BY <1>0, <1>1, <2>1, <2>2, <2>4 DEF Settled
    <3>2. ASSUME NEW f \in File, f.reports = 0
          PROVE  Reported(f).reports = IF Reported(f).data THEN 1 ELSE 0
      <4>1. CASE f.data
        BY <3>2, <4>1 DEF Reported, File
      <4>2. CASE ~ f.data
        BY <3>2, <4>2 DEF Reported
      <4> QED
        BY <4>1, <4>2
    <3> QED
      BY <3>1, <3>2
  <2> QED
    BY <2>3, <2>4
<1>2. CASE slots[n].state # "open"
  BY <1>2 DEF Closed, Settled
<1> QED
  BY <1>1, <1>2

LEMMA StartSettled ==
  ASSUME TypeOK, NEW n \in Names, Settled(files[n], slots[n]), slots[n].state = "absent"
  PROVE  LET k == Len(files[n]) + 1 IN
           /\ Settled(Append(files[n], [data |-> FALSE, reports |-> 0]),
                      [state |-> "open", seq |-> k])
           /\ Settled(files[n], [state |-> "broken", seq |-> k])
<1> DEFINE fs == files[n]
           k == Len(fs) + 1
           new == [data |-> FALSE, reports |-> 0]
           t == Append(fs, new)
<1>1. fs \in Seq(File) /\ new \in File
  BY DEF TypeOK, File
<1>2. /\ Len(fs) \in Nat /\ DOMAIN fs = 1 .. Len(fs) /\ DOMAIN t = 1 .. k
      /\ t[k] = new /\ \A i \in 1 .. Len(fs) : t[i] = fs[i]
  BY <1>1
<1>3. \A i \in DOMAIN fs : fs[i].reports = IF fs[i].data THEN 1 ELSE 0
  BY DEF Settled
<1>4. new.reports = 0
  OBVIOUS
<1> HIDE DEF new, t, k
<1>5. Settled(t, [state |-> "open", seq |-> k])
  <2> SUFFICES ASSUME NEW i \in DOMAIN t
               PROVE  t[i].reports = IF t[i].data /\ ~ (i = k) THEN 1 ELSE 0
    BY DEF Settled
  <2>1. CASE i = k
    BY <1>2, <1>4, <2>1
  <2>2. CASE i # k
    <3>1. i \in DOMAIN fs /\ t[i] = fs[i]
      BY <1>2, <2>2 DEF k
    <3> QED
      BY <1>3, <2>2, <3>1
  <2> QED
    BY <2>1, <2>2
<1>6. Settled(fs, [state |-> "broken", seq |-> k])
  BY <1>3 DEF Settled
<1> QED
  BY <1>5, <1>6 DEF t, new, k

LEMMA RecordingsStart == ASSUME Init PROVE RecordingsInv
<1>1. \A n \in Names : files[n] = << >> /\ DOMAIN files[n] = {}
  BY DEF Init
<1>2. \A h \in Handlers : pc[h] = Idle /\ pc[h].op = "idle"
  BY DEF Init, Idle
<1>3. \A n \in Names : Settled(files[n], slots[n])
  BY <1>1 DEF Settled
<1> QED
  BY <1>2, <1>3 DEF RecordingsInv

LEMMA RecordingSteps ==
  ASSUME OneThread, TypeOK, RecordingsInv, NEW h \in Handlers, Recording(h)
  PROVE  RecordingsInv'
<1>1. ASSUME NEW n \in Names, RecordSVAC(h, n) \/ StopRecordSVAC(h, n) PROVE RecordingsInv'
  <2>1. PICK op \in {"start", "stop"} :
          /\ pc' = [pc EXCEPT ![h] = [op |-> op, name |-> n]]
          /\ op = "start" => slots[n].state = "absent"
    BY <1>1 DEF RecordSVAC, StopRecordSVAC, RecordFinds, IsDumping
  <2>2. UNCHANGED << slots, files >> /\ Undisturbed
    BY <1>1 DEF RecordSVAC, StopRecordSVAC
  <2>3. \A g \in Handlers : pc[g] = Idle /\ pc[g].op # "start"
    BY <2>2 DEF Undisturbed, Idle
  <2>4. pc'[h] = [op |-> op, name |-> n] /\ \A g \in Handlers \ {h} : pc'[g] = pc[g]
    BY <2>1 DEF TypeOK
  <2> QED
    BY <2>1, <2>2, <2>3, <2>4 DEF RecordingsInv
<1>2. ASSUME pc[h].op # "idle"
      PROVE  /\ pc[h].name \in Names
             /\ \A g \in Handlers \ {h} : pc[g] = Idle
             /\ \A g \in Handlers : [pc EXCEPT ![h] = Idle][g] = Idle
  <2>1. pc[h].name \in Names /\ pc[h] # Idle
    BY <1>2 DEF TypeOK, Step, Idle
  <2> QED
    BY <2>1 DEF RecordingsInv, TypeOK
<1>3. Idle.op = "idle"
  BY DEF Idle
<1>4. CASE StartManualDump(h)
  <2> DEFINE n == pc[h].name
             k == Len(files[n]) + 1
             new == [data |-> FALSE, reports |-> 0]
  <2>1. /\ n \in Names /\ slots[n].state = "absent"
        /\ pc' = [pc EXCEPT ![h] = Idle] /\ \A g \in Handlers : pc'[g] = Idle
    BY <1>2, <1>4 DEF StartManualDump, RecordingsInv
  <2>2. \/ /\ files' = [files EXCEPT ![n] = Append(files[n], new)]
           /\ slots' = [slots EXCEPT ![n] = [state |-> "open", seq |-> k]]
        \/ files' = files /\ slots' = [slots EXCEPT ![n] = [state |-> "broken", seq |-> k]]
    BY <1>4 DEF StartManualDump
  <2>3. /\ Settled(Append(files[n], new), [state |-> "open", seq |-> k])
        /\ Settled(files[n], [state |-> "broken", seq |-> k])
    BY <2>1, StartSettled DEF RecordingsInv
  <2>4. Settled(files'[n], slots'[n])
    BY <2>1, <2>2, <2>3 DEF TypeOK
  <2>5. \A m \in Names \ {n} : files'[m] = files[m] /\ slots'[m] = slots[m]
    BY <2>2 DEF TypeOK
  <2>6. \A m \in Names : Settled(files'[m], slots'[m])
    BY <2>4, <2>5 DEF RecordingsInv
  <2> QED
    BY <1>3, <2>1, <2>6 DEF RecordingsInv
<1>5. CASE StopDump(h)
  <2> DEFINE n == pc[h].name
             free == [slots[n] EXCEPT !.state = "absent"]
  <2>1. n \in Names /\ pc' = [pc EXCEPT ![h] = Idle] /\ \A g \in Handlers : pc'[g] = Idle
    BY <1>2, <1>5 DEF StopDump
  <2>2. files' = [files EXCEPT ![n] = Closed(n)] /\ slots' = [slots EXCEPT ![n] = free]
    BY <1>5 DEF StopDump
  <2>3. Settled(Closed(n), free)
    BY <2>1, ClosedSettled DEF RecordingsInv
  <2>4. Settled(files'[n], slots'[n])
    BY <2>1, <2>2, <2>3 DEF TypeOK
  <2>5. \A m \in Names \ {n} : files'[m] = files[m] /\ slots'[m] = slots[m]
    BY <2>2 DEF TypeOK
  <2>6. \A m \in Names : Settled(files'[m], slots'[m])
    BY <2>4, <2>5 DEF RecordingsInv
  <2> QED
    BY <1>3, <2>1, <2>6 DEF RecordingsInv
<1> QED
  BY <1>1, <1>4, <1>5 DEF Recording

LEMMA RecordingsInductive ==
  ASSUME OneThread
  PROVE  TypeOK /\ RecordingsInv /\ [Next]_vars => RecordingsInv'
<1> SUFFICES ASSUME TypeOK, RecordingsInv, [Next]_vars PROVE RecordingsInv'
  OBVIOUS
<1>1. CASE InputRtp
  <2>1. files' = Written /\ slots' = slots /\ pc' = pc
    BY <1>1 DEF InputRtp
  <2>2. \A n \in Names : Settled(files'[n], slots'[n])
    BY <2>1, WrittenSettled DEF RecordingsInv
  <2> QED
    BY <2>1, <2>2 DEF RecordingsInv
<1>2. CASE \E h \in Handlers : Recording(h)
  BY <1>2, RecordingSteps
<1>3. CASE Destroy
  <2>1. /\ files' = [n \in Names |-> Closed(n)] /\ pc' = pc
        /\ slots' = [n \in Names |-> [slots[n] EXCEPT !.state = "absent"]]
        /\ \A h \in Handlers : pc[h] = Idle /\ pc[h].op # "start"
    BY <1>3 DEF Destroy, EndRecordings, Idle
  <2>2. \A n \in Names : Settled(files'[n], slots'[n])
    BY <2>1, ClosedSettled DEF RecordingsInv
  <2> QED
    BY <2>1, <2>2 DEF RecordingsInv
<1>4. CASE UNCHANGED recVars
  BY <1>4 DEF recVars, RecordingsInv
<1> QED
  BY <1>1, <1>2, <1>3, <1>4 DEF Next, vars, InputRefused, HookAnswers, AnswerRuns, Viewers,
     Close, Tick, OnManager, PauseRtpTimeout

----------------------------------------------------------------------------
(* Results                                                                 *)

\* The members of RtpProcess keep their types, whatever the packets, answers, requests and
\* rounds of the watchdog.
THEOREM ProcessTyping == Spec => []TypeOK
<1>1. IInv => TypeOK
  BY DEF IInv
<1> QED
  BY <1>1, Invariant, PTL

\* doCachedFunc() and inputFrame() hand frames on in order, none twice, and lose none that came
\* in time or while the stream was watched or recorded.
THEOREM NoFrameLost == Spec => []FramesKept
<1>1. IInv => FramesKept
  <2> SUFFICES ASSUME IInv PROVE FramesKept
    OBVIOUS
  <2>1. Stream = Current
    <3>1. got \in Seq(Nat) /\ cached \in Seq(Nat) /\ (got = << >> \/ cached = << >>)
      BY DEF IInv, TypeOK, FramesInv
    <3>2. got = << >> => got \o cached = cached
      BY <3>1
    <3>3. cached = << >> => got \o cached = got
      BY <3>1
    <3>4. muxer = "none" => got = << >>
      BY DEF IInv, FramesInv
    <3>5. muxer # "none" => cached = << >>
      BY DEF IInv, FramesInv
    <3> QED
      BY <3>2, <3>3, <3>4, <3>5 DEF Stream, Current
  <2> QED
    BY <2>1 DEF IInv, FramesInv, FramesKept
<1> QED
  BY <1>1, Invariant, PTL

\* onManager() detaches a published stream only after kTimeoutSec of silence.
THEOREM LiveIsKept == Spec => PublishedIsKept
<1>1. IInv /\ [Next]_vars =>
        [detached = "no" /\ detached' = "timeout" /\ muxer # "none"
           => age.silence >= TimeoutSec]_vars
  <2> SUFFICES ASSUME IInv, Next, detached = "no", detached' = "timeout", muxer # "none"
               PROVE  age.silence >= TimeoutSec
    OBVIOUS
  <2>1. OnManager
    BY DEF Next, InputRtp, InputRefused, HookAnswers, AnswerRuns, Viewers, Close, Tick,
           PauseRtpTimeout, Recording, RecordSVAC, StopRecordSVAC, StartManualDump, StopDump,
           Destroy, lifeVars
  <2>2. age.frame >= TimeoutSec
    BY <2>1 DEF OnManager
  <2> QED
    BY <2>2, AgeFields DEF IInv, AgesInv
<1> QED
  BY <1>1, Invariant, PTL DEF Spec, PublishedIsKept

\* However pauseRtpCheck and resumeRtpCheck fall, alive() lets a silent stream go in time.
THEOREM SilentIsDetached == Spec => []DetachedInTime
<1>1. IInv => DetachedInTime
  <2> SUFFICES ASSUME IInv, NEW p \in Pauses \cup {0}, \A q \in Pauses : q <= p,
                      age.silence > TimeoutSec + p, detached = "no"
               PROVE  FALSE
    BY DEF DetachedInTime
  <2>1. p \in Nat /\ age.check \in Nat /\ age.silence \in Nat /\ TimeoutSec \in Nat
    BY AgeFields DEF IInv
  <2>2. age.silence < TimeoutSec + age.check
    BY DEF IInv, AgesInv
  <2>3. age.check <= 1 \/ \E q \in Pauses : age.check <= q
    <3>1. CASE due
      BY <3>1 DEF IInv, AgesInv
    <3>2. CASE ~ due
      <4>1. age.check = 0 \/ \E q \in Pauses : age.check < q
        BY <3>2 DEF IInv, AgesInv
      <4> QED
        BY <2>1, <4>1, AgeFields DEF IInv
    <3> QED
      BY <3>1, <3>2 DEF IInv, TypeOK
  <2>4. age.check <= 1 \/ age.check <= p
    <3>1. ASSUME NEW q \in Pauses, age.check <= q PROVE age.check <= p
      BY <2>1, <3>1, AgeFields DEF IInv
    <3> QED
      BY <2>3, <3>1
  <2> QED
    BY <2>1, <2>2, <2>4
<1> QED
  BY <1>1, Invariant, PTL

\* On one poller each file of recordSVAC that has data is reported once, when it is closed.
THEOREM ReportedOnce == ASSUME OneThread PROVE Spec => []RecordedOnce
<1>1. RecordingsInv => RecordedOnce
  BY DEF RecordingsInv, Settled, RecordedOnce
<1>2. Init => RecordingsInv
  BY RecordingsStart
<1>3. TypeOK /\ RecordingsInv /\ [Next]_vars => RecordingsInv'
  BY RecordingsInductive
<1> QED
  BY <1>1, <1>2, <1>3, ProcessTyping, PTL DEF Spec
=============================================================================
