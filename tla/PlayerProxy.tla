---------------------------- MODULE PlayerProxy ----------------------------
(***************************************************************************)
(* The pull proxies of src/src/Player/PlayerProxy.cpp, as addStreamProxy,  *)
(* delStreamProxy and close_streams of src/server/WebApi.cpp use them.     *)
(*                                                                         *)
(* A proxy plays its source through a delegate, the player of the          *)
(* protocol.  When an attempt fails or a playback is interrupted it arms a *)
(* timer and plays again with a new delegate, until it has failed          *)
(* retry_count times in a row.  Each delegate reports a play result at     *)
(* most once and a shutdown at most once; what it reports when, also when  *)
(* it is released, depends on the protocol:                                *)
(*   "plain"  RTSP, RTMP, FLV: a result, and after a success a shutdown;   *)
(*   "ts"     may report a shutdown in the place of the result;            *)
(*   "hls"    so may this, and it reports once more when it is released;   *)
(*   "srt"    reports a lost playback as a second result, which nobody     *)
(*            hears.                                                       *)
(* Everything runs on one poller: a callback is one step, and a proxy that *)
(* has left the table is destroyed at the end of it.                       *)
(* Definitions whose names begin with Bug are mutants of the definition    *)
(* that follows them; no specification uses them.                          *)
(***************************************************************************)
EXTENDS Integers

CONSTANTS
  Proxies,      \* the PlayerProxy objects that may be created
  Keys,         \* stream names
  Kinds,        \* subset of {"plain", "ts", "hls", "srt"}
  RetryCounts,  \* the values of retry_count; negative: no limit
  DelayMin, DelayMax, DelayStep,  \* _reconnect_delay_min, _max and _step, in seconds
  PlayTimeout,  \* an attempt ends within it: kTimeoutMS, and for HLS the first segment
  Cap           \* bound: failures from Cap on are not told apart

Max2(a, b) == IF a > b THEN a ELSE b
Min2(a, b) == IF a < b THEN a ELSE b

\* The delay of rePlay(): it grows with the failures, within its limits.
Delay(n) == Max2(DelayMin, Min2(n * DelayStep, DelayMax))

ASSUME Assumption ==
  /\ Kinds \subseteq {"plain", "ts", "hls", "srt"} /\ RetryCounts \subseteq Int
  /\ Kinds # {} /\ RetryCounts # {} /\ Keys # {}
  /\ DelayMin \in Nat \ {0} /\ DelayMax \in Nat /\ DelayStep \in Nat /\ PlayTimeout \in Nat
  /\ Cap \in Nat /\ \A c \in RetryCounts : c <= Cap

VARIABLES
  proxy,  \* object -> its members, see Proxy
  up      \* the source is there

vars == << proxy, up >>

NoTimer == 0

Proxy == [
  life : {"new", "live", "gone"},  \* live: in the table s_player_proxy
  key : Keys, kind : Kinds, retry : RetryCounts,
  failed : Nat,                    \* *piFailedCnt
  timer : Nat,                     \* delay of the armed _timer, or NoTimer
  delegate : {"none", "trying", "playing", "failed", "over"},
  muxer : BOOLEAN,                 \* _muxer is set
  asked : BOOLEAN,                 \* _on_play is set: the request waits for its answer
  answers : Nat,                   \* history: answers to the request
  retries : Nat,                   \* history: plays by the timer since the last success
  ended : {"no", "refused", "retries", "closed", "deleted"}]  \* history: why it left the table

Live(p) == proxy[p].life = "live"
Counted(n) == IF n < Cap THEN n + 1 ELSE n

----------------------------------------------------------------------------
(* The callbacks of a proxy, as functions of its members.                  *)

\* ~PlayerProxy(): the timer goes, and a request that still waits is answered.
BugDestroyed(r) ==
  [r EXCEPT !.life = "gone", !.timer = NoTimer, !.delegate = "none", !.muxer = FALSE,
            !.asked = FALSE]

Destroyed(r) ==
  [r EXCEPT !.life = "gone", !.timer = NoTimer, !.delegate = "none", !.muxer = FALSE,
            !.asked = FALSE, !.answers = IF r.asked THEN @ + 1 ELSE @]

\* _on_close, and the callback of the request on an error: erase(key).
Erase(r, why) == IF r.ended = "no" THEN [r EXCEPT !.ended = why] ELSE r

BugRePlay(r) == [r EXCEPT !.timer = Delay(r.failed)]

RePlay(r) == [r EXCEPT !.timer = Delay(r.failed), !.failed = Counted(@)]

BugMayRetry(r) == r.retry < 0 \/ r.failed <= r.retry

MayRetry(r) == r.retry < 0 \/ r.failed < r.retry

Retry(r) == IF MayRetry(r) THEN RePlay(r) ELSE Erase(r, "retries")

\* The _on_play callback of addStreamProxy: an error takes the proxy out of the table.
Answer(r, ok) ==
  IF ~ r.asked THEN r
  ELSE [(IF ok THEN r ELSE Erase(r, "refused")) EXCEPT !.asked = FALSE, !.answers = @ + 1]

BugOnPlaySuccess(r) == [r EXCEPT !.failed = 0, !.muxer = TRUE, !.retries = 0]

BugCountedFromBelow(r) ==
  [r EXCEPT !.timer = NoTimer, !.failed = -1, !.muxer = TRUE, !.retries = 0]

OnPlaySuccess(r) == [r EXCEPT !.timer = NoTimer, !.failed = 0, !.muxer = TRUE, !.retries = 0]

\* The callback of setOnPlayResult().
OnPlayResult(r, ok) ==
  LET a == Answer(r, ok) IN IF ok THEN OnPlaySuccess(a) ELSE Retry(a)

\* The callback of setOnShutdown(); reset is General::kResetWhenRePlay.
OnShutdown(r, reset) == Retry([r EXCEPT !.muxer = @ /\ ~ reset])

\* The deleter of a delegate tears it down.  HlsPlayer::teardown_l() reports that: as the
\* result of an attempt that has not got its index yet, as a shutdown of one that has it and
\* still waits for its tracks, and as a shutdown after a failed one.
Released(r, indexed, reset) ==
  IF r.kind # "hls" \/ r.delegate \notin {"trying", "failed"} THEN r
  ELSE IF r.delegate = "trying" /\ ~ indexed THEN OnPlayResult(r, FALSE)
  ELSE OnShutdown(r, reset)

\* MediaPlayer::play(): a new delegate takes the place of the old one.  It plays, unless what
\* the old one has reported was the end of the proxy.
Play(r, indexed, reset) ==
  LET a == Released(r, indexed, reset)
  IN  IF a.ended = "no" THEN [a EXCEPT !.delegate = "trying", !.retries = Counted(@)] ELSE a

\* The end of a step on proxy p: without the entry in the table nothing holds it.
Becomes(p, r) ==
  proxy' = [proxy EXCEPT ![p] = IF r.ended = "no" THEN r ELSE Destroyed(r)]

----------------------------------------------------------------------------
Unused == [life |-> "new", key |-> CHOOSE k \in Keys : TRUE, kind |-> CHOOSE k \in Kinds : TRUE,
           retry |-> CHOOSE c \in RetryCounts : TRUE, failed |-> 0, timer |-> NoTimer,
           delegate |-> "none", muxer |-> FALSE, asked |-> FALSE, answers |-> 0,
           retries |-> 0, ended |-> "no"]

Init == proxy = [p \in Proxies |-> Unused] /\ up \in BOOLEAN

\* addStreamProxy(): a name that is in the table is refused.
AddStreamProxy(p, k) ==
  /\ proxy[p].life = "new"
  /\ \A q \in Proxies : Live(q) => proxy[q].key # k
  /\ \E kind \in Kinds, retry \in RetryCounts :
       proxy' = [proxy EXCEPT ![p] = [Unused EXCEPT !.life = "live", !.key = k, !.kind = kind,
                   !.retry = retry, !.delegate = "trying", !.asked = TRUE]]
  /\ UNCHANGED up

\* delStreamProxy()
DelStreamProxy(p) ==
  /\ Live(p)
  /\ Becomes(p, Erase(proxy[p], "deleted"))
  /\ UNCHANGED up

\* close(), for a source the muxer has: whatever teardown() still reports ends with the proxy.
Close(p) ==
  /\ Live(p) /\ proxy[p].muxer
  /\ Becomes(p, Erase(proxy[p], "closed"))
  /\ UNCHANGED up

----------------------------------------------------------------------------
(* What a delegate reports.                                                *)

PlaySucceeds(p) ==
  /\ Live(p) /\ proxy[p].delegate = "trying" /\ up
  /\ Becomes(p, OnPlayResult([proxy[p] EXCEPT !.delegate = "playing"], TRUE))
  /\ UNCHANGED up

PlayFails(p) ==
  /\ Live(p) /\ proxy[p].delegate = "trying" /\ ~ up
  /\ Becomes(p, OnPlayResult([proxy[p] EXCEPT !.delegate = "failed"], FALSE))
  /\ UNCHANGED up

\* The connection ends before the first frames (TS, HLS), or without any data (TS).
NoData(p) ==
  /\ Live(p) /\ proxy[p].delegate = "trying" /\ ~ up /\ proxy[p].kind \in {"ts", "hls"}
  /\ \E reset \in BOOLEAN :
       Becomes(p, OnShutdown([proxy[p] EXCEPT !.delegate = "over"], reset))
  /\ UNCHANGED up

Interrupted(p) ==
  /\ Live(p) /\ proxy[p].delegate = "playing" /\ ~ up
  /\ \/ /\ proxy[p].kind # "srt"
        /\ \E reset \in BOOLEAN :
             Becomes(p, OnShutdown([proxy[p] EXCEPT !.delegate = "over"], reset))
     \/ /\ proxy[p].kind = "srt"
        /\ Becomes(p, [proxy[p] EXCEPT !.delegate = "over"])
  /\ UNCHANGED up

\* The timer of rePlay().  One that was armed when an attempt began overtakes it only if the
\* attempt may last longer.
TimerFires(p) ==
  /\ Live(p) /\ proxy[p].timer # NoTimer
  /\ proxy[p].delegate = "trying" => proxy[p].timer < PlayTimeout
  /\ \E indexed, reset \in BOOLEAN :
       Becomes(p, Play([proxy[p] EXCEPT !.timer = NoTimer], indexed, reset))
  /\ UNCHANGED up

\* The source comes and goes.
Source == up' = ~ up /\ UNCHANGED proxy

----------------------------------------------------------------------------
Reports(p) == PlaySucceeds(p) \/ PlayFails(p) \/ NoData(p) \/ Interrupted(p)

Requests(p) == (\E k \in Keys : AddStreamProxy(p, k)) \/ DelStreamProxy(p) \/ Close(p)

Next == (\E p \in Proxies : Requests(p) \/ Reports(p) \/ TimerFires(p)) \/ Source

\* An attempt ends within its timeout, a lost source is noticed, a timer fires.
Fairness == \A p \in Proxies : WF_vars(Reports(p)) /\ WF_vars(TimerFires(p))

Spec == Init /\ [][Next]_vars
FairSpec == Spec /\ Fairness

----------------------------------------------------------------------------
(* Properties                                                              *)

\* Every variable has its type.
TypeOK == proxy \in [Proxies -> Proxy] /\ up \in BOOLEAN

\* A proxy in the table plays, tries to, or is going to.
GoesOn(p) == Live(p) => proxy[p].delegate \in {"trying", "playing"} \/ proxy[p].timer # NoTimer

\* A proxy is never left behind without an attempt, a playback or a timer; and once it
\* plays no timer of an earlier failure is left to tear the playback down ("cancel the timer to
\* avoid ... a retry loop after a successful reconnection").
Recovers ==
  \A p \in Proxies :
    /\ proxy[p].kind # "srt" => GoesOn(p)
    /\ proxy[p].delegate = "playing" => proxy[p].timer = NoTimer

\* "By default it will retry indefinitely": whatever the protocol.
AllGoOn == \A p \in Proxies : GoesOn(p)

\* "Otherwise, retry retry_count times": a proxy that gives up has been played again that often
\* since its last success, and not once more or less.  The exception is HLS, whose proxy gives up
\* earlier: a released delegate reports once more, so one attempt may count as two failures.
RetriesAsPromised ==
  \A p \in Proxies :
    proxy[p].ended = "retries" /\ proxy[p].kind # "hls" => proxy[p].retries = proxy[p].retry

\* The request that made a proxy is answered exactly once: by the first result, or when the
\* proxy is destroyed before there was one.
AnsweredOnce ==
  \A p \in Proxies :
    proxy[p].answers = IF proxy[p].life = "new" \/ proxy[p].asked THEN 0 ELSE 1

\* When the source stays, every proxy that is not taken out plays in the end; when it stays
\* away, every proxy with a limit gives up.
Settles ==
  \A p \in Proxies :
    LET heard == proxy[p].kind # "srt"
        limited == proxy[p].retry >= 0
    IN  /\ <>[]up => [](Live(p) /\ heard => <>(~ Live(p) \/ proxy[p].delegate = "playing"))
        /\ <>[]~up => [](Live(p) /\ heard /\ limited => <>~ Live(p))

=============================================================================
