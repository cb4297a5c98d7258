------------------------- MODULE PlayerProxy_proofs -------------------------
(***************************************************************************)
(* A pull proxy is never stuck, answers its request once and gives up when *)
(* it was told to, for any numbers of proxies, names, retries and delays.  *)
(*                                                                         *)
(* Proxies share nothing but the table, so the invariant is about one      *)
(* record: what it was given by one callback, and what a step leaves.      *)
(***************************************************************************)
EXTENDS PlayerProxy, TLAPS

\* The record that a step leaves: without its entry in the table it is destroyed.
Final(r) == IF r.ended = "no" THEN r ELSE Destroyed(r)

\* The failures that are counted and the plays by the timer go together: the timer that is
\* armed is the one play that is still owed.
InStep(r) ==
  r.kind # "hls" /\ r.retry >= 0 =>
    /\ r.failed <= r.retry
    /\ r.failed = IF r.timer = NoTimer THEN r.retries ELSE r.retries + 1

\* A proxy in the table.
Running(r) ==
  /\ r.ended = "no" /\ r.delegate # "none"
  /\ r.answers = IF r.asked THEN 0 ELSE 1
  /\ r.delegate = "playing" => r.timer = NoTimer
  /\ r.delegate \in {"failed", "over"} /\ r.kind # "srt" => r.timer # NoTimer
  /\ r.delegate = "trying" /\ r.kind # "hls" => r.timer = NoTimer
  /\ InStep(r)

\* A proxy that was destroyed.
Buried(r) ==
  /\ r.ended # "no" /\ ~ r.asked /\ r.answers = 1 /\ r.delegate = "none"
  /\ r.ended = "retries" /\ r.kind # "hls" => r.retries = r.retry

Untouched(r) == ~ r.asked /\ r.answers = 0 /\ r.delegate = "none" /\ r.ended = "no"

RInv(r) ==
  /\ r.life = "live" => Running(r)
  /\ r.life = "gone" => Buried(r)
  /\ r.life = "new" => Untouched(r)

\* What a callback leaves behind is sound at the end of the step.
Kept(r) == Final(r).life # "new" /\ RInv(Final(r))

IInv == TypeOK /\ \A p \in Proxies : RInv(proxy[p])

----------------------------------------------------------------------------
(* The callbacks, from the inside out                                      *)

\* The delay is at least _reconnect_delay_min, which is not 0: an armed timer is told from none.
LEMMA DelayArms == ASSUME NEW n \in Nat PROVE Delay(n) \in Nat /\ Delay(n) # NoTimer
  BY Assumption DEF Delay, Max2, Min2, NoTimer

LEMMA CountedIsNat == ASSUME NEW n \in Nat PROVE Counted(n) \in Nat
  BY Assumption DEF Counted

\* Below a retry count the bound Cap does not matter.
LEMMA CountedBelow ==
  ASSUME NEW n \in Nat, NEW c \in RetryCounts, n < c
  PROVE  Counted(n) = n + 1
  BY Assumption DEF Counted

\* Erase() only notes a reason, the first one.
LEMMA EraseFacts ==
  ASSUME NEW r \in Proxy,
         NEW why \in {"refused", "retries", "closed", "deleted"}
  PROVE  /\ Erase(r, why) \in Proxy
         /\ Erase(r, why) = [r EXCEPT !.ended = Erase(r, why).ended]
         /\ Erase(r, why).ended = IF r.ended = "no" THEN why ELSE r.ended
  BY DEF Erase, Proxy

LEMMA RetryType == ASSUME NEW r \in Proxy PROVE Retry(r) \in Proxy
<1>1. RePlay(r) \in Proxy
  <2>1. r.failed \in Nat
    BY DEF Proxy
  <2>2. Delay(r.failed) \in Nat /\ Counted(r.failed) \in Nat
    BY <2>1, DelayArms, CountedIsNat
  <2> QED
    BY <2>2 DEF RePlay, Proxy
<1>2. Erase(r, "retries") \in Proxy
  BY EraseFacts
<1> QED
  BY <1>1, <1>2 DEF Retry

LEMMA AnswerType == ASSUME NEW r \in Proxy, NEW ok \in BOOLEAN PROVE Answer(r, ok) \in Proxy
<1>1. Erase(r, "refused") \in Proxy
  BY EraseFacts
<1>2. ASSUME NEW a \in Proxy PROVE [a EXCEPT !.asked = FALSE, !.answers = @ + 1] \in Proxy
  <2>1. a.answers + 1 \in Nat
    BY DEF Proxy
  <2>2. \A n \in Nat : [a EXCEPT !.asked = FALSE, !.answers = n] \in Proxy
    BY DEF Proxy
  <2> QED
    BY <2>1, <2>2
<1> QED
  BY <1>1, <1>2 DEF Answer

LEMMA DestroyedType == ASSUME NEW r \in Proxy PROVE Destroyed(r) \in Proxy
<1>1. r.answers \in Nat /\ r.answers + 1 \in Nat
  BY DEF Proxy
<1>2. \A n \in Nat :
        [r EXCEPT !.life = "gone", !.timer = 0, !.delegate = "none", !.muxer = FALSE,
                  !.asked = FALSE, !.answers = n] \in Proxy
  BY DEF Proxy
<1> QED
  BY <1>1, <1>2 DEF Destroyed, NoTimer

LEMMA FinalType == ASSUME NEW r \in Proxy PROVE Final(r) \in Proxy
  BY DestroyedType DEF Final

LEMMA ResultType ==
  ASSUME NEW r \in Proxy, NEW ok \in BOOLEAN
  PROVE  OnPlayResult(r, ok) \in Proxy
<1>1. Answer(r, ok) \in Proxy
  BY AnswerType
<1>2. ASSUME NEW a \in Proxy PROVE OnPlaySuccess(a) \in Proxy
  BY DEF OnPlaySuccess, Proxy, NoTimer
<1> QED
  BY <1>1, <1>2, RetryType DEF OnPlayResult

LEMMA ShutdownType ==
  ASSUME NEW r \in Proxy, NEW reset \in BOOLEAN
  PROVE  OnShutdown(r, reset) \in Proxy
<1>1. (r.muxer /\ ~ reset) \in BOOLEAN
  BY Zenon
<1>2. \A b \in BOOLEAN : [r EXCEPT !.muxer = b] \in Proxy
  BY DEF Proxy
<1> QED
  BY <1>1, <1>2, RetryType DEF OnShutdown

\* The protocol of a proxy does not change.
LEMMA ReleasedKind ==
  ASSUME NEW r \in Proxy, NEW indexed \in BOOLEAN, NEW reset \in BOOLEAN
  PROVE  Released(r, indexed, reset).kind = r.kind
<1>1. ASSUME NEW a \in Proxy PROVE Retry(a).kind = a.kind
  BY DEF Retry, RePlay, Erase, Proxy
<1>2. Answer(r, FALSE) \in Proxy /\ Answer(r, FALSE).kind = r.kind
  <2>1. \A a \in Proxy : [a EXCEPT !.asked = FALSE, !.answers = @ + 1].kind = a.kind
    BY DEF Proxy
  <2>2. Erase(r, "refused") \in Proxy /\ Erase(r, "refused").kind = r.kind
    BY EraseFacts DEF Proxy, Erase
  <2>3. Answer(r, FALSE)
          = IF ~ r.asked THEN r ELSE [Erase(r, "refused") EXCEPT !.asked = FALSE, !.answers = @ + 1]
    BY DEF Answer
  <2>4. Answer(r, FALSE).kind = r.kind
    BY <2>1, <2>2, <2>3
  <2> QED
    BY <2>4, AnswerType
<1>3. OnPlayResult(r, FALSE).kind = r.kind
  BY <1>1, <1>2 DEF OnPlayResult
<1>4. \A b \in BOOLEAN : [r EXCEPT !.muxer = b] \in Proxy /\ [r EXCEPT !.muxer = b].kind = r.kind
  BY DEF Proxy
<1>5. (r.muxer /\ ~ reset) \in BOOLEAN
  BY Zenon
<1>6. OnShutdown(r, reset).kind = r.kind
  BY <1>1, <1>4, <1>5 DEF OnShutdown
<1> QED
  BY <1>3, <1>6 DEF Released

LEMMA PlayType ==
  ASSUME NEW r \in Proxy, NEW indexed \in BOOLEAN, NEW reset \in BOOLEAN
  PROVE  Released(r, indexed, reset) \in Proxy /\ Play(r, indexed, reset) \in Proxy
<1>1. Released(r, indexed, reset) \in Proxy
  BY ResultType, ShutdownType DEF Released
<1>2. ASSUME NEW a \in Proxy
      PROVE  [a EXCEPT !.delegate = "trying", !.retries = Counted(@)] \in Proxy
  <2>1. Counted(a.retries) \in Nat
    BY CountedIsNat DEF Proxy
  <2> QED
    BY <2>1 DEF Proxy
<1> QED
  BY <1>1, <1>2 DEF Play

----------------------------------------------------------------------------
(* What the callbacks leave                                                *)

\* A proxy whose request was refused is destroyed, whether a retry was begun or not.
LEMMA RefusedIsBuried ==
  ASSUME NEW r \in Proxy, ~ r.asked, r.answers = 1, r.ended = "refused"
  PROVE  Kept(Retry(r))
<1>1. /\ Retry(r).ended = "refused" /\ Retry(r).asked = r.asked
      /\ Retry(r).answers = r.answers
  BY DEF Retry, RePlay, Erase, Proxy
<1>2. Retry(r) \in Proxy
  BY RetryType
<1>3. Final(Retry(r)) = Destroyed(Retry(r))
  BY <1>1 DEF Final
<1>4. ASSUME NEW a \in Proxy, ~ a.asked, a.answers = 1, a.ended = "refused"
      PROVE  RInv(Destroyed(a)) /\ Destroyed(a).life # "new"
  BY <1>4 DEF Destroyed, RInv, Buried, Proxy
<1> QED
  BY <1>1, <1>2, <1>3, <1>4 DEF Kept

\* A proxy whose attempt or playback has ended: it is played again, or gives up in time.
Ended(r) ==
  /\ r.life = "live" /\ r.ended = "no" /\ r.delegate \in {"trying", "failed", "over"}
  /\ r.delegate = "trying" => r.kind = "hls"
  /\ r.answers = IF r.asked THEN 0 ELSE 1
  /\ r.kind # "hls" => r.timer = NoTimer
  /\ InStep(r)

\* A proxy that gives up, or is taken out, has its request answered at last.
LEMMA BuriedIsAnswered ==
  ASSUME NEW r \in Proxy, NEW why \in {"retries", "closed", "deleted"},
         r.answers = IF r.asked THEN 0 ELSE 1,
         why = "retries" /\ r.kind # "hls" => r.retries = r.retry
  PROVE  /\ RInv(Destroyed([r EXCEPT !.ended = why]))
         /\ Destroyed([r EXCEPT !.ended = why]).life = "gone"
<1> DEFINE e == [r EXCEPT !.ended = why]
<1>1. /\ e \in Proxy /\ e.ended = why /\ e.retries = r.retries /\ e.retry = r.retry
      /\ e.kind = r.kind /\ e.asked = r.asked /\ e.answers = r.answers
  BY DEF Proxy
<1>2. (IF e.asked THEN e.answers + 1 ELSE e.answers) = 1
  BY <1>1
<1>3. Destroyed(e) = [e EXCEPT !.life = "gone", !.timer = NoTimer, !.delegate = "none",
                               !.muxer = FALSE, !.asked = FALSE, !.answers = 1]
  BY <1>2, Zenon DEF Destroyed
<1> HIDE DEF e
<1>4. LET d == Destroyed(e) IN
        /\ d.life = "gone" /\ ~ d.asked /\ d.answers = 1 /\ d.delegate = "none"
        /\ d.ended = why /\ d.retries = r.retries /\ d.retry = r.retry /\ d.kind = r.kind
  BY <1>1, <1>3 DEF Proxy
<1>5. Buried(Destroyed(e))
  BY <1>4 DEF Buried
<1> QED
  BY <1>4, <1>5 DEF RInv, e

LEMMA RetryKeeps ==
  ASSUME NEW r \in Proxy, Ended(r)
  PROVE  Kept(Retry(r))
<1>1. CASE MayRetry(r)
  <2>1. r.failed \in Nat /\ r.retry \in RetryCounts /\ r.retry \in Int
    BY Assumption DEF Proxy
  <2>2. Delay(r.failed) # NoTimer
    BY <2>1, DelayArms
  <2>3. r.retry >= 0 => Counted(r.failed) = r.failed + 1 /\ r.failed + 1 <= r.retry
    BY <1>1, <2>1, CountedBelow DEF MayRetry
  <2>4. Retry(r) = [r EXCEPT !.timer = Delay(r.failed), !.failed = Counted(r.failed)]
    BY <1>1 DEF Retry, RePlay
  <2>5. InStep(Retry(r))
    BY <2>2, <2>3, <2>4 DEF InStep, Ended, Proxy
  <2> QED
    BY <2>2, <2>4, <2>5 DEF Kept, Final, RInv, Running, Ended, Proxy
<1>2. CASE ~ MayRetry(r)
  <2>1. r.failed \in Nat /\ r.retry \in Int
    BY Assumption DEF Proxy
  <2>2. r.kind # "hls" => r.retries = r.retry
    BY <1>2, <2>1 DEF MayRetry, Ended, InStep, Proxy
  <2>3. Retry(r) = [r EXCEPT !.ended = "retries"]
    BY <1>2 DEF Retry, Erase, Ended
  <2>4. Retry(r).ended = "retries"
    BY <2>3 DEF Proxy
  <2>5. Final(Retry(r)) = Destroyed(Retry(r))
    BY <2>4 DEF Final
  <2>6. LET d == Destroyed([r EXCEPT !.ended = "retries"]) IN RInv(d) /\ d.life = "gone"
    BY <2>2, BuriedIsAnswered DEF Ended
  <2> QED
    BY <2>3, <2>5, <2>6 DEF Kept
<1> QED
  BY <1>1, <1>2

LEMMA FailureKeeps ==
  ASSUME NEW r \in Proxy, Ended(r)
  PROVE  Kept(OnPlayResult(r, FALSE))
<1>1. CASE r.asked
  <2>1. Answer(r, FALSE) = [r EXCEPT !.ended = "refused", !.asked = FALSE, !.answers = @ + 1]
    BY <1>1 DEF Answer, Erase, Ended
  <2>2. r.answers + 1 = 1
    BY <1>1 DEF Ended
  <2>3. Answer(r, FALSE) = [r EXCEPT !.ended = "refused", !.asked = FALSE, !.answers = 1]
    BY <2>1, <2>2
  <2>4. LET a == Answer(r, FALSE) IN
          a \in Proxy /\ ~ a.asked /\ a.answers = 1 /\ a.ended = "refused"
    BY <2>3, AnswerType DEF Proxy
  <2> QED
    BY <2>4, RefusedIsBuried DEF OnPlayResult
<1>2. CASE ~ r.asked
  BY <1>2, RetryKeeps DEF OnPlayResult, Answer
<1> QED
  BY <1>1, <1>2

LEMMA ShutdownKeeps ==
  ASSUME NEW r \in Proxy, Ended(r), NEW reset \in BOOLEAN
  PROVE  Kept(OnShutdown(r, reset))
<1> DEFINE a == [r EXCEPT !.muxer = @ /\ ~ reset]
<1>1. (r.muxer /\ ~ reset) \in BOOLEAN
  BY Zenon
<1>2. \A b \in BOOLEAN : LET c == [r EXCEPT !.muxer = b] IN c \in Proxy /\ Ended(c)
  BY DEF Proxy, Ended, InStep
<1>3. a \in Proxy /\ Ended(a)
  BY <1>1, <1>2
<1> QED
  BY <1>3, RetryKeeps DEF OnShutdown

LEMMA SuccessKeeps ==
  ASSUME NEW r \in Proxy, r.life = "live", r.delegate = "playing", r.ended = "no",
         r.answers = IF r.asked THEN 0 ELSE 1
  PROVE  Kept(OnPlayResult(r, TRUE))
<1>1. PICK a \in Proxy : a = Answer(r, TRUE)
  BY AnswerType
<1>2. /\ a.life = "live" /\ a.delegate = "playing" /\ a.ended = "no"
      /\ a.answers = 1 /\ ~ a.asked /\ a.kind = r.kind /\ a.retry \in Int
  BY <1>1, Assumption DEF Answer, Proxy
<1>3. OnPlayResult(r, TRUE) = OnPlaySuccess(a)
  BY <1>1 DEF OnPlayResult
<1> DEFINE b == OnPlaySuccess(a)
<1>4. /\ b.life = "live" /\ b.delegate = "playing" /\ b.ended = "no"
      /\ b.answers = 1 /\ ~ b.asked /\ b.timer = NoTimer /\ b.failed = 0 /\ b.retries = 0
      /\ b.retry \in Int
  BY <1>2 DEF OnPlaySuccess, Proxy
<1> HIDE DEF b
<1>5. RInv(b)
  BY <1>4 DEF RInv, Running, InStep
<1>6. Final(b) = b
  BY <1>4 DEF Final
<1> QED
  BY <1>3, <1>4, <1>5, <1>6 DEF Kept, b

\* The timer fires for a proxy that is not playing; an HLS delegate that is released may end it.
LEMMA PlayKeeps ==
  ASSUME NEW r \in Proxy, r.life = "live", Running(r), r.timer # NoTimer,
         NEW indexed \in BOOLEAN, NEW reset \in BOOLEAN
  PROVE  Kept(Play([r EXCEPT !.timer = NoTimer], indexed, reset))
<1> DEFINE q == [r EXCEPT !.timer = NoTimer]
           a == Released(q, indexed, reset)
<1> SUFFICES Kept(Play(q, indexed, reset))
  OBVIOUS
<1>1. /\ q \in Proxy /\ q.life = "live" /\ q.ended = "no" /\ q.timer = NoTimer
      /\ q.delegate = r.delegate /\ q.kind = r.kind /\ q.retry = r.retry
      /\ q.failed = r.failed /\ q.retries = r.retries /\ q.asked = r.asked
      /\ q.answers = r.answers
  BY DEF Running, Proxy, NoTimer
<1>2. q.delegate \in {"trying", "failed", "over"} /\ (q.delegate = "trying" => q.kind = "hls")
  BY <1>1 DEF Running, Proxy
<1>3. q.answers = IF q.asked THEN 0 ELSE 1
  BY <1>1 DEF Running
<1>4. q.kind # "hls" /\ q.retry >= 0 => q.failed <= q.retry /\ q.failed = q.retries + 1
  BY <1>1 DEF Running, InStep
<1> HIDE DEF q
<1>5. CASE q.kind = "hls"
  <2>1. Ended(q)
    BY <1>1, <1>2, <1>3, <1>5 DEF Ended, InStep
  <2>2. a \in Proxy
    BY <1>1, PlayType
  <2>3. Kept(OnPlayResult(q, FALSE)) /\ Kept(OnShutdown(q, reset))
    BY <1>1, <2>1, FailureKeeps, ShutdownKeeps
  <2>4. a = q \/ Kept(a)
    BY <2>3 DEF Released
  <2>5. CASE a.ended # "no"
    BY <1>1, <2>4, <2>5 DEF Play, Kept
  <2>6. CASE a.ended = "no"
    <3>1. a.life = "live" /\ a.answers = IF a.asked THEN 0 ELSE 1
      BY <1>1, <1>3, <2>2, <2>4, <2>6 DEF Kept, Final, RInv, Running, Buried, Proxy
    <3>2. a.kind = "hls"
      BY <1>1, <1>5, ReleasedKind
    <3>3. Play(q, indexed, reset)
            = [a EXCEPT !.delegate = "trying", !.retries = Counted(a.retries)]
      BY <2>6 DEF Play
    <3> HIDE DEF a
    <3> QED
      BY <2>2, <2>6, <3>1, <3>2, <3>3 DEF Kept, Final, RInv, Running, InStep, Proxy
  <2> QED
    BY <2>5, <2>6
<1>6. CASE q.kind # "hls"
  <2>1. Play(q, indexed, reset)
          = [q EXCEPT !.delegate = "trying", !.retries = Counted(q.retries)]
    BY <1>1, <1>6 DEF Play, Released
  <2>2. q.failed \in Nat /\ q.retries \in Nat /\ q.retry \in RetryCounts /\ q.retry \in Int
    BY <1>1, Assumption DEF Proxy
  <2>3. q.retry >= 0 => Counted(q.retries) = q.failed /\ q.failed <= q.retry
    BY <1>4, <1>6, <2>2, CountedBelow
  <2> QED
    BY <1>1, <1>3, <1>6, <2>1, <2>3 DEF Kept, Final, RInv, Running, InStep, Proxy
<1> QED
  BY <1>5, <1>6

----------------------------------------------------------------------------
(* The steps                                                               *)

LEMMA StepKeeps ==
  ASSUME IInv, NEW p \in Proxies, NEW r \in Proxy, Kept(r), Becomes(p, r), UNCHANGED up
  PROVE  IInv'
<1>1. proxy' = [proxy EXCEPT ![p] = Final(r)]
  BY DEF Becomes, Final
<1>2. Final(r) \in Proxy /\ RInv(Final(r))
  BY FinalType DEF Kept
<1> QED
  BY <1>1, <1>2 DEF IInv, TypeOK

LEMMA UnusedFacts ==
  /\ Unused \in Proxy /\ Unused.life = "new" /\ Untouched(Unused)
  /\ Unused.failed = 0 /\ Unused.retries = 0 /\ Unused.timer = NoTimer
<1>1. /\ (CHOOSE k \in Keys : TRUE) \in Keys
      /\ (CHOOSE k \in Kinds : TRUE) \in Kinds
      /\ (CHOOSE c \in RetryCounts : TRUE) \in RetryCounts
  BY Assumption
<1> QED
  BY <1>1 DEF Unused, Proxy, Untouched, NoTimer

LEMMA Initially == Init => IInv
<1> SUFFICES ASSUME Init PROVE IInv
  OBVIOUS
<1>1. \A p \in Proxies : proxy[p] = Unused
  BY DEF Init
<1>2. proxy \in [Proxies -> Proxy] /\ up \in BOOLEAN
  BY UnusedFacts DEF Init
<1>3. RInv(Unused)
  BY UnusedFacts DEF RInv
<1> QED
  BY <1>1, <1>2, <1>3 DEF IInv, TypeOK

LEMMA Added == ASSUME IInv, NEW p \in Proxies, NEW k \in Keys, AddStreamProxy(p, k) PROVE IInv'
<1>1. PICK kind \in Kinds, retry \in RetryCounts :
        proxy' = [proxy EXCEPT ![p] = [Unused EXCEPT !.life = "live", !.key = k, !.kind = kind,
                   !.retry = retry, !.delegate = "trying", !.asked = TRUE]]
  BY DEF AddStreamProxy
<1> DEFINE r == [Unused EXCEPT !.life = "live", !.key = k, !.kind = kind,
                               !.retry = retry, !.delegate = "trying", !.asked = TRUE]
<1>2. retry \in Int
  BY Assumption
<1>3. /\ r \in Proxy /\ r.life = "live" /\ r.ended = "no" /\ r.delegate = "trying"
      /\ r.asked /\ r.answers = 0 /\ r.timer = NoTimer /\ r.failed = 0 /\ r.retries = 0
      /\ r.retry \in Int
  BY <1>2, UnusedFacts DEF Untouched, Proxy
<1> HIDE DEF r
<1>4. r \in Proxy /\ RInv(r)
  BY <1>3 DEF RInv, Running, InStep
<1>5. proxy' = [proxy EXCEPT ![p] = r] /\ UNCHANGED up
  BY <1>1 DEF r, AddStreamProxy
<1> QED
  BY <1>4, <1>5 DEF IInv, TypeOK

\* delStreamProxy() and close().
LEMMA TakenOut ==
  ASSUME IInv, NEW p \in Proxies, DelStreamProxy(p) \/ Close(p)
  PROVE  IInv'
<1>1. PICK why \in {"deleted", "closed"} : Becomes(p, Erase(proxy[p], why)) /\ UNCHANGED up
  BY DEF DelStreamProxy, Close
<1>2. proxy[p] \in Proxy /\ Running(proxy[p])
  BY DEF IInv, TypeOK, RInv, Live, DelStreamProxy, Close
<1>3. Erase(proxy[p], why) = [proxy[p] EXCEPT !.ended = why]
  BY <1>2 DEF Erase, Running
<1>4. LET e == Erase(proxy[p], why) IN e \in Proxy /\ e.ended # "no"
  BY <1>2, EraseFacts DEF Running
<1>5. LET d == Destroyed([proxy[p] EXCEPT !.ended = why]) IN RInv(d) /\ d.life = "gone"
  BY <1>2, BuriedIsAnswered DEF Running
<1>6. Kept(Erase(proxy[p], why))
  BY <1>3, <1>4, <1>5 DEF Kept, Final
<1> QED
  BY <1>1, <1>4, <1>6, StepKeeps

\* A delegate that changes its state by itself.
LEMMA Delegated ==
  ASSUME NEW r \in Proxy, r.life = "live", Running(r), NEW d \in {"playing", "failed", "over"}
  PROVE  LET q == [r EXCEPT !.delegate = d] IN
           /\ q \in Proxy /\ q.life = "live" /\ q.ended = "no" /\ q.delegate = d
           /\ q.answers = IF q.asked THEN 0 ELSE 1
           /\ q.kind = r.kind /\ InStep(q) /\ q.timer = r.timer
           /\ d # "playing" /\ (r.kind # "hls" => r.timer = NoTimer) => Ended(q)
<1> DEFINE q == [r EXCEPT !.delegate = d]
<1>1. /\ q \in Proxy /\ q.life = "live" /\ q.ended = "no" /\ q.delegate = d
      /\ q.kind = r.kind /\ q.timer = r.timer /\ q.asked = r.asked /\ q.answers = r.answers
      /\ q.failed = r.failed /\ q.retries = r.retries /\ q.retry = r.retry
  BY DEF Running, Proxy
<1> HIDE DEF q
<1>2. InStep(q) /\ q.answers = IF q.asked THEN 0 ELSE 1
  BY <1>1 DEF InStep, Running
<1>3. d # "playing" /\ (r.kind # "hls" => r.timer = NoTimer) => Ended(q)
  BY <1>1, <1>2 DEF Ended
<1>4. /\ q \in Proxy /\ q.life = "live" /\ q.ended = "no" /\ q.delegate = d
      /\ q.answers = IF q.asked THEN 0 ELSE 1
      /\ q.kind = r.kind /\ InStep(q) /\ q.timer = r.timer
      /\ d # "playing" /\ (r.kind # "hls" => r.timer = NoTimer) => Ended(q)
  BY <1>1, <1>2, <1>3
<1> QED
  BY <1>4 DEF q

LEMMA Reported == ASSUME IInv, NEW p \in Proxies, Reports(p) PROVE IInv'
<1> DEFINE r == proxy[p]
           q(d) == [r EXCEPT !.delegate = d]
<1>1. r \in Proxy /\ r.life = "live" /\ Running(r) /\ UNCHANGED up
  BY DEF IInv, TypeOK, RInv, Live, Reports, PlaySucceeds, PlayFails, NoData, Interrupted
<1>2. CASE PlaySucceeds(p)
  <2>1. Becomes(p, OnPlayResult(q("playing"), TRUE))
    BY <1>2 DEF PlaySucceeds
  <2>2. OnPlayResult(q("playing"), TRUE) \in Proxy /\ Kept(OnPlayResult(q("playing"), TRUE))
    BY <1>1, Delegated, SuccessKeeps, ResultType
  <2> QED
    BY <1>1, <2>1, <2>2, StepKeeps
<1>3. CASE PlayFails(p)
  <2>1. Becomes(p, OnPlayResult(q("failed"), FALSE)) /\ r.delegate = "trying"
    BY <1>3 DEF PlayFails
  <2>2. q("failed") \in Proxy /\ Ended(q("failed"))
    BY <1>1, <2>1, Delegated DEF Running
  <2> QED
    BY <1>1, <2>1, <2>2, FailureKeeps, ResultType, StepKeeps
<1>4. CASE NoData(p) \/ (Interrupted(p) /\ r.kind # "srt")
  <2>1. PICK reset \in BOOLEAN :
          Becomes(p, OnShutdown(q("over"), reset)) /\ r.delegate \in {"trying", "playing"}
    BY <1>4 DEF NoData, Interrupted
  <2>2. q("over") \in Proxy /\ Ended(q("over"))
    BY <1>1, <2>1, Delegated DEF Running
  <2> QED
    BY <1>1, <2>1, <2>2, ShutdownKeeps, ShutdownType, StepKeeps
<1>5. CASE Interrupted(p) /\ r.kind = "srt"
  <2>1. Becomes(p, q("over")) /\ r.delegate = "playing"
    BY <1>5 DEF Interrupted
  <2>2. q("over") \in Proxy /\ Kept(q("over"))
    <3> DEFINE o == q("over")
    <3>1. /\ o \in Proxy /\ o.life = "live" /\ o.ended = "no" /\ o.delegate = "over"
          /\ o.answers = (IF o.asked THEN 0 ELSE 1) /\ o.kind = "srt" /\ InStep(o)
      BY <1>1, <1>5, Delegated
    <3> HIDE DEF o
    <3>2. o \in Proxy /\ Kept(o)
      BY <3>1 DEF Kept, Final, RInv, Running
    <3> QED
      BY <3>2 DEF o
  <2> QED
    BY <1>1, <2>1, <2>2, StepKeeps
<1> QED
  BY <1>2, <1>3, <1>4, <1>5 DEF Reports

LEMMA Fired == ASSUME IInv, NEW p \in Proxies, TimerFires(p) PROVE IInv'
<1>1. PICK indexed \in BOOLEAN, reset \in BOOLEAN :
        Becomes(p, Play([proxy[p] EXCEPT !.timer = NoTimer], indexed, reset)) /\ UNCHANGED up
  BY DEF TimerFires
<1>2. proxy[p] \in Proxy /\ proxy[p].life = "live" /\ Running(proxy[p])
        /\ proxy[p].timer # NoTimer
  BY DEF IInv, TypeOK, RInv, Live, TimerFires
<1>3. [proxy[p] EXCEPT !.timer = NoTimer] \in Proxy
  BY <1>2 DEF Proxy, NoTimer
<1> QED
  BY <1>1, <1>2, <1>3, PlayKeeps, PlayType, StepKeeps

LEMMA Inductive == IInv /\ [Next]_vars => IInv'
<1> SUFFICES ASSUME IInv, [Next]_vars PROVE IInv'
  OBVIOUS
<1>1. ASSUME NEW p \in Proxies, Requests(p) PROVE IInv'
  BY <1>1, Added, TakenOut DEF Requests
<1>2. ASSUME NEW p \in Proxies, Reports(p) PROVE IInv'
  BY <1>2, Reported
<1>3. ASSUME NEW p \in Proxies, TimerFires(p) PROVE IInv'
  BY <1>3, Fired
<1>4. CASE Source
  <2>1. up' \in BOOLEAN /\ proxy' = proxy
    BY <1>4 DEF Source
  <2> QED
    BY <2>1 DEF IInv, TypeOK
<1>5. CASE UNCHANGED vars
  BY <1>5 DEF vars, IInv, TypeOK
<1> QED
  BY <1>1, <1>2, <1>3, <1>4, <1>5 DEF Next

THEOREM Invariant == Spec => []IInv
<1> QED
  BY Initially, Inductive, PTL DEF Spec

----------------------------------------------------------------------------
(* Results                                                                 *)

\* The members of a proxy keep their types: through every order of results, shutdowns, timers
\* and requests an armed delay is a number and the counters do not fall below zero.
THEOREM ProxyTyping == Spec => []TypeOK
<1>1. IInv => TypeOK
  BY DEF IInv
<1> QED
  BY <1>1, Invariant, PTL

\* PlayerProxy::play(), rePlay() and the callbacks never leave a proxy without an attempt, a
\* playback or a timer, and no timer of an old failure outlives a success.
THEOREM NeverStuck == Spec => []Recovers
<1>1. IInv => Recovers
  <2> SUFFICES ASSUME IInv, NEW p \in Proxies
               PROVE  /\ proxy[p].kind # "srt" => GoesOn(p)
                      /\ proxy[p].delegate = "playing" => proxy[p].timer = NoTimer
    BY DEF Recovers
  <2>1. proxy[p] \in Proxy /\ RInv(proxy[p])
    BY DEF IInv, TypeOK
  <2> QED
    BY <2>1 DEF RInv, Running, Buried, Untouched, GoesOn, Live, Proxy
<1> QED
  BY <1>1, Invariant, PTL

\* addStreamProxy answers its request exactly once, by the first result or from ~PlayerProxy().
THEOREM RequestAnswered == Spec => []AnsweredOnce
<1>1. IInv => AnsweredOnce
  <2> SUFFICES ASSUME IInv, NEW p \in Proxies
               PROVE  proxy[p].answers = IF proxy[p].life = "new" \/ proxy[p].asked THEN 0 ELSE 1
    BY DEF AnsweredOnce
  <2>1. proxy[p] \in Proxy /\ RInv(proxy[p])
    BY DEF IInv, TypeOK
  <2> QED
    BY <2>1 DEF RInv, Running, Buried, Untouched, Proxy
<1> QED
  BY <1>1, Invariant, PTL

\* A proxy that gives up by itself has been played again retry_count times since its last
\* success, whatever retry_count is, for every protocol but HLS.
THEOREM GivesUpInTime == Spec => []RetriesAsPromised
<1>1. IInv => RetriesAsPromised
  <2> SUFFICES ASSUME IInv, NEW p \in Proxies,
                      proxy[p].ended = "retries", proxy[p].kind # "hls"
               PROVE  proxy[p].retries = proxy[p].retry
    BY DEF RetriesAsPromised
  <2>1. proxy[p] \in Proxy /\ RInv(proxy[p])
    BY DEF IInv, TypeOK
  <2> QED
    BY <2>1 DEF RInv, Running, Buried, Untouched, Proxy
<1> QED
  BY <1>1, Invariant, PTL
=============================================================================
