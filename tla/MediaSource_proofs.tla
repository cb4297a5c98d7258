------------------------- MODULE MediaSource_proofs -------------------------
(***************************************************************************)
(* Safety of MediaSource for any number of sources, sessions and lookups:  *)
(* types, one answer per lookup, no listener or delayed task left behind,  *)
(* no entry taken away from a live source, and the refinement of           *)
(* StreamLookup.                                                           *)
(***************************************************************************)
EXTENDS MediaSource, TLAPS

\* What is queued on the poller of a session belongs to that session, and whatever can call
\* back belongs to a lookup that is waiting (or about to).
Pending == {r \in Requests : pc[r] \in {"listening", "waiting"}}

SetsSourced ==
  /\ timers \subseteq Pending /\ listeners \subseteq Pending /\ closers \subseteq Pending
  /\ \A s \in Sources : toTell[s] \subseteq Pending

QueueSourced ==
  \A n \in Sessions : \A i \in 1 .. Len(queue[n]) :
    SessionOf[queue[n][i].request] = n /\ queue[n][i].request \in Pending

\* The callback is counted, and has been made through cb_once unless the stream was there.
Counted ==
  \A r \in Requests :
    /\ calls[r] = IF answer[r] = "none" THEN 0 ELSE 1
    /\ pc[r] \in {"new", "missed"} => answer[r] = "none" /\ r \notin invoked
    /\ r \in Pending => (r \in invoked <=> answer[r] # "none")

IInv == TypeOK /\ SetsSourced /\ QueueSourced /\ Counted /\ AnswerCleansUp

\* An entry is found under the name of its source.
TableKeyed == \A k \in Keys : table[k] # None => SourceKey[table[k]] = k

----------------------------------------------------------------------------
(* Types                                                                   *)

LEMMA InitTypeOK == Init => TypeOK
  BY Assumption DEF Init, TypeOK

LEMMA FoundType == ASSUME TypeOK, NEW k \in Keys PROVE Found(k) \in Sources \cup {None}
  BY DEF TypeOK, Found

LEMMA QueueHead ==
  ASSUME TypeOK, NEW n \in Sessions, queue[n] # << >>
  PROVE  /\ Head(queue[n]) \in Lambdas
         /\ Head(queue[n]) = queue[n][1] /\ 1 \in 1 .. Len(queue[n])
         /\ Tail(queue[n]) \in Seq(Lambdas)
  BY DEF TypeOK

\* A step of the poller: what it calls back with has a type, what it cancels shrinks.
LEMMA CallbackOnceType ==
  ASSUME TypeOK, NEW r \in Requests, NEW a \in Sources \cup {None}, CallbackOnce(r, a)
  PROVE  /\ invoked' \subseteq Requests /\ calls' \in [Requests -> Nat]
         /\ answer' \in [Requests -> Sources \cup {None, "none"}]
<1>1. invoked' \subseteq Requests
  BY DEF TypeOK, CallbackOnce
<1>2. CASE r \in invoked
  BY <1>1, <1>2 DEF TypeOK, CallbackOnce
<1>3. CASE r \notin invoked
  <2>1. Callback(r, a)
    BY <1>3 DEF CallbackOnce
  <2>2. calls' \in [Requests -> Nat]
    BY <2>1 DEF Callback, TypeOK
  <2>3. answer' \in [Requests -> Sources \cup {None, "none"}]
    BY <2>1 DEF Callback, TypeOK
  <2> QED
    BY <1>1, <2>2, <2>3
<1> QED
  BY <1>2, <1>3

LEMMA NextTypeOK == TypeOK /\ [Next]_vars => TypeOK'
<1> SUFFICES ASSUME TypeOK, [Next]_vars PROVE TypeOK'
  OBVIOUS
<1> USE Assumption
<1>1. ASSUME NEW s \in Sources, PublisherStep(s) PROVE TypeOK'
  <2>1. CASE Regist(s)
    BY <2>1 DEF TypeOK, Regist, askVars
  <2>2. CASE Announce(s)
    BY <2>2 DEF TypeOK, Announce, askVars
  <2>3. CASE Unregist(s)
    BY <2>3 DEF TypeOK, Unregist, askVars
  <2>4. CASE Drop(s)
    BY <2>4 DEF TypeOK, Drop, askVars
  <2>5. CASE Destroy(s)
    BY <2>5 DEF TypeOK, Destroy, askVars
  <2>6. ASSUME NEW r \in Requests, Tell(s, r) PROVE TypeOK'
    <3>1. [op |-> "found", request |-> r] \in Lambdas
      BY DEF Lambdas
    <3>2. queue' \in [Sessions -> Seq(Lambdas)]
      BY <2>6, <3>1 DEF TypeOK, Tell
    <3> QED
      BY <2>6, <3>2 DEF TypeOK, Tell, askVars
  <2> QED
    BY <1>1, <2>1, <2>2, <2>3, <2>4, <2>5, <2>6 DEF PublisherStep
<1>2. ASSUME NEW r \in Requests, AskStep(r) PROVE TypeOK'
  <2>1. CASE FindHit(r)
    BY <2>1, FoundType DEF TypeOK, FindHit, Callback, sourceVars
  <2>2. CASE FindMiss(r)
    BY <2>2 DEF TypeOK, FindMiss, sourceVars
  <2>3. CASE Listen(r)
    BY <2>3 DEF TypeOK, Listen, sourceVars
  <2>4. CASE NotFound(r)
    BY <2>4 DEF TypeOK, NotFound, sourceVars
  <2>5. CASE NotFoundClosed(r)
    BY <2>5, CallbackOnceType DEF TypeOK, NotFoundClosed, CancelAll, WithoutTag, sourceVars
  <2> QED
    BY <1>2, <2>1, <2>2, <2>3, <2>4, <2>5 DEF AskStep
<1>3. ASSUME NEW r \in Requests, ClosePlayer(r) PROVE TypeOK'
  <2>1. [op |-> "close", request |-> r] \in Lambdas
    BY DEF Lambdas
  <2>2. queue' \in [Sessions -> Seq(Lambdas)]
    BY <1>3, <2>1 DEF TypeOK, ClosePlayer
  <2> QED
    BY <1>3, <2>2 DEF TypeOK, ClosePlayer, sourceVars
<1>4. ASSUME NEW n \in Sessions, PollerStep(n) PROVE TypeOK'
  <2>1. CASE RunFound(n)
    <3>1. Head(queue[n]).request \in Requests /\ Tail(queue[n]) \in Seq(Lambdas)
      BY <2>1, QueueHead DEF RunFound, Lambda, Lambdas
    <3>2. Found(KeyOf[Head(queue[n]).request]) \in Sources \cup {None}
      BY <3>1, FoundType
    <3>3. /\ invoked' \subseteq Requests /\ calls' \in [Requests -> Nat]
          /\ answer' \in [Requests -> Sources \cup {None, "none"}]
      BY <2>1, <3>1, <3>2, CallbackOnceType DEF RunFound, TypeOK
    <3> QED
      BY <2>1, <3>1, <3>3
      DEF TypeOK, RunFound, Lambda, CancelAll, WithoutTag, sourceVars, askVars
  <2>2. CASE RunClose(n)
    <3>1. Head(queue[n]).request \in Requests /\ Tail(queue[n]) \in Seq(Lambdas)
      BY <2>2, QueueHead DEF RunClose, Lambda, Lambdas
    <3>2. /\ invoked' \subseteq Requests /\ calls' \in [Requests -> Nat]
          /\ answer' \in [Requests -> Sources \cup {None, "none"}]
      BY <2>2, <3>1, CallbackOnceType DEF RunClose
    <3> QED
      BY <2>2, <3>1, <3>2
      DEF TypeOK, RunClose, Lambda, CancelAll, WithoutTag, sourceVars, askVars
  <2>3. ASSUME NEW r \in Requests, Timeout(r) PROVE TypeOK'
    BY <2>3, CallbackOnceType DEF TypeOK, Timeout, WithoutTag, sourceVars, askVars
  <2> QED
    BY <1>4, <2>1, <2>2, <2>3 DEF PollerStep
<1>5. ASSUME NEW n \in Sessions, SessionDies(n) PROVE TypeOK'
  BY <1>5 DEF TypeOK, SessionDies, sourceVars, askVars
<1>6. CASE UNCHANGED vars
  BY <1>6 DEF TypeOK, vars, sourceVars, askVars
<1> QED
  BY <1>1, <1>2, <1>3, <1>4, <1>5, <1>6 DEF Next

\* Every variable of MediaSource keeps its type, for any sources, sessions and lookups.
THEOREM Typing == Spec => []TypeOK
  BY InitTypeOK, NextTypeOK, PTL DEF Spec

----------------------------------------------------------------------------
(* Where callbacks come from                                               *)

\* A lookup never leaves Pending, so only what is newly queued or armed matters.
LEMMA PendingGrows ==
  ASSUME TypeOK, [Next]_vars
  PROVE  Pending \subseteq Pending'
<1> USE DEF TypeOK, Pending
<1>1. ASSUME NEW s \in Sources, PublisherStep(s) PROVE Pending \subseteq Pending'
  BY <1>1 DEF PublisherStep, Regist, Announce, Unregist, Drop, Destroy, Tell, askVars
<1>2. ASSUME NEW r \in Requests, AskStep(r) PROVE Pending \subseteq Pending'
  BY <1>2 DEF AskStep, FindHit, FindMiss, Listen, NotFound, NotFoundClosed, MayAsk
<1>3. ASSUME NEW r \in Requests, ClosePlayer(r) PROVE Pending \subseteq Pending'
  BY <1>3 DEF ClosePlayer
<1>4. ASSUME NEW n \in Sessions, PollerStep(n) PROVE Pending \subseteq Pending'
  BY <1>4 DEF PollerStep, RunFound, RunClose, Timeout, askVars
<1>5. ASSUME NEW n \in Sessions, SessionDies(n) PROVE Pending \subseteq Pending'
  BY <1>5 DEF SessionDies, askVars
<1>6. CASE UNCHANGED vars
  BY <1>6 DEF vars, askVars
<1> QED
  BY <1>1, <1>2, <1>3, <1>4, <1>5, <1>6 DEF Next

LEMMA NextSetsSourced ==
  ASSUME TypeOK, SetsSourced, [Next]_vars
  PROVE  SetsSourced'
<1>0. Pending \subseteq Pending'
  BY PendingGrows
<1> USE <1>0 DEF TypeOK, SetsSourced
<1>1. ASSUME NEW s \in Sources, PublisherStep(s) PROVE SetsSourced'
  <2>1. CASE Regist(s) \/ Unregist(s) \/ Drop(s) \/ Destroy(s)
    BY <2>1 DEF Regist, Unregist, Drop, Destroy, askVars
  <2>2. CASE Announce(s)
    BY <2>2 DEF Announce, askVars
  <2>3. ASSUME NEW r \in Requests, Tell(s, r) PROVE SetsSourced'
    BY <2>3 DEF Tell, askVars
  <2> QED
    BY <1>1, <2>1, <2>2, <2>3 DEF PublisherStep
<1>2. ASSUME NEW r \in Requests, AskStep(r) PROVE SetsSourced'
  <2>1. CASE FindHit(r) \/ FindMiss(r)
    BY <2>1 DEF FindHit, FindMiss, sourceVars
  <2>2. CASE Listen(r)
    <3>1. r \in Pending'
      BY <2>2 DEF Listen, Pending
    <3> QED
      BY <2>2, <3>1 DEF Listen, sourceVars
  <2>3. CASE NotFound(r)
    <3>1. r \in Pending'
      BY <2>3 DEF NotFound, Pending
    <3> QED
      BY <2>3, <3>1 DEF NotFound, sourceVars
  <2>4. CASE NotFoundClosed(r)
    BY <2>4 DEF NotFoundClosed, CancelAll, WithoutTag, sourceVars
  <2> QED
    BY <1>2, <2>1, <2>2, <2>3, <2>4 DEF AskStep
<1>3. ASSUME NEW r \in Requests, ClosePlayer(r) PROVE SetsSourced'
  BY <1>3 DEF ClosePlayer, sourceVars
<1>4. ASSUME NEW n \in Sessions, PollerStep(n) PROVE SetsSourced'
  BY <1>4 DEF PollerStep, RunFound, RunClose, Timeout, CancelAll, WithoutTag, sourceVars, askVars
<1>5. ASSUME NEW n \in Sessions, SessionDies(n) PROVE SetsSourced'
  BY <1>5 DEF SessionDies, sourceVars, askVars
<1>6. CASE UNCHANGED vars
  BY <1>6 DEF vars, sourceVars, askVars
<1> QED
  BY <1>1, <1>2, <1>3, <1>4, <1>5, <1>6 DEF Next

LEMMA QueueKept ==
  ASSUME TypeOK, QueueSourced, Pending \subseteq Pending', queue' = queue
  PROVE  QueueSourced'
  BY DEF QueueSourced

LEMMA QueueAppended ==
  ASSUME TypeOK, QueueSourced, Pending \subseteq Pending',
         NEW r \in Pending, NEW op \in {"found", "close"},
         queue' = [queue EXCEPT ![SessionOf[r]] = Append(@, [op |-> op, request |-> r])]
  PROVE  QueueSourced'
<1> USE Assumption DEF TypeOK
<1> DEFINE l == [op |-> op, request |-> r]
           home == SessionOf[r]
<1>1. r \in Requests /\ home \in Sessions /\ l \in Lambdas /\ l.request = r
  BY DEF Pending, Lambdas
<1>2. queue[home] \in Seq(Lambdas)
  BY <1>1
<1>3. SUFFICES ASSUME NEW n \in Sessions, NEW i \in 1 .. Len(queue'[n])
               PROVE  SessionOf[queue'[n][i].request] = n /\ queue'[n][i].request \in Pending'
  BY DEF QueueSourced
<1>4. CASE n # home
  BY <1>3, <1>4 DEF QueueSourced
<1>5. CASE n = home
  <2>1. queue'[n] = Append(queue[home], l)
    BY <1>1, <1>5
  <2>2. CASE i = Len(queue[home]) + 1
    <3>1. queue'[n][i] = l
      BY <1>2, <2>1, <2>2
    <3> QED
      BY <3>1, <1>1, <1>5
  <2>3. CASE i # Len(queue[home]) + 1
    <3>1. i \in 1 .. Len(queue[home]) /\ queue'[n][i] = queue[home][i]
      BY <1>1, <1>2, <1>3, <2>1, <2>3
    <3> QED
      BY <3>1, <1>1, <1>5 DEF QueueSourced
  <2> QED
    BY <2>2, <2>3
<1> QED
  BY <1>4, <1>5

LEMMA QueueTaken ==
  ASSUME TypeOK, QueueSourced, Pending \subseteq Pending',
         NEW h \in Sessions, queue[h] # << >>, queue' = [queue EXCEPT ![h] = Tail(@)]
  PROVE  QueueSourced'
<1> USE DEF TypeOK
<1>1. SUFFICES ASSUME NEW n \in Sessions, NEW i \in 1 .. Len(queue'[n])
               PROVE  SessionOf[queue'[n][i].request] = n /\ queue'[n][i].request \in Pending'
  BY DEF QueueSourced
<1>2. CASE n # h
  BY <1>1, <1>2 DEF QueueSourced
<1>3. CASE n = h
  <2>1. queue[h] \in Seq(Lambdas) /\ queue'[n] = Tail(queue[h])
    BY <1>3
  <2>2. Len(queue'[n]) = Len(queue[h]) - 1
    BY <2>1
  <2>3. i + 1 \in 1 .. Len(queue[h])
    BY <1>1, <2>1, <2>2
  <2>4. queue'[n][i] = queue[h][i + 1]
    BY <1>1, <2>1, <2>2
  <2> QED
    BY <1>3, <2>3, <2>4 DEF QueueSourced
<1> QED
  BY <1>2, <1>3

LEMMA NextQueueSourced ==
  ASSUME TypeOK, SetsSourced, QueueSourced, [Next]_vars
  PROVE  QueueSourced'
<1>0. Pending \subseteq Pending'
  BY PendingGrows
<1>1. ASSUME NEW s \in Sources, PublisherStep(s) PROVE QueueSourced'
  <2>1. ASSUME NEW r \in Requests, Tell(s, r) PROVE QueueSourced'
    <3>1. r \in Pending
      BY <2>1 DEF Tell, SetsSourced
    <3>2. CASE KeyOf[r] = SourceKey[s]
      BY <1>0, <2>1, <3>1, <3>2, QueueAppended DEF Tell
    <3>3. CASE KeyOf[r] # SourceKey[s]
      BY <1>0, <2>1, <3>3, QueueKept DEF Tell
    <3> QED
      BY <3>2, <3>3
  <2>2. CASE queue' = queue
    BY <1>0, <2>2, QueueKept
  <2> QED
    BY <1>1, <2>1, <2>2 DEF PublisherStep, Regist, Announce, Unregist, Drop, Destroy
<1>2. ASSUME NEW r \in Requests, AskStep(r) PROVE QueueSourced'
  BY <1>0, <1>2, QueueKept DEF AskStep, FindHit, FindMiss, Listen, NotFound, NotFoundClosed
<1>3. ASSUME NEW r \in Requests, ClosePlayer(r) PROVE QueueSourced'
  <2>1. r \in Pending
    BY <1>3 DEF ClosePlayer, SetsSourced
  <2> QED
    BY <1>0, <1>3, <2>1, QueueAppended DEF ClosePlayer
<1>4. ASSUME NEW n \in Sessions, PollerStep(n) PROVE QueueSourced'
  BY <1>0, <1>4, QueueTaken, QueueKept DEF PollerStep, RunFound, RunClose, Lambda, Timeout
<1>5. ASSUME NEW n \in Sessions, SessionDies(n) PROVE QueueSourced'
  BY <1>0, <1>5, QueueKept DEF SessionDies
<1>6. CASE UNCHANGED vars
  BY <1>0, <1>6, QueueKept DEF vars
<1> QED
  BY <1>1, <1>2, <1>3, <1>4, <1>5, <1>6 DEF Next

----------------------------------------------------------------------------
(* One answer                                                              *)

\* A lookup that is waiting calls back through cb_once: the count stays right.
LEMMA CallbackOnceCounted ==
  ASSUME TypeOK, Counted, NEW r \in Pending, NEW a \in Sources \cup {None},
         CallbackOnce(r, a), \A q \in Requests : pc'[q] = pc[q] \/ (q = r /\ r \in Pending')
  PROVE  Counted'
<1> USE Assumption DEF TypeOK, Counted, Pending
<1>0. r \in Requests /\ a # "none" /\ invoked' = invoked \cup {r}
  BY DEF CallbackOnce
<1>1. CASE r \in invoked
  BY <1>0, <1>1 DEF CallbackOnce
<1>2. CASE r \notin invoked
  <2>1. /\ calls' = [calls EXCEPT ![r] = @ + 1]
        /\ answer' = [answer EXCEPT ![r] = a]
    BY <1>2 DEF CallbackOnce, Callback
  <2>2. calls[r] = 0
    BY <1>0, <1>2
  <2>3. SUFFICES ASSUME NEW q \in Requests
                 PROVE  /\ calls'[q] = IF answer'[q] = "none" THEN 0 ELSE 1
                        /\ pc'[q] \in {"new", "missed"} =>
                             answer'[q] = "none" /\ q \notin invoked'
                        /\ q \in Pending' => (q \in invoked' <=> answer'[q] # "none")
    OBVIOUS
  <2>4. CASE q = r
    <3>1. pc'[r] \notin {"new", "missed"}
      OBVIOUS
    <3>2. calls'[r] = 1 /\ answer'[r] = a
      BY <1>0, <2>1, <2>2
    <3> QED
      BY <1>0, <2>4, <3>1, <3>2
  <2>5. CASE q # r
    BY <1>0, <2>1, <2>5
  <2> QED
    BY <2>4, <2>5
<1> QED
  BY <1>1, <1>2

LEMMA NextCounted ==
  ASSUME TypeOK, SetsSourced, QueueSourced, Counted, [Next]_vars
  PROVE  Counted'
<1> USE Assumption
<1>1. ASSUME NEW s \in Sources, PublisherStep(s) PROVE Counted'
  BY <1>1 DEF Counted, Pending, PublisherStep, Regist, Announce, Unregist, Drop, Destroy,
              Tell, askVars
<1>2. ASSUME NEW r \in Requests, AskStep(r) PROVE Counted'
  <2>1. CASE FindHit(r)
    <3>1. Found(KeyOf[r]) # "none"
      BY FoundType
    <3> QED
      BY <2>1, <3>1 DEF TypeOK, Counted, Pending, FindHit, MayAsk, Callback
  <2>2. CASE FindMiss(r)
    BY <2>2 DEF TypeOK, Counted, Pending, FindMiss, MayAsk
  <2>3. CASE Listen(r)
    BY <2>3 DEF TypeOK, Counted, Pending, Listen
  <2>4. CASE NotFound(r)
    BY <2>4 DEF TypeOK, Counted, Pending, NotFound
  <2>5. CASE NotFoundClosed(r)
    BY <2>5, CallbackOnceCounted DEF TypeOK, Pending, NotFoundClosed
  <2> QED
    BY <1>2, <2>1, <2>2, <2>3, <2>4, <2>5 DEF AskStep
<1>3. ASSUME NEW r \in Requests, ClosePlayer(r) PROVE Counted'
  BY <1>3 DEF Counted, Pending, ClosePlayer
<1>4. ASSUME NEW n \in Sessions, PollerStep(n) PROVE Counted'
  <2>1. ASSUME queue[n] # << >> PROVE Head(queue[n]).request \in Pending
    BY <2>1, QueueHead DEF QueueSourced
  <2>2. CASE RunFound(n)
    <3> DEFINE r == Head(queue[n]).request
    <3>1. r \in Pending /\ r \in Requests
      BY <2>1, <2>2 DEF RunFound, Lambda, Pending
    <3>2. Found(KeyOf[r]) \in Sources \cup {None}
      BY <3>1, FoundType
    <3>3. CASE r \in orphans
      BY <2>2, <3>3 DEF Counted, Pending, RunFound, askVars
    <3>4. CASE r \notin orphans
      BY <2>2, <3>1, <3>2, <3>4, CallbackOnceCounted DEF RunFound, askVars
    <3> QED
      BY <3>3, <3>4
  <2>3. CASE RunClose(n)
    BY <2>1, <2>3, CallbackOnceCounted DEF RunClose, Lambda, askVars
  <2>4. ASSUME NEW r \in Requests, Timeout(r) PROVE Counted'
    BY <2>4, CallbackOnceCounted DEF Timeout, SetsSourced, askVars
  <2> QED
    BY <1>4, <2>2, <2>3, <2>4 DEF PollerStep
<1>5. ASSUME NEW n \in Sessions, SessionDies(n) PROVE Counted'
  BY <1>5 DEF Counted, Pending, SessionDies, askVars
<1>6. CASE UNCHANGED vars
  BY <1>6 DEF Counted, Pending, vars, askVars
<1> QED
  BY <1>1, <1>2, <1>3, <1>4, <1>5, <1>6 DEF Next

----------------------------------------------------------------------------
(* Nothing left behind                                                     *)

\* Whatever is added belongs to a lookup without an answer; who answers cancels first.
LEMMA NextAnswerCleansUp ==
  ASSUME TypeOK, SetsSourced, QueueSourced, Counted, AnswerCleansUp, [Next]_vars
  PROVE  AnswerCleansUp'
<1> USE Assumption
<1>0. ASSUME NEW r \in Requests, r \in Pending, CancelAll(r), NEW a, CallbackOnce(r, a)
      PROVE  AnswerCleansUp'
  BY <1>0 DEF TypeOK, AnswerCleansUp, CancelAll, WithoutTag, CallbackOnce, Callback
<1>1. ASSUME NEW s \in Sources, PublisherStep(s) PROVE AnswerCleansUp'
  BY <1>1 DEF AnswerCleansUp, PublisherStep, Regist, Announce, Unregist, Drop, Destroy, Tell
<1>2. ASSUME NEW r \in Requests, AskStep(r) PROVE AnswerCleansUp'
  <2>1. CASE FindHit(r)
    <3>1. r \notin listeners \cup timers
      BY <2>1 DEF FindHit, MayAsk, SetsSourced, Pending
    <3> QED
      BY <2>1, <3>1 DEF TypeOK, AnswerCleansUp, FindHit, Callback
  <2>2. CASE FindMiss(r)
    BY <2>2 DEF AnswerCleansUp, FindMiss
  <2>3. CASE Listen(r)
    <3>1. calls[r] = 0
      BY <2>3 DEF Listen, Counted
    <3> QED
      BY <2>3, <3>1 DEF AnswerCleansUp, Listen
  <2>4. CASE NotFound(r)
    BY <2>4 DEF AnswerCleansUp, NotFound
  <2>5. CASE NotFoundClosed(r)
    BY <1>0, <2>5 DEF NotFoundClosed, Pending
  <2> QED
    BY <1>2, <2>1, <2>2, <2>3, <2>4, <2>5 DEF AskStep
<1>3. ASSUME NEW r \in Requests, ClosePlayer(r) PROVE AnswerCleansUp'
  BY <1>3 DEF AnswerCleansUp, ClosePlayer
<1>4. ASSUME NEW n \in Sessions, PollerStep(n) PROVE AnswerCleansUp'
  <2>1. ASSUME queue[n] # << >>
        PROVE  Head(queue[n]).request \in Pending /\ Head(queue[n]).request \in Requests
    BY <2>1, QueueHead DEF QueueSourced, Pending
  <2>2. CASE RunFound(n)
    <3> DEFINE r == Head(queue[n]).request
    <3>1. r \in Pending /\ r \in Requests
      BY <2>1, <2>2 DEF RunFound, Lambda
    <3>2. CASE r \in orphans
      BY <2>2, <3>2 DEF AnswerCleansUp, RunFound, CancelAll, WithoutTag
    <3>3. CASE r \notin orphans
      BY <1>0, <2>2, <3>1, <3>3 DEF RunFound
    <3> QED
      BY <3>2, <3>3
  <2>3. CASE RunClose(n)
    BY <1>0, <2>1, <2>3 DEF RunClose, Lambda
  <2>4. ASSUME NEW r \in Requests, Timeout(r) PROVE AnswerCleansUp'
    BY <1>0, <2>4 DEF Timeout, CancelAll, SetsSourced
  <2> QED
    BY <1>4, <2>2, <2>3, <2>4 DEF PollerStep
<1>5. ASSUME NEW n \in Sessions, SessionDies(n) PROVE AnswerCleansUp'
  BY <1>5 DEF AnswerCleansUp, SessionDies
<1>6. CASE UNCHANGED vars
  BY <1>6 DEF AnswerCleansUp, vars
<1> QED
  BY <1>1, <1>2, <1>3, <1>4, <1>5, <1>6 DEF Next

LEMMA InitIInv == Init => IInv
<1> SUFFICES ASSUME Init PROVE IInv
  OBVIOUS
<1>1. TypeOK
  BY InitTypeOK
<1>2. SetsSourced /\ QueueSourced /\ Counted /\ AnswerCleansUp
  BY DEF Init, SetsSourced, QueueSourced, Counted, AnswerCleansUp, Pending
<1> QED
  BY <1>1, <1>2 DEF IInv

LEMMA NextIInv == IInv /\ [Next]_vars => IInv'
  BY NextTypeOK, NextSetsSourced, NextQueueSourced, NextCounted, NextAnswerCleansUp DEF IInv

LEMMA Invariance == Spec => []IInv
  BY InitIInv, NextIInv, PTL DEF Spec

\* A player gets at most one callback from a lookup: the registration, the timeout and the
\* close of the player may race, for any number of each.
THEOREM OneAnswer == Spec => []AnsweredOnce
<1>1. IInv => AnsweredOnce
  BY DEF IInv, Counted, AnsweredOnce
<1> QED
  BY <1>1, Invariance, PTL

\* An answered lookup has neither a listener nor a delayed task.
THEOREM CleansUp == Spec => []AnswerCleansUp
<1>1. IInv => AnswerCleansUp
  BY DEF IInv
<1> QED
  BY <1>1, Invariance, PTL

----------------------------------------------------------------------------
(* No lookup sleeps through a registration                                 *)

\* A delayed task has its listener beside it, and a source that has been announced since has
\* the listener still to call or has called it: other lookups of the session apart, which
\* take every listener of the session with them.
Armed == \A r \in timers : OtherRequests(r) = {} => r \in listeners

Wakes ==
  \A r \in timers : \A s \in Sources :
    OtherRequests(r) = {} /\ status[s] = "announcing" /\ SourceKey[s] = KeyOf[r]
      => r \in toTell[s] \/ WokenUp(r) \/ r \in lost

\* Only a lookup of its own session takes a listener or a queued lambda from a lookup.
LEMMA AloneIsSame ==
  ASSUME NEW r \in Requests, NEW q \in Requests, OtherRequests(r) = {},
         SessionOf[q] = SessionOf[r]
  PROVE  q = r
  BY DEF OtherRequests

LEMMA NextArmed ==
  ASSUME IInv, Armed, [Next]_vars
  PROVE  Armed'
<1> USE Assumption DEF IInv, TypeOK
<1>0. ASSUME NEW q \in Requests, listeners' = WithoutTag(SessionOf[q]), timers' = timers \ {q}
      PROVE  Armed'
  <2> SUFFICES ASSUME NEW r \in timers, r # q, OtherRequests(r) = {} PROVE r \in listeners'
    BY <1>0 DEF Armed
  <2> QED
    BY <1>0, AloneIsSame DEF Armed, WithoutTag
<1>1. ASSUME UNCHANGED << listeners, timers >> PROVE Armed'
  BY <1>1 DEF Armed
<1>2. ASSUME NEW s \in Sources, PublisherStep(s) PROVE Armed'
  BY <1>1, <1>2 DEF PublisherStep, Regist, Announce, Unregist, Drop, Destroy, Tell
<1>3. ASSUME NEW r \in Requests, AskStep(r) PROVE Armed'
  <2>1. CASE FindHit(r) \/ FindMiss(r) \/ NotFound(r)
    BY <1>1, <2>1 DEF FindHit, FindMiss, NotFound
  <2>2. CASE Listen(r)
    BY <2>2 DEF Listen, Armed
  <2>3. CASE NotFoundClosed(r)
    BY <1>0, <2>3 DEF NotFoundClosed, CancelAll
  <2> QED
    BY <1>3, <2>1, <2>2, <2>3 DEF AskStep
<1>4. ASSUME NEW r \in Requests, ClosePlayer(r) PROVE Armed'
  BY <1>1, <1>4 DEF ClosePlayer
<1>5. ASSUME NEW n \in Sessions, PollerStep(n) PROVE Armed'
  <2>1. CASE RunFound(n) \/ RunClose(n)
    <3>1. Head(queue[n]).request \in Requests
      BY <2>1, QueueHead DEF RunFound, RunClose, Lambda, Lambdas
    <3> QED
      BY <1>0, <2>1, <3>1 DEF RunFound, RunClose, CancelAll
  <2>2. ASSUME NEW r \in Requests, Timeout(r) PROVE Armed'
    BY <1>0, <2>2 DEF Timeout
  <2> QED
    BY <1>5, <2>1, <2>2 DEF PollerStep
<1>6. ASSUME NEW n \in Sessions, SessionDies(n) PROVE Armed'
  BY <1>1, <1>6 DEF SessionDies
<1>7. CASE UNCHANGED vars
  BY <1>1, <1>7 DEF vars
<1> QED
  BY <1>2, <1>3, <1>4, <1>5, <1>6, <1>7 DEF Next

\* What is appended to a queue hides nothing.
LEMMA StillWoken ==
  ASSUME TypeOK, NEW r \in Requests, WokenUp(r), NEW h \in Sessions, NEW l \in Lambdas,
         queue' = [queue EXCEPT ![h] = Append(@, l)]
  PROVE  WokenUp(r)'
<1>1. PICK i \in DOMAIN queue[SessionOf[r]] :
        queue[SessionOf[r]][i] = [op |-> "found", request |-> r]
  BY DEF WokenUp
<1>2. SessionOf[r] \in Sessions /\ queue[SessionOf[r]] \in Seq(Lambdas)
  BY Assumption DEF TypeOK
<1>3. queue'[SessionOf[r]] = queue[SessionOf[r]] \/ queue'[SessionOf[r]] = Append(queue[SessionOf[r]], l)
  BY <1>2 DEF TypeOK
<1>4. i \in DOMAIN queue'[SessionOf[r]] /\ queue'[SessionOf[r]][i] = queue[SessionOf[r]][i]
  BY <1>1, <1>2, <1>3
<1> QED
  BY <1>1, <1>4 DEF WokenUp

LEMMA NextWakes ==
  ASSUME IInv, Armed, Wakes, [Next]_vars
  PROVE  Wakes'
<1> USE Assumption DEF IInv, TypeOK
<1>1. ASSUME timers' \subseteq timers, UNCHANGED << status, toTell, lost, queue >> PROVE Wakes'
  BY <1>1 DEF Wakes, WokenUp
<1>2. ASSUME NEW s \in Sources, PublisherStep(s) PROVE Wakes'
  <2>1. ASSUME UNCHANGED << timers, toTell, lost, queue >>,
               \A q \in Sources : status'[q] = "announcing" => status[q] = "announcing"
        PROVE  Wakes'
    BY <2>1 DEF Wakes, WokenUp
  <2>2. CASE Regist(s) \/ Unregist(s) \/ Drop(s) \/ Destroy(s)
    <3>1. UNCHANGED << timers, toTell, lost, queue >>
      BY <2>2 DEF Regist, Unregist, Drop, Destroy, askVars
    <3>2. \A q \in Sources : status'[q] = "announcing" => status[q] = "announcing"
      BY <2>2 DEF Regist, Unregist, Drop, Destroy
    <3> QED
      BY <2>1, <3>1, <3>2
  <2>3. CASE Announce(s)
    <3> SUFFICES ASSUME NEW r \in timers, NEW q \in Sources, OtherRequests(r) = {},
                        status'[q] = "announcing", SourceKey[q] = KeyOf[r]
                 PROVE  r \in toTell'[q] \/ WokenUp(r)' \/ r \in lost'
      BY <2>3 DEF Wakes, Announce
    <3>1. CASE q = s
      BY <2>3, <3>1 DEF Announce, Armed
    <3>2. CASE q # s
      <4>1. status[q] = "announcing" /\ toTell'[q] = toTell[q] /\ UNCHANGED << queue, lost >>
        BY <2>3, <3>2 DEF Announce, askVars
      <4> QED
        BY <4>1 DEF Wakes, WokenUp
    <3> QED
      BY <3>1, <3>2
  <2>4. ASSUME NEW p \in Requests, Tell(s, p) PROVE Wakes'
    <3> DEFINE l == [op |-> "found", request |-> p]
    <3> SUFFICES ASSUME NEW r \in timers, NEW q \in Sources, OtherRequests(r) = {},
                        status[q] = "announcing", SourceKey[q] = KeyOf[r]
                 PROVE  r \in toTell'[q] \/ WokenUp(r)' \/ r \in lost'
      BY <2>4 DEF Wakes, Tell
    <3>1. r \in toTell[q] \/ WokenUp(r) \/ r \in lost
      BY DEF Wakes
    <3>2. CASE r \in lost
      BY <2>4, <3>2 DEF Tell, askVars
    <3>3. CASE WokenUp(r)
      <4>1. CASE queue' = queue
        BY <3>3, <4>1 DEF WokenUp
      <4>2. CASE queue' # queue
        <5>1. queue' = [queue EXCEPT ![SessionOf[p]] = Append(@, l)] /\ l \in Lambdas
          BY <2>4, <4>2 DEF Tell, Lambdas
        <5> QED
          BY <3>3, <5>1, StillWoken
      <4> QED
        BY <4>1, <4>2
    <3>4. CASE r \in toTell[q] /\ ~ (r = p /\ q = s)
      BY <2>4, <3>4 DEF Tell
    <3>5. CASE r = p /\ q = s
      <4>1. SessionOf[r] \in Sessions /\ queue[SessionOf[r]] \in Seq(Lambdas) /\ l \in Lambdas
        BY DEF Lambdas
      <4>2. queue'[SessionOf[r]] = Append(queue[SessionOf[r]], l)
        BY <2>4, <3>5, <4>1 DEF Tell
      <4>3. Len(queue[SessionOf[r]]) + 1 \in DOMAIN queue'[SessionOf[r]]
            /\ queue'[SessionOf[r]][Len(queue[SessionOf[r]]) + 1] = l
        BY <4>1, <4>2
      <4> QED
        BY <3>5, <4>3 DEF WokenUp
    <3> QED
      BY <3>1, <3>2, <3>3, <3>4, <3>5
  <2> QED
    BY <1>2, <2>2, <2>3, <2>4 DEF PublisherStep
<1>3. ASSUME NEW r \in Requests, AskStep(r) PROVE Wakes'
  <2>1. CASE FindHit(r) \/ FindMiss(r) \/ NotFound(r)
    BY <1>1, <2>1 DEF FindHit, FindMiss, NotFound, sourceVars
  <2>2. CASE Listen(r)
    BY <2>2 DEF Listen, Wakes, WokenUp, sourceVars
  <2>3. CASE NotFoundClosed(r)
    BY <1>1, <2>3 DEF NotFoundClosed, CancelAll, sourceVars
  <2> QED
    BY <1>3, <2>1, <2>2, <2>3 DEF AskStep
<1>4. ASSUME NEW p \in Requests, ClosePlayer(p) PROVE Wakes'
  <2> DEFINE l == [op |-> "close", request |-> p]
  <2>1. /\ queue' = [queue EXCEPT ![SessionOf[p]] = Append(@, l)] /\ l \in Lambdas
        /\ SessionOf[p] \in Sessions
        /\ UNCHANGED << timers, status, toTell, lost >>
    BY <1>4 DEF ClosePlayer, Lambdas, sourceVars
  <2>2. \A r \in Requests : WokenUp(r) => WokenUp(r)'
    <3> HIDE DEF l
    <3> QED
      BY <2>1, StillWoken
  <2> QED
    BY <2>1, <2>2 DEF Wakes
<1>5. ASSUME NEW n \in Sessions, PollerStep(n) PROVE Wakes'
  <2>1. CASE RunFound(n) \/ RunClose(n)
    <3> DEFINE p == Head(queue[n]).request
    <3>1. queue[n] # << >> /\ queue' = [queue EXCEPT ![n] = Tail(@)]
      BY <2>1 DEF RunFound, RunClose, Lambda
    <3>2. p \in Requests /\ SessionOf[p] = n
      <4>1. p \in Requests /\ Head(queue[n]) = queue[n][1] /\ 1 \in 1 .. Len(queue[n])
        BY <3>1, QueueHead DEF Lambdas
      <4> QED
        BY <4>1 DEF QueueSourced
    <3>3. timers' = timers \ {p} /\ UNCHANGED << status, toTell, lost >>
      BY <2>1 DEF RunFound, RunClose, CancelAll, sourceVars, askVars
    <3> HIDE DEF p
    <3> SUFFICES ASSUME NEW r \in timers, r # p, NEW s \in Sources, OtherRequests(r) = {},
                        status[s] = "announcing", SourceKey[s] = KeyOf[r]
                 PROVE  r \in toTell[s] \/ WokenUp(r)' \/ r \in lost
      BY <3>3 DEF Wakes
    <3>4. SessionOf[r] # n
      BY <3>2, AloneIsSame
    <3>5. queue'[SessionOf[r]] = queue[SessionOf[r]]
      BY <3>1, <3>4
    <3> QED
      BY <3>5 DEF Wakes, WokenUp
  <2>2. ASSUME NEW r \in Requests, Timeout(r) PROVE Wakes'
    BY <1>1, <2>2 DEF Timeout, sourceVars, askVars
  <2> QED
    BY <1>5, <2>1, <2>2 DEF PollerStep
<1>6. ASSUME NEW n \in Sessions, SessionDies(n) PROVE Wakes'
  BY <1>1, <1>6 DEF SessionDies, sourceVars, askVars
<1>7. CASE UNCHANGED vars
  BY <1>1, <1>7 DEF vars, sourceVars, askVars
<1> QED
  BY <1>2, <1>3, <1>4, <1>5, <1>6, <1>7 DEF Next

\* A waiting lookup has the announcement of its stream in its queue, unless the registration
\* fell between its lookup and its listener (the lost ones), or it shares its session: for any
\* number of streams, sessions and lookups, and however registrations, timeouts and closes race.
THEOREM WakesUp == Spec => []NoMissedWakeup
<1> DEFINE I == IInv /\ Armed /\ Wakes
<1>1. Init => I
  BY InitIInv DEF Init, Armed, Wakes
<1>2. I /\ [Next]_vars => I'
  BY NextIInv, NextArmed, NextWakes
<1>3. I => NoMissedWakeup
  BY DEF NoMissedWakeup, Wakes, Announced
<1> QED
  BY <1>1, <1>2, <1>3, PTL DEF Spec

----------------------------------------------------------------------------
(* The table                                                               *)

LEMMA NextTable ==
  ASSUME TypeOK, TableKeyed, RegisteredIsFound, [Next]_vars
  PROVE  TableKeyed' /\ RegisteredIsFound'
<1> USE Assumption DEF TypeOK, TableKeyed, RegisteredIsFound, Live
<1>0. ASSUME UNCHANGED << table, status >> PROVE TableKeyed' /\ RegisteredIsFound'
  BY <1>0
<1>1. ASSUME NEW s \in Sources, PublisherStep(s) PROVE TableKeyed' /\ RegisteredIsFound'
  <2>1. CASE Regist(s)
    <3>1. ASSUME NEW q \in Sources, Live(q), SourceKey[q] = SourceKey[s] PROVE FALSE
      BY <2>1, <3>1 DEF Regist, Found
    <3> QED
      BY <2>1, <3>1 DEF Regist
  <2>2. CASE Announce(s)
    BY <2>2 DEF Announce
  <2>3. CASE Unregist(s)
    <3>1. ASSUME NEW q \in Sources, q # s, Live(q), SourceKey[q] = SourceKey[s] PROVE FALSE
      BY <2>3, <3>1 DEF Unregist, Announced
    <3> QED
      BY <2>3, <3>1 DEF Unregist
  <2>4. CASE Drop(s)
    BY <2>4 DEF Drop
  <2>5. CASE Destroy(s)
    BY <2>5 DEF Destroy, Found
  <2>6. ASSUME NEW r \in Requests, Tell(s, r) PROVE TableKeyed' /\ RegisteredIsFound'
    BY <1>0, <2>6 DEF Tell
  <2> QED
    BY <1>1, <2>1, <2>2, <2>3, <2>4, <2>5, <2>6 DEF PublisherStep
<1>2. ASSUME NEW r \in Requests, AskStep(r) PROVE TableKeyed' /\ RegisteredIsFound'
  BY <1>0, <1>2 DEF AskStep, FindHit, FindMiss, Listen, NotFound, NotFoundClosed, sourceVars
<1>3. ASSUME NEW r \in Requests, ClosePlayer(r) PROVE TableKeyed' /\ RegisteredIsFound'
  BY <1>0, <1>3 DEF ClosePlayer, sourceVars
<1>4. ASSUME NEW n \in Sessions, PollerStep(n) PROVE TableKeyed' /\ RegisteredIsFound'
  BY <1>0, <1>4 DEF PollerStep, RunFound, RunClose, Timeout, sourceVars
<1>5. ASSUME NEW n \in Sessions, SessionDies(n) PROVE TableKeyed' /\ RegisteredIsFound'
  BY <1>0, <1>5 DEF SessionDies, sourceVars
<1>6. CASE UNCHANGED vars
  BY <1>0, <1>6 DEF vars, sourceVars
<1> QED
  BY <1>1, <1>2, <1>3, <1>4, <1>5, <1>6 DEF Next

Table == TypeOK /\ TableKeyed /\ RegisteredIsFound

LEMMA TableInvariance == Spec => []Table
<1>1. Init => TableKeyed /\ RegisteredIsFound
  BY Assumption DEF Init, TableKeyed, RegisteredIsFound, Live
<1>2. Table /\ [Next]_vars => Table'
  BY NextTypeOK, NextTable DEF Table
<1> QED
  BY <1>1, <1>2, InitTypeOK, PTL DEF Spec, Table

\* The entry of a live source is its own: no removal, however late, takes it away, and no
\* registration replaces it.
THEOREM LiveIsListed == Spec => []RegisteredIsFound
<1>1. Table => RegisteredIsFound
  BY DEF Table
<1> QED
  BY <1>1, TableInvariance, PTL

----------------------------------------------------------------------------
(* The promise                                                             *)

present == [k \in Keys |-> Found(k)]

\* An answer of MediaSource is an answer of StreamLookup, or the suppressed second one.
LEMMA CallbackSimulates ==
  ASSUME IInv, NEW r \in Pending, NEW a \in {None, present[KeyOf[r]]},
         CallbackOnce(r, a), present' = present
  PROVE  Promise!Answer(r) \/ answer' = answer
<1> USE Assumption DEF IInv, TypeOK, Pending
<1>1. CASE r \in invoked
  BY <1>1 DEF CallbackOnce
<1>2. CASE r \notin invoked
  <2>1. answer[r] = "none" /\ answer' = [answer EXCEPT ![r] = a]
    BY <1>2 DEF CallbackOnce, Callback, Counted
  <2> QED
    BY <2>1 DEF Promise!Answer, Promise!Unanswered, present
<1> QED
  BY <1>1, <1>2

LEMMA StepSimulates ==
  ASSUME IInv, Table, [Next]_vars
  PROVE  Promise!Next \/ UNCHANGED << present, answer >>
<1> USE Assumption DEF IInv, Table, TypeOK
<1>0. ASSUME UNCHANGED << table, status >> PROVE present' = present
  BY <1>0 DEF present, Found, Live
<1>1. ASSUME NEW s \in Sources, PublisherStep(s)
      PROVE  Promise!Next \/ UNCHANGED << present, answer >>
  <2>1. CASE Regist(s)
    <3>1. present' = [present EXCEPT ![SourceKey[s]] = s]
      BY <2>1 DEF Regist, present, Found, Live, TableKeyed
    <3>2. Promise!Appear(s)
      BY <2>1, <3>1 DEF Regist, Promise!Appear, present
    <3> QED
      BY <3>2 DEF Promise!Next
  <2>2. CASE Announce(s)
    BY <2>2 DEF Announce, present, Found, Live
  <2>3. CASE Unregist(s) \/ Drop(s)
    <3>1. Found(SourceKey[s]) = s /\ s # None
      BY <2>3 DEF Unregist, Drop, Announced, Found, Live, RegisteredIsFound
    <3>2. present' = [present EXCEPT ![SourceKey[s]] = None]
      <4>1. Found(SourceKey[s])' = None
        BY <2>3, <3>1 DEF Unregist, Drop, Found, Live
      <4>2. ASSUME NEW k \in Keys, k # SourceKey[s] PROVE Found(k)' = Found(k)
        <5>1. table'[k] = table[k] /\ table[k] # s
          BY <2>3, <3>1, <4>2 DEF Unregist, Drop, TableKeyed
        <5>2. table[k] \in Sources \cup {None}
          OBVIOUS
        <5>3. ASSUME NEW q \in Sources, q # s PROVE status'[q] = status[q]
          BY <2>3, <5>3 DEF Unregist, Drop
        <5> QED
          BY <5>1, <5>2, <5>3 DEF Found, Live
      <4> QED
        BY <4>1, <4>2 DEF present
    <3>3. Promise!Vanish(SourceKey[s])
      BY <2>3, <3>1, <3>2 DEF Unregist, Drop, Promise!Vanish, present
    <3> QED
      BY <3>3 DEF Promise!Next
  <2>4. CASE Destroy(s)
    BY <2>4 DEF Destroy, present, Found, Live
  <2>5. ASSUME NEW r \in Requests, Tell(s, r) PROVE UNCHANGED << present, answer >>
    BY <1>0, <2>5 DEF Tell
  <2> QED
    BY <1>1, <2>1, <2>2, <2>3, <2>4, <2>5 DEF PublisherStep
<1>2. ASSUME NEW r \in Requests, AskStep(r)
      PROVE  Promise!Next \/ UNCHANGED << present, answer >>
  <2>1. present' = present
    BY <1>0, <1>2
    DEF AskStep, FindHit, FindMiss, Listen, NotFound, NotFoundClosed, sourceVars
  <2>2. CASE FindHit(r)
    <3>1. answer[r] = "none" /\ answer' = [answer EXCEPT ![r] = present[KeyOf[r]]]
      BY <2>2 DEF FindHit, MayAsk, Callback, Counted, present
    <3>2. Promise!Answer(r)
      BY <2>1, <3>1 DEF Promise!Answer, Promise!Unanswered, present
    <3> QED
      BY <3>2 DEF Promise!Next
  <2>3. CASE NotFoundClosed(r)
    BY <2>1, <2>3, CallbackSimulates DEF NotFoundClosed, Pending, Promise!Next
  <2> QED
    BY <1>2, <2>1, <2>2, <2>3 DEF AskStep, FindMiss, Listen, NotFound
<1>3. ASSUME NEW r \in Requests, ClosePlayer(r) PROVE UNCHANGED << present, answer >>
  BY <1>0, <1>3 DEF ClosePlayer, sourceVars
<1>4. ASSUME NEW n \in Sessions, PollerStep(n)
      PROVE  Promise!Next \/ UNCHANGED << present, answer >>
  <2>1. present' = present
    BY <1>0, <1>4 DEF PollerStep, RunFound, RunClose, Timeout, sourceVars
  <2>2. ASSUME queue[n] # << >>
        PROVE  Head(queue[n]).request \in Pending /\ Head(queue[n]).request \in Requests
    BY <2>2, QueueHead DEF QueueSourced, Pending
  <2>3. CASE RunFound(n)
    <3> DEFINE r == Head(queue[n]).request
    <3>1. r \in Pending /\ r \in Requests
      BY <2>2, <2>3 DEF RunFound, Lambda
    <3>2. Found(KeyOf[r]) = present[KeyOf[r]]
      BY <3>1 DEF present
    <3>3. CASE r \in orphans
      BY <2>1, <2>3, <3>3 DEF RunFound
    <3>4. CASE r \notin orphans
      <4>1. CallbackOnce(r, present[KeyOf[r]])
        BY <2>3, <3>2, <3>4 DEF RunFound
      <4> QED
        BY <2>1, <3>1, <4>1, CallbackSimulates DEF Promise!Next
    <3> QED
      BY <3>3, <3>4
  <2>4. CASE RunClose(n)
    BY <2>1, <2>2, <2>4, CallbackSimulates DEF RunClose, Lambda, Promise!Next
  <2>5. ASSUME NEW r \in Requests, Timeout(r)
        PROVE  Promise!Next \/ UNCHANGED << present, answer >>
    BY <2>1, <2>5, CallbackSimulates DEF Timeout, SetsSourced, Promise!Next
  <2> QED
    BY <1>4, <2>3, <2>4, <2>5 DEF PollerStep
<1>5. ASSUME NEW n \in Sessions, SessionDies(n) PROVE UNCHANGED << present, answer >>
  BY <1>0, <1>5 DEF SessionDies, sourceVars
<1>6. CASE UNCHANGED vars
  BY <1>0, <1>6 DEF vars, sourceVars
<1> QED
  BY <1>1, <1>2, <1>3, <1>4, <1>5, <1>6 DEF Next

\* The lookup implements StreamLookup: a name is taken only when it is free, and every answer
\* is the first one, nothing or the source that is registered at that moment.
THEOREM Implementation == Spec => LookupPromise
<1>1. Init => Promise!Init
  BY Assumption DEF Init, Promise!Init, Promise!Unanswered, Found
<1>2. IInv /\ Table /\ [Next]_vars => [Promise!Next]_<< present, answer >>
  BY StepSimulates
<1> QED
  BY <1>1, <1>2, Invariance, TableInvariance, PTL
  DEF Spec, LookupPromise, Promise!Spec, present
=============================================================================
