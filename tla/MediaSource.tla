---------------------------- MODULE MediaSource ----------------------------
(***************************************************************************)
(* The table of registered streams and the waiting lookup of               *)
(* src/src/Common/MediaSource.cpp.                                         *)
(*                                                                         *)
(* Publishers register and remove their MediaSource on their own threads:  *)
(* the table changes under a lock, the event that tells of it goes out     *)
(* after the lock is released.  A player's session asks for a stream with  *)
(* findAsync() on the session's thread.  When the stream is missing a      *)
(* delayed task and a listener of the registration event are left behind;  *)
(* whatever comes first answers, on the session's thread again.            *)
(*                                                                         *)
(* The event is sent by the NoticeCenter of ZLToolKit: it copies the list  *)
(* of listeners and then calls them one by one; delListener(tag) removes   *)
(* every listener with that tag, and the tag is the session.               *)
(* Definitions whose names begin with Bug are mutants of the definition    *)
(* that follows them; no specification uses them.                          *)
(***************************************************************************)
EXTENDS Naturals, Sequences, FiniteSets

CONSTANTS
  Keys,        \* schema, vhost, app and stream of a source
  Sources,     \* MediaSource objects
  SourceKey,   \* source -> key
  Sessions,    \* sessions, that is the addresses they live at
  Requests,    \* calls of findAsync()
  SessionOf,   \* request -> session
  KeyOf,       \* request -> key
  None         \* no source

ASSUME Assumption ==
  /\ SourceKey \in [Sources -> Keys]
  /\ SessionOf \in [Requests -> Sessions] /\ KeyOf \in [Requests -> Keys]
  /\ None \notin Sources /\ "none" \notin Sources \cup {None}

VARIABLES
  table,      \* s_media_source_map: key -> the source of the entry (a weak pointer) or None
  status,     \* source -> "new", "stored", "announcing", "expired", "gone"
  toTell,     \* source -> listeners its registration event still has to call
  pc,         \* request -> "new", "missed", "listening", "waiting", "done"
  orphans,    \* requests whose session is destroyed
  listeners,  \* requests whose on_register is registered with the NoticeCenter
  timers,     \* requests whose delayed task is pending
  closers,    \* requests whose close_player may still be called
  queue,      \* session -> lambdas queued on its poller
  invoked,    \* requests whose cb_once has been called
  calls,      \* history: request -> calls of cb
  answer,     \* history: request -> "none", None or a source
  lost        \* history: requests that missed a registration while they set up the wait

sourceVars == << table, status, toTell >>
askVars == << pc, closers, lost >>
vars == << sourceVars, askVars, orphans, listeners, timers, queue, invoked, calls, answer >>

----------------------------------------------------------------------------
\* The weak pointer of an entry can be locked while its source lives.
Live(s) == status[s] \in {"stored", "announcing"}

\* find_l(): the source under the key, if its entry is not stale.
Found(k) == IF table[k] # None /\ Live(table[k]) THEN table[k] ELSE None

\* The session's thread is inside findAsync().
Busy(n) == \E r \in Requests : SessionOf[r] = n /\ pc[r] \in {"missed", "listening"}

\* NoticeCenter::delListener(tag): every listener of the session goes.
WithoutTag(n) == {r \in listeners : SessionOf[r] # n}

\* cb of request r is called with a.
Callback(r, a) ==
  /\ calls' = [calls EXCEPT ![r] = @ + 1]
  /\ answer' = [answer EXCEPT ![r] = a]

BugCallbackOnce(r, a) == invoked' = invoked \cup {r} /\ Callback(r, a)

\* cb_once: only the first call gets through.
CallbackOnce(r, a) ==
  /\ invoked' = invoked \cup {r}
  /\ IF r \in invoked THEN UNCHANGED << calls, answer >> ELSE Callback(r, a)

BugCancelAll(r) == timers' = timers \ {r} /\ UNCHANGED listeners

\* cancel_all
CancelAll(r) ==
  /\ timers' = timers \ {r}
  /\ listeners' = WithoutTag(SessionOf[r])

----------------------------------------------------------------------------
Init ==
  /\ table = [k \in Keys |-> None]
  /\ status = [s \in Sources |-> "new"]
  /\ toTell = [s \in Sources |-> {}]
  /\ pc = [r \in Requests |-> "new"]
  /\ orphans = {} /\ listeners = {} /\ timers = {} /\ closers = {}
  /\ queue = [n \in Sessions |-> << >>]
  /\ invoked = {} /\ lost = {}
  /\ calls = [r \in Requests |-> 0]
  /\ answer = [r \in Requests |-> "none"]

----------------------------------------------------------------------------
(* Publishers.                                                             *)

BugRegist(s) ==
  /\ status[s] = "new"
  /\ table' = [table EXCEPT ![SourceKey[s]] = s]
  /\ status' = [status EXCEPT ![s] = "stored"]
  /\ UNCHANGED << toTell, askVars, orphans, listeners, timers, queue, invoked, calls, answer >>

\* regist(), under the lock; it throws when another live source has the entry.
Regist(s) ==
  /\ status[s] = "new"
  /\ Found(SourceKey[s]) = None
  /\ table' = [table EXCEPT ![SourceKey[s]] = s]
  /\ status' = [status EXCEPT ![s] = "stored"]
  /\ UNCHANGED << toTell, askVars, orphans, listeners, timers, queue, invoked, calls, answer >>

\* emitEvent(true) copies the listeners that are registered now.
Announce(s) ==
  /\ status[s] = "stored"
  /\ status' = [status EXCEPT ![s] = "announcing"]
  /\ toTell' = [toTell EXCEPT ![s] = listeners]
  /\ UNCHANGED << table, askVars, orphans, listeners, timers, queue, invoked, calls, answer >>

BugTell(s, r) ==
  /\ r \in toTell[s]
  /\ toTell' = [toTell EXCEPT ![s] = @ \ {r}]
  /\ UNCHANGED << table, status, askVars, orphans, listeners, timers, queue, invoked, calls,
                  answer >>

\* One listener is called: it queues its lambda if the stream is the one it waits for.
Tell(s, r) ==
  /\ r \in toTell[s]
  /\ toTell' = [toTell EXCEPT ![s] = @ \ {r}]
  /\ queue' = IF KeyOf[r] = SourceKey[s]
              THEN [queue EXCEPT ![SessionOf[r]] = Append(@, [op |-> "found", request |-> r])]
              ELSE queue
  /\ UNCHANGED << table, status, askVars, orphans, listeners, timers, invoked, calls, answer >>

Announced(s) == status[s] = "announcing" /\ toTell[s] = {}

\* unregist() called by the owner, under the lock.
Unregist(s) ==
  /\ Announced(s)
  /\ status' = [status EXCEPT ![s] = "gone"]
  /\ table' = IF table[SourceKey[s]] = s \/ Found(SourceKey[s]) = None
              THEN [table EXCEPT ![SourceKey[s]] = None] ELSE table
  /\ UNCHANGED << toTell, askVars, orphans, listeners, timers, queue, invoked, calls, answer >>

\* The owner drops the source: the entry is stale from now on.
Drop(s) ==
  /\ Announced(s)
  /\ status' = [status EXCEPT ![s] = "expired"]
  /\ UNCHANGED << table, toTell, askVars, orphans, listeners, timers, queue, invoked, calls,
                  answer >>

BugDestroy(s) ==
  /\ status[s] = "expired"
  /\ status' = [status EXCEPT ![s] = "gone"]
  /\ table' = [table EXCEPT ![SourceKey[s]] = None]
  /\ UNCHANGED << toTell, askVars, orphans, listeners, timers, queue, invoked, calls, answer >>

\* The destructor calls unregist(): a stale entry goes, whoever left it.
Destroy(s) ==
  /\ status[s] = "expired"
  /\ status' = [status EXCEPT ![s] = "gone"]
  /\ table' = IF Found(SourceKey[s]) = None
              THEN [table EXCEPT ![SourceKey[s]] = None] ELSE table
  /\ UNCHANGED << toTell, askVars, orphans, listeners, timers, queue, invoked, calls, answer >>

----------------------------------------------------------------------------
(* findAsync(), on the session's thread.                                   *)

MayAsk(r) == pc[r] = "new" /\ r \notin orphans /\ ~ Busy(SessionOf[r])

\* The stream is there: cb is called at once.
FindHit(r) ==
  /\ MayAsk(r) /\ Found(KeyOf[r]) # None
  /\ pc' = [pc EXCEPT ![r] = "done"]
  /\ Callback(r, Found(KeyOf[r]))
  /\ UNCHANGED << sourceVars, closers, lost, orphans, listeners, timers, queue, invoked >>

FindMiss(r) ==
  /\ MayAsk(r) /\ Found(KeyOf[r]) = None
  /\ pc' = [pc EXCEPT ![r] = "missed"]
  /\ UNCHANGED << sourceVars, closers, lost, orphans, listeners, timers, queue, invoked,
                  calls, answer >>

BugListen(r) ==
  /\ pc[r] = "missed"
  /\ pc' = [pc EXCEPT ![r] = "listening"]
  /\ listeners' = listeners \cup {r}
  /\ UNCHANGED << sourceVars, closers, lost, orphans, timers, queue, invoked, calls, answer >>

\* The delayed task, then the listener.  What was registered since the lookup is not looked
\* for again, and its event may be over: lost records it.
Listen(r) ==
  /\ pc[r] = "missed"
  /\ pc' = [pc EXCEPT ![r] = "listening"]
  /\ timers' = timers \cup {r}
  /\ listeners' = listeners \cup {r}
  /\ lost' = IF \E s \in Sources : SourceKey[s] = KeyOf[r] /\ status[s] = "announcing"
             THEN lost \cup {r} ELSE lost
  /\ UNCHANGED << sourceVars, closers, orphans, queue, invoked, calls, answer >>

\* Nobody has the stream: the event goes out, and its receivers keep close_player.
NotFound(r) ==
  /\ pc[r] = "listening"
  /\ pc' = [pc EXCEPT ![r] = "waiting"]
  /\ closers' = closers \cup {r}
  /\ UNCHANGED << sourceVars, lost, orphans, listeners, timers, queue, invoked, calls, answer >>

\* A receiver gives up on the stream from within the event: close_player runs in place.
NotFoundClosed(r) ==
  /\ pc[r] = "listening"
  /\ pc' = [pc EXCEPT ![r] = "waiting"]
  /\ CancelAll(r)
  /\ CallbackOnce(r, None)
  /\ UNCHANGED << sourceVars, closers, lost, orphans, queue >>

\* A receiver gives up later, from its own thread (the answer of a web hook).
ClosePlayer(r) ==
  /\ r \in closers
  /\ closers' = closers \ {r}
  /\ queue' = [queue EXCEPT ![SessionOf[r]] = Append(@, [op |-> "close", request |-> r])]
  /\ UNCHANGED << sourceVars, pc, lost, orphans, listeners, timers, invoked, calls, answer >>

----------------------------------------------------------------------------
(* The session's poller, when its thread is not inside findAsync().        *)

BugTimeout(r) ==
  /\ r \in timers /\ ~ Busy(SessionOf[r])
  /\ timers' = timers \ {r}
  /\ listeners' = WithoutTag(SessionOf[r])
  /\ CallbackOnce(r, "timeout")
  /\ UNCHANGED << sourceVars, askVars, orphans, queue >>

\* maxStreamWaitMS are over; the task does not ask whether the session is still there.
Timeout(r) ==
  /\ r \in timers /\ ~ Busy(SessionOf[r])
  /\ timers' = timers \ {r}
  /\ listeners' = WithoutTag(SessionOf[r])
  /\ CallbackOnce(r, None)
  /\ UNCHANGED << sourceVars, askVars, orphans, queue >>

Lambda(n, op) ==
  /\ ~ Busy(n) /\ queue[n] # << >> /\ Head(queue[n]).op = op
  /\ queue' = [queue EXCEPT ![n] = Tail(@)]

\* The registration was announced: look again, without waiting, if the session still lives.
RunFound(n) ==
  /\ Lambda(n, "found")
  /\ LET r == Head(queue[n]).request
     IN  /\ CancelAll(r)
         /\ IF r \in orphans THEN UNCHANGED << invoked, calls, answer >>
            ELSE CallbackOnce(r, Found(KeyOf[r]))
  /\ UNCHANGED << sourceVars, askVars, orphans >>

RunClose(n) ==
  /\ Lambda(n, "close")
  /\ LET r == Head(queue[n]).request
     IN  CancelAll(r) /\ CallbackOnce(r, None)
  /\ UNCHANGED << sourceVars, askVars, orphans >>

\* The session is destroyed; listeners, tasks and lambdas of its requests stay behind, and a
\* later session may live at the same address.
SessionDies(n) ==
  /\ ~ Busy(n)
  /\ LET open == {r \in Requests : SessionOf[r] = n /\ pc[r] = "waiting"}
     IN  open \ orphans # {} /\ orphans' = orphans \cup open
  /\ UNCHANGED << sourceVars, askVars, listeners, timers, queue, invoked, calls, answer >>

----------------------------------------------------------------------------
PublisherStep(s) == \/ Regist(s) \/ Announce(s) \/ Unregist(s) \/ Drop(s) \/ Destroy(s)
                    \/ \E r \in Requests : Tell(s, r)

AskStep(r) == FindHit(r) \/ FindMiss(r) \/ Listen(r) \/ NotFound(r) \/ NotFoundClosed(r)

PollerStep(n) == \/ RunFound(n) \/ RunClose(n)
                 \/ \E r \in Requests : SessionOf[r] = n /\ Timeout(r)

Next == \/ \E s \in Sources : PublisherStep(s)
        \/ \E r \in Requests : AskStep(r) \/ ClosePlayer(r)
        \/ \E n \in Sessions : PollerStep(n) \/ SessionDies(n)

\* A thread inside findAsync() or emitEvent() goes on, a poller runs its lambdas and its
\* delayed tasks.  Nobody has to publish, to close or to ask.
Fairness ==
  /\ \A s \in Sources : WF_vars(Announce(s) \/ \E r \in Requests : Tell(s, r))
  /\ \A r \in Requests : WF_vars(Listen(r) \/ NotFound(r) \/ NotFoundClosed(r))
  /\ \A n \in Sessions : WF_vars(RunFound(n) \/ RunClose(n))
  /\ \A r \in Requests : SF_vars(Timeout(r))

Spec == Init /\ [][Next]_vars
FairSpec == Spec /\ Fairness

----------------------------------------------------------------------------
(* Properties                                                              *)

Lambdas == [op : {"found", "close"}, request : Requests]

\* Every variable has its type.
TypeOK ==
  /\ table \in [Keys -> Sources \cup {None}]
  /\ status \in [Sources -> {"new", "stored", "announcing", "expired", "gone"}]
  /\ toTell \in [Sources -> SUBSET Requests]
  /\ pc \in [Requests -> {"new", "missed", "listening", "waiting", "done"}]
  /\ orphans \subseteq Requests /\ listeners \subseteq Requests /\ timers \subseteq Requests
  /\ closers \subseteq Requests /\ invoked \subseteq Requests /\ lost \subseteq Requests
  /\ queue \in [Sessions -> Seq(Lambdas)]
  /\ calls \in [Requests -> Nat]
  /\ answer \in [Requests -> Sources \cup {None, "none"}]

\* The player is called back at most once, however the registration, the timeout and the
\* close of the player race.
AnsweredOnce == \A r \in Requests : calls[r] <= 1

\* An answered lookup has left neither a listener nor a delayed task behind.
AnswerCleansUp == \A r \in Requests : calls[r] = 1 => r \notin listeners \cup timers

\* A source that is registered, and neither removed nor dropped, is the one players find:
\* the late unregistration of another source of that name does not take its entry away.
RegisteredIsFound == \A s \in Sources : Live(s) => table[SourceKey[s]] = s

\* A registration event that is over has reached a waiting player.
WokenUp(r) == \E i \in DOMAIN queue[SessionOf[r]] :
                queue[SessionOf[r]][i] = [op |-> "found", request |-> r]

OtherRequests(r) == {q \in Requests \ {r} : SessionOf[q] = SessionOf[r]}

\* A waiting lookup does not sleep through the registration of its stream: unless it missed it
\* while it was setting up, or another lookup of its session removed its listener, it has the
\* lambda in its queue.
NoMissedWakeup ==
  \A r \in Requests : \A s \in Sources :
    pc[r] = "waiting" /\ r \in timers /\ Announced(s) /\ SourceKey[s] = KeyOf[r]
      => WokenUp(r) \/ r \in lost \/ OtherRequests(r) # {}

\* "If the stream is not registered within this time, return empty": the wait ends with
\* nothing only when the stream is not there.
TimeoutMeansAbsent ==
  [][\A r \in Requests :
       Timeout(r) /\ r \notin invoked
         => ~ \E s \in Sources : Announced(s) /\ SourceKey[s] = KeyOf[r]]_vars

\* Every lookup of a session that stays is answered.
LookupEnds ==
  \A r \in Requests : (pc[r] = "missed") ~> (calls[r] = 1 \/ r \in orphans)

\* The lookup implements its promise: StreamLookup.
Promise == INSTANCE StreamLookup WITH present <- [k \in Keys |-> Found(k)]
LookupPromise == Promise!Spec
=============================================================================
