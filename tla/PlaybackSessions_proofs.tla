----------------------- MODULE PlaybackSessions_proofs -----------------------
(***************************************************************************)
(* What the SVAC playback interface promises to HTTP clients and to the    *)
(* signalling side, for any number of pollers, streams, players and        *)
(* requests.                                                               *)
(*                                                                         *)
(* A thread holds at most one handler or lambda, the base of its stack,    *)
(* and above it at most the callback that erases an entry.  So what a      *)
(* thread is busy with is one frame, and the invariant speaks of frames.   *)
(***************************************************************************)
EXTENDS PlaybackSessions, FiniteSetTheorems, SequenceTheorems, TLAPS

Base(s) == s[Len(s)]
Busy(t) == stack[t] # << >>
Task(t) == Base(stack[t])
Doing(t, op, p) == Busy(t) /\ Task(t).op = op /\ Task(t).player = p

\* The steps that go with an operation.
GoodFrames == {f \in Frames :
  /\ f.op = "play" <=> f.step \in {"store", "start", "reply"}
  /\ f.op = "finish" <=> f.step = "erase"
  /\ f.op = "lambda" <=> f.step = "done"
  /\ f.player = None <=> f.step = "store"}

StackForm(s) ==
  \/ s = << >>
  \/ \E f \in GoodFrames : s = << f >>
  \/ \E e, f \in GoodFrames : e.op = "finish" /\ f.op # "finish" /\ s = << e, f >>

Phases == {"free", "made", "starting", "ready", "playing", "over", "mute"}
Lambdas == [op : Controls \cup {"stop"}, player : Players, by : Threads]

\* Every variable has its type, and the stacks have their form.
Types ==
  /\ setup \in Setups
  /\ session \in [Streams -> Players \cup {None}]
  /\ phase \in [Players -> Phases]
  /\ paused \in [Players -> BOOLEAN] /\ tcp \in [Players -> BOOLEAN]
  /\ stream \in [Players -> Streams] /\ home \in [Players -> Threads]
  /\ stack \in [Threads -> Seq(GoodFrames)] /\ \A t \in Threads : StackForm(stack[t])
  /\ queue \in [Threads -> Seq(Lambdas)]
  /\ answers \in [Players -> Nat] /\ reports \in [Players -> Seq({0, 1, 2})]
  /\ requests \in Nat

\* The reports of a stop request.
StopsIn(results) == {i \in DOMAIN results : results[i] = 2}
Stops(p) == StopsIn(reports[p])
HasPlayed(p) == phase[p] \in {"playing", "over"}

\* An entry holds a player of its stream.
Entries ==
  \A s \in Streams : session[s] # None => stream[session[s]] = s /\ phase[session[s]] # "free"

\* Where a player stands tells whether its request was answered and its ending reported.
Progressed(p) ==
  /\ reports[p] # << >> => phase[p] = "over"
  /\ answers[p] <= 1
  /\ phase[p] \in {"free", "made"} => answers[p] = 0
  /\ tcp[p] => /\ phase[p] # "ready"
               /\ phase[p] = "starting" => answers[p] = 0
               /\ phase[p] \in {"playing", "over", "mute"} => answers[p] = 1

Progress == \A p \in Players : Progressed(p)

\* Two threads are not in the same operation on one player.
OneAtATime(op) ==
  \A t, u \in Threads :
    /\ Busy(t) /\ Task(t).op = op /\ Task(t).player # None
    /\ Busy(u) /\ Task(u).op = op /\ Task(u).player = Task(t).player
    => t = u

\* A request that is about to start its player, or to reply what start() returned, has not been
\* answered.
Answering(p, step) ==
  IF step = "start" THEN phase[p] = "made"
  ELSE phase[p] = "over" /\ ~ tcp[p] /\ answers[p] = 0

Playing ==
  /\ OneAtATime("play")
  /\ \A t \in Threads : Busy(t) /\ Task(t).op = "play" /\ Task(t).player # None =>
       Answering(Task(t).player, Task(t).step)

InLambda(t) == Busy(t) /\ Task(t).op = "lambda"

\* A lambda that t waits for, still to be run.
Pending(t, p) ==
  \E h \in Threads : \E i \in DOMAIN queue[h] :
    /\ queue[h][i] = [op |-> "stop", player |-> p, by |-> t]
    /\ i = 1 => ~ InLambda(h)

Queues ==
  \A h \in Threads :
    /\ \A i \in DOMAIN queue[h] : HasPlayed(queue[h][i].player)
    /\ InLambda(h) => queue[h] # << >>

\* Who stops a player has taken it out of the table, is alone with it, and tells the signalling
\* side only when the lambda has run.
TakenOut(p) == HasPlayed(p) /\ Stops(p) = {} /\ \A s \in Streams : session[s] # p

Stopping ==
  /\ OneAtATime("stop")
  /\ \A t \in Threads : Busy(t) /\ Task(t).op = "stop" =>
       /\ TakenOut(Task(t).player)
       /\ Task(t).step = "wait" =>
            phase[Task(t).player] = "over" \/ Pending(t, Task(t).player)

\* One stop request reports, and no other follows: the player is out of the table.
Stopped ==
  \A p \in Players :
    /\ \A i, j \in Stops(p) : i = j
    /\ Stops(p) # {} => \A s \in Streams : session[s] # p

IInv == Types /\ Entries /\ Progress /\ Playing /\ Queues /\ Stopping /\ Stopped

----------------------------------------------------------------------------
\* One poller and a client that waits.

Unreported(p) == phase[p] # "free" /\ reports[p] = << >>

\* Nothing of the stream is under way.
Quiet(s) == \A p \in Players : Unreported(p) => stream[p] # s

\* A thread that is about to erase an entry, or to make a player, finds nothing of the stream
\* under way.
Erases(t, s) == At(t, "finish", "erase") /\ Top(t).stream = s
Stores(t, s) == Busy(t) /\ Task(t).op = "play" /\ Task(t).step = "store" /\ Task(t).stream = s

\* What is not reported yet is in the table, or a stop request has taken it out; nothing else of
\* its stream is under way.
Listed(p) == session[stream[p]] = p \/ \E t \in Threads : Doing(t, "stop", p)

AloneInv ==
  /\ \A t \in Threads : queue[t] = << >>
  /\ \A t \in Threads \ setup.threads : stack[t] = << >>
  /\ \A p \in Players : home[p] \in setup.threads /\ Len(reports[p]) <= 1
  /\ \A t \in Threads, s \in Streams : Erases(t, s) \/ Stores(t, s) => Quiet(s)
  /\ \A t \in Threads, p \in Players : Doing(t, "stop", p) =>
       reports[p] = << >> /\ (Task(t).step = "call" => phase[p] = "playing")
  /\ \A p \in Players : Unreported(p) => Listed(p)
  /\ \A p, q \in Players : Unreported(p) /\ Unreported(q) /\ stream[p] = stream[q] => p = q

IAlone == Alone => AloneInv

----------------------------------------------------------------------------
(* Stacks                                                                  *)

LEMMA Forms ==
  ASSUME NEW f \in GoodFrames, NEW e \in GoodFrames
  PROVE  /\ StackForm(<< f >>) /\ Base(<< f >>) = f /\ Head(<< f >>) = f /\ Tail(<< f >>) = << >>
         /\ << f >> # << >> /\ << f >> \in Seq(GoodFrames) /\ << >> \in Seq(GoodFrames)
         /\ StackForm(<< >>)
         /\ e.op = "finish" /\ f.op # "finish" => StackForm(<< e, f >>)
         /\ Base(<< e, f >>) = f /\ Head(<< e, f >>) = e /\ Tail(<< e, f >>) = << f >>
         /\ << e, f >> # << >> /\ << e, f >> \in Seq(GoodFrames)
         /\ << e >> \o << f >> = << e, f >>
<1>1. /\ Base(<< f >>) = f /\ Head(<< f >>) = f /\ Tail(<< f >>) = << >>
      /\ << f >> # << >> /\ << f >> \in Seq(GoodFrames) /\ << >> \in Seq(GoodFrames)
  BY DEF Base
<1>2. /\ Base(<< e, f >>) = f /\ Head(<< e, f >>) = e /\ Tail(<< e, f >>) = << f >>
      /\ << e, f >> # << >> /\ << e, f >> \in Seq(GoodFrames)
  BY DEF Base
<1>3. << e >> \o << f >> = << e, f >>
  <2> DEFINE a == << e >>
             b == << f >>
  <2>1. /\ a \in Seq(GoodFrames) /\ b \in Seq(GoodFrames) /\ << e, f >> \in Seq(GoodFrames)
        /\ Len(a) = 1 /\ Len(b) = 1 /\ Len(<< e, f >>) = 2
        /\ a[1] = e /\ b[1] = f /\ << e, f >>[1] = e /\ << e, f >>[2] = f
    OBVIOUS
  <2> HIDE DEF a, b
  <2>2. /\ a \o b \in Seq(GoodFrames) /\ Len(a \o b) = 2
        /\ (a \o b)[1] = e /\ (a \o b)[2] = f
    BY <2>1, ConcatProperties
  <2>3. a \o b = << e, f >>
    <3>1. \A i \in 1 .. 2 : i = 1 \/ i = 2
      OBVIOUS
    <3>2. \A i \in 1 .. Len(a \o b) : (a \o b)[i] = << e, f >>[i]
      BY <2>1, <2>2, <3>1
    <3> QED
      BY <2>1, <2>2, <3>2, SeqEqual
  <2> QED
    BY <2>3 DEF a, b
<1> QED
  BY <1>1, <1>2, <1>3 DEF StackForm

\* What a thread executes, other than the callback that erases, is all it holds.
LEMMA OnTop ==
  ASSUME Types, NEW t \in Threads, NEW op, NEW step, At(t, op, step), op # "finish"
  PROVE  /\ stack[t] = << Top(t) >> /\ Top(t) \in GoodFrames /\ Task(t) = Top(t) /\ Busy(t)
         /\ Top(t).op = op /\ Top(t).step = step /\ Tail(stack[t]) = << >>
<1>1. stack[t] # << >> /\ StackForm(stack[t]) /\ Head(stack[t]).op = op
      /\ Head(stack[t]).step = step
  BY DEF Types, At, Idle, Top
<1>2. PICK f \in GoodFrames : stack[t] = << f >>
  <2>1. ASSUME NEW e \in GoodFrames, NEW f \in GoodFrames, e.op = "finish",
               stack[t] = << e, f >>
        PROVE  FALSE
    BY <1>1, <2>1, Forms
  <2> QED
    BY <1>1, <2>1 DEF StackForm
<1>3. Head(<< f >>) = f /\ Tail(<< f >>) = << >> /\ Base(<< f >>) = f
  BY Forms
<1> QED
  BY <1>1, <1>2, <1>3 DEF Top, Task, Busy

\* The thread goes on with one frame, or with none, or with the callback on top of one.
LEMMA Runs ==
  ASSUME Types, NEW t \in Threads, NEW f \in GoodFrames, stack' = [stack EXCEPT ![t] = << f >>]
  PROVE  /\ stack' \in [Threads -> Seq(GoodFrames)] /\ \A u \in Threads : StackForm(stack'[u])
         /\ Busy(t)' /\ Task(t)' = f /\ Head(stack'[t]) = f
         /\ \A u \in Threads \ {t} : /\ stack'[u] = stack[u]
                                      /\ Busy(u)' = Busy(u) /\ Task(u)' = Task(u)
<1>1. stack'[t] = << f >> /\ \A u \in Threads \ {t} : stack'[u] = stack[u]
  BY DEF Types
<1>2. << f >> \in Seq(GoodFrames) /\ StackForm(<< f >>) /\ << f >> # << >> /\ Base(<< f >>) = f
      /\ Head(<< f >>) = f
  BY Forms
<1> QED
  BY <1>1, <1>2 DEF Types, Busy, Task

LEMMA Ends ==
  ASSUME Types, NEW t \in Threads, stack' = [stack EXCEPT ![t] = << >>]
  PROVE  /\ stack' \in [Threads -> Seq(GoodFrames)] /\ \A u \in Threads : StackForm(stack'[u])
         /\ ~ Busy(t)'
         /\ \A u \in Threads \ {t} : /\ stack'[u] = stack[u]
                                      /\ Busy(u)' = Busy(u) /\ Task(u)' = Task(u)
<1>1. stack'[t] = << >> /\ \A u \in Threads \ {t} : stack'[u] = stack[u]
  BY DEF Types
<1>2. << >> \in Seq(GoodFrames) /\ StackForm(<< >>)
  BY DEF StackForm
<1> QED
  BY <1>1, <1>2 DEF Types, Busy, Task

LEMMA CallsBack ==
  ASSUME Types, NEW t \in Threads, NEW e \in GoodFrames, NEW f \in GoodFrames,
         e.op = "finish", f.op # "finish", stack' = [stack EXCEPT ![t] = << e, f >>]
  PROVE  /\ stack' \in [Threads -> Seq(GoodFrames)] /\ \A u \in Threads : StackForm(stack'[u])
         /\ Busy(t)' /\ Task(t)' = f /\ Head(stack'[t]) = e
         /\ \A u \in Threads \ {t} : /\ stack'[u] = stack[u]
                                      /\ Busy(u)' = Busy(u) /\ Task(u)' = Task(u)
<1>1. stack'[t] = << e, f >> /\ \A u \in Threads \ {t} : stack'[u] = stack[u]
  BY DEF Types
<1>2. /\ << e, f >> \in Seq(GoodFrames) /\ StackForm(<< e, f >>) /\ << e, f >> # << >>
      /\ Base(<< e, f >>) = f /\ Head(<< e, f >>) = e
  BY Forms
<1> QED
  BY <1>1, <1>2 DEF Types, Busy, Task

LEMMA TaskTypes ==
  ASSUME Types
  PROVE  \A t \in Threads : Busy(t) =>
           /\ Task(t) \in GoodFrames
           /\ Task(t).op # "play" \/ Task(t).player # None => Task(t).player \in Players
<1> SUFFICES ASSUME NEW t \in Threads, Busy(t)
    PROVE  /\ Task(t) \in GoodFrames
           /\ Task(t).op # "play" \/ Task(t).player # None => Task(t).player \in Players
  OBVIOUS
<1>1. Task(t) \in GoodFrames
  <2>1. StackForm(stack[t]) /\ stack[t] # << >>
    BY DEF Types, Busy
  <2> QED
    <3>1. ASSUME NEW f \in GoodFrames, stack[t] = << f >> PROVE Task(t) \in GoodFrames
      BY <3>1, Forms DEF Task
    <3>2. ASSUME NEW e \in GoodFrames, NEW f \in GoodFrames, stack[t] = << e, f >>
          PROVE  Task(t) \in GoodFrames
      BY <3>2, Forms DEF Task
    <3> QED
      BY <2>1, <3>1, <3>2 DEF StackForm
<1> QED
  BY <1>1 DEF GoodFrames, Frames

LEMMA QueueTypes ==
  ASSUME Types
  PROVE  \A t \in Threads : \A i \in DOMAIN queue[t] : queue[t][i] \in Lambdas
<1> SUFFICES ASSUME NEW t \in Threads, NEW i \in DOMAIN queue[t] PROVE queue[t][i] \in Lambdas
  OBVIOUS
<1>1. queue[t] \in Seq(Lambdas)
  BY DEF Types
<1> QED
  BY <1>1, ElementOfSeq, LenProperties

\* A result is appended to the reports.
LEMMA Appended ==
  ASSUME NEW r \in Seq({0, 1, 2}), NEW x \in {0, 1, 2}
  PROVE  /\ Append(r, x) \in Seq({0, 1, 2}) /\ Append(r, x) # << >>
         /\ Len(Append(r, x)) = Len(r) + 1
         /\ StopsIn(Append(r, x)) = IF x = 2 THEN StopsIn(r) \cup {Len(r) + 1} ELSE StopsIn(r)
<1>1. /\ Len(Append(r, x)) = Len(r) + 1 /\ Len(r) \in Nat
      /\ Append(r, x)[Len(r) + 1] = x
      /\ \A i \in 1 .. Len(r) : Append(r, x)[i] = r[i]
      /\ DOMAIN r = 1 .. Len(r) /\ DOMAIN Append(r, x) = 1 .. (Len(r) + 1)
  OBVIOUS
<1> QED
  BY <1>1 DEF StopsIn
LEMMA NoStops == StopsIn(<< >>) = {}
  BY DEF StopsIn

\* A queued lambda stays pending while queues do not shrink and no lambda begins.
LEMMA PendingKept ==
  ASSUME NEW t \in Threads, NEW p, Pending(t, p),
         \A h \in Threads : \A i \in DOMAIN queue[h] :
           i \in DOMAIN queue'[h] /\ queue'[h][i] = queue[h][i],
         \A h \in Threads : InLambda(h)' => InLambda(h)
  PROVE  Pending(t, p)'
  BY DEF Pending

----------------------------------------------------------------------------
(* What steps have in common                                               *)

\* No thread but t changes what it is busy with.
Others(t) == \A u \in Threads \ {t} : Busy(u)' = Busy(u) /\ Task(u)' = Task(u)

\* A player that has played goes on to its end and stays there.
Onward ==
  \A p \in Players : /\ HasPlayed(p) => HasPlayed(p)'
                     /\ phase[p] = "over" => phase'[p] = "over"

\* A queued stop is still pending, or it has been run.
PendingOrRun ==
  \A u \in Threads : \A p \in Players :
    Pending(u, p) => Pending(u, p)' \/ phase'[p] = "over"

LEMMA PlayingKept ==
  ASSUME IInv, NEW t \in Threads, Others(t),
         Busy(t)' /\ Task(t)'.op = "play" /\ Task(t)'.player # None =>
           \E p \in Players : \E step :
             /\ Doing(t, "play", p) /\ Task(t)'.player = p
             /\ Task(t)'.step = step /\ Answering(p, step)',
         \A u \in Threads \ {t} : \A p \in Players : \A step :
           Doing(u, "play", p) /\ Task(u).step = step /\ Answering(p, step) => Answering(p, step)'
  PROVE  Playing'
<1>1. OneAtATime("play")'
  BY Assumption DEF IInv, Playing, OneAtATime, Others, Doing
<1>2. ASSUME NEW u \in Threads \ {t}, Busy(u), Task(u).op = "play", Task(u).player # None
      PROVE  Answering(Task(u).player, Task(u).step)'
  <2> PICK step : step = Task(u).step
    OBVIOUS
  <2>1. PICK p \in Players : p = Task(u).player /\ step = Task(u).step
    BY <1>2, TaskTypes DEF IInv
  <2>2. Answering(p, step)'
    BY <1>2, <2>1 DEF IInv, Playing, Doing
  <2>3. p = Task(u)'.player /\ step = Task(u)'.step
    BY <2>1 DEF Others
  <2> QED
    BY <2>2, <2>3
<1>3. ASSUME Busy(t)', Task(t)'.op = "play", Task(t)'.player # None
      PROVE  Answering(Task(t).player, Task(t).step)'
  BY <1>3
<1> QED
  BY <1>1, <1>2, <1>3 DEF Playing, Others

LEMMA QueuesKept ==
  ASSUME IInv, NEW t \in Threads, Others(t), Onward, queue' = queue,
         InLambda(t)' => queue[t] # << >>
  PROVE  Queues'
<1>1. \A u \in Threads : \A i \in DOMAIN queue[u] :
        queue[u][i].player \in Players /\ HasPlayed(queue[u][i].player)
  BY QueueTypes DEF IInv, Queues, Lambdas
<1>2. \A u \in Threads : InLambda(u)' => queue[u] # << >>
  BY DEF IInv, Queues, Others, InLambda
<1> QED
  BY <1>1, <1>2 DEF Onward, Queues, InLambda

LEMMA StoppingKept ==
  ASSUME IInv, NEW t \in Threads, Others(t), Onward, PendingOrRun,
         \A u \in Threads \ {t} : \A p \in Players :
           Doing(u, "stop", p) /\ TakenOut(p) => TakenOut(p)',
         Busy(t)' /\ Task(t)'.op = "stop" =>
           \E p \in Players :
             /\ Doing(t, "stop", p) /\ Task(t)'.player = p /\ TakenOut(p)'
             /\ Task(t)'.step = "wait" => phase'[p] = "over" \/ Pending(t, p)'
  PROVE  Stopping'
<1>1. OneAtATime("stop")'
  BY Assumption DEF IInv, Stopping, OneAtATime, Others, Doing
<1>2. ASSUME NEW u \in Threads \ {t}, Busy(u), Task(u).op = "stop"
      PROVE  /\ TakenOut(Task(u).player)'
             /\ Task(u)'.step = "wait" =>
                  phase'[Task(u)'.player] = "over" \/ Pending(u, Task(u).player)'
  <2>1. PICK p \in Players : p = Task(u).player /\ p = Task(u)'.player
    BY <1>2, TaskTypes DEF IInv, Others
  <2>2. /\ TakenOut(p) /\ Doing(u, "stop", p)
        /\ Task(u).step = "wait" => phase[p] = "over" \/ Pending(u, p)
    BY <1>2, <2>1 DEF IInv, Stopping, Doing
  <2>3. TakenOut(p)'
    BY <2>2
  <2>4. Task(u)'.step = "wait" => phase'[p] = "over" \/ Pending(u, p)'
    BY <1>2, <2>2 DEF Onward, PendingOrRun, Others
  <2> QED
    BY <2>1, <2>3, <2>4
<1>3. ASSUME Busy(t)', Task(t)'.op = "stop"
      PROVE  /\ TakenOut(Task(t).player)'
             /\ Task(t)'.step = "wait" =>
                  phase'[Task(t)'.player] = "over" \/ Pending(t, Task(t).player)'
  BY <1>3
<1> QED
  BY <1>1, <1>2, <1>3 DEF Stopping, Others

\* The thread goes on with its task, ends it, or begins one that concerns no player's answer or
\* ending.
GoesOn(u) ==
  Busy(u)' => \/ Busy(u) /\ Task(u)' = Task(u)
              \/ /\ Task(u)'.op \notin {"stop", "lambda"}
                 /\ Task(u)'.op = "play" => Task(u)'.player = None

LEMMA TasksKept ==
  ASSUME IInv, \A u \in Threads : GoesOn(u), Onward, queue' = queue,
         \A u \in Threads : \A p \in Players :
           Doing(u, "stop", p) /\ Doing(u, "stop", p)' /\ TakenOut(p) => TakenOut(p)',
         \A u \in Threads : \A p \in Players : \A step :
           Doing(u, "play", p) /\ Doing(u, "play", p)' /\ Task(u).step = step =>
             (Answering(p, step) => Answering(p, step)')
  PROVE  Playing' /\ Queues' /\ Stopping'
<1>1. \A u \in Threads :
        /\ InLambda(u)' => InLambda(u)
        /\ Busy(u)' /\ Task(u)'.op = "stop" => Busy(u) /\ Task(u)' = Task(u)
        /\ Busy(u)' /\ Task(u)'.op = "play" /\ Task(u)'.player # None =>
             Busy(u) /\ Task(u)' = Task(u)
  BY DEF GoesOn, InLambda
<1>2. PendingOrRun
  BY <1>1, PendingKept DEF PendingOrRun
<1>3. Queues'
  <2>1. \A h \in Threads : \A i \in DOMAIN queue[h] :
          queue[h][i].player \in Players /\ HasPlayed(queue[h][i].player)
    BY QueueTypes DEF IInv, Queues, Lambdas
  <2> QED
    BY <1>1, <2>1 DEF IInv, Queues, Onward
<1>4. Playing'
  <2>1. OneAtATime("play")'
    BY <1>1 DEF IInv, Playing, OneAtATime
  <2>2. ASSUME NEW u \in Threads, Busy(u)', Task(u)'.op = "play", Task(u)'.player # None
        PROVE  Answering(Task(u).player, Task(u).step)'
    <3> PICK step : step = Task(u).step
      OBVIOUS
    <3>1. PICK p \in Players : p = Task(u).player /\ step = Task(u).step
      BY <1>1, <2>2, TaskTypes DEF IInv
    <3>2. p = Task(u)'.player /\ step = Task(u)'.step
      BY <1>1, <2>2, <3>1
    <3>3. Answering(p, step) /\ Doing(u, "play", p) /\ Doing(u, "play", p)'
      BY <1>1, <2>2, <3>1 DEF IInv, Playing, Doing
    <3>4. Answering(p, step)'
      BY <3>1, <3>3
    <3> QED
      BY <3>2, <3>4
  <2> QED
    BY <2>1, <2>2 DEF Playing
<1>5. Stopping'
  <2>1. OneAtATime("stop")'
    BY <1>1 DEF IInv, Stopping, OneAtATime
  <2>2. ASSUME NEW u \in Threads, Busy(u)', Task(u)'.op = "stop"
        PROVE  /\ TakenOut(Task(u).player)'
               /\ Task(u)'.step = "wait" =>
                    phase'[Task(u)'.player] = "over" \/ Pending(u, Task(u).player)'
    <3>1. PICK p \in Players : p = Task(u).player /\ p = Task(u)'.player
      BY <1>1, <2>2, TaskTypes DEF IInv
    <3>2. /\ TakenOut(p) /\ Doing(u, "stop", p) /\ Doing(u, "stop", p)'
          /\ Task(u)'.step = "wait" => phase[p] = "over" \/ Pending(u, p)
      BY <1>1, <2>2, <3>1 DEF IInv, Stopping, Doing
    <3>3. TakenOut(p)' /\ (Task(u)'.step = "wait" => phase'[p] = "over" \/ Pending(u, p)')
      BY <1>2, <3>2 DEF Onward, PendingOrRun
    <3> QED
      BY <3>1, <3>3
  <2> QED
    BY <2>1, <2>2 DEF Stopping
<1> QED
  BY <1>3, <1>4, <1>5

\* Only stacks change, and no thread begins to start or to stop a player.
LEMMA OnlyStack ==
  ASSUME IInv, NEW t \in Threads, Others(t), GoesOn(t),
         stack' \in [Threads -> Seq(GoodFrames)], \A u \in Threads : StackForm(stack'[u]),
         UNCHANGED << setup, session, players, queue, answers, reports >>, requests' \in Nat
  PROVE  IInv'
<1>1. Types'
  BY DEF IInv, Types, players
<1>2. /\ Entries' /\ Progress' /\ Stopped' /\ Onward /\ queue' = queue
      /\ \A q \in Players : TakenOut(q) => TakenOut(q)'
      /\ \A q \in Players : \A step : Answering(q, step) => Answering(q, step)'
  BY DEF IInv, Entries, Progress, Progressed, Stopped, Stops, Onward, HasPlayed, TakenOut,
         Answering, players
<1>3. \A u \in Threads : GoesOn(u)
  BY DEF Others, GoesOn
<1>4. /\ \A u \in Threads : \A p \in Players :
           Doing(u, "stop", p) /\ Doing(u, "stop", p)' /\ TakenOut(p) => TakenOut(p)'
      /\ \A u \in Threads : \A p \in Players : \A step :
           Doing(u, "play", p) /\ Doing(u, "play", p)' /\ Task(u).step = step =>
             (Answering(p, step) => Answering(p, step)')
  BY <1>2
<1>5. Playing' /\ Queues' /\ Stopping'
  BY <1>2, <1>3, <1>4, TasksKept
<1> QED
  BY <1>1, <1>2, <1>5 DEF IInv

\* One player moves on; no stop request reports.
LEMMA PlayerMoves ==
  ASSUME IInv, NEW p \in Players, phase' = [phase EXCEPT ![p] = phase'[p]],
         reports' = [reports EXCEPT ![p] = reports'[p]],
         answers' = [answers EXCEPT ![p] = answers'[p]],
         phase'[p] \in Phases \ {"free"}, reports'[p] \in Seq({0, 1, 2}), answers'[p] \in Nat,
         Stops(p)' = Stops(p), Progressed(p)', HasPlayed(p) => phase'[p] = "over",
         UNCHANGED << setup, session, paused, stream, tcp, home, queue, requests >>,
         stack' \in [Threads -> Seq(GoodFrames)], \A u \in Threads : StackForm(stack'[u])
  PROVE  /\ Types' /\ Entries' /\ Progress' /\ Stopped' /\ Onward
         /\ \A q \in Players : TakenOut(q) => TakenOut(q)'
         /\ \A q \in Players \ {p} : \A step : Answering(q, step) => Answering(q, step)'
<1>1. \A q \in Players \ {p} :
        phase'[q] = phase[q] /\ reports'[q] = reports[q] /\ answers'[q] = answers[q]
  BY DEF IInv, Types
<1>2. Types'
  BY DEF IInv, Types
<1>3. Entries'
  BY <1>1 DEF IInv, Types, Entries
<1>4. Progress'
  BY <1>1 DEF IInv, Progress, Progressed
<1>5. \A q \in Players : Stops(q)' = Stops(q)
  BY <1>1 DEF Stops
<1>6. Stopped'
  BY <1>5 DEF IInv, Stopped
<1>7. Onward
  BY <1>1 DEF Onward, HasPlayed
<1>8. \A q \in Players : TakenOut(q) => TakenOut(q)'
  BY <1>5, <1>7 DEF TakenOut, Onward
<1>9. \A q \in Players \ {p} : \A step : Answering(q, step) => Answering(q, step)'
  BY <1>1 DEF Answering
<1> QED
  BY <1>2, <1>3, <1>4, <1>6, <1>7, <1>8, <1>9

\* One player moves on, and no thread is left in the request that plays it.
LEMMA PlayerSteps ==
  ASSUME IInv, NEW p \in Players, phase' = [phase EXCEPT ![p] = phase'[p]],
         reports' = [reports EXCEPT ![p] = reports'[p]],
         answers' = [answers EXCEPT ![p] = answers'[p]],
         phase'[p] \in Phases \ {"free"}, reports'[p] \in Seq({0, 1, 2}), answers'[p] \in Nat,
         Stops(p)' = Stops(p), Progressed(p)', HasPlayed(p) => phase'[p] = "over",
         UNCHANGED << setup, session, paused, stream, tcp, home, queue, requests >>,
         stack' \in [Threads -> Seq(GoodFrames)], \A u \in Threads : StackForm(stack'[u]),
         \A u \in Threads : GoesOn(u) /\ ~ (Doing(u, "play", p) /\ Doing(u, "play", p)')
  PROVE  IInv'
<1>1. /\ Types' /\ Entries' /\ Progress' /\ Stopped' /\ Onward /\ queue' = queue
      /\ \A q \in Players : TakenOut(q) => TakenOut(q)'
      /\ \A q \in Players \ {p} : \A step : Answering(q, step) => Answering(q, step)'
  BY PlayerMoves
<1>2. \A u \in Threads : \A q \in Players :
        Doing(u, "stop", q) /\ Doing(u, "stop", q)' /\ TakenOut(q) => TakenOut(q)'
  BY <1>1
<1>3. ASSUME NEW u \in Threads, NEW q \in Players, NEW step, Doing(u, "play", q),
             Doing(u, "play", q)', Answering(q, step)
      PROVE  Answering(q, step)'
  BY <1>1, <1>3
<1>4. \A u \in Threads : \A q \in Players : \A step :
        Doing(u, "play", q) /\ Doing(u, "play", q)' /\ Task(u).step = step =>
          (Answering(q, step) => Answering(q, step)')
  BY <1>3
<1>5. Playing' /\ Queues' /\ Stopping'
  BY <1>1, <1>2, <1>4, TasksKept
<1> QED
  BY <1>1, <1>5 DEF IInv

\* Who is in the request of a player is the only one, and the request is not answered yet.
LEMMA AtPlay ==
  ASSUME IInv, NEW t \in Threads, NEW step \in {"start", "reply"}, At(t, "play", step)
  PROVE  /\ Top(t).player \in Players /\ Answering(Top(t).player, step)
         /\ Doing(t, "play", Top(t).player) /\ Tail(stack[t]) = << >>
         /\ \A u \in Threads \ {t} : ~ Doing(u, "play", Top(t).player)
<1>1. /\ Top(t) \in GoodFrames /\ Task(t) = Top(t) /\ Busy(t) /\ Tail(stack[t]) = << >>
      /\ Top(t).op = "play" /\ Top(t).step = step
  BY OnTop DEF IInv
<1>2. Top(t).player \in Players
  BY <1>1 DEF GoodFrames, Frames
<1>3. Answering(Top(t).player, step)
  BY <1>1, <1>2, Assumption DEF IInv, Playing
<1>4. \A u \in Threads \ {t} : ~ Doing(u, "play", Top(t).player)
  BY <1>1, <1>2, Assumption DEF IInv, Playing, OneAtATime, Doing
<1> QED
  BY <1>1, <1>2, <1>3, <1>4 DEF Doing

----------------------------------------------------------------------------
(* One step                                                                *)

LEMMA KeptByPlayStore ==
  ASSUME IInv, NEW t \in Threads, PlayStore(t), UNCHANGED setup
  PROVE  IInv'
<1> DEFINE s == Top(t).stream
           f(p) == Frame("play", "start", s, p)
<1>1. PICK p \in Players, h \in setup.threads, tr \in Transports :
        /\ phase[p] = "free"
        /\ phase' = [phase EXCEPT ![p] = "made"]
        /\ stream' = [stream EXCEPT ![p] = s]
        /\ tcp' = [tcp EXCEPT ![p] = (tr = "tcp")]
        /\ home' = [home EXCEPT ![p] = h]
        /\ session' = [session EXCEPT ![s] = p]
        /\ stack' = [stack EXCEPT ![t] = << f(p) >>]
  BY DEF PlayStore
<1>2. At(t, "play", "store") /\ UNCHANGED << setup, paused, queue, answers, reports, requests >>
  BY DEF PlayStore
<1>3. Busy(t) /\ Task(t).op = "play" /\ s \in Streams
  BY <1>2, OnTop DEF IInv, GoodFrames, Frames
<1>4. f(p) \in GoodFrames /\ f(p).op = "play" /\ f(p).step = "start" /\ f(p).player = p
  BY <1>3, Assumption DEF Frame, GoodFrames, Frames, Ops
<1>5. /\ stack' \in [Threads -> Seq(GoodFrames)] /\ \A u \in Threads : StackForm(stack'[u])
      /\ Busy(t)' /\ Task(t)' = f(p)
      /\ \A u \in Threads \ {t} : Busy(u)' = Busy(u) /\ Task(u)' = Task(u)
  BY <1>1, <1>4, Runs DEF IInv
<1> HIDE DEF f, s
<1>6. Types'
  <2>1. h \in Threads
    BY Assumption DEF IInv, Types, Setup
  <2> QED
    BY <1>1, <1>2, <1>3, <1>5, <2>1 DEF IInv, Types, Phases
<1>7. Entries'
  BY <1>1, <1>3 DEF IInv, Types, Entries
<1>8. Progress'
  BY <1>1, <1>2 DEF IInv, Types, Progress, Progressed
<1>9. Playing'
  <2>1. \A u \in Threads : Busy(u) /\ Task(u).op = "play" => Task(u).player # p
    BY <1>1, Assumption DEF IInv, Playing, Answering
  <2>2. OneAtATime("play")'
    BY <1>4, <1>5, <2>1 DEF IInv, Playing, OneAtATime
  <2>3. ASSUME NEW u \in Threads \ {t}, Busy(u), Task(u).op = "play", Task(u).player # None
        PROVE  Answering(Task(u).player, Task(u).step)'
    <3>1. Task(u).player \in Players \ {p} /\ Answering(Task(u).player, Task(u).step)
      BY <2>1, <2>3, TaskTypes DEF IInv, Playing
    <3> QED
      BY <1>1, <1>2, <1>5, <3>1 DEF IInv, Types, Answering
  <2>4. Answering(p, "start")'
    BY <1>1 DEF IInv, Types, Answering
  <2> QED
    BY <1>4, <1>5, <2>2, <2>3, <2>4 DEF Playing
<1> Others(t) /\ Onward /\ (\A u \in Threads : InLambda(u)' => InLambda(u))
  BY <1>1, <1>4, <1>5 DEF IInv, Types, Others, Onward, HasPlayed, InLambda
<1>10. Queues'
  BY <1>2, <1>4, <1>5, QueuesKept DEF InLambda
<1>11. Stopping'
  <2>1. PendingOrRun
    BY <1>2, PendingKept DEF PendingOrRun
  <2>2. \A q \in Players : TakenOut(q) => TakenOut(q)'
    BY <1>1, <1>2 DEF IInv, Types, TakenOut, HasPlayed, Stops
  <2> QED
    BY <1>4, <1>5, <2>1, <2>2, StoppingKept
<1>12. Stopped'
  <2>1. \A q \in Players : Stops(q)' = Stops(q)
    BY <1>2 DEF Stops
  <2>2. Stops(p) = {}
    BY <1>1, NoStops DEF IInv, Progress, Progressed, Stops
  <2>3. \A x \in Streams : session'[x] = p \/ session'[x] = session[x]
    BY <1>1 DEF IInv, Types
  <2> QED
    BY <2>1, <2>2, <2>3 DEF IInv, Stopped
<1> QED
  BY <1>6, <1>7, <1>8, <1>9, <1>10, <1>11, <1>12 DEF IInv

\* The frame a handler waits in, once it has handed its work over.
LEMMA Waits ==
  ASSUME Types, NEW t \in Threads, NEW op \in Controls \cup {"stop"}, At(t, op, "call")
  PROVE  LET w == [Top(t) EXCEPT !.step = "wait"]
         IN  /\ Goto(t, "wait")[t] = << w >> /\ w \in GoodFrames
             /\ w.op = op /\ w.step = "wait" /\ w.player = Top(t).player
             /\ Top(t).player \in Players
<1> DEFINE w == [Top(t) EXCEPT !.step = "wait"]
<1>1. op \notin {"play", "finish", "lambda"} /\ op \in Ops
  BY Assumption DEF Ops
<1>2. /\ Top(t) \in GoodFrames /\ Tail(stack[t]) = << >>
      /\ Top(t).op = op /\ Top(t).step = "call"
  BY <1>1, OnTop
<1>3. w \in GoodFrames /\ w.op = op /\ w.step = "wait" /\ w.player = Top(t).player
      /\ Top(t).player \in Players
  BY <1>1, <1>2 DEF GoodFrames, Frames
<1> HIDE DEF w
<1>4. << w >> \o << >> = << w >>
  BY <1>3, Forms, ConcatEmptySeq
<1>5. Goto(t, "wait")[t] = << w >>
  BY <1>2, <1>4 DEF Goto, Types, w
<1> QED
  BY <1>3, <1>5 DEF w

LEMMA ErasingGood ==
  ASSUME Types, NEW p \in Players
  PROVE  Erasing(p) \in GoodFrames /\ Erasing(p).op = "finish" /\ Erasing(p).stream = stream[p]
  BY Assumption DEF Types, Erasing, Frame, GoodFrames, Frames, Ops

\* A lambda runs on a player that has played.
LEMMA Performs ==
  ASSUME IInv, NEW t \in Threads, NEW op \in Controls \cup {"stop"}, NEW p \in Players, HasPlayed(p),
         NEW f \in GoodFrames, f.op # "finish", Perform(t, op, p, << f >>)
  PROVE  /\ stack' \in [Threads -> Seq(GoodFrames)] /\ \A u \in Threads : StackForm(stack'[u])
         /\ Busy(t)' /\ Task(t)' = f /\ Others(t)
         /\ phase' \in [Players -> Phases]
         /\ phase' = [phase EXCEPT ![p] = phase'[p]] /\ phase'[p] \in {"playing", "over"}
         /\ phase[p] = "over" \/ op = "stop" \/ reports'[p] # reports[p] => phase'[p] = "over"
         /\ reports' = [reports EXCEPT ![p] = reports'[p]]
         /\ reports' \in [Players -> Seq({0, 1, 2})] /\ Stops(p)' = Stops(p)
         /\ paused' \in [Players -> BOOLEAN]
         /\ UNCHANGED << session, stream, tcp, home, answers, requests >>
<1>1. UNCHANGED << session, stream, tcp, home, answers, requests >>
  BY DEF Perform
<1>2. paused' \in [Players -> BOOLEAN]
  BY DEF Perform, IInv, Types
<1> SUFFICES
      /\ stack' \in [Threads -> Seq(GoodFrames)] /\ \A u \in Threads : StackForm(stack'[u])
      /\ Busy(t)' /\ Task(t)' = f /\ Others(t)
      /\ phase' = [phase EXCEPT ![p] = phase'[p]] /\ phase'[p] \in {"playing", "over"}
      /\ phase[p] = "over" \/ op = "stop" \/ reports'[p] # reports[p] => phase'[p] = "over"
      /\ reports' = [reports EXCEPT ![p] = reports'[p]]
      /\ reports'[p] \in Seq({0, 1, 2}) /\ Stops(p)' = Stops(p)
  BY <1>1, <1>2 DEF IInv, Types, Phases
<1>3. CASE CompletesAgain(op, p)
  <2>1. /\ phase' = [phase EXCEPT ![p] = "over"] /\ reports' = [reports EXCEPT ![p] = Append(@, 0)]
        /\ stack' = [stack EXCEPT ![t] = << Erasing(p) >> \o << f >>]
    BY <1>3 DEF Perform, Reported
  <2>2. stack' = [stack EXCEPT ![t] = << Erasing(p), f >>]
    BY <2>1, ErasingGood, Forms DEF IInv
  <2>3. /\ stack' \in [Threads -> Seq(GoodFrames)] /\ \A u \in Threads : StackForm(stack'[u])
        /\ Busy(t)' /\ Task(t)' = f /\ Others(t)
    <3>1. Erasing(p) \in GoodFrames /\ Erasing(p).op = "finish" /\ Types
      BY ErasingGood DEF IInv
    <3> QED
      BY <2>2, <3>1, CallsBack DEF Others
  <2>4. reports[p] \in Seq({0, 1, 2}) /\ phase'[p] = "over" /\ reports'[p] = Append(reports[p], 0)
    BY <2>1 DEF IInv, Types
  <2>5. reports'[p] \in Seq({0, 1, 2}) /\ Stops(p)' = Stops(p)
    BY <2>4, Appended DEF Stops
  <2> QED
    BY <2>1, <2>3, <2>4, <2>5
<1>4. CASE ~ CompletesAgain(op, p)
  <2>1. /\ phase' = IF op = "stop" THEN [phase EXCEPT ![p] = "over"] ELSE phase
        /\ reports' = reports /\ stack' = [stack EXCEPT ![t] = << f >>]
    BY <1>4 DEF Perform
  <2>2. /\ stack' \in [Threads -> Seq(GoodFrames)] /\ \A u \in Threads : StackForm(stack'[u])
        /\ Busy(t)' /\ Task(t)' = f /\ Others(t)
    BY <2>1, Runs DEF IInv, Others
  <2>3. /\ phase' = [phase EXCEPT ![p] = phase'[p]] /\ phase'[p] \in {"playing", "over"}
        /\ phase[p] = "over" \/ op = "stop" => phase'[p] = "over"
    BY <2>1 DEF IInv, Types, HasPlayed
  <2>4. /\ reports' = [reports EXCEPT ![p] = reports'[p]]
        /\ reports'[p] \in Seq({0, 1, 2}) /\ Stops(p)' = Stops(p)
    BY <2>1 DEF IInv, Types, Stops
  <2> QED
    BY <2>1, <2>2, <2>3, <2>4
<1> QED
  BY <1>3, <1>4

\* What a lambda leaves as it was.
LEMMA PerformKeeps ==
  ASSUME IInv, NEW t \in Threads, NEW op \in Controls \cup {"stop"}, NEW p \in Players, HasPlayed(p),
         NEW f \in GoodFrames, f.op # "finish", Perform(t, op, p, << f >>)
  PROVE  /\ Entries' /\ Progress' /\ Stopped' /\ Onward
         /\ \A q \in Players : TakenOut(q) => TakenOut(q)'
         /\ \A q \in Players : \A step : Answering(q, step) => Answering(q, step)'
<1>1. /\ phase' = [phase EXCEPT ![p] = phase'[p]] /\ phase'[p] \in {"playing", "over"}
      /\ phase[p] = "over" \/ op = "stop" \/ reports'[p] # reports[p] => phase'[p] = "over"
      /\ reports' = [reports EXCEPT ![p] = reports'[p]] /\ Stops(p)' = Stops(p)
      /\ UNCHANGED << session, stream, tcp, home, answers, requests >>
  BY Performs
<1>2. /\ phase[p] \in {"playing", "over"}
      /\ \A q \in Players \ {p} : phase'[q] = phase[q] /\ reports'[q] = reports[q]
  BY <1>1 DEF HasPlayed, IInv, Types
<1>3. \A q \in Players : Stops(q)' = Stops(q)
  BY <1>1, <1>2 DEF Stops
<1>4. Entries'
  BY <1>1, <1>2 DEF IInv, Types, Entries
<1>5. Progress'
  BY <1>1, <1>2 DEF IInv, Progress, Progressed
<1>6. Onward
  BY <1>1, <1>2 DEF Onward, HasPlayed
<1>7. Stopped'
  BY <1>1, <1>3 DEF IInv, Stopped
<1>8. \A q \in Players : TakenOut(q) => TakenOut(q)'
  BY <1>1, <1>3, <1>6 DEF TakenOut, Onward
<1>9. \A q \in Players : \A step : Answering(q, step) => Answering(q, step)'
  BY <1>1, <1>2, <1>6 DEF Answering, Onward
<1> QED
  BY <1>4, <1>5, <1>6, <1>7, <1>8, <1>9

\* sync(): the lambda runs in place, or it is pending at the thread of the player.
LEMMA KeptBySync ==
  ASSUME IInv, NEW t \in Threads, NEW op \in Controls \cup {"stop"}, At(t, op, "call"),
         NEW p \in Players, p = Top(t).player, HasPlayed(p), Sync(t, op, p), UNCHANGED setup
  PROVE  IInv'
<1> DEFINE w == [Top(t) EXCEPT !.step = "wait"]
           l == [op |-> op, player |-> p, by |-> t]
<1>1. /\ Goto(t, "wait")[t] = << w >> /\ w \in GoodFrames
      /\ w.op = op /\ w.step = "wait" /\ w.player = p
  BY Waits DEF IInv
<1>2. op \notin {"play", "finish", "lambda"}
  BY Assumption
<1>3. Task(t) = Top(t) /\ Busy(t) /\ Task(t).op = op /\ Task(t).player = p
  BY <1>2, OnTop DEF IInv
<1>4. \/ /\ home[p] = t /\ Perform(t, op, p, << w >>) /\ queue' = queue
      \/ /\ queue' = [queue EXCEPT ![home[p]] = Append(@, l)]
         /\ stack' = [stack EXCEPT ![t] = << w >>]
         /\ UNCHANGED << session, players, answers, reports, requests >>
  BY <1>1 DEF Sync
<1>5. op = "stop" => TakenOut(p)
  BY <1>3 DEF IInv, Stopping
<1> HIDE DEF w, l
<1>6. CASE Perform(t, op, p, << w >>) /\ queue' = queue
  <2>1. HasPlayed(p) /\ w.op # "finish"
    BY <1>1, <1>2
  <2>2. /\ stack' \in [Threads -> Seq(GoodFrames)] /\ \A u \in Threads : StackForm(stack'[u])
        /\ Busy(t)' /\ Task(t)' = w /\ Others(t)
        /\ phase' \in [Players -> Phases]
        /\ op = "stop" => phase'[p] = "over"
        /\ reports' \in [Players -> Seq({0, 1, 2})]
        /\ paused' \in [Players -> BOOLEAN]
        /\ UNCHANGED << session, stream, tcp, home, answers, requests >>
    BY <1>1, <1>6, <2>1, Performs
  <2>3. /\ Entries' /\ Progress' /\ Stopped' /\ Onward
        /\ \A q \in Players : TakenOut(q) => TakenOut(q)'
        /\ \A q \in Players : \A step : Answering(q, step) => Answering(q, step)'
    BY <1>1, <1>6, <2>1, PerformKeeps
  <2>4. Types'
    BY <1>1, <1>6, <2>2 DEF IInv, Types
  <2>5. Playing'
    BY <1>1, <1>2, <2>2, <2>3, PlayingKept
  <2>6. \A u \in Threads : InLambda(u)' => InLambda(u)
    BY <1>1, <1>2, <2>2 DEF Others, InLambda
  <2>7. Queues'
    BY <1>1, <1>2, <1>6, <2>2, <2>3, QueuesKept DEF InLambda
  <2>8. Stopping'
    <3>1. PendingOrRun
      BY <1>6, <2>6, PendingKept DEF PendingOrRun
    <3> QED
      BY <1>1, <1>3, <1>5, <2>2, <2>3, <3>1, StoppingKept DEF Doing
  <2> QED
    BY <2>3, <2>4, <2>5, <2>7, <2>8 DEF IInv
<1>7. CASE /\ queue' = [queue EXCEPT ![home[p]] = Append(@, l)]
           /\ stack' = [stack EXCEPT ![t] = << w >>]
           /\ UNCHANGED << session, players, answers, reports, requests >>
  <2>1. /\ stack' \in [Threads -> Seq(GoodFrames)] /\ \A u \in Threads : StackForm(stack'[u])
        /\ Busy(t)' /\ Task(t)' = w /\ Others(t)
    BY <1>1, <1>7, Runs DEF IInv, Others
  <2>2. l \in Lambdas /\ l.player = p
    BY <1>1 DEF Lambdas, l
  <2> PICK h \in Threads : h = home[p]
    BY <1>1 DEF IInv, Types
  <2>3. /\ queue' \in [Threads -> Seq(Lambdas)]
        /\ queue'[h] = Append(queue[h], l) /\ queue[h] \in Seq(Lambdas)
        /\ \A x \in Threads \ {h} : queue'[x] = queue[x]
    <3>1. queue \in [Threads -> Seq(Lambdas)] /\ queue' = [queue EXCEPT ![h] = Append(@, l)]
      BY <1>7 DEF IInv, Types
    <3> QED
      BY <2>2, <3>1
  <2>4. Types'
    BY <1>7, <2>1, <2>3 DEF IInv, Types, players
  <2>5. /\ Entries' /\ Progress' /\ Stopped' /\ Onward
        /\ \A q \in Players : TakenOut(q) => TakenOut(q)'
        /\ \A q \in Players : HasPlayed(q)' = HasPlayed(q)
        /\ \A q \in Players : \A step : Answering(q, step) => Answering(q, step)'
    BY <1>7 DEF IInv, Entries, Progress, Progressed, Stopped, Stops, Onward, HasPlayed, TakenOut, Answering,
                players
  <2>6. Playing'
    BY <1>1, <1>2, <2>1, <2>5, PlayingKept
  <2>7. \A u \in Threads : InLambda(u)' = InLambda(u)
    BY <1>1, <1>2, <1>3, <2>1 DEF Others, InLambda
  <2> DEFINE n == Len(queue[h])
  <2>8. /\ n \in Nat /\ DOMAIN queue[h] = 1 .. n /\ DOMAIN queue'[h] = 1 .. (n + 1)
        /\ queue'[h][n + 1] = l /\ \A i \in 1 .. n : queue'[h][i] = queue[h][i]
        /\ n = 0 <=> queue[h] = << >>
    BY <2>2, <2>3
  <2> HIDE DEF n
  <2>9. Queues'
    <3>2. ASSUME NEW x \in Threads, NEW i \in DOMAIN queue'[x]
          PROVE  queue'[x][i].player \in Players /\ HasPlayed(queue'[x][i].player)
      <4>1. CASE queue'[x][i] = l
        BY <2>2, <4>1
      <4>2. CASE i \in DOMAIN queue[x] /\ queue'[x][i] = queue[x][i]
        BY <4>2, QueueTypes DEF IInv, Queues, Lambdas
      <4>3. CASE x = h
        <5>1. i = n + 1 \/ i \in 1 .. n
          BY <2>8, <4>3
        <5> QED
          BY <2>8, <4>1, <4>2, <4>3, <5>1
      <4>4. CASE x # h
        BY <2>3, <4>2, <4>4
      <4> QED
        BY <4>3, <4>4
    <3>3. \A x \in Threads : queue[x] # << >> => queue'[x] # << >>
      BY <2>3, <2>8
    <3> QED
      BY <2>5, <2>7, <3>2, <3>3 DEF IInv, Queues
  <2>10. Stopping'
    <3>1. PendingOrRun
      <4>1. \A x \in Threads : \A i \in DOMAIN queue[x] :
              i \in DOMAIN queue'[x] /\ queue'[x][i] = queue[x][i]
        <5>1. 1 .. n \subseteq 1 .. (n + 1)
          BY <2>8
        <5> QED
          BY <2>3, <2>8, <5>1
      <4> QED
        BY <2>7, <4>1, PendingKept DEF PendingOrRun
    <3>2. ASSUME op = "stop" PROVE Pending(t, p)'
      <4>1. n + 1 \in DOMAIN queue'[h] /\ queue'[h][n + 1] = l
        BY <2>8
      <4>2. n + 1 = 1 => ~ InLambda(h)'
        BY <2>7, <2>8 DEF IInv, Queues
      <4> QED
        BY <3>2, <4>1, <4>2 DEF Pending, l
    <3> QED
      BY <1>1, <1>3, <1>5, <2>1, <2>5, <3>1, <3>2, StoppingKept DEF Doing
  <2> QED
    BY <2>4, <2>5, <2>6, <2>9, <2>10 DEF IInv
<1> QED
  BY <1>4, <1>6, <1>7

LEMMA KeptByRequestPlay ==
  ASSUME IInv, NEW t \in Threads, NEW s \in Streams, RequestPlay(t, s), UNCHANGED setup
  PROVE  IInv'
<1> DEFINE f == Frame("play", "store", s, None)
<1>1. /\ UNCHANGED << setup, session, players, queue, answers, reports >> /\ ~ Busy(t)
      /\ requests' = requests - 1 /\ requests > 0
      /\ stack' = stack \/ stack' = [stack EXCEPT ![t] = << f >>]
  BY DEF RequestPlay, Request, Idle, Busy
<1>2. requests' \in Nat
  BY <1>1 DEF IInv, Types
<1>3. f \in GoodFrames /\ f.op = "play" /\ f.player = None
  BY Assumption DEF Frame, GoodFrames, Frames, Ops
<1> HIDE DEF f
<1>4. CASE stack' = stack
  <2>1. Others(t) /\ GoesOn(t)
    BY <1>4 DEF Others, GoesOn, Busy, Task
  <2> QED
    BY <1>1, <1>2, <1>4, <2>1, OnlyStack DEF IInv, Types
<1>5. CASE stack' = [stack EXCEPT ![t] = << f >>]
  <2>1. /\ stack' \in [Threads -> Seq(GoodFrames)] /\ \A u \in Threads : StackForm(stack'[u])
        /\ Task(t)' = f /\ Others(t)
    BY <1>3, <1>5, Runs DEF IInv, Others
  <2>2. GoesOn(t)
    BY <1>3, <2>1 DEF GoesOn
  <2> QED
    BY <1>1, <1>2, <2>1, <2>2, OnlyStack
<1> QED
  BY <1>1, <1>4, <1>5

LEMMA KeptByRequestControl ==
  ASSUME IInv, NEW t \in Threads, NEW s \in Streams, NEW op \in Controls,
         RequestControl(t, s, op), UNCHANGED setup
  PROVE  IInv'
<1> DEFINE f == Frame(op, "call", s, session[s])
<1>1. /\ UNCHANGED << setup, session, players, queue, answers, reports >> /\ ~ Busy(t)
      /\ requests' = requests - 1 /\ requests > 0
      /\ \/ session[s] = None /\ stack' = stack
         \/ session[s] # None /\ stack' = [stack EXCEPT ![t] = << f >>]
  BY DEF RequestControl, Request, Idle, Busy
<1>2. requests' \in Nat
  BY <1>1 DEF IInv, Types
<1>3. session[s] # None => f \in GoodFrames /\ f.op \notin {"stop", "lambda", "play"}
  BY Assumption DEF IInv, Types, Frame, GoodFrames, Frames, Ops
<1> HIDE DEF f
<1>4. CASE stack' = stack
  <2>1. Others(t) /\ GoesOn(t)
    BY <1>4 DEF Others, GoesOn, Busy, Task
  <2> QED
    BY <1>1, <1>2, <1>4, <2>1, OnlyStack DEF IInv, Types
<1>5. CASE session[s] # None /\ stack' = [stack EXCEPT ![t] = << f >>]
  <2>1. /\ stack' \in [Threads -> Seq(GoodFrames)] /\ \A u \in Threads : StackForm(stack'[u])
        /\ Task(t)' = f /\ Others(t)
    BY <1>3, <1>5, Runs DEF IInv, Others
  <2>2. GoesOn(t)
    BY <1>3, <1>5, <2>1 DEF GoesOn
  <2> QED
    BY <1>1, <1>2, <2>1, <2>2, OnlyStack
<1> QED
  BY <1>1, <1>4, <1>5

\* The entry is taken out with its player, which nobody else can have taken out.
LEMMA KeptByRequestStop ==
  ASSUME IInv, NEW t \in Threads, NEW s \in Streams, RequestStop(t, s), UNCHANGED setup
  PROVE  IInv'
<1>1. UNCHANGED << setup, players, queue, answers, reports >> /\ ~ Busy(t) /\ requests' \in Nat
  BY DEF RequestStop, Request, Idle, Busy, IInv, Types
<1>2. CASE UNCHANGED << session, stack >>
  <2>1. Others(t) /\ GoesOn(t)
    BY <1>2 DEF Others, GoesOn, Busy, Task
  <2> QED
    BY <1>1, <1>2, <2>1, OnlyStack DEF IInv, Types
<1>3. ASSUME NEW p \in Players, p = session[s], phase[p] = "playing",
             session' = [session EXCEPT ![s] = None],
             stack' = [stack EXCEPT ![t] = << Frame("stop", "call", s, p) >>]
      PROVE  IInv'
  <2> DEFINE f == Frame("stop", "call", s, p)
  <2>1. f \in GoodFrames /\ f.op = "stop" /\ f.step = "call" /\ f.player = p
    BY Assumption DEF Frame, GoodFrames, Frames, Ops
  <2> HIDE DEF f
  <2>2. /\ stack' \in [Threads -> Seq(GoodFrames)] /\ \A u \in Threads : StackForm(stack'[u])
        /\ Busy(t)' /\ Task(t)' = f /\ Others(t)
    <3>1. stack' = [stack EXCEPT ![t] = << f >>] /\ Types
      BY <1>3 DEF f, IInv
    <3> QED
      BY <2>1, <3>1, Runs DEF Others
  <2>3. \A x \in Streams : session'[x] = IF x = s THEN None ELSE session[x]
    BY <1>3 DEF IInv, Types
  <2>4. Types'
    BY <1>1, <1>3, <2>2 DEF IInv, Types, players
  <2>5. Entries'
    BY <1>1, <2>3 DEF IInv, Entries, players
  <2>6. Progress' /\ Onward
    BY <1>1 DEF IInv, Progress, Progressed, Onward, HasPlayed, players
  <2>7. Stopped'
    BY <1>1, <2>3, Assumption DEF IInv, Stopped, Stops
  <2>8. \A q \in Players : \A step : Answering(q, step) => Answering(q, step)'
    BY <1>1 DEF Answering, players
  <2>9. Playing'
    BY <2>1, <2>2, <2>8, PlayingKept
  <2>10. \A u \in Threads : InLambda(u)' => InLambda(u)
    BY <2>1, <2>2 DEF Others, InLambda
  <2>11. Queues'
    BY <1>1, <2>1, <2>2, <2>6, QueuesKept DEF InLambda
  <2>12. \A q \in Players : TakenOut(q) => TakenOut(q)'
    BY <1>1, <2>3, Assumption DEF TakenOut, HasPlayed, Stops, players
  <2>13. Stopping'
    <3>1. ASSUME NEW u \in Threads, Busy(u), Task(u).op = "stop" PROVE Task(u).player # p
      BY <1>3, <3>1 DEF IInv, Stopping, TakenOut
    <3>2. OneAtATime("stop")'
      BY <2>1, <2>2, <3>1 DEF IInv, Stopping, OneAtATime, Others
    <3>3. TakenOut(p)'
      <4>1. Stops(p) = {} /\ HasPlayed(p)
        BY <1>3 DEF IInv, Stopped, HasPlayed
      <4>2. \A x \in Streams : session[x] = p => x = s
        BY <1>3, Assumption DEF IInv, Entries
      <4> QED
        BY <1>1, <2>3, <4>1, <4>2, Assumption DEF TakenOut, HasPlayed, Stops, players
    <3>4. PendingOrRun
      BY <1>1, <2>10, PendingKept DEF PendingOrRun
    <3>5. ASSUME NEW u \in Threads \ {t}, Busy(u)', Task(u)'.op = "stop"
          PROVE  /\ TakenOut(Task(u).player)'
                 /\ Task(u)'.step = "wait" =>
                      phase'[Task(u)'.player] = "over" \/ Pending(u, Task(u).player)'
      <4>1. PICK q \in Players : q = Task(u).player /\ q = Task(u)'.player
        BY <2>2, <3>5, TaskTypes DEF IInv, Others
      <4>2. /\ TakenOut(q)
            /\ Task(u)'.step = "wait" => phase[q] = "over" \/ Pending(u, q)
        BY <2>2, <3>5, <4>1 DEF IInv, Stopping, Others
      <4>3. /\ TakenOut(q)'
            /\ Task(u)'.step = "wait" => phase'[q] = "over" \/ Pending(u, q)'
        BY <2>6, <2>12, <3>4, <4>2 DEF Onward, PendingOrRun
      <4> QED
        BY <4>1, <4>3
    <3>6. /\ TakenOut(Task(t).player)' /\ Task(t)'.step # "wait"
      <4>1. p = Task(t)'.player
        BY <2>1, <2>2
      <4> QED
        BY <2>1, <2>2, <3>3, <4>1
    <3> QED
      BY <3>2, <3>5, <3>6 DEF Stopping
  <2> QED
    BY <2>4, <2>5, <2>6, <2>7, <2>9, <2>11, <2>13 DEF IInv
<1> QED
  BY <1>2, <1>3 DEF RequestStop, IInv, Types

LEMMA KeptByPlayStart ==
  ASSUME IInv, NEW t \in Threads, PlayStartTcp(t) \/ PlayStartUdp(t), UNCHANGED setup
  PROVE  IInv'
<1>1. PICK p : p = Top(t).player
  OBVIOUS
<1>2. At(t, "play", "start")
  BY DEF PlayStartTcp, PlayStartUdp
<1>3. /\ p \in Players /\ phase[p] = "made" /\ Tail(stack[t]) = << >>
      /\ \A u \in Threads \ {t} : ~ Doing(u, "play", p)
  BY <1>1, <1>2, AtPlay DEF Answering
<1>4. /\ phase' = [phase EXCEPT ![p] = "starting"] /\ stack' = [stack EXCEPT ![t] = << >>]
      /\ \/ tcp[p] /\ answers' = answers
         \/ ~ tcp[p] /\ answers' = [answers EXCEPT ![p] = @ + 1]
      /\ UNCHANGED << setup, session, paused, stream, tcp, home, queue, reports, requests >>
  BY <1>1, <1>3 DEF PlayStartTcp, PlayStartUdp, Pop, IInv, Types
<1>5. /\ stack' \in [Threads -> Seq(GoodFrames)] /\ \A u \in Threads : StackForm(stack'[u])
      /\ ~ Busy(t)' /\ \A u \in Threads \ {t} : Busy(u)' = Busy(u) /\ Task(u)' = Task(u)
  BY <1>4, Ends DEF IInv
<1>6. Progressed(p) /\ reports[p] = << >> /\ answers[p] = 0
  BY <1>3 DEF IInv, Progress, Progressed
<1>7. /\ phase'[p] = "starting" /\ reports'[p] = << >>
      /\ answers'[p] = IF tcp[p] THEN 0 ELSE 1
      /\ answers' = [answers EXCEPT ![p] = answers'[p]]
      /\ reports' = [reports EXCEPT ![p] = reports'[p]]
  BY <1>3, <1>4, <1>6 DEF IInv, Types
<1>8. Progressed(p)' /\ Stops(p)' = Stops(p) /\ ~ HasPlayed(p)
  BY <1>3, <1>4, <1>6, <1>7 DEF Progressed, Stops, HasPlayed
<1>9. \A u \in Threads : GoesOn(u) /\ ~ (Doing(u, "play", p) /\ Doing(u, "play", p)')
  BY <1>3, <1>5 DEF GoesOn, Doing
<1>10. /\ phase'[p] \in Phases \ {"free"} /\ answers'[p] \in Nat
       /\ reports'[p] \in Seq({0, 1, 2}) /\ phase' = [phase EXCEPT ![p] = phase'[p]]
  BY <1>3, <1>4, <1>6, <1>7 DEF Phases, IInv, Types
<1> QED
  BY <1>3, <1>4, <1>5, <1>7, <1>8, <1>9, <1>10, PlayerSteps

\* start() has failed: the callback runs before the reply.
LEMMA KeptByPlayBindFails ==
  ASSUME IInv, NEW t \in Threads, PlayBindFails(t), UNCHANGED setup
  PROVE  IInv'
<1> DEFINE f(p) == Frame("play", "reply", stream[p], p)
<1>1. PICK p : p = Top(t).player
  OBVIOUS
<1>2. At(t, "play", "start")
  BY DEF PlayBindFails
<1>3. /\ p \in Players /\ phase[p] = "made" /\ Doing(t, "play", p)
      /\ \A u \in Threads \ {t} : ~ Doing(u, "play", p)
  BY <1>1, <1>2, AtPlay DEF Answering
<1>4. /\ phase' = [phase EXCEPT ![p] = "over"] /\ ~ tcp[p]
      /\ reports' = [reports EXCEPT ![p] = Append(@, 1)]
      /\ stack' = [stack EXCEPT ![t] = << Erasing(p), f(p) >>]
      /\ UNCHANGED << setup, session, paused, stream, tcp, home, queue, answers, requests >>
  BY <1>1, <1>3 DEF PlayBindFails
<1>5. f(p) \in GoodFrames /\ f(p).op = "play" /\ f(p).step = "reply" /\ f(p).player = p
  BY <1>3, Assumption DEF IInv, Types, Frame, GoodFrames, Frames, Ops
<1> HIDE DEF f
<1>6. /\ stack' \in [Threads -> Seq(GoodFrames)] /\ \A u \in Threads : StackForm(stack'[u])
      /\ Busy(t)' /\ Task(t)' = f(p) /\ Others(t)
  <2>1. Erasing(p) \in GoodFrames /\ Erasing(p).op = "finish" /\ Types
    BY <1>3, ErasingGood DEF IInv
  <2> QED
    BY <1>4, <1>5, <2>1, CallsBack DEF Others
<1>7. Progressed(p) /\ answers[p] = 0 /\ reports[p] \in Seq({0, 1, 2})
  BY <1>3 DEF IInv, Progress, Progressed, Types
<1>8. phase'[p] = "over" /\ reports'[p] = Append(reports[p], 1) /\ answers'[p] = 0
  BY <1>3, <1>4, <1>7 DEF IInv, Types
<1>9. Stops(p)' = Stops(p) /\ reports'[p] \in Seq({0, 1, 2})
  BY <1>7, <1>8, Appended DEF Stops
<1>10. Progressed(p)' /\ ~ HasPlayed(p) /\ phase'[p] \in Phases \ {"free"} /\ answers'[p] \in Nat
  BY <1>3, <1>4, <1>8 DEF Progressed, HasPlayed, Phases
<1>11. /\ phase' = [phase EXCEPT ![p] = phase'[p]] /\ reports' = [reports EXCEPT ![p] = reports'[p]]
       /\ answers' = [answers EXCEPT ![p] = answers'[p]]
  BY <1>3, <1>4 DEF IInv, Types
<1>12. /\ Types' /\ Entries' /\ Progress' /\ Stopped' /\ Onward
       /\ \A q \in Players : TakenOut(q) => TakenOut(q)'
       /\ \A q \in Players \ {p} : \A step : Answering(q, step) => Answering(q, step)'
  BY <1>3, <1>4, <1>6, <1>9, <1>10, <1>11, PlayerMoves
<1>13. Playing'
  <2>1. \A u \in Threads \ {t} : \A q \in Players : \A step :
          Doing(u, "play", q) /\ Task(u).step = step /\ Answering(q, step) => Answering(q, step)'
    BY <1>3, <1>12
  <2>2. Answering(p, "reply")'
    BY <1>4, <1>8 DEF Answering
  <2> QED
    BY <1>3, <1>5, <1>6, <2>1, <2>2, PlayingKept
<1>14. \A u \in Threads : InLambda(u)' => InLambda(u)
  BY <1>5, <1>6 DEF Others, InLambda
<1>15. Queues'
  BY <1>4, <1>5, <1>6, <1>12, QueuesKept DEF InLambda
<1>16. Stopping'
  <2>1. PendingOrRun
    BY <1>4, <1>14, PendingKept DEF PendingOrRun
  <2> QED
    BY <1>5, <1>6, <1>12, <2>1, StoppingKept
<1> QED
  BY <1>12, <1>13, <1>15, <1>16 DEF IInv

LEMMA KeptByPlayReply ==
  ASSUME IInv, NEW t \in Threads, PlayReply(t), UNCHANGED setup
  PROVE  IInv'
<1>1. PICK p : p = Top(t).player
  OBVIOUS
<1>2. At(t, "play", "reply")
  BY DEF PlayReply
<1>3. /\ p \in Players /\ phase[p] = "over" /\ ~ tcp[p] /\ answers[p] = 0
      /\ Tail(stack[t]) = << >> /\ \A u \in Threads \ {t} : ~ Doing(u, "play", p)
  BY <1>1, <1>2, AtPlay DEF Answering
<1>4. /\ answers' = [answers EXCEPT ![p] = @ + 1] /\ stack' = [stack EXCEPT ![t] = << >>]
      /\ UNCHANGED << setup, session, phase, paused, stream, tcp, home, queue, reports, requests >>
  BY <1>1, <1>3 DEF PlayReply, Pop, IInv, Types, players
<1>5. /\ stack' \in [Threads -> Seq(GoodFrames)] /\ \A u \in Threads : StackForm(stack'[u])
      /\ ~ Busy(t)' /\ \A u \in Threads \ {t} : Busy(u)' = Busy(u) /\ Task(u)' = Task(u)
  BY <1>4, Ends DEF IInv
<1>6. /\ answers'[p] = 1 /\ answers' = [answers EXCEPT ![p] = answers'[p]]
      /\ phase'[p] = "over" /\ phase' = [phase EXCEPT ![p] = phase'[p]]
      /\ reports' = [reports EXCEPT ![p] = reports'[p]] /\ reports'[p] \in Seq({0, 1, 2})
      /\ answers'[p] \in Nat /\ phase'[p] \in Phases \ {"free"}
  BY <1>3, <1>4 DEF IInv, Types, Phases
<1>7. Progressed(p)' /\ Stops(p)' = Stops(p)
  BY <1>3, <1>4, <1>6 DEF IInv, Progressed, Stops
<1>8. \A u \in Threads : GoesOn(u) /\ ~ (Doing(u, "play", p) /\ Doing(u, "play", p)')
  BY <1>3, <1>5 DEF GoesOn, Doing
<1> QED
  BY <1>3, <1>4, <1>5, <1>6, <1>7, <1>8, PlayerSteps

\* The callback ends: what the thread was busy with before, it goes on with.
LEMMA Returns ==
  ASSUME Types, NEW t \in Threads, At(t, "finish", "erase"), stack' = Pop(t)
  PROVE  /\ stack' \in [Threads -> Seq(GoodFrames)] /\ \A u \in Threads : StackForm(stack'[u])
         /\ \A u \in Threads : Busy(u)' => Busy(u) /\ Task(u)' = Task(u)
         /\ Top(t).stream \in Streams
<1>1. stack[t] # << >> /\ StackForm(stack[t]) /\ Head(stack[t]).op = "finish"
      /\ stack' = [stack EXCEPT ![t] = Tail(stack[t])]
  BY DEF Types, At, Idle, Top, Pop
<1>2. ASSUME NEW f \in GoodFrames, stack[t] = << f >>
      PROVE  /\ stack' \in [Threads -> Seq(GoodFrames)] /\ \A u \in Threads : StackForm(stack'[u])
             /\ \A u \in Threads : Busy(u)' => Busy(u) /\ Task(u)' = Task(u)
             /\ Top(t).stream \in Streams
  <2>1. Head(stack[t]) = f /\ Tail(stack[t]) = << >>
    BY <1>2, Forms
  <2>2. /\ stack' \in [Threads -> Seq(GoodFrames)] /\ \A u \in Threads : StackForm(stack'[u])
        /\ ~ Busy(t)' /\ \A u \in Threads \ {t} : Busy(u)' = Busy(u) /\ Task(u)' = Task(u)
    BY <1>1, <2>1, Ends
  <2> QED
    BY <2>1, <2>2 DEF Top, GoodFrames, Frames
<1>3. ASSUME NEW e \in GoodFrames, NEW f \in GoodFrames, stack[t] = << e, f >>
      PROVE  /\ stack' \in [Threads -> Seq(GoodFrames)] /\ \A u \in Threads : StackForm(stack'[u])
             /\ \A u \in Threads : Busy(u)' => Busy(u) /\ Task(u)' = Task(u)
             /\ Top(t).stream \in Streams
  <2>1. Head(stack[t]) = e /\ Tail(stack[t]) = << f >> /\ Task(t) = f /\ Busy(t)
    BY <1>3, Forms DEF Task, Busy
  <2>2. /\ stack' \in [Threads -> Seq(GoodFrames)] /\ \A u \in Threads : StackForm(stack'[u])
        /\ Task(t)' = f /\ \A u \in Threads \ {t} : Busy(u)' = Busy(u) /\ Task(u)' = Task(u)
    BY <1>1, <2>1, Runs
  <2> QED
    BY <2>1, <2>2 DEF Top, GoodFrames, Frames
<1> QED
  BY <1>1, <1>2, <1>3 DEF StackForm

LEMMA KeptByErase ==
  ASSUME IInv, NEW t \in Threads, Erase(t), UNCHANGED setup
  PROVE  IInv'
<1>1. /\ At(t, "finish", "erase") /\ stack' = Pop(t)
      /\ session' = [session EXCEPT ![Top(t).stream] = None]
      /\ UNCHANGED << setup, phase, paused, stream, tcp, home, queue, answers, reports, requests >>
  BY DEF Erase, players
<1>2. /\ stack' \in [Threads -> Seq(GoodFrames)] /\ \A u \in Threads : StackForm(stack'[u])
      /\ \A u \in Threads : Busy(u)' => Busy(u) /\ Task(u)' = Task(u)
  BY <1>1, Returns DEF IInv
<1>3. \A s \in Streams : session'[s] = None \/ session'[s] = session[s]
  BY <1>1 DEF IInv, Types
<1>4. Types'
  BY <1>1, <1>2 DEF IInv, Types
<1>5. Entries'
  BY <1>1, <1>3 DEF IInv, Entries
<1>6. Progress' /\ Onward
  BY <1>1 DEF IInv, Progress, Progressed, Onward, HasPlayed
<1>7. Stopped'
  BY <1>1, <1>3, Assumption DEF IInv, Stopped, Stops
<1>8. \A q \in Players : TakenOut(q) => TakenOut(q)'
  BY <1>1, <1>3, Assumption DEF TakenOut, HasPlayed, Stops
<1>9. \A q \in Players : \A step : Answering(q, step) => Answering(q, step)'
  BY <1>1 DEF Answering
<1>10. \A u \in Threads : GoesOn(u)
  BY <1>2 DEF GoesOn
<1>11. /\ \A u \in Threads : \A p \in Players :
            Doing(u, "stop", p) /\ Doing(u, "stop", p)' /\ TakenOut(p) => TakenOut(p)'
       /\ \A u \in Threads : \A p \in Players : \A step :
            Doing(u, "play", p) /\ Doing(u, "play", p)' /\ Task(u).step = step =>
              (Answering(p, step) => Answering(p, step)')
  BY <1>8, <1>9
<1>12. Playing' /\ Queues' /\ Stopping'
  BY <1>1, <1>6, <1>10, <1>11, TasksKept
<1> QED
  BY <1>4, <1>5, <1>6, <1>7, <1>12 DEF IInv

\* The lambda at the head of the queue runs: a stop has done its work then.
LEMMA KeptByRunLambda ==
  ASSUME IInv, NEW t \in Threads, RunLambda(t), UNCHANGED setup
  PROVE  IInv'
<1>1. PICK op \in Controls \cup {"stop"}, p \in Players :
        /\ Head(queue[t]).op = op /\ Head(queue[t]).player = p
        /\ queue[t] # << >> /\ Head(queue[t]) = queue[t][1] /\ 1 \in DOMAIN queue[t]
  <2>1. queue[t] \in Seq(Lambdas) /\ queue[t] # << >>
    BY DEF RunLambda, IInv, Types
  <2>2. Head(queue[t]) \in Lambdas /\ Head(queue[t]) = queue[t][1] /\ 1 \in DOMAIN queue[t]
    BY <2>1
  <2> QED
    BY <2>1, <2>2 DEF Lambdas
<1> DEFINE f == Frame("lambda", "done", stream[p], p)
<1>2. Perform(t, op, p, << f >>) /\ queue' = queue /\ ~ Busy(t)
  BY <1>1 DEF RunLambda, Idle, Busy
<1>3. f \in GoodFrames /\ f.op = "lambda"
  BY Assumption DEF IInv, Types, Frame, GoodFrames, Frames, Ops
<1>4. HasPlayed(p)
  BY <1>1 DEF IInv, Queues
<1> HIDE DEF f
<1>5. /\ stack' \in [Threads -> Seq(GoodFrames)] /\ \A u \in Threads : StackForm(stack'[u])
      /\ Busy(t)' /\ Task(t)' = f /\ Others(t)
      /\ phase' \in [Players -> Phases]
      /\ op = "stop" => phase'[p] = "over"
      /\ reports' \in [Players -> Seq({0, 1, 2})]
      /\ paused' \in [Players -> BOOLEAN]
      /\ UNCHANGED << session, stream, tcp, home, answers, requests >>
  BY <1>2, <1>3, <1>4, Performs
<1>6. /\ Entries' /\ Progress' /\ Stopped' /\ Onward
      /\ \A q \in Players : TakenOut(q) => TakenOut(q)'
      /\ \A q \in Players : \A step : Answering(q, step) => Answering(q, step)'
  BY <1>2, <1>3, <1>4, PerformKeeps
<1>7. Types'
  BY <1>2, <1>5 DEF IInv, Types
<1>8. Playing'
  BY <1>3, <1>5, <1>6, PlayingKept
<1>9. Queues'
  BY <1>1, <1>2, <1>5, <1>6, QueuesKept
<1>10. Stopping'
  <2>1. ASSUME NEW u \in Threads, NEW q \in Players, Pending(u, q)
        PROVE  Pending(u, q)' \/ phase'[q] = "over"
    <3> PICK h \in Threads : \E i \in DOMAIN queue[h] :
          /\ queue[h][i] = [op |-> "stop", player |-> q, by |-> u]
          /\ i = 1 => ~ InLambda(h)
      BY <2>1 DEF Pending
    <3>1. PICK i \in DOMAIN queue[h] :
            /\ queue[h][i] = [op |-> "stop", player |-> q, by |-> u]
            /\ i = 1 => ~ InLambda(h)
      OBVIOUS
    <3>2. CASE h = t /\ i = 1
      BY <1>1, <1>5, <3>1, <3>2
    <3>3. CASE ~ (h = t /\ i = 1)
      <4>1. i = 1 => ~ InLambda(h)'
        BY <1>5, <3>1, <3>3 DEF Others, InLambda
      <4> QED
        BY <1>2, <3>1, <4>1 DEF Pending
    <3> QED
      BY <3>2, <3>3
  <2>2. PendingOrRun
    BY <2>1 DEF PendingOrRun
  <2> QED
    BY <1>3, <1>5, <1>6, <2>2, StoppingKept
<1> QED
  BY <1>6, <1>7, <1>8, <1>9, <1>10 DEF IInv

\* The lambda that has run leaves the queue; the others move up.
LEMMA KeptByLambdaDone ==
  ASSUME IInv, NEW t \in Threads, LambdaDone(t), UNCHANGED setup
  PROVE  IInv'
<1>1. /\ At(t, "lambda", "done") /\ queue' = [queue EXCEPT ![t] = Tail(@)] /\ stack' = Pop(t)
      /\ UNCHANGED << setup, session, players, answers, reports, requests >>
  BY DEF LambdaDone
<1>2. InLambda(t) /\ Tail(stack[t]) = << >>
  BY <1>1, OnTop DEF IInv, InLambda
<1>3. stack' = [stack EXCEPT ![t] = << >>]
  BY <1>1, <1>2 DEF Pop
<1>4. /\ stack' \in [Threads -> Seq(GoodFrames)] /\ \A u \in Threads : StackForm(stack'[u])
      /\ ~ Busy(t)' /\ Others(t)
  BY <1>3, Ends DEF IInv, Others
<1> DEFINE n == Len(queue[t])
<1>5. /\ n \in Nat /\ DOMAIN queue[t] = 1 .. n
      /\ queue' \in [Threads -> Seq(Lambdas)] /\ \A h \in Threads \ {t} : queue'[h] = queue[h]
      /\ DOMAIN queue'[t] = 1 .. (n - 1) /\ \A i \in 1 .. (n - 1) : queue'[t][i] = queue[t][i + 1]
  <2>1. queue[t] \in Seq(Lambdas) /\ queue[t] # << >>
    BY <1>2 DEF IInv, Types, Queues
  <2>2. Tail(queue[t]) \in Seq(Lambdas) /\ queue'[t] = Tail(queue[t])
        /\ \A h \in Threads \ {t} : queue'[h] = queue[h]
    BY <1>1, <2>1 DEF IInv, Types
  <2>3. queue' \in [Threads -> Seq(Lambdas)]
    BY <1>1, <2>2 DEF IInv, Types
  <2>4. /\ n \in Nat /\ DOMAIN queue[t] = 1 .. n /\ DOMAIN Tail(queue[t]) = 1 .. (n - 1)
        /\ \A i \in 1 .. (n - 1) : Tail(queue[t])[i] = queue[t][i + 1]
    BY <2>1
  <2> QED
    BY <2>2, <2>3, <2>4
<1> HIDE DEF n
<1>6. Types'
  BY <1>1, <1>4, <1>5 DEF IInv, Types, players
<1>7. /\ Entries' /\ Progress' /\ Stopped' /\ Onward
      /\ \A q \in Players : HasPlayed(q) => HasPlayed(q)'
      /\ \A q \in Players : TakenOut(q) => TakenOut(q)'
      /\ \A q \in Players : \A step : Answering(q, step) => Answering(q, step)'
  BY <1>1 DEF IInv, Entries, Progress, Progressed, Stopped, Stops, Onward, HasPlayed, TakenOut,
              Answering, players
<1>8. Playing'
  BY <1>4, <1>7, PlayingKept
<1>9. ASSUME NEW h \in Threads, InLambda(h)' PROVE InLambda(h) /\ h # t
  BY <1>4, <1>9 DEF Others, InLambda
<1>10. Queues'
  <2>1. ASSUME NEW h \in Threads, NEW i \in DOMAIN queue'[h]
        PROVE  \E j \in DOMAIN queue[h] : queue'[h][i] = queue[h][j]
    <3>1. CASE h = t
      <4>1. i + 1 \in DOMAIN queue[t] /\ queue'[t][i] = queue[t][i + 1]
        BY <1>5, <2>1, <3>1
      <4> QED
        BY <3>1, <4>1
    <3>2. CASE h # t
      BY <1>5, <3>2
    <3> QED
      BY <3>1, <3>2
  <2>2. \A h \in Threads : \A i \in DOMAIN queue[h] :
          queue[h][i].player \in Players /\ HasPlayed(queue[h][i].player)
    BY QueueTypes DEF IInv, Queues, Lambdas
  <2>3. \A h \in Threads : InLambda(h)' => queue'[h] # << >>
    BY <1>5, <1>9 DEF IInv, Queues
  <2>4. ASSUME NEW h \in Threads, NEW i \in DOMAIN queue'[h]
        PROVE  phase'[queue'[h][i].player] \in {"playing", "over"}
    <3>1. PICK p \in Players : p = queue'[h][i].player /\ HasPlayed(p)
      BY <2>1, <2>2
    <3>2. HasPlayed(p)'
      BY <1>7, <3>1
    <3> QED
      BY <3>1, <3>2 DEF HasPlayed
  <2> QED
    BY <2>3, <2>4 DEF Queues, HasPlayed
<1>11. Stopping'
  <2>1. ASSUME NEW u \in Threads, NEW q \in Players, Pending(u, q) PROVE Pending(u, q)'
    <3> PICK h \in Threads : \E i \in DOMAIN queue[h] :
          /\ queue[h][i] = [op |-> "stop", player |-> q, by |-> u]
          /\ i = 1 => ~ InLambda(h)
      BY <2>1 DEF Pending
    <3>1. PICK i \in DOMAIN queue[h] :
            /\ queue[h][i] = [op |-> "stop", player |-> q, by |-> u]
            /\ i = 1 => ~ InLambda(h)
      OBVIOUS
    <3>2. CASE h = t
      <4>1. i - 1 \in DOMAIN queue'[t] /\ queue'[t][i - 1] = queue[t][i]
        BY <1>2, <1>5, <3>1, <3>2
      <4>2. ~ InLambda(t)'
        BY <1>9
      <4> QED
        BY <3>1, <3>2, <4>1, <4>2 DEF Pending
    <3>3. CASE h # t
      <4>1. i \in DOMAIN queue'[h] /\ queue'[h][i] = queue[h][i] /\ (i = 1 => ~ InLambda(h)')
        BY <1>5, <1>9, <3>1, <3>3
      <4> QED
        BY <3>1, <4>1 DEF Pending
    <3> QED
      BY <3>2, <3>3
  <2>2. PendingOrRun
    BY <2>1 DEF PendingOrRun
  <2> QED
    BY <1>4, <1>7, <2>2, StoppingKept
<1> QED
  BY <1>6, <1>7, <1>8, <1>10, <1>11 DEF IInv

\* Who stops a player is in no doubt whether it has played.
LEMMA KeptByStopCall ==
  ASSUME IInv, NEW t \in Threads, StopCall(t), UNCHANGED setup
  PROVE  IInv'
<1>1. At(t, "stop", "call")
  BY DEF StopCall
<1>2. PICK p \in Players : p = Top(t).player
  BY <1>1, Waits DEF IInv
<1>3. HasPlayed(p)
  BY <1>1, <1>2, OnTop DEF IInv, Stopping, TakenOut
<1>4. Sync(t, "stop", p)
  BY <1>2 DEF StopCall
<1> QED
  BY <1>1, <1>2, <1>3, <1>4, KeptBySync

\* The reply of a control request: nothing but the stack changes.
LEMMA KeptByReply ==
  ASSUME IInv, NEW t \in Threads, NEW op, NEW step, At(t, op, step), op # "finish",
         stack' = Pop(t), UNCHANGED << setup, session, players, queue, answers, reports, requests >>
  PROVE  IInv'
<1>1. stack' = [stack EXCEPT ![t] = << >>]
  BY OnTop DEF IInv, Pop
<1>2. /\ stack' \in [Threads -> Seq(GoodFrames)] /\ \A u \in Threads : StackForm(stack'[u])
      /\ ~ Busy(t)' /\ Others(t)
  BY <1>1, Ends DEF IInv, Others
<1>3. GoesOn(t) /\ requests' \in Nat
  BY <1>2 DEF GoesOn, IInv, Types
<1> QED
  BY <1>2, <1>3, OnlyStack

LEMMA KeptByControlCall ==
  ASSUME IInv, NEW t \in Threads, ControlCall(t), UNCHANGED setup
  PROVE  IInv'
<1>1. PICK op \in Controls :
        /\ At(t, op, "call")
        /\ IF Wanted(op, Top(t).player)
           THEN Sync(t, op, Top(t).player)
           ELSE /\ stack' = Pop(t)
                /\ UNCHANGED << session, players, queue, answers, reports, requests >>
  BY DEF ControlCall
<1>2. PICK p \in Players : p = Top(t).player
  BY <1>1, Waits DEF IInv
<1>3. CASE Wanted(op, p)
  <2>1. HasPlayed(p)
    BY <1>3 DEF Wanted, HasPlayed
  <2> QED
    BY <1>1, <1>2, <1>3, <2>1, KeptBySync
<1>4. CASE ~ Wanted(op, p)
  <2>1. op # "finish"
    BY Assumption
  <2> QED
    BY <1>1, <1>2, <1>4, <2>1, KeptByReply
<1> QED
  BY <1>3, <1>4

LEMMA KeptByControlReply ==
  ASSUME IInv, NEW t \in Threads, ControlReply(t), UNCHANGED setup
  PROVE  IInv'
<1>1. PICK op \in Controls :
        /\ At(t, op, "wait") /\ stack' = Pop(t)
        /\ UNCHANGED << session, players, queue, answers, reports, requests >>
  BY DEF ControlReply
<1>2. op # "finish"
  BY Assumption
<1> QED
  BY <1>1, <1>2, KeptByReply

\* The request is told to go on: the lambda has run, and what is reported is true.
LEMMA KeptByStopReport ==
  ASSUME IInv, NEW t \in Threads, StopReport(t), UNCHANGED setup
  PROVE  IInv'
<1>1. /\ At(t, "stop", "wait") /\ Released(t) /\ stack' = Pop(t)
      /\ reports' = [reports EXCEPT ![Top(t).player] = Append(@, 2)]
      /\ UNCHANGED << setup, session, players, queue, answers, requests >>
  BY DEF StopReport
<1>2. /\ Task(t) = Top(t) /\ Busy(t) /\ Top(t).op = "stop" /\ Top(t).step = "wait"
      /\ Tail(stack[t]) = << >>
  BY <1>1, OnTop DEF IInv
<1>3. PICK p \in Players : p = Top(t).player
  BY <1>2, TaskTypes DEF IInv
<1>4. TakenOut(p) /\ phase[p] = "over"
  <2>1. TakenOut(p) /\ (phase[p] = "over" \/ Pending(t, p))
    BY <1>2, <1>3 DEF IInv, Stopping
  <2>2. ~ Pending(t, p)
    BY <1>1 DEF Released, Pending
  <2> QED
    BY <2>1, <2>2
<1>5. /\ stack' \in [Threads -> Seq(GoodFrames)] /\ \A u \in Threads : StackForm(stack'[u])
      /\ ~ Busy(t)' /\ \A u \in Threads \ {t} : Busy(u)' = Busy(u) /\ Task(u)' = Task(u)
  BY <1>1, <1>2, Ends DEF IInv, Pop
<1>6. /\ reports[p] \in Seq({0, 1, 2}) /\ reports'[p] = Append(reports[p], 2)
      /\ \A q \in Players \ {p} : reports'[q] = reports[q]
  BY <1>1, <1>3 DEF IInv, Types
<1>7. reports'[p] \in Seq({0, 1, 2}) /\ Stops(p)' = {Len(reports[p]) + 1}
  BY <1>4, <1>6, Appended DEF Stops, TakenOut
<1>8. Types'
  BY <1>1, <1>3, <1>5, <1>6, <1>7 DEF IInv, Types, players
<1>9. Entries' /\ Onward
  BY <1>1 DEF IInv, Entries, Onward, HasPlayed, players
<1>10. Progress'
  BY <1>1, <1>4, <1>6 DEF IInv, Progress, Progressed, players
<1>11. \A q \in Players \ {p} : Stops(q)' = Stops(q)
  BY <1>6 DEF Stops
<1>12. Stopped'
  BY <1>1, <1>4, <1>7, <1>11 DEF IInv, Stopped, TakenOut
<1>13. \A u \in Threads : GoesOn(u)
  BY <1>5 DEF GoesOn
<1>14. \A u \in Threads : \A q \in Players :
         Doing(u, "stop", q) /\ Doing(u, "stop", q)' /\ TakenOut(q) => TakenOut(q)'
  <2>1. ASSUME NEW u \in Threads, NEW q \in Players, Doing(u, "stop", q), Doing(u, "stop", q)',
               TakenOut(q)
        PROVE  TakenOut(q)'
    <3>1. u # t
      BY <1>5, <2>1 DEF Doing
    <3>2. q # p
      BY <1>2, <1>3, <2>1, <3>1, Assumption DEF IInv, Stopping, OneAtATime, Doing
    <3> QED
      BY <1>1, <1>11, <2>1, <3>2 DEF TakenOut, HasPlayed, players
  <2> QED
    BY <2>1
<1>15. \A u \in Threads : \A q \in Players : \A step :
         Doing(u, "play", q) /\ Doing(u, "play", q)' /\ Task(u).step = step =>
           (Answering(q, step) => Answering(q, step)')
  BY <1>1 DEF Answering, players
<1>16. Playing' /\ Queues' /\ Stopping'
  BY <1>1, <1>9, <1>13, <1>14, <1>15, TasksKept
<1> QED
  BY <1>8, <1>9, <1>10, <1>12, <1>16 DEF IInv

\* No thread is in the request of a player that has a transport or a result.
LEMMA NotPlayed ==
  ASSUME IInv, NEW p \in Players, phase[p] \in {"starting", "ready", "playing"}
  PROVE  \A u \in Threads : ~ Doing(u, "play", p)
<1> SUFFICES ASSUME NEW u \in Threads, Doing(u, "play", p) PROVE FALSE
  OBVIOUS
<1>1. Answering(p, Task(u).step)
  BY Assumption DEF Doing, IInv, Playing
<1> QED
  BY <1>1 DEF Answering

LEMMA KeptByResolved ==
  ASSUME IInv, NEW p \in Players, Resolved(p), UNCHANGED setup
  PROVE  IInv'
<1>1. /\ ~ tcp[p] /\ phase[p] = "starting" /\ phase' = [phase EXCEPT ![p] = "ready"]
      /\ UNCHANGED << setup, session, paused, stream, tcp, home, stack, queue, answers, reports,
                      requests >>
  BY DEF Resolved
<1>2. /\ phase'[p] = "ready" /\ phase' = [phase EXCEPT ![p] = phase'[p]]
      /\ reports' = [reports EXCEPT ![p] = reports'[p]] /\ reports'[p] \in Seq({0, 1, 2})
      /\ answers' = [answers EXCEPT ![p] = answers'[p]] /\ answers'[p] \in Nat
      /\ phase'[p] \in Phases \ {"free"} /\ ~ HasPlayed(p) /\ Stops(p)' = Stops(p)
      /\ stack' \in [Threads -> Seq(GoodFrames)] /\ \A u \in Threads : StackForm(stack'[u])
  BY <1>1 DEF IInv, Types, Phases, HasPlayed, Stops
<1>3. Progressed(p)'
  BY <1>1, <1>2 DEF IInv, Progress, Progressed
<1>4. \A u \in Threads : GoesOn(u) /\ ~ (Doing(u, "play", p) /\ Doing(u, "play", p)')
  BY <1>1, NotPlayed DEF GoesOn, Busy, Task
<1> QED
  BY <1>1, <1>2, <1>3, <1>4, PlayerSteps

\* The home thread of an ended player goes on with the callback only.
LEMMA Finishes ==
  ASSUME IInv, NEW p \in Players, Idle(home[p]),
         stack' = [stack EXCEPT ![home[p]] = << Erasing(p) >>]
  PROVE  /\ stack' \in [Threads -> Seq(GoodFrames)] /\ \A u \in Threads : StackForm(stack'[u])
         /\ \A u \in Threads : GoesOn(u)
<1>1. PICK h \in Threads : h = home[p]
  BY DEF IInv, Types
<1> DEFINE f == Erasing(p)
<1>2. f \in GoodFrames /\ f.op = "finish" /\ stack' = [stack EXCEPT ![h] = << f >>]
  BY <1>1, ErasingGood DEF IInv
<1> HIDE DEF f
<1>3. /\ stack' \in [Threads -> Seq(GoodFrames)] /\ \A u \in Threads : StackForm(stack'[u])
      /\ Task(h)' = f /\ \A u \in Threads \ {h} : Busy(u)' = Busy(u) /\ Task(u)' = Task(u)
  BY <1>2, Runs DEF IInv
<1> QED
  BY <1>2, <1>3 DEF GoesOn

LEMMA KeptByTransportUp ==
  ASSUME IInv, NEW p \in Players, NEW o \in Outcomes, TransportUp(p, o), UNCHANGED setup
  PROVE  IInv'
<1>1. /\ phase[p] = IF tcp[p] THEN "starting" ELSE "ready"
      /\ answers' = IF tcp[p] THEN [answers EXCEPT ![p] = @ + 1] ELSE answers
      /\ UNCHANGED << setup, session, paused, stream, tcp, home, queue, requests >>
  BY DEF TransportUp
<1>2. /\ Progressed(p) /\ reports[p] = << >> /\ ~ HasPlayed(p)
      /\ tcp[p] => answers[p] = 0
      /\ answers[p] \in Nat /\ answers[p] <= 1
  BY <1>1 DEF IInv, Types, Progress, Progressed, HasPlayed
<1>3. /\ tcp[p] => answers'[p] = 1
      /\ ~ tcp[p] => answers'[p] = answers[p]
      /\ answers' = [answers EXCEPT ![p] = answers'[p]] /\ answers'[p] \in Nat
  <2>1. CASE tcp[p]
    BY <1>1, <1>2, <2>1 DEF IInv, Types
  <2>2. CASE ~ tcp[p]
    BY <1>1, <1>2, <2>2 DEF IInv, Types
  <2> QED
    BY <2>1, <2>2
<1>4. /\ phase' = [phase EXCEPT ![p] = phase'[p]] /\ phase'[p] \in {"playing", "mute", "over"}
      /\ reports' = [reports EXCEPT ![p] = reports'[p]] /\ reports'[p] \in Seq({0, 1, 2})
      /\ Stops(p)' = Stops(p) /\ (reports'[p] # << >> => phase'[p] = "over")
      /\ stack' \in [Threads -> Seq(GoodFrames)] /\ \A u \in Threads : StackForm(stack'[u])
      /\ \A u \in Threads : GoesOn(u)
  <2>1. CASE o = "error"
    <3>1. /\ phase' = [phase EXCEPT ![p] = "over"] /\ reports' = [reports EXCEPT ![p] = Append(@, 1)]
          /\ Idle(home[p]) /\ stack' = [stack EXCEPT ![home[p]] = << Erasing(p) >>]
      BY <2>1 DEF TransportUp, Reported
    <3>2. reports[p] \in Seq({0, 1, 2}) /\ reports'[p] = Append(reports[p], 1) /\ phase'[p] = "over"
      BY <3>1 DEF IInv, Types
    <3>3. reports'[p] \in Seq({0, 1, 2}) /\ Stops(p)' = Stops(p)
      BY <3>2, Appended DEF Stops
    <3>4. /\ stack' \in [Threads -> Seq(GoodFrames)] /\ \A u \in Threads : StackForm(stack'[u])
          /\ \A u \in Threads : GoesOn(u)
      BY <3>1, Finishes
    <3> QED
      BY <3>1, <3>2, <3>3, <3>4
  <2>2. CASE o # "error"
    <3>1. phase' = [phase EXCEPT ![p] = o] /\ UNCHANGED << stack, reports >> /\ o \in {"playing", "mute"}
      BY <2>2, Assumption DEF TransportUp
    <3> QED
      BY <1>2, <3>1 DEF IInv, Types, Stops, GoesOn, Busy, Task
  <2> QED
    BY <2>1, <2>2
<1>5. Progressed(p)' /\ phase'[p] \in Phases \ {"free"}
  BY <1>1, <1>2, <1>3, <1>4 DEF Progressed, Phases
<1>6. \A u \in Threads : ~ Doing(u, "play", p)
  BY <1>1, NotPlayed
<1> QED
  BY <1>1, <1>2, <1>3, <1>4, <1>5, <1>6, PlayerSteps

LEMMA KeptByPlayEnds ==
  ASSUME IInv, NEW p \in Players, NEW r \in {0, 1}, PlayEnds(p, r), UNCHANGED setup
  PROVE  IInv'
<1>1. /\ phase[p] = "playing" /\ phase' = [phase EXCEPT ![p] = "over"]
      /\ reports' = [reports EXCEPT ![p] = Append(@, r)]
      /\ Idle(home[p]) /\ stack' = [stack EXCEPT ![home[p]] = << Erasing(p) >>]
      /\ UNCHANGED << setup, session, paused, stream, tcp, home, queue, answers, requests >>
  BY DEF PlayEnds, Reported
<1>2. /\ reports[p] \in Seq({0, 1, 2}) /\ reports'[p] = Append(reports[p], r) /\ phase'[p] = "over"
      /\ phase' = [phase EXCEPT ![p] = phase'[p]] /\ reports' = [reports EXCEPT ![p] = reports'[p]]
      /\ answers' = [answers EXCEPT ![p] = answers'[p]] /\ answers'[p] \in Nat
  BY <1>1 DEF IInv, Types
<1>3. reports'[p] \in Seq({0, 1, 2}) /\ Stops(p)' = Stops(p)
  BY <1>2, Appended DEF Stops
<1>4. Progressed(p)' /\ phase'[p] \in Phases \ {"free"}
  BY <1>1, <1>2 DEF IInv, Progress, Progressed, Phases
<1>5. /\ stack' \in [Threads -> Seq(GoodFrames)] /\ \A u \in Threads : StackForm(stack'[u])
      /\ \A u \in Threads : GoesOn(u)
  BY <1>1, Finishes
<1>6. \A u \in Threads : ~ Doing(u, "play", p)
  BY <1>1, NotPlayed
<1> QED
  BY <1>1, <1>2, <1>3, <1>4, <1>5, <1>6, PlayerSteps

LEMMA Initially == Init => IInv
<1> SUFFICES ASSUME Init PROVE IInv
  OBVIOUS
<1>1. Types
  <2>1. \E s \in Streams : TRUE
    BY Assumption
  <2>2. setup \in Setup /\ setup \in Setups
    BY Assumption DEF Init
  <2>3. setup.threads # {} /\ setup.threads \subseteq Threads /\ setup.requests \in Nat
    BY <2>2 DEF Setup
  <2>4. (CHOOSE s \in Streams : TRUE) \in Streams /\ (CHOOSE t \in setup.threads : TRUE) \in Threads
    BY <2>1, <2>3
  <2>5. /\ setup \in Setups /\ session \in [Streams -> Players \cup {None}]
        /\ phase \in [Players -> Phases] /\ paused \in [Players -> BOOLEAN]
        /\ tcp \in [Players -> BOOLEAN] /\ requests \in Nat /\ answers \in [Players -> Nat]
    BY <2>3 DEF Init, Phases
  <2>6. stream \in [Players -> Streams] /\ home \in [Players -> Threads]
    BY <2>4 DEF Init
  <2>7. << >> \in Seq(GoodFrames) /\ << >> \in Seq(Lambdas) /\ << >> \in Seq({0, 1, 2})
    OBVIOUS
  <2>8. /\ stack \in [Threads -> Seq(GoodFrames)] /\ queue \in [Threads -> Seq(Lambdas)]
        /\ reports \in [Players -> Seq({0, 1, 2})] /\ \A t \in Threads : StackForm(stack[t])
    BY <2>7 DEF Init, StackForm
  <2> QED
    BY <2>5, <2>6, <2>8 DEF Types
<1>2. \A t \in Threads : ~ Busy(t)
  BY DEF Init, Busy
<1>3. Entries /\ Progress
  BY DEF Init, Entries, Progress, Progressed
<1>4. Playing /\ Stopping
  BY <1>2 DEF Playing, Stopping, OneAtATime
<1>5. Queues
  BY <1>2 DEF Init, Queues, InLambda
<1>6. Stopped
  BY NoStops DEF Init, Stopped, Stops
<1> QED
  BY <1>1, <1>3, <1>4, <1>5, <1>6 DEF IInv

LEMMA Inductive == IInv /\ [Next]_vars => IInv'
<1> SUFFICES ASSUME IInv, [Next]_vars PROVE IInv'
  OBVIOUS
<1>1. ASSUME NEW t \in Threads, Arrive(t) PROVE IInv'
  BY <1>1, KeptByRequestPlay, KeptByRequestStop, KeptByRequestControl DEF Arrive
<1>2. ASSUME NEW t \in Threads, Work(t) PROVE IInv'
  BY <1>2, KeptByPlayStore, KeptByPlayStart, KeptByPlayBindFails, KeptByPlayReply, KeptByErase,
     KeptByRunLambda, KeptByLambdaDone, KeptByStopCall, KeptByStopReport, KeptByControlCall,
     KeptByControlReply DEF Work
<1>3. ASSUME NEW p \in Players, PlayerStep(p) PROVE IInv'
  BY <1>3, KeptByResolved, KeptByTransportUp, KeptByPlayEnds DEF PlayerStep
<1>4. CASE UNCHANGED vars
  <2>1. \E t \in Threads : TRUE
    BY Assumption DEF IInv, Types, Setup
  <2>2. ASSUME NEW t \in Threads PROVE IInv'
    <3>1. /\ UNCHANGED << setup, session, players, queue, answers, reports >>
          /\ stack' = stack /\ requests' = requests
      BY <1>4 DEF vars
    <3>2. /\ stack' \in [Threads -> Seq(GoodFrames)] /\ \A u \in Threads : StackForm(stack'[u])
          /\ requests' \in Nat /\ Others(t) /\ GoesOn(t)
      BY <3>1 DEF IInv, Types, Others, GoesOn, Busy, Task
    <3> QED
      BY <3>1, <3>2, OnlyStack
  <2> QED
    BY <2>1, <2>2
<1> QED
  BY <1>1, <1>2, <1>3, <1>4 DEF Next

----------------------------------------------------------------------------
(* What follows, however many pollers there are                            *)

\* A stack holds its task and no other handler.
LEMMA OneTask ==
  ASSUME Types, NEW t \in Threads, NEW i \in DOMAIN stack[t]
  PROVE  /\ stack[t][i] \in GoodFrames
         /\ stack[t][i].op # "finish" => Busy(t) /\ Task(t) = stack[t][i]
<1>1. StackForm(stack[t]) /\ stack[t] \in Seq(GoodFrames)
  BY DEF Types
<1>2. ASSUME NEW f \in GoodFrames, stack[t] = << f >>
      PROVE  stack[t][i] = f /\ Busy(t) /\ Task(t) = f
  <2>1. Busy(t) /\ Task(t) = f
    BY <1>2, Forms DEF Busy, Task
  <2>2. i \in DOMAIN << f >>
    BY <1>2
  <2>3. << f >>[i] = f
    BY <2>2
  <2> QED
    BY <1>2, <2>1, <2>3
<1>3. ASSUME NEW e \in GoodFrames, NEW f \in GoodFrames, stack[t] = << e, f >>
      PROVE  (stack[t][i] = e \/ stack[t][i] = f) /\ Busy(t) /\ Task(t) = f
  <2>1. Busy(t) /\ Task(t) = f
    BY <1>3, Forms DEF Busy, Task
  <2>2. i \in DOMAIN << e, f >>
    BY <1>3
  <2>3. << e, f >>[i] = e \/ << e, f >>[i] = f
    BY <2>2
  <2> QED
    BY <1>3, <2>1, <2>3
<1>4. stack[t] # << >>
  <2>1. ASSUME stack[t] = << >> PROVE FALSE
    <3>1. i \in DOMAIN << >>
      BY <2>1
    <3> QED
      BY <3>1
  <2> QED
    BY <2>1
<1> QED
  BY <1>1, <1>2, <1>3, <1>4 DEF StackForm

LEMMA AtMostOne ==
  ASSUME NEW S, \A x, y \in S : x = y
  PROVE  Cardinality(S) \in {0, 1} /\ (S = {} => Cardinality(S) = 0)
<1>1. CASE S = {}
  BY <1>1, FS_EmptySet
<1>2. CASE S # {}
  <2>1. PICK x : S = {x}
    BY <1>2
  <2> QED
    BY <1>2, <2>1, FS_Singleton
<1> QED
  BY <1>1, <1>2

LEMMA TypesSuffice == IInv => TypeOK
<1> SUFFICES ASSUME IInv PROVE TypeOK
  OBVIOUS
<1>1. stack \in [Threads -> Seq(Frames)]
  <2>1. GoodFrames \subseteq Frames
    BY DEF GoodFrames
  <2>2. \A t \in Threads : stack[t] \in Seq(Frames)
    BY <2>1 DEF IInv, Types
  <2> QED
    BY <2>2 DEF IInv, Types
<1>2. \A t \in Threads : \A i \in DOMAIN stack[t] :
        stack[t][i].player = None <=> stack[t][i].step = "store"
  BY OneTask DEF IInv, GoodFrames
<1> QED
  BY <1>1, <1>2 DEF IInv, Types, TypeOK, Phases, Lambdas

LEMMA AnswersSuffice == IInv => AnsweredOnce
BY DEF IInv, Types, Progress, Progressed, AnsweredOnce

LEMMA StopsSuffice == IInv => StoppedOnce
<1> SUFFICES ASSUME IInv, NEW p \in Players
    PROVE  /\ Cardinality({i \in DOMAIN reports[p] : reports[p][i] = 2})
                + Cardinality({t \in Threads : \E i \in DOMAIN stack[t] :
                                 stack[t][i].op = "stop" /\ stack[t][i].player = p}) <= 1
           /\ reports[p] # << >> => phase[p] = "over"
  BY DEF StoppedOnce
<1> DEFINE S == {t \in Threads : \E i \in DOMAIN stack[t] :
                   stack[t][i].op = "stop" /\ stack[t][i].player = p}
<1>1. \A t \in S : Busy(t) /\ Task(t).op = "stop" /\ Task(t).player = p
  BY OneTask DEF IInv
<1>2. \A t, u \in S : t = u
  BY <1>1, Assumption DEF IInv, Stopping, OneAtATime
<1>3. \A t \in S : Stops(p) = {}
  BY <1>1 DEF IInv, Stopping, TakenOut
<1>4. \A i, j \in Stops(p) : i = j
  BY DEF IInv, Stopped
<1> HIDE DEF S
<1>5. /\ Cardinality(S) \in {0, 1} /\ (S = {} => Cardinality(S) = 0)
      /\ Cardinality(Stops(p)) \in {0, 1} /\ (Stops(p) = {} => Cardinality(Stops(p)) = 0)
  BY <1>2, <1>4, AtMostOne
<1>6. Cardinality(Stops(p)) + Cardinality(S) <= 1
  BY <1>3, <1>5
<1>7. reports[p] # << >> => phase[p] = "over"
  BY DEF IInv, Progress, Progressed
<1> QED
  BY <1>6, <1>7 DEF S, Stops, StopsIn

\* The inductive invariant holds of every reachable state.
THEOREM Invariant == Spec => []IInv
BY Initially, Inductive, PTL DEF Spec

\* Every variable of the table, the players, the threads and their queues keeps its type.
THEOREM Typing == Spec => []TypeOK
BY Invariant, TypesSuffice, PTL

\* A playBackSVAC request is answered at most once, and a TCP one before anything of its player
\* is played or reported, whatever else the pollers do meanwhile.
THEOREM AnswersOnce == Spec => []AnsweredOnce
BY Invariant, AnswersSuffice, PTL

\* However many stop requests race for a player on however many pollers, one of them stops it,
\* and it reports only when the lambda on the player's thread has run.
THEOREM StopsOnce == Spec => []StoppedOnce
BY Invariant, StopsSuffice, PTL

----------------------------------------------------------------------------
(* One poller and a careful client                                         *)

LEMMA OnlyThread ==
  ASSUME IInv, AloneInv, NEW t \in Threads, setup.threads = {t}
  PROVE  /\ \A u \in Threads \ {t} : stack[u] = << >> /\ ~ Busy(u)
         /\ \A p \in Players : home[p] = t
         /\ \A h \in Threads : queue[h] = << >> /\ ~ InLambda(h)
<1>1. \A u \in Threads \ {t} : stack[u] = << >>
  BY DEF AloneInv
<1>2. (\A p \in Players : home[p] = t) /\ \A h \in Threads : queue[h] = << >>
  BY DEF AloneInv
<1>3. \A h \in Threads : ~ InLambda(h)
  BY <1>2 DEF IInv, Queues
<1> QED
  BY <1>1, <1>2, <1>3 DEF Busy

\* What the new frame of a thread says.
LEMMA Begins ==
  ASSUME Types, NEW t \in Threads, NEW f \in GoodFrames, f.op # "finish",
         stack' = [stack EXCEPT ![t] = << f >>]
  PROVE  /\ \A u \in Threads \ {t} : stack'[u] = stack[u]
         /\ Busy(t)' /\ Task(t)' = f
         /\ \A s \in Streams : ~ Erases(t, s)'
         /\ \A s \in Streams : Stores(t, s)' => f.step = "store" /\ f.stream = s
         /\ \A p \in Players : Doing(t, "stop", p)' <=> f.op = "stop" /\ f.player = p
<1>1. /\ Busy(t)' /\ Task(t)' = f /\ Head(stack'[t]) = f
      /\ \A u \in Threads \ {t} : stack'[u] = stack[u]
  BY Runs
<1> QED
  BY <1>1 DEF Erases, At, Idle, Top, Stores, Doing

LEMMA IsIdle ==
  ASSUME Types, NEW t \in Threads, stack' = [stack EXCEPT ![t] = << >>]
  PROVE  /\ \A u \in Threads \ {t} : stack'[u] = stack[u]
         /\ \A s \in Streams : ~ Erases(t, s)' /\ ~ Stores(t, s)'
         /\ \A p \in Players : ~ Doing(t, "stop", p)'
<1>1. /\ stack'[t] = << >> /\ ~ Busy(t)'
      /\ \A u \in Threads \ {t} : stack'[u] = stack[u]
  BY Ends DEF Types
<1> QED
  BY <1>1 DEF Erases, At, Idle, Stores, Doing

\* Nothing is made or reported, and the table stays as it is.
LEMMA AloneSame ==
  ASSUME IInv, AloneInv, NEW t \in Threads, setup.threads = {t},
         UNCHANGED << setup, session, stream, home, queue, reports >>,
         \A p \in Players : phase'[p] = "free" <=> phase[p] = "free",
         \A u \in Threads \ {t} : stack'[u] = stack[u],
         \A s \in Streams : Erases(t, s)' \/ Stores(t, s)' => Quiet(s),
         \A p \in Players : Doing(t, "stop", p) => Doing(t, "stop", p)',
         \A p \in Players : Doing(t, "stop", p)' =>
           reports[p] = << >> /\ (Task(t)'.step = "call" => phase'[p] = "playing")
  PROVE  AloneInv'
<1>1. \A p \in Players : Unreported(p)' <=> Unreported(p)
  BY DEF Unreported
<1>2. \A s \in Streams : Quiet(s)' <=> Quiet(s)
  BY <1>1 DEF Quiet
<1>3. \A u \in Threads \ {t} : stack[u] = << >>
  BY OnlyThread
<1>4. \A u \in Threads, s \in Streams : Erases(u, s)' \/ Stores(u, s)' => Quiet(s)'
  BY <1>2, <1>3 DEF Erases, Stores, At, Idle, Busy
<1>5. \A u \in Threads, p \in Players : Doing(u, "stop", p)' =>
        reports'[p] = << >> /\ (Task(u)'.step = "call" => phase'[p] = "playing")
  BY <1>3 DEF Doing, Busy
<1>6. ASSUME NEW p \in Players, Unreported(p)' PROVE Listed(p)'
  <2>1. session[stream[p]] = p \/ \E u \in Threads : Doing(u, "stop", p)
    BY <1>1, <1>6 DEF AloneInv, Listed
  <2>2. \A u \in Threads : Doing(u, "stop", p) => Doing(u, "stop", p)'
    BY <1>3 DEF Doing, Busy
  <2> QED
    BY <2>1, <2>2 DEF Listed
<1> QED
  BY <1>1, <1>3, <1>4, <1>5, <1>6 DEF AloneInv

\* A player ends and reports so; the callback is about to erase the entry of its stream.
LEMMA AloneEnds ==
  ASSUME IInv, AloneInv, NEW t \in Threads, setup.threads = {t},
         NEW p \in Players, Unreported(p), NEW x \in {0, 1},
         UNCHANGED << setup, session, stream, home, queue >>,
         phase' = [phase EXCEPT ![p] = "over"], reports' = [reports EXCEPT ![p] = Append(@, x)],
         \A u \in Threads \ {t} : stack'[u] = stack[u],
         \A s \in Streams : ~ Stores(t, s)' /\ (Erases(t, s)' => s = stream[p]),
         \A q \in Players : ~ Doing(t, "stop", q) /\ ~ Doing(t, "stop", q)'
  PROVE  AloneInv'
<1>1. /\ reports[p] = << >> /\ reports'[p] = Append(<< >>, x)
      /\ \A q \in Players \ {p} : reports'[q] = reports[q] /\ phase'[q] = phase[q]
  BY DEF IInv, Types, Unreported
<1>2. Len(reports'[p]) = 1 /\ reports'[p] # << >>
  BY <1>1
<1>3. \A q \in Players : Unreported(q)' <=> Unreported(q) /\ q # p
  BY <1>1, <1>2 DEF Unreported
<1>4. Quiet(stream[p])'
  BY <1>3 DEF Quiet, AloneInv
<1>5. \A u \in Threads \ {t} : stack[u] = << >>
  BY OnlyThread
<1>6. ASSUME NEW u \in Threads, NEW s \in Streams, Erases(u, s)' \/ Stores(u, s)'
      PROVE  Quiet(s)'
  <2>1. u = t
    BY <1>5, <1>6 DEF Erases, Stores, At, Idle, Busy
  <2>2. s = stream[p]
    BY <1>6, <2>1
  <2> QED
    BY <1>3, <2>2 DEF Quiet, AloneInv
<1>7. \A u \in Threads, q \in Players : ~ Doing(u, "stop", q) /\ ~ Doing(u, "stop", q)'
  BY <1>5 DEF Doing, Busy
<1>8. \A q \in Players : Unreported(q)' => Listed(q)'
  BY <1>3, <1>7 DEF AloneInv, Listed
<1>9. \A q \in Players : Len(reports'[q]) <= 1
  BY <1>1, <1>2 DEF AloneInv
<1> QED
  BY <1>3, <1>5, <1>6, <1>7, <1>8, <1>9 DEF AloneInv

LEMMA AloneRequests ==
  ASSUME IInv, AloneInv, NEW t \in Threads, setup.threads = {t}, setup.careful, NEW s \in Streams,
         RequestPlay(t, s) \/ \E op \in Controls : RequestControl(t, s, op), UNCHANGED setup
  PROVE  AloneInv'
<1>1. /\ UNCHANGED << setup, session, phase, stream, home, queue, reports >> /\ ~ Busy(t)
      /\ \A p \in Players : ~ Doing(t, "stop", p)
      /\ \A x \in Streams : ~ Erases(t, x) /\ ~ Stores(t, x)
  BY DEF RequestPlay, RequestControl, Request, Idle, Busy, players, Doing, Erases, Stores, At
<1>2. CASE stack' = stack
  <2>1. \A x \in Streams : ~ Erases(t, x)' /\ ~ Stores(t, x)'
    BY <1>1, <1>2 DEF Erases, Stores, Busy, At, Idle
  <2>2. \A p \in Players : ~ Doing(t, "stop", p)'
    BY <1>1, <1>2 DEF Doing, Busy
  <2> QED
    BY <1>1, <1>2, <2>1, <2>2, AloneSame
<1>3. ASSUME NEW f \in GoodFrames, f.op \notin {"finish", "stop"},
             f.step = "store" => Quiet(f.stream), stack' = [stack EXCEPT ![t] = << f >>]
      PROVE  AloneInv'
  <2>1. /\ \A u \in Threads \ {t} : stack'[u] = stack[u]
        /\ \A x \in Streams : ~ Erases(t, x)'
        /\ \A x \in Streams : Stores(t, x)' => f.step = "store" /\ f.stream = x
        /\ \A p \in Players : ~ Doing(t, "stop", p)'
    BY <1>3, Begins DEF IInv
  <2> QED
    BY <1>1, <1>3, <2>1, AloneSame
<1>4. CASE RequestPlay(t, s)
  <2> DEFINE f == Frame("play", "store", s, None)
  <2>1. f \in GoodFrames /\ f.op = "play" /\ f.stream = s
    BY Assumption DEF Frame, GoodFrames, Frames, Ops
  <2>2. Quiet(s)
    BY <1>4 DEF RequestPlay, Settled, Quiet, Unreported
  <2>3. stack' = stack \/ stack' = [stack EXCEPT ![t] = << f >>]
    BY <1>4 DEF RequestPlay
  <2> HIDE DEF f
  <2> QED
    BY <1>2, <1>3, <2>1, <2>2, <2>3
<1>5. ASSUME NEW op \in Controls, RequestControl(t, s, op) PROVE AloneInv'
  <2> DEFINE f == Frame(op, "call", s, session[s])
  <2>1. session[s] # None => f \in GoodFrames /\ f.op = op /\ f.step = "call"
    BY Assumption DEF IInv, Types, Frame, GoodFrames, Frames, Ops
  <2>2. stack' = stack \/ (session[s] # None /\ stack' = [stack EXCEPT ![t] = << f >>])
    BY <1>5 DEF RequestControl
  <2>3. op \notin {"finish", "stop"}
    BY Assumption
  <2> HIDE DEF f
  <2> QED
    BY <1>2, <1>3, <2>1, <2>2, <2>3
<1> QED
  BY <1>4, <1>5

\* The player of the entry is the only one under way; the request that stops it holds it now.
LEMMA AloneRequestStop ==
  ASSUME IInv, AloneInv, NEW t \in Threads, setup.threads = {t}, NEW s \in Streams,
         RequestStop(t, s), UNCHANGED setup
  PROVE  AloneInv'
<1>1. /\ UNCHANGED << setup, phase, stream, home, queue, reports >> /\ ~ Busy(t)
      /\ \A p \in Players : ~ Doing(t, "stop", p)
  BY DEF RequestStop, Request, Idle, Busy, players, Doing
<1>2. CASE UNCHANGED << session, stack >>
  <2>1. \A x \in Streams : ~ Erases(t, x)' /\ ~ Stores(t, x)'
    BY <1>1, <1>2 DEF Erases, Stores, Busy, At, Idle
  <2>2. \A p \in Players : ~ Doing(t, "stop", p)'
    BY <1>1, <1>2 DEF Doing, Busy
  <2> QED
    BY <1>1, <1>2, <2>1, <2>2, AloneSame
<1>3. ASSUME NEW p \in Players, p = session[s], phase[p] = "playing",
             session' = [session EXCEPT ![s] = None],
             stack' = [stack EXCEPT ![t] = << Frame("stop", "call", s, p) >>]
      PROVE  AloneInv'
  <2> DEFINE f == Frame("stop", "call", s, p)
  <2>1. f \in GoodFrames /\ f.op = "stop" /\ f.step = "call" /\ f.player = p
    BY Assumption DEF Frame, GoodFrames, Frames, Ops
  <2> HIDE DEF f
  <2>2. /\ \A u \in Threads \ {t} : stack'[u] = stack[u]
        /\ \A x \in Streams : ~ Erases(t, x)' /\ ~ Stores(t, x)'
        /\ \A q \in Players : Doing(t, "stop", q)' <=> q = p
    <3>1. stack' = [stack EXCEPT ![t] = << f >>] /\ Types /\ f.op # "finish"
      BY <1>3, <2>1 DEF f, IInv
    <3>2. /\ \A u \in Threads \ {t} : stack'[u] = stack[u]
          /\ \A x \in Streams : ~ Erases(t, x)'
          /\ \A x \in Streams : Stores(t, x)' => f.step = "store" /\ f.stream = x
          /\ \A q \in Players : Doing(t, "stop", q)' <=> f.op = "stop" /\ f.player = q
      BY <2>1, <3>1, Begins
    <3> QED
      BY <2>1, <3>2
  <2>3. \A u \in Threads \ {t} : stack[u] = << >>
    BY OnlyThread
  <2>4. \A q \in Players : Unreported(q)' <=> Unreported(q)
    BY <1>1 DEF Unreported
  <2>5. \A u \in Threads, x \in Streams : ~ Erases(u, x)' /\ ~ Stores(u, x)'
    BY <2>2, <2>3 DEF Erases, Stores, At, Idle, Busy
  <2>6. reports[p] = << >>
    BY <1>3 DEF IInv, Progress, Progressed
  <2>7. \A u \in Threads, q \in Players : Doing(u, "stop", q)' => q = p
    BY <2>2, <2>3 DEF Doing, Busy
  <2>8. ASSUME NEW q \in Players, Unreported(q)' PROVE Listed(q)'
    <3>1. CASE q = p
      BY <2>2, <3>1 DEF Listed
    <3>2. CASE q # p
      <4>1. session[stream[q]] = q
        BY <1>1, <2>3, <2>4, <2>8 DEF AloneInv, Listed, Doing, Busy
      <4>2. stream[q] # s /\ stream[q] \in Streams
        BY <1>3, <3>2, <4>1 DEF IInv, Types
      <4> QED
        BY <1>1, <1>3, <4>1, <4>2 DEF IInv, Types, Listed
    <3> QED
      BY <3>1, <3>2
  <2> QED
    BY <1>1, <1>3, <2>2, <2>3, <2>4, <2>5, <2>6, <2>7, <2>8 DEF AloneInv
<1> QED
  BY <1>2, <1>3 DEF RequestStop, IInv, Types

\* A player is made: its stream was quiet, so it is the only one.
LEMMA AlonePlayStore ==
  ASSUME IInv, AloneInv, NEW t \in Threads, setup.threads = {t}, PlayStore(t), UNCHANGED setup
  PROVE  AloneInv'
<1>1. PICK s : s = Top(t).stream
  OBVIOUS
<1>2. PICK p \in Players, h \in setup.threads :
        /\ phase[p] = "free"
        /\ phase' = [phase EXCEPT ![p] = "made"]
        /\ stream' = [stream EXCEPT ![p] = s]
        /\ home' = [home EXCEPT ![p] = h]
        /\ session' = [session EXCEPT ![s] = p]
        /\ stack' = [stack EXCEPT ![t] = << Frame("play", "start", s, p) >>]
  BY <1>1 DEF PlayStore
<1>3. At(t, "play", "store") /\ UNCHANGED << setup, queue, reports >>
  BY DEF PlayStore
<1>4. Stores(t, s) /\ s \in Streams
  BY <1>1, <1>3, OnTop DEF IInv, GoodFrames, Frames, Stores
<1>5. Quiet(s)
  BY <1>4 DEF AloneInv
<1> DEFINE f == Frame("play", "start", s, p)
<1>6. f \in GoodFrames /\ f.op = "play" /\ f.step = "start" /\ f.player = p
  BY <1>4, Assumption DEF Frame, GoodFrames, Frames, Ops
<1> HIDE DEF f
<1>7. /\ \A u \in Threads \ {t} : stack'[u] = stack[u]
      /\ \A x \in Streams : ~ Erases(t, x)' /\ ~ Stores(t, x)'
      /\ \A q \in Players : ~ Doing(t, "stop", q)'
  <2>1. stack' = [stack EXCEPT ![t] = << f >>] /\ Types
    BY <1>2 DEF f, IInv
  <2> QED
    BY <1>6, <2>1, Begins
<1>8. \A u \in Threads \ {t} : stack[u] = << >>
  BY OnlyThread
<1>9. /\ \A u \in Threads, x \in Streams : ~ Erases(u, x)' /\ ~ Stores(u, x)'
      /\ \A u \in Threads, q \in Players : ~ Doing(u, "stop", q)'
  BY <1>7, <1>8 DEF Erases, Stores, At, Idle, Busy, Doing
<1>10. \A u \in Threads, q \in Players : ~ Doing(u, "stop", q)
  BY <1>4, <1>8 DEF Doing, Busy, Stores
<1>11. /\ phase'[p] = "made" /\ stream'[p] = s /\ home'[p] = t /\ session'[s] = p
       /\ \A q \in Players \ {p} :
            phase'[q] = phase[q] /\ stream'[q] = stream[q] /\ home'[q] = home[q]
       /\ \A x \in Streams \ {s} : session'[x] = session[x]
       /\ reports[p] = << >> /\ stream \in [Players -> Streams]
  BY <1>2, <1>4 DEF IInv, Types, Progress, Progressed
<1>12. \A q \in Players : Unreported(q)' <=> q = p \/ Unreported(q)
  BY <1>3, <1>11 DEF Unreported
<1>13. ~ Unreported(p) /\ \A q \in Players : Unreported(q) => stream[q] # s
  BY <1>2, <1>5 DEF Unreported, Quiet
<1>14. ASSUME NEW q \in Players, Unreported(q)' PROVE Listed(q)'
  <2>1. CASE q = p
    BY <1>11, <2>1 DEF Listed
  <2>2. CASE q # p
    BY <1>10, <1>11, <1>12, <1>13, <1>14, <2>2 DEF AloneInv, Listed
  <2> QED
    BY <2>1, <2>2
<1>15. \A q, r \in Players :
         Unreported(q)' /\ Unreported(r)' /\ stream'[q] = stream'[r] => q = r
  BY <1>11, <1>12, <1>13 DEF AloneInv
<1>16. \A q \in Players : home'[q] \in setup'.threads /\ Len(reports'[q]) <= 1
  BY <1>3, <1>11 DEF AloneInv
<1> QED
  BY <1>3, <1>7, <1>8, <1>9, <1>14, <1>15, <1>16 DEF AloneInv

\* A frame is popped: what the client hears and what is under way stay the same.
LEMMA AlonePop ==
  ASSUME IInv, AloneInv, NEW t \in Threads, setup.threads = {t},
         stack' = [stack EXCEPT ![t] = << >>], \A p \in Players : ~ Doing(t, "stop", p),
         UNCHANGED << setup, session, stream, home, queue, reports >>,
         \A p \in Players : phase'[p] = "free" <=> phase[p] = "free"
  PROVE  AloneInv'
<1>1. /\ \A u \in Threads \ {t} : stack'[u] = stack[u]
      /\ \A x \in Streams : ~ Erases(t, x)' /\ ~ Stores(t, x)'
      /\ \A p \in Players : ~ Doing(t, "stop", p)'
  BY IsIdle DEF IInv
<1> QED
  BY <1>1, AloneSame

LEMMA AlonePlays ==
  ASSUME IInv, AloneInv, NEW t \in Threads, setup.threads = {t},
         PlayStartTcp(t) \/ PlayStartUdp(t) \/ PlayReply(t), UNCHANGED setup
  PROVE  AloneInv'
<1>1. PICK step \in {"start", "reply"} : At(t, "play", step)
  BY DEF PlayStartTcp, PlayStartUdp, PlayReply
<1>2. PICK p \in Players : p = Top(t).player
  BY <1>1, AtPlay
<1>3. /\ Doing(t, "play", p) /\ Tail(stack[t]) = << >> /\ phase[p] # "free"
      /\ \A q \in Players : ~ Doing(t, "stop", q)
  BY <1>1, <1>2, AtPlay DEF Answering, Doing
<1>4. /\ stack' = [stack EXCEPT ![t] = << >>]
      /\ UNCHANGED << setup, session, stream, home, queue, reports >>
      /\ phase' = phase \/ phase' = [phase EXCEPT ![p] = "starting"]
  BY <1>2, <1>3 DEF PlayStartTcp, PlayStartUdp, PlayReply, Pop, players
<1>5. \A q \in Players : phase'[q] = "free" <=> phase[q] = "free"
  BY <1>3, <1>4 DEF IInv, Types
<1> QED
  BY <1>3, <1>4, <1>5, AlonePop

LEMMA AlonePlayBindFails ==
  ASSUME IInv, AloneInv, NEW t \in Threads, setup.threads = {t}, PlayBindFails(t), UNCHANGED setup
  PROVE  AloneInv'
<1>1. PICK p \in Players : p = Top(t).player /\ At(t, "play", "start")
  BY AtPlay DEF PlayBindFails
<1>2. phase[p] = "made" /\ Doing(t, "play", p)
  BY <1>1, AtPlay DEF Answering
<1> DEFINE e == Erasing(p)
           f == Frame("play", "reply", stream[p], p)
<1>3. /\ phase' = [phase EXCEPT ![p] = "over"] /\ reports' = [reports EXCEPT ![p] = Append(@, 1)]
      /\ stack' = [stack EXCEPT ![t] = << e, f >>]
      /\ UNCHANGED << setup, session, stream, home, queue >>
  BY <1>1 DEF PlayBindFails
<1>4. /\ f \in GoodFrames /\ f.op = "play" /\ f.step = "reply" /\ f.player = p
      /\ e \in GoodFrames /\ e.op = "finish" /\ e.stream = stream[p]
  BY ErasingGood, Assumption DEF IInv, Types, Frame, GoodFrames, Frames, Ops
<1> HIDE DEF e, f
<1>5. /\ Busy(t)' /\ Task(t)' = f /\ Head(stack'[t]) = e
      /\ \A u \in Threads \ {t} : stack'[u] = stack[u]
  <2>1. Types /\ f.op # "finish" /\ f \in GoodFrames /\ e \in GoodFrames /\ e.op = "finish"
    BY <1>4 DEF IInv
  <2>2. stack' = [stack EXCEPT ![t] = << e, f >>]
    BY <1>3
  <2>3. Busy(t)' /\ Task(t)' = f /\ Head(stack'[t]) = e
    BY <2>1, <2>2, CallsBack
  <2>4. \A u \in Threads \ {t} : stack'[u] = stack[u]
    BY <2>1, <2>2 DEF Types
  <2> QED
    BY <2>3, <2>4
<1>6. /\ \A s \in Streams : ~ Stores(t, s)' /\ (Erases(t, s)' => s = stream[p])
      /\ \A q \in Players : ~ Doing(t, "stop", q) /\ ~ Doing(t, "stop", q)'
  BY <1>2, <1>4, <1>5 DEF Stores, Erases, Top, Doing
<1>7. Unreported(p)
  BY <1>2 DEF Unreported, IInv, Progress, Progressed
<1> QED
  BY <1>3, <1>5, <1>6, <1>7, AloneEnds

LEMMA AloneErase ==
  ASSUME IInv, AloneInv, NEW t \in Threads, setup.threads = {t}, Erase(t), UNCHANGED setup
  PROVE  AloneInv'
<1>1. /\ At(t, "finish", "erase") /\ stack' = Pop(t)
      /\ session' = [session EXCEPT ![Top(t).stream] = None]
      /\ UNCHANGED << setup, phase, stream, home, queue, reports >>
  BY DEF Erase, players
<1>2. /\ \A u \in Threads : Busy(u)' => Busy(u) /\ Task(u)' = Task(u)
      /\ Top(t).stream \in Streams
  BY <1>1, Returns DEF IInv
<1>3. PICK s \in Streams : s = Top(t).stream
  BY <1>2
<1>4. Quiet(s)
  BY <1>1, <1>3 DEF AloneInv, Erases
<1>5. \A q \in Players : Unreported(q)' <=> Unreported(q)
  BY <1>1 DEF Unreported
<1>6. \A x \in Streams : Quiet(x)' <=> Quiet(x)
  BY <1>1, <1>5 DEF Quiet
<1>7. \A u \in Threads \ {t} : stack[u] = << >> /\ stack'[u] = << >>
  <2>1. \A u \in Threads \ {t} : stack[u] = << >> /\ stack'[u] = stack[u]
    BY <1>1, OnlyThread DEF Pop, IInv, Types
  <2> QED
    BY <2>1
<1>8. \A x \in Streams : ~ Erases(t, x)'
  <2>1. StackForm(stack[t]) /\ stack[t] # << >> /\ stack'[t] = Tail(stack[t])
    BY <1>1 DEF IInv, Types, At, Idle, Pop
  <2>2. ASSUME NEW f \in GoodFrames, stack[t] = << f >> PROVE stack'[t] = << >>
    BY <2>1, <2>2, Forms
  <2>3. ASSUME NEW e \in GoodFrames, NEW f \in GoodFrames, stack[t] = << e, f >>, f.op # "finish"
        PROVE  Head(stack'[t]).op # "finish"
    BY <2>1, <2>3, Forms
  <2>4. stack'[t] = << >> \/ Head(stack'[t]).op # "finish"
    BY <2>1, <2>2, <2>3 DEF StackForm
  <2> QED
    BY <2>4 DEF Erases, At, Idle, Top
<1>9. \A u \in Threads, x \in Streams : Erases(u, x)' \/ Stores(u, x)' => Quiet(x)'
  <2>1. \A u \in Threads, x \in Streams : ~ Erases(u, x)'
    BY <1>7, <1>8 DEF Erases, At, Idle
  <2>2. \A u \in Threads, x \in Streams : Stores(u, x)' => Stores(u, x)
    BY <1>2 DEF Stores
  <2> QED
    BY <1>6, <2>1, <2>2 DEF AloneInv
<1>10. \A u \in Threads, q \in Players : Doing(u, "stop", q)' =>
         reports'[q] = << >> /\ (Task(u)'.step = "call" => phase'[q] = "playing")
  BY <1>1, <1>2 DEF AloneInv, Doing
<1>11. \A u \in Threads, q \in Players : Doing(u, "stop", q) => Doing(u, "stop", q)'
  <2>1. StackForm(stack[t]) /\ Head(stack[t]).op = "finish" /\ stack'[t] = Tail(stack[t])
    BY <1>1 DEF IInv, Types, At, Idle, Pop, Top
  <2>2. ASSUME NEW f \in GoodFrames, stack[t] = << f >>, NEW q \in Players, Doing(t, "stop", q)
        PROVE  FALSE
    BY <2>1, <2>2, Forms DEF Doing, Task
  <2>3. ASSUME NEW e \in GoodFrames, NEW f \in GoodFrames, stack[t] = << e, f >>,
               NEW q \in Players, Doing(t, "stop", q)
        PROVE  Doing(t, "stop", q)'
    <3> /\ Tail(<< e, f >>) = << f >> /\ << f >> # << >>
        /\ Base(<< f >>) = f /\ Base(<< e, f >>) = f
      BY Forms
    <3>1. stack'[t] = << f >> /\ stack'[t] # << >>
      BY <2>1, <2>3
    <3>2. f.op = "stop" /\ f.player = q
      BY <2>3, <3>1 DEF Doing, Task
    <3> QED
      BY <3>1, <3>2 DEF Doing, Task, Busy
  <2> QED
    BY <1>7, <2>1, <2>2, <2>3 DEF StackForm, Doing, Busy
<1>12. ASSUME NEW q \in Players, Unreported(q)' PROVE Listed(q)'
  <2>1. stream[q] # s /\ stream[q] \in Streams
    BY <1>4, <1>5, <1>12 DEF Quiet, IInv, Types
  <2>2. session[stream[q]] = q \/ \E u \in Threads : Doing(u, "stop", q)
    BY <1>5, <1>12 DEF AloneInv, Listed
  <2>3. session'[stream'[q]] = session[stream[q]]
    BY <1>1, <1>3, <2>1 DEF IInv, Types
  <2> QED
    BY <1>11, <2>2, <2>3 DEF Listed
<1> QED
  BY <1>1, <1>5, <1>7, <1>9, <1>10, <1>12 DEF AloneInv

LEMMA AloneResolved ==
  ASSUME IInv, AloneInv, NEW t \in Threads, setup.threads = {t}, NEW p \in Players, Resolved(p),
         UNCHANGED setup
  PROVE  AloneInv'
<1>1. /\ phase[p] = "starting" /\ phase' = [phase EXCEPT ![p] = "ready"]
      /\ UNCHANGED << setup, session, stream, home, queue, reports >> /\ stack' = stack
  BY DEF Resolved
<1>2. /\ phase'[p] = "ready" /\ \A q \in Players \ {p} : phase'[q] = phase[q]
  BY <1>1 DEF IInv, Types
<1>3. \A s \in Streams : Erases(t, s)' \/ Stores(t, s)' => Quiet(s)
  BY <1>1 DEF AloneInv, Erases, Stores, At, Idle, Top, Busy, Task
<1>4. \A q \in Players : /\ Doing(t, "stop", q)' <=> Doing(t, "stop", q)
                         /\ Doing(t, "stop", q)' =>
                              reports[q] = << >> /\ (Task(t)'.step = "call" => phase'[q] = "playing")
  BY <1>1, <1>2 DEF AloneInv, Doing, Busy, Task
<1> QED
  BY <1>1, <1>2, <1>3, <1>4, AloneSame

\* The thread of the only poller calls back for p.
LEMMA AloneFinishes ==
  ASSUME IInv, NEW t \in Threads, NEW p \in Players, Idle(t),
         stack' = [stack EXCEPT ![t] = << Erasing(p) >>]
  PROVE  /\ \A u \in Threads \ {t} : stack'[u] = stack[u]
         /\ \A s \in Streams : ~ Stores(t, s)' /\ (Erases(t, s)' => s = stream[p])
         /\ \A q \in Players : ~ Doing(t, "stop", q) /\ ~ Doing(t, "stop", q)'
<1> DEFINE e == Erasing(p)
<1>1. e \in GoodFrames /\ e.op = "finish" /\ e.stream = stream[p] /\ Types
  BY ErasingGood DEF IInv
<1>2. stack' = [stack EXCEPT ![t] = << e >>]
  OBVIOUS
<1> HIDE DEF e
<1>3. /\ Busy(t)' /\ Task(t)' = e /\ Head(stack'[t]) = e
      /\ \A u \in Threads \ {t} : stack'[u] = stack[u]
  BY <1>1, <1>2, Runs
<1> QED
  BY <1>1, <1>3 DEF Stores, Erases, Top, Doing, Busy, Idle

LEMMA AloneTransportUp ==
  ASSUME IInv, AloneInv, NEW t \in Threads, setup.threads = {t}, NEW p \in Players,
         NEW o \in Outcomes, TransportUp(p, o), UNCHANGED setup
  PROVE  AloneInv'
<1>1. /\ phase[p] \in {"starting", "ready"} /\ Idle(t)
      /\ UNCHANGED << setup, session, stream, home, queue >>
  BY OnlyThread DEF TransportUp
<1>2. CASE o = "error"
  <2>1. /\ phase' = [phase EXCEPT ![p] = "over"] /\ reports' = [reports EXCEPT ![p] = Append(@, 1)]
        /\ stack' = [stack EXCEPT ![t] = << Erasing(p) >>]
    BY <1>2, OnlyThread DEF TransportUp, Reported
  <2>2. Unreported(p)
    BY <1>1 DEF Unreported, IInv, Progress, Progressed
  <2> QED
    BY <1>1, <2>1, <2>2, AloneFinishes, AloneEnds
<1>3. CASE o # "error"
  <2>1. phase' = [phase EXCEPT ![p] = o] /\ stack' = stack /\ reports' = reports /\ o # "free"
    BY <1>3, Assumption DEF TransportUp
  <2>2. \A q \in Players : phase'[q] = "free" <=> phase[q] = "free"
    BY <1>1, <2>1 DEF IInv, Types
  <2>3. /\ \A s \in Streams : ~ Erases(t, s)' /\ ~ Stores(t, s)'
        /\ \A q \in Players : ~ Doing(t, "stop", q) /\ ~ Doing(t, "stop", q)'
    BY <1>1, <2>1 DEF Erases, Stores, At, Idle, Busy, Doing
  <2> QED
    BY <1>1, <2>1, <2>2, <2>3, AloneSame
<1> QED
  BY <1>2, <1>3

LEMMA AlonePlayEnds ==
  ASSUME IInv, AloneInv, NEW t \in Threads, setup.threads = {t}, NEW p \in Players,
         NEW r \in {0, 1}, PlayEnds(p, r), UNCHANGED setup
  PROVE  AloneInv'
<1>1. /\ phase[p] = "playing" /\ Idle(t)
      /\ phase' = [phase EXCEPT ![p] = "over"] /\ reports' = [reports EXCEPT ![p] = Append(@, r)]
      /\ stack' = [stack EXCEPT ![t] = << Erasing(p) >>]
      /\ UNCHANGED << setup, session, stream, home, queue >>
  BY OnlyThread DEF PlayEnds, Reported
<1>2. Unreported(p)
  BY <1>1 DEF Unreported, IInv, Progress, Progressed
<1> QED
  BY <1>1, <1>2, AloneFinishes, AloneEnds

\* sync() on the only poller runs the lambda in place; the player plays, so nothing is completed
\* by it a second time.
LEMMA AloneSync ==
  ASSUME IInv, AloneInv, NEW t \in Threads, setup.threads = {t}, UNCHANGED setup,
         NEW op \in Controls \cup {"stop"}, At(t, op, "call"),
         NEW p \in Players, p = Top(t).player, phase[p] = "playing", Sync(t, op, p)
  PROVE  AloneInv'
<1> DEFINE w == [Top(t) EXCEPT !.step = "wait"]
<1>1. /\ Goto(t, "wait")[t] = << w >> /\ w \in GoodFrames
      /\ w.op = op /\ w.step = "wait" /\ w.player = p
  BY Waits DEF IInv
<1>2. op \notin {"play", "finish", "lambda"}
  BY Assumption
<1>3. Task(t) = Top(t) /\ Busy(t) /\ Task(t).op = op /\ Task(t).player = p
  BY <1>2, OnTop DEF IInv
<1>4. Perform(t, op, p, << w >>) /\ queue' = queue
  BY <1>1, OnlyThread DEF Sync
<1> HIDE DEF w
<1>5. /\ ~ CompletesAgain(op, p)
      /\ phase' = phase \/ phase' = [phase EXCEPT ![p] = "over"]
      /\ reports' = reports /\ stack' = [stack EXCEPT ![t] = << w >>]
      /\ UNCHANGED << session, stream, home >>
  BY <1>4 DEF CompletesAgain, Perform
<1>6. \A q \in Players : phase'[q] = "free" <=> phase[q] = "free"
  BY <1>5 DEF IInv, Types
<1>7. /\ \A u \in Threads \ {t} : stack'[u] = stack[u]
      /\ \A s \in Streams : ~ Erases(t, s)' /\ ~ Stores(t, s)'
      /\ Task(t)' = w
      /\ \A q \in Players : Doing(t, "stop", q)' <=> op = "stop" /\ q = p
  <2>1. w.op # "finish" /\ Types
    BY <1>1, <1>2 DEF IInv
  <2> QED
    BY <1>1, <1>5, <2>1, Begins
<1>8. \A q \in Players : Doing(t, "stop", q) <=> op = "stop" /\ q = p
  BY <1>3 DEF Doing
<1>9. \A q \in Players : Doing(t, "stop", q)' =>
        reports[q] = << >> /\ (Task(t)'.step = "call" => phase'[q] = "playing")
  BY <1>1, <1>7, <1>8 DEF AloneInv
<1> QED
  BY <1>4, <1>5, <1>6, <1>7, <1>8, <1>9, AloneSame

LEMMA AloneCalls ==
  ASSUME IInv, AloneInv, NEW t \in Threads, setup.threads = {t}, UNCHANGED setup,
         StopCall(t) \/ ControlCall(t) \/ ControlReply(t)
  PROVE  AloneInv'
<1>1. CASE StopCall(t)
  <2>1. At(t, "stop", "call")
    BY <1>1 DEF StopCall
  <2>2. PICK p \in Players : p = Top(t).player
    BY <2>1, Waits DEF IInv
  <2>3. Doing(t, "stop", p) /\ Task(t).step = "call"
    BY <2>1, <2>2, OnTop DEF IInv, Doing
  <2>4. phase[p] = "playing" /\ Sync(t, "stop", p)
    BY <1>1, <2>2, <2>3 DEF AloneInv, StopCall
  <2> QED
    BY <2>1, <2>2, <2>4, AloneSync
<1>2. ASSUME NEW op \in Controls, NEW step, At(t, op, step), stack' = Pop(t),
             UNCHANGED << session, players, queue, answers, reports, requests >>
      PROVE  AloneInv'
  <2>1. op \notin {"stop", "finish"}
    BY Assumption
  <2>2. Tail(stack[t]) = << >> /\ Task(t).op = op
    BY <1>2, <2>1, OnTop DEF IInv
  <2>3. stack' = [stack EXCEPT ![t] = << >>] /\ \A q \in Players : ~ Doing(t, "stop", q)
    BY <1>2, <2>1, <2>2 DEF Pop, Doing
  <2>4. UNCHANGED << setup, session, stream, home, queue, reports, phase >>
    BY <1>2 DEF players
  <2> QED
    BY <2>3, <2>4, AlonePop
<1>3. CASE ControlCall(t)
  <2>1. PICK op \in Controls :
          /\ At(t, op, "call")
          /\ IF Wanted(op, Top(t).player)
             THEN Sync(t, op, Top(t).player)
             ELSE /\ stack' = Pop(t)
                  /\ UNCHANGED << session, players, queue, answers, reports, requests >>
    BY <1>3 DEF ControlCall
  <2>2. PICK p \in Players : p = Top(t).player
    BY <2>1, Waits DEF IInv
  <2>3. CASE Wanted(op, p)
    <3>1. phase[p] = "playing"
      BY <2>3 DEF Wanted
    <3> QED
      BY <2>1, <2>2, <2>3, <3>1, AloneSync
  <2>4. CASE ~ Wanted(op, p)
    BY <1>2, <2>1, <2>2, <2>4
  <2> QED
    BY <2>3, <2>4
<1>4. CASE ControlReply(t)
  BY <1>2, <1>4 DEF ControlReply
<1> QED
  BY <1>1, <1>3, <1>4

\* The stop request reports the player it has taken out, which had reported nothing.
LEMMA AloneStopReport ==
  ASSUME IInv, AloneInv, NEW t \in Threads, setup.threads = {t}, StopReport(t), UNCHANGED setup
  PROVE  AloneInv'
<1>1. /\ At(t, "stop", "wait") /\ stack' = Pop(t)
      /\ reports' = [reports EXCEPT ![Top(t).player] = Append(@, 2)]
      /\ UNCHANGED << setup, session, phase, stream, home, queue >>
  BY DEF StopReport, players
<1>2. /\ Task(t) = Top(t) /\ Busy(t) /\ Top(t).op = "stop" /\ Tail(stack[t]) = << >>
  BY <1>1, OnTop DEF IInv
<1>3. PICK p \in Players : p = Top(t).player
  BY <1>2, TaskTypes DEF IInv
<1>4. Doing(t, "stop", p) /\ reports[p] = << >>
  BY <1>2, <1>3 DEF AloneInv, Doing
<1>5. /\ reports'[p] = Append(<< >>, 2)
      /\ \A q \in Players \ {p} : reports'[q] = reports[q]
  BY <1>1, <1>3, <1>4 DEF IInv, Types
<1>6. Len(reports'[p]) = 1 /\ reports'[p] # << >>
  BY <1>5
<1>7. \A q \in Players : Unreported(q)' <=> Unreported(q) /\ q # p
  BY <1>1, <1>5, <1>6 DEF Unreported
<1>8. stack' = [stack EXCEPT ![t] = << >>]
  BY <1>1, <1>2 DEF Pop
<1>9. /\ \A u \in Threads \ {t} : stack[u] = << >> /\ stack'[u] = << >>
      /\ \A x \in Streams : ~ Erases(t, x)' /\ ~ Stores(t, x)'
      /\ \A q \in Players : ~ Doing(t, "stop", q)'
  BY <1>8, IsIdle, OnlyThread DEF IInv
<1>10. /\ \A u \in Threads, x \in Streams : ~ Erases(u, x)' /\ ~ Stores(u, x)'
       /\ \A u \in Threads, q \in Players : ~ Doing(u, "stop", q)'
  BY <1>9 DEF Erases, Stores, At, Idle, Busy, Doing
<1>11. \A u \in Threads, q \in Players : Doing(u, "stop", q) => q = p
  BY <1>2, <1>3, <1>9 DEF Doing, Busy
<1>12. \A q \in Players : Unreported(q)' => Listed(q)'
  BY <1>1, <1>7, <1>11 DEF AloneInv, Listed
<1>13. \A q \in Players : Len(reports'[q]) <= 1
  <2>1. ASSUME NEW q \in Players, q # p PROVE Len(reports'[q]) <= 1
    BY <1>5, <2>1 DEF AloneInv
  <2>2. Len(reports'[p]) <= 1
    BY <1>6
  <2> QED
    BY <2>1, <2>2
<1> QED
  BY <1>1, <1>7, <1>9, <1>10, <1>12, <1>13 DEF AloneInv

LEMMA AloneInitially == Init => IAlone
<1> SUFFICES ASSUME Init, Alone PROVE AloneInv
  BY DEF IAlone
<1>1. PICK t \in Threads : setup.threads = {t}
  BY DEF Alone
<1>2. (\A u \in Threads : stack[u] = << >> /\ queue[u] = << >>) /\ \A p \in Players : reports[p] = << >>
  BY DEF Init
<1>3. \A p \in Players : home[p] \in setup.threads /\ Len(reports[p]) <= 1 /\ ~ Unreported(p)
  <2>1. Len(<< >>) = 0
    OBVIOUS
  <2> QED
    BY <1>1, <1>2, <2>1 DEF Init, Unreported
<1> QED
  BY <1>2, <1>3 DEF AloneInv, Erases, Stores, At, Idle, Busy, Doing

LEMMA AloneInductive == IInv /\ IAlone /\ [Next]_vars => IAlone'
<1> SUFFICES ASSUME IInv, IAlone, [Next]_vars, Alone' PROVE AloneInv'
  BY DEF IAlone
<1>1. UNCHANGED setup
  BY DEF Next, Arrive, Work, PlayerStep, vars
<1>2. PICK t \in Threads : setup.threads = {t} /\ setup.careful
  BY <1>1 DEF Alone
<1>3. AloneInv
  BY <1>2 DEF IAlone, Alone
<1>4. ASSUME NEW u \in Threads, Arrive(u) PROVE AloneInv'
  <2>1. u = t
    BY <1>2, <1>4 DEF Arrive, RequestPlay, RequestStop, RequestControl, Request
  <2> QED
    BY <1>1, <1>2, <1>3, <1>4, <2>1, AloneRequests, AloneRequestStop DEF Arrive
<1>5. ASSUME NEW u \in Threads, Work(u) PROVE AloneInv'
  <2>1. ~ RunLambda(u) /\ ~ LambdaDone(u)
    <3>1. ~ RunLambda(u)
      BY <1>2, <1>3, OnlyThread DEF RunLambda
    <3>2. ASSUME LambdaDone(u) PROVE FALSE
      <4>1. InLambda(u)
        BY <3>2, OnTop DEF LambdaDone, IInv, InLambda
      <4> QED
        BY <1>2, <1>3, <4>1, OnlyThread
    <3> QED
      BY <3>1, <3>2
  <2>2. u = t
    <3>1. ~ Idle(u)
      BY <1>5, <2>1 DEF Work, PlayStore, PlayStartTcp, PlayStartUdp, PlayBindFails, PlayReply, Erase,
                        StopCall, StopReport, ControlCall, ControlReply, At
    <3> QED
      BY <1>2, <1>3, <3>1, OnlyThread DEF Idle
  <2> QED
    BY <1>1, <1>2, <1>3, <1>5, <2>1, <2>2, AlonePlayStore, AlonePlays, AlonePlayBindFails, AloneErase,
       AloneCalls, AloneStopReport DEF Work
<1>6. ASSUME NEW p \in Players, PlayerStep(p) PROVE AloneInv'
  BY <1>1, <1>2, <1>3, <1>6, AloneResolved, AloneTransportUp, AlonePlayEnds DEF PlayerStep
<1>7. CASE UNCHANGED vars
  <2>1. UNCHANGED << setup, session, stream, home, queue, reports >> /\ phase' = phase /\ stack' = stack
    BY <1>7 DEF vars, players
  <2>2. \A s \in Streams : Erases(t, s)' \/ Stores(t, s)' => Quiet(s)
    BY <1>3, <2>1 DEF AloneInv, Erases, Stores, At, Idle, Top, Busy, Task
  <2>3. \A q \in Players : /\ Doing(t, "stop", q)' <=> Doing(t, "stop", q)
                           /\ Doing(t, "stop", q)' =>
                                reports[q] = << >> /\ (Task(t)'.step = "call" => phase'[q] = "playing")
    BY <1>3, <2>1 DEF AloneInv, Doing, Busy, Task
  <2> QED
    BY <1>2, <1>3, <2>1, <2>2, <2>3, AloneSame
<1> QED
  BY <1>4, <1>5, <1>6, <1>7 DEF Next

LEMMA AloneSuffices == IInv /\ IAlone => PlayingIsListed /\ ReportedOnce
<1> SUFFICES ASSUME IInv, AloneInv
    PROVE  /\ \A p \in Players : phase[p] = "playing" =>
                /\ session[stream[p]] = p \/ BeingStopped(p)
                /\ \A q \in Players : phase[q] = "playing" /\ stream[p] = stream[q] => p = q
           /\ \A p \in Players : Len(reports[p]) <= 1
  BY DEF IAlone, PlayingIsListed, ReportedOnce
<1>1. \A p \in Players : phase[p] = "playing" => Unreported(p)
  BY DEF IInv, Progress, Progressed, Unreported
<1>2. ASSUME NEW p \in Players, NEW t \in Threads, Doing(t, "stop", p) PROVE BeingStopped(p)
  <2>1. stack[t] \in Seq(GoodFrames) /\ stack[t] # << >>
    BY <1>2 DEF IInv, Types, Doing, Busy
  <2>2. Len(stack[t]) \in DOMAIN stack[t]
    BY <2>1
  <2>3. stack[t][Len(stack[t])].op = "stop" /\ stack[t][Len(stack[t])].player = p
    BY <1>2 DEF Doing, Task, Base
  <2> QED
    BY <2>2, <2>3 DEF BeingStopped
<1> QED
  BY <1>1, <1>2 DEF AloneInv, Listed

\* With one poller and a client that waits for the report, the inductive invariant says more.
THEOREM InvariantAlone == Spec => []IAlone
BY Invariant, AloneInitially, AloneInductive, PTL DEF Spec

\* Then a stream is played back by one player at a time, the one the table names or a stop
\* request holds: no playback is out of reach.
THEOREM PlayingAlone == Spec => []PlayingIsListed
BY Invariant, InvariantAlone, AloneSuffices, PTL

\* Then the signalling side hears of every ending once.
THEOREM ReportsOnce == Spec => []ReportedOnce
BY Invariant, InvariantAlone, AloneSuffices, PTL
=============================================================================
