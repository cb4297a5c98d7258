-------------------------- MODULE PlaybackSessions --------------------------
(***************************************************************************)
(* The SVAC playback interface of src/server/WebApi.cpp: a table of        *)
(* players by stream name, the HTTP handlers that fill it, look players up *)
(* in it and take them out of it, and the callbacks by which a player      *)
(* reports its ending and removes itself.                                  *)
(*                                                                         *)
(* Handlers and players run on the same pool of poller threads.  A handler *)
(* runs to its end on the thread of its connection; a player has a home    *)
(* thread, and a handler that controls a player of another thread hands    *)
(* the work over with sync() and blocks its own thread until it is done.   *)
(* A thread is a stack of frames: the handler or event it is executing,    *)
(* and above it the callback that is called from there.                    *)
(*                                                                         *)
(* A player is what RtpDumpPlayer shows of it: starting, playing, paused,  *)
(* over; positions, clocks and speeds are left to that module.             *)
(* Definitions whose names begin with Bug are mutants of the definition    *)
(* that follows them; no specification uses them.                          *)
(***************************************************************************)
EXTENDS Naturals, Sequences, FiniteSets

CONSTANTS
  Setups,       \* how the server is set up and used, see Setup
  Streams,      \* stream names
  Players,      \* the RtpDumpPlayer objects that may be created
  Transports,   \* subset of {"udp", "tcp"}
  Outcomes,     \* subset of {"playing", "error", "mute"}: how a player's transport comes up
  Controls,     \* subset of {"pause", "resume", "jump"}; "jump" is setSpeed and seek
  None          \* no player

Threads == UNION {u.threads : u \in Setups}

\* threads: the pollers of EventPollerPool; careful: a client asks for a stream again only once
\* the last one was reported; requests, players: bounds, the HTTP requests and the players made.
Setup == [threads : (SUBSET Threads) \ {{}}, careful : BOOLEAN, requests : Nat,
          players : 0 .. Cardinality(Players)]

ASSUME Assumption ==
  /\ Setups \subseteq Setup /\ Setups # {} /\ Streams # {} /\ None \notin Players
  /\ Transports \subseteq {"udp", "tcp"} /\ Outcomes \subseteq {"playing", "error", "mute"}
  /\ Controls \subseteq {"pause", "resume", "jump"}

VARIABLES
  setup,     \* one of Setups, for good
  session,   \* s_playback_sessions: stream -> player or None
  phase,     \* player -> "free", "made", "starting", "ready", "playing", "over", "mute"
  paused,    \* player -> _paused
  stream,    \* player -> the stream its callbacks were created for
  tcp,       \* player -> _args.enable_tcp
  home,      \* player -> the thread of its _poller
  stack,     \* thread -> frames, the running one first
  queue,     \* thread -> lambdas handed over by sync()
  answers,   \* history: player -> answers to the playBackSVAC request that made it
  reports,   \* history: player -> the results reported for it, in order
  requests   \* HTTP requests still allowed

players == << phase, paused, stream, tcp, home >>
vars == << setup, session, players, stack, queue, answers, reports, requests >>

----------------------------------------------------------------------------
(* Threads.                                                                *)

Idle(t) == stack[t] = << >>
Top(t) == Head(stack[t])
At(t, op, step) == ~ Idle(t) /\ Top(t).op = op /\ Top(t).step = step

Frame(op, step, s, p) == [op |-> op, step |-> step, stream |-> s, player |-> p]

Pop(t) == [stack EXCEPT ![t] = Tail(@)]
Goto(t, step) == [stack EXCEPT ![t] = << [Top(t) EXCEPT !.step = step] >> \o Tail(@)]

\* The frame that removes the table entry, pushed when a player has made its callback.
Erasing(p) == Frame("finish", "erase", stream[p], p)

\* A player object lives while the table, a frame or a queued lambda holds it.  A TCP player
\* holds itself from start() on: its on_connect captures the player that stores it.
Alive(p) ==
  \/ \E s \in Streams : session[s] = p
  \/ \E t \in Threads : \E i \in DOMAIN stack[t] : stack[t][i].player = p
  \/ phase[p] = "ready"
  \/ tcp[p] /\ phase[p] \notin {"free", "made"}

----------------------------------------------------------------------------
Init ==
  /\ setup \in Setups
  /\ session = [s \in Streams |-> None]
  /\ phase = [p \in Players |-> "free"]
  /\ paused = [p \in Players |-> FALSE]
  /\ stream = [p \in Players |-> CHOOSE s \in Streams : TRUE]
  /\ tcp = [p \in Players |-> FALSE]
  /\ home = [p \in Players |-> CHOOSE t \in setup.threads : TRUE]
  /\ stack = [t \in Threads |-> << >>]
  /\ queue = [t \in Threads |-> << >>]
  /\ answers = [p \in Players |-> 0]
  /\ reports = [p \in Players |-> << >>]
  /\ requests = setup.requests

----------------------------------------------------------------------------
(* playBackSVAC                                                            *)

\* A careful client has nothing of the stream under way that was not reported yet.
Settled(s) ==
  /\ \A p \in Players : phase[p] # "free" /\ stream[p] = s => reports[p] # << >>
  /\ \A t \in Threads : \A i \in DOMAIN stack[t] :
       stack[t][i].op = "play" => stack[t][i].stream # s

Request(t, s) ==
  /\ t \in setup.threads /\ Idle(t) /\ requests > 0
  /\ requests' = requests - 1

\* Bound: every handler that is going to create a player may still do so.
ObjectsLeft == Cardinality({t \in Threads : At(t, "play", "store")})
                 + Cardinality({p \in Players : phase[p] # "free"}) < setup.players

\* The name is refused only while its player is playing: not while it is connecting.
RequestPlay(t, s) ==
  /\ Request(t, s)
  /\ setup.careful => Settled(s)
  /\ ObjectsLeft
  /\ IF session[s] # None /\ phase[session[s]] = "playing"
     THEN UNCHANGED stack
     ELSE stack' = [stack EXCEPT ![t] = << Frame("play", "store", s, None) >>]
  /\ UNCHANGED << session, players, queue, answers, reports >>

\* The second time the lock is taken: whatever the table holds now is overwritten.
PlayStore(t) ==
  /\ At(t, "play", "store")
  /\ LET s == Top(t).stream
         unused == {q \in Players : phase[q] = "free"}
     IN  \E p \in unused, h \in setup.threads, tr \in Transports :
           /\ p = CHOOSE q \in unused : TRUE
           /\ phase' = [phase EXCEPT ![p] = "made"]
           /\ stream' = [stream EXCEPT ![p] = s]
           /\ tcp' = [tcp EXCEPT ![p] = (tr = "tcp")]
           /\ home' = [home EXCEPT ![p] = h]
           /\ session' = [session EXCEPT ![s] = p]
           /\ stack' = [stack EXCEPT ![t] = << Frame("play", "start", s, p) >>]
  /\ UNCHANGED << paused, queue, answers, reports, requests >>

\* start() of a TCP player: the request stays open until connect() reports.
PlayStartTcp(t) ==
  /\ At(t, "play", "start") /\ tcp[Top(t).player]
  /\ phase' = [phase EXCEPT ![Top(t).player] = "starting"]
  /\ stack' = Pop(t)
  /\ UNCHANGED << session, paused, stream, tcp, home, queue, answers, reports, requests >>

\* start() of a UDP player, whose request is answered at once.
PlayStartUdp(t) ==
  /\ At(t, "play", "start") /\ ~ tcp[Top(t).player]
  /\ phase' = [phase EXCEPT ![Top(t).player] = "starting"]
  /\ answers' = [answers EXCEPT ![Top(t).player] = @ + 1]
  /\ stack' = Pop(t)
  /\ UNCHANGED << session, paused, stream, tcp, home, queue, reports, requests >>

BugPlayBindFails(t) ==
  /\ At(t, "play", "start") /\ ~ tcp[Top(t).player]
  /\ LET p == Top(t).player
     IN  /\ phase' = [phase EXCEPT ![p] = "over"]
         /\ reports' = [reports EXCEPT ![p] = Append(@, 1)]
         /\ answers' = [answers EXCEPT ![p] = @ + 1]
         /\ stack' = [stack EXCEPT ![t] = << Erasing(p), Frame("play", "reply", stream[p], p) >>]
  /\ UNCHANGED << session, paused, stream, tcp, home, queue, requests >>

\* The UDP port cannot be bound: on_error is called from within start().
PlayBindFails(t) ==
  /\ At(t, "play", "start") /\ ~ tcp[Top(t).player]
  /\ LET p == Top(t).player
     IN  /\ phase' = [phase EXCEPT ![p] = "over"]
         /\ reports' = [reports EXCEPT ![p] = Append(@, 1)]
         /\ stack' = [stack EXCEPT ![t] = << Erasing(p), Frame("play", "reply", stream[p], p) >>]
  /\ UNCHANGED << session, paused, stream, tcp, home, queue, answers, requests >>

PlayReply(t) ==
  /\ At(t, "play", "reply")
  /\ answers' = [answers EXCEPT ![Top(t).player] = @ + 1]
  /\ stack' = Pop(t)
  /\ UNCHANGED << session, players, queue, reports, requests >>

----------------------------------------------------------------------------
(* What the players do on their home threads.                              *)

\* The worker has resolved the address (or failed to) and queued a lambda that holds the player.
Resolved(p) ==
  /\ ~ tcp[p] /\ phase[p] = "starting" /\ Alive(p)
  /\ phase' = [phase EXCEPT ![p] = "ready"]
  /\ UNCHANGED << session, paused, stream, tcp, home, stack, queue, answers, reports, requests >>

\* on_complete or on_error of player p: the event goes out, then the entry is erased.
Reported(p, result) ==
  /\ phase' = [phase EXCEPT ![p] = "over"]
  /\ reports' = [reports EXCEPT ![p] = Append(@, result)]


\* connect() has reported, or the address is known: a TCP request is answered first.
TransportUp(p, outcome) ==
  /\ Alive(p) /\ Idle(home[p])
  /\ phase[p] = IF tcp[p] THEN "starting" ELSE "ready"
  /\ answers' = IF tcp[p] THEN [answers EXCEPT ![p] = @ + 1] ELSE answers
  /\ IF outcome = "error"
     THEN /\ Reported(p, 1)
          /\ stack' = [stack EXCEPT ![home[p]] = << Erasing(p) >>]
     ELSE /\ phase' = [phase EXCEPT ![p] = outcome]
          /\ UNCHANGED << stack, reports >>
  /\ UNCHANGED << session, paused, stream, tcp, home, queue, requests >>

BugPlayEnds(p, result) ==
  /\ Alive(p) /\ Idle(home[p]) /\ phase[p] = "playing"
  /\ result = 0 => ~ paused[p]
  /\ phase' = [phase EXCEPT ![p] = "over"]
  /\ stack' = [stack EXCEPT ![home[p]] = << Erasing(p) >>]
  /\ UNCHANGED << session, paused, stream, tcp, home, queue, answers, reports, requests >>

\* The last packet is sent (result 0) or the socket fails (result 1).
PlayEnds(p, result) ==
  /\ Alive(p) /\ Idle(home[p]) /\ phase[p] = "playing"
  /\ result = 0 => ~ paused[p]
  /\ Reported(p, result)
  /\ stack' = [stack EXCEPT ![home[p]] = << Erasing(p) >>]
  /\ UNCHANGED << session, paused, stream, tcp, home, queue, answers, requests >>

\* s_playback_sessions.erase(stream): by name, whichever player the entry holds.
Erase(t) ==
  /\ At(t, "finish", "erase")
  /\ session' = [session EXCEPT ![Top(t).stream] = None]
  /\ stack' = Pop(t)
  /\ UNCHANGED << players, queue, answers, reports, requests >>

----------------------------------------------------------------------------
(* The lambdas of stop(), pause(), resume(), setSpeed() and seek().        *)

\* resume(), and setSpeed() and seek() unless paused, enter sendNextPacket(), which takes a
\* player that does not play for one that has just completed.
CompletesAgain(op, p) ==
  phase[p] # "playing" /\ (op = "resume" \/ (op = "jump" /\ ~ paused[p]))

BugPerform(t, op, p, frames) ==
  /\ stack' = [stack EXCEPT ![t] = frames]
  /\ paused' = [paused EXCEPT ![p] = (op = "pause")]
  /\ UNCHANGED << session, phase, stream, tcp, home, answers, reports, requests >>

\* The lambda of op runs on player p; frames is what is left to run on thread t.
Perform(t, op, p, frames) ==
  /\ IF CompletesAgain(op, p)
     THEN /\ Reported(p, 0)
          /\ stack' = [stack EXCEPT ![t] = << Erasing(p) >> \o frames]
     ELSE /\ phase' = IF op = "stop" THEN [phase EXCEPT ![p] = "over"] ELSE phase
          /\ stack' = [stack EXCEPT ![t] = frames]
          /\ UNCHANGED reports
  /\ paused' = [paused EXCEPT ![p] = IF op = "pause" THEN TRUE
                                     ELSE IF op = "jump" THEN @ ELSE FALSE]
  /\ UNCHANGED << session, stream, tcp, home, answers, requests >>

\* sync(): in place on the player's own thread, else queued there while this thread waits.
Sync(t, op, p) ==
  LET waiting == Goto(t, "wait")[t]
  IN  IF home[p] = t
      THEN Perform(t, op, p, waiting) /\ UNCHANGED queue
      ELSE /\ queue' = [queue EXCEPT ![home[p]] = Append(@, [op |-> op, player |-> p, by |-> t])]
           /\ stack' = [stack EXCEPT ![t] = waiting]
           /\ UNCHANGED << session, players, answers, reports, requests >>

RunLambda(t) ==
  /\ Idle(t) /\ queue[t] # << >>
  /\ LET l == Head(queue[t])
     IN  Perform(t, l.op, l.player, << Frame("lambda", "done", stream[l.player], l.player) >>)
  /\ UNCHANGED queue

\* The lambda returns, and releases the thread that waits for it.
LambdaDone(t) ==
  /\ At(t, "lambda", "done")
  /\ queue' = [queue EXCEPT ![t] = Tail(@)]
  /\ stack' = Pop(t)
  /\ UNCHANGED << session, players, answers, reports, requests >>

Released(t) == \A h \in Threads : \A i \in DOMAIN queue[h] : queue[h][i].by # t

----------------------------------------------------------------------------
(* stopPlayBackSVAC                                                        *)

BugRequestStop(t, s) ==
  /\ Request(t, s)
  /\ stack' = [stack EXCEPT ![t] = << Frame("stop", "call", s, session[s]) >>]
  /\ session' = [session EXCEPT ![s] = None]
  /\ UNCHANGED << players, queue, answers, reports >>

BugRequestStopKeeps(t, s) ==
  /\ Request(t, s)
  /\ session[s] # None /\ phase[session[s]] = "playing"
  /\ stack' = [stack EXCEPT ![t] = << Frame("stop", "call", s, session[s]) >>]
  /\ UNCHANGED << session, players, queue, answers, reports >>

\* Under one lock: the entry is taken out if its player is playing.
RequestStop(t, s) ==
  /\ Request(t, s)
  /\ IF session[s] # None /\ phase[session[s]] = "playing"
     THEN /\ session' = [session EXCEPT ![s] = None]
          /\ stack' = [stack EXCEPT ![t] = << Frame("stop", "call", s, session[s]) >>]
     ELSE UNCHANGED << session, stack >>
  /\ UNCHANGED << players, queue, answers, reports >>

StopCall(t) == At(t, "stop", "call") /\ Sync(t, "stop", Top(t).player)

BugStopReport(t) ==
  /\ At(t, "stop", "wait")
  /\ reports' = [reports EXCEPT ![Top(t).player] = Append(@, 2)]
  /\ stack' = Pop(t)
  /\ UNCHANGED << session, players, queue, answers, requests >>

StopReport(t) ==
  /\ At(t, "stop", "wait") /\ Released(t)
  /\ reports' = [reports EXCEPT ![Top(t).player] = Append(@, 2)]
  /\ stack' = Pop(t)
  /\ UNCHANGED << session, players, queue, answers, requests >>

----------------------------------------------------------------------------
(* pausePlayBackSVAC, setPlayBackSpeed and seekPlayBackSVAC                *)

RequestControl(t, s, op) ==
  /\ Request(t, s)
  /\ stack' = IF session[s] = None THEN stack
              ELSE [stack EXCEPT ![t] = << Frame(op, "call", s, session[s]) >>]
  /\ UNCHANGED << session, players, queue, answers, reports >>

\* The tests of the handler and of the method it calls; only playing and paused are read.
Wanted(op, p) ==
  /\ phase[p] = "playing"
  /\ op = "pause" => ~ paused[p]
  /\ op = "resume" => paused[p]

ControlCall(t) ==
  \E op \in Controls :
    /\ At(t, op, "call")
    /\ IF Wanted(op, Top(t).player)
       THEN Sync(t, op, Top(t).player)
       ELSE /\ stack' = Pop(t)
            /\ UNCHANGED << session, players, queue, answers, reports, requests >>

ControlReply(t) ==
  \E op \in Controls :
    /\ At(t, op, "wait") /\ Released(t)
    /\ stack' = Pop(t)
    /\ UNCHANGED << session, players, queue, answers, reports, requests >>

----------------------------------------------------------------------------
Arrive(t) ==
  /\ \E s \in Streams : \/ RequestPlay(t, s) \/ RequestStop(t, s)
                        \/ \E op \in Controls : RequestControl(t, s, op)
  /\ UNCHANGED setup

\* What a thread has to do, in no given order where several things are pending.
Work(t) ==
  /\ \/ PlayStore(t) \/ PlayStartTcp(t) \/ PlayStartUdp(t) \/ PlayBindFails(t)
     \/ PlayReply(t) \/ Erase(t) \/ RunLambda(t) \/ LambdaDone(t)
     \/ StopCall(t) \/ StopReport(t) \/ ControlCall(t) \/ ControlReply(t)
  /\ UNCHANGED setup

PlayerStep(p) ==
  /\ \/ Resolved(p)
     \/ \E o \in Outcomes : TransportUp(p, o)
     \/ \E r \in {0, 1} : PlayEnds(p, r)
  /\ UNCHANGED setup

Next == (\E t \in Threads : Arrive(t) \/ Work(t)) \/ (\E p \in Players : PlayerStep(p))

\* Threads run what they hold, the worker resolves, connect() reports, an unpaused playback
\* comes to its end (shown by RtpDumpPlayer).  Requests are never owed.
Fairness == /\ \A t \in Threads : WF_vars(Work(t))
            /\ \A p \in Players : WF_vars(PlayerStep(p))

Spec == Init /\ [][Next]_vars
FairSpec == Spec /\ Fairness

----------------------------------------------------------------------------
(* Properties                                                              *)

Ops == {"play", "stop", "lambda", "finish"} \cup Controls
Frames == [op : Ops, step : {"store", "start", "reply", "erase", "done", "call", "wait"},
           stream : Streams, player : Players \cup {None}]

\* Every variable has its type.
TypeOK ==
  /\ setup \in Setups
  /\ session \in [Streams -> Players \cup {None}]
  /\ phase \in [Players ->
       {"free", "made", "starting", "ready", "playing", "over", "mute"}]
  /\ paused \in [Players -> BOOLEAN] /\ tcp \in [Players -> BOOLEAN]
  /\ stream \in [Players -> Streams] /\ home \in [Players -> Threads]
  /\ stack \in [Threads -> Seq(Frames)]
  /\ \A t \in Threads : \A i \in DOMAIN stack[t] :
       stack[t][i].player = None <=> stack[t][i].step = "store"
  /\ queue \in [Threads -> Seq([op : Controls \cup {"stop"}, player : Players, by : Threads])]
  /\ answers \in [Players -> Nat] /\ reports \in [Players -> Seq({0, 1, 2})]
  /\ requests \in Nat

\* A playBackSVAC request is answered at most once, and a TCP one before its player plays or
\* reports anything.
AnsweredOnce ==
  \A p \in Players :
    /\ answers[p] <= 1
    /\ tcp[p] /\ (phase[p] = "playing" \/ reports[p] # << >>) => answers[p] = 1

BeingStopped(p) == \E t \in Threads : \E i \in DOMAIN stack[t] :
                     stack[t][i].op = "stop" /\ stack[t][i].player = p

\* However many stop requests race for a player, one of them stops it and reports so; and when
\* the signalling side is told that a playback is over, it is.
StoppedOnce ==
  \A p \in Players :
    /\ Cardinality({i \in DOMAIN reports[p] : reports[p][i] = 2})
         + Cardinality({t \in Threads : \E i \in DOMAIN stack[t] :
                          stack[t][i].op = "stop" /\ stack[t][i].player = p}) <= 1
    /\ reports[p] # << >> => phase[p] = "over"

\* One poller, and a client that waits for the report.
Alone == (\E t \in Threads : setup.threads = {t}) /\ setup.careful

\* A stream name is played back by one player at a time: the one the table names, so that it
\* can be stopped, paused and sought, unless a stop request has just taken it out.
PlayingIsListed ==
  Alone =>
    \A p \in Players : phase[p] = "playing" =>
      /\ session[stream[p]] = p \/ BeingStopped(p)
      /\ \A q \in Players : phase[q] = "playing" /\ stream[p] = stream[q] => p = q

\* The signalling side hears of every ending once.
ReportedOnce == Alone => \A p \in Players : Len(reports[p]) <= 1

\* Every HTTP handler comes to its end and frees its poller; a UDP request is answered on the way.
HandlersReturn == \A t \in Threads : []<>Idle(t)

\* Every playBackSVAC request over TCP, which is left open when start() has returned, gets its
\* answer from the connect callback, whatever else is asked of the pollers meanwhile.
RequestsAreAnswered == \A p \in Players : (tcp[p] /\ phase[p] = "starting") ~> (answers[p] = 1)

\* A session that was created is reported in the end, unless it is paused or its dump holds
\* no packet (the player stays silent then).
SessionsAreReported ==
  \A p \in Players :
    (phase[p] = "made") ~> (reports[p] # << >> \/ phase[p] = "mute" \/ paused[p])

=============================================================================
