----------------------------- MODULE RtpServers -----------------------------
(***************************************************************************)
(* The RTP receiving ports of the GB28181 interface: the table of          *)
(* RtpServer objects by stream name in src/server/WebApi.cpp, the handlers *)
(* that open, dial and close them, and the ways a server ends by itself:   *)
(* the watchdog of its RtpProcess, an error of its transport, a failed     *)
(* connect.                                                                *)
(*                                                                         *)
(* Handlers run on the threads of their connections, the watchdog on a     *)
(* timer thread, errors and connect results on the poller of the server;   *)
(* all of them erase table entries BY NAME.  An RtpServer lives while the  *)
(* table or a running function holds it.  Its helper owns the RtpProcess   *)
(* and is held by the server and by the read callback of the server's own  *)
(* socket; the destructor clears that callback.                            *)
(*                                                                         *)
(* A server is named after the openRtpServer request that makes it.        *)
(* Definitions whose names begin with Bug are mutants of the definition    *)
(* that follows them; no specification uses them.                          *)
(***************************************************************************)
EXTENDS Naturals

CONSTANTS
  Opens,         \* openRtpServer requests, and the servers they make
  Names,         \* stream names
  NameOf,        \* request -> name
  Modes,         \* subset of {"udp", "passive", "dial"}; "dial" is tcp_ip, active mode
  Pausable,      \* bound: the servers whose watchdog a client may pause
  None           \* no server

ASSUME Assumption ==
  /\ NameOf \in [Opens -> Names] /\ None \notin Opens
  /\ Modes \subseteq {"udp", "passive", "dial"} /\ Pausable \subseteq Opens

VARIABLES
  table,     \* s_rtp_server: name -> server or None
  mode,      \* request -> tcp_mode
  pc,        \* request -> "new", "starting", "started", "emplaced", "wired", "dialing",
             \*   "failed", "lost", "done"
  dialed,    \* request -> the server connectToServer() was called on
  reply,     \* request -> "none", "ok", "refused", "error"
  wired,     \* servers whose _on_detach is set
  orphans,   \* servers that died in start() with their socket still reading
  detaches,  \* calls of onDetach() under way
  fed,       \* servers whose process receives data
  watch,     \* server -> "on", "paused", "spent": the pause of its watchdog, one per server
  timeouts   \* history: server -> on_rtp_server_timeout events (2 stands for more)

handlerVars == << mode, pc, dialed, reply >>
processVars == << fed, watch >>
vars == << table, handlerVars, wired, orphans, detaches, processVars, timeouts >>

----------------------------------------------------------------------------
Listed(s) == table[NameOf[s]] = s

\* The handler that makes it, or the result of connect(), still holds the server.
Held(s) == \/ pc[s] \in {"started", "emplaced"}
           \/ \E h \in Opens : pc[h] = "failed" /\ dialed[h] = s

Alive(s) == Listed(s) \/ Held(s)

\* The helper and its process outlive the server in a call of onDetach(), and for ever when
\* nothing clears the read callback.
ProcessLives(s) == Alive(s) \/ s \in orphans \/ \E d \in detaches : d.of = s

Erase(n) == table' = [table EXCEPT ![n] = None]

----------------------------------------------------------------------------
Init ==
  /\ table = [n \in Names |-> None]
  /\ mode \in [Opens -> Modes]
  /\ pc = [h \in Opens |-> "new"]
  /\ dialed = [h \in Opens |-> None]
  /\ reply = [h \in Opens |-> "none"]
  /\ wired = {} /\ orphans = {} /\ detaches = {} /\ fed = {}
  /\ watch = [s \in Opens |-> "on"]
  /\ timeouts = [s \in Opens |-> 0]

----------------------------------------------------------------------------
(* openRtpServer                                                           *)

Goto(h, step) == pc' = [pc EXCEPT ![h] = step] /\ UNCHANGED reply
Answer(h, r) == pc' = [pc EXCEPT ![h] = "done"] /\ reply' = [reply EXCEPT ![h] = r]

\* A name that is in the table is refused.
Find(h) ==
  /\ pc[h] = "new"
  /\ IF table[NameOf[h]] # None THEN Answer(h, "refused") ELSE Goto(h, "starting")
  /\ UNCHANGED << table, mode, dialed, wired, orphans, detaches, processVars, timeouts >>

\* start(): the UDP ports cannot be bound.
StartFails(h) ==
  /\ pc[h] = "starting"
  /\ Answer(h, "error")
  /\ UNCHANGED << table, mode, dialed, wired, orphans, detaches, processVars, timeouts >>

\* start(): the TCP port cannot be listened on.  The exception leaves before _on_cleanup is
\* set: the socket keeps itself and the helper.
ListenFails(h) ==
  /\ pc[h] = "starting" /\ mode[h] = "passive"
  /\ Answer(h, "error")
  /\ orphans' = orphans \cup {h}
  /\ UNCHANGED << table, mode, dialed, wired, detaches, processVars, timeouts >>

BugStart(h) ==
  /\ pc[h] = "starting"
  /\ Goto(h, "open")
  /\ UNCHANGED << table, mode, dialed, wired, orphans, detaches, processVars, timeouts >>

Start(h) ==
  /\ pc[h] = "starting"
  /\ Goto(h, "started")
  /\ UNCHANGED << table, mode, dialed, wired, orphans, detaches, processVars, timeouts >>

\* _map.emplace(): an entry that came up meanwhile stays (the assertion is compiled out).
Emplace(h) ==
  /\ pc[h] = "started"
  /\ table' = IF table[NameOf[h]] = None THEN [table EXCEPT ![NameOf[h]] = h] ELSE table
  /\ Goto(h, "emplaced")
  /\ UNCHANGED << mode, dialed, wired, orphans, detaches, processVars, timeouts >>

BugSetOnDetach(h) ==
  /\ pc[h] = "emplaced"
  /\ wired' = IF mode[h] = "dial" THEN wired ELSE wired \cup {h}
  /\ Goto(h, "wired")
  /\ UNCHANGED << table, mode, dialed, orphans, detaches, processVars, timeouts >>

\* setOnDetach(); the helper function returns the port and lets go of the server.
SetOnDetach(h) ==
  /\ pc[h] = "emplaced"
  /\ wired' = wired \cup {h}
  /\ Goto(h, "wired")
  /\ UNCHANGED << table, mode, dialed, orphans, detaches, processVars, timeouts >>

ReplyPort(h) ==
  /\ pc[h] = "wired" /\ mode[h] # "dial"
  /\ Answer(h, "ok")
  /\ UNCHANGED << table, mode, dialed, wired, orphans, detaches, processVars, timeouts >>

\* tcp_ip was given: the server is looked up by name once more, and connects.
Dial(h) ==
  /\ pc[h] = "wired" /\ mode[h] = "dial"
  /\ dialed' = [dialed EXCEPT ![h] = table[NameOf[h]]]
  /\ IF table[NameOf[h]] = None THEN Answer(h, "error") ELSE Goto(h, "dialing")
  /\ UNCHANGED << table, mode, wired, orphans, detaches, processVars, timeouts >>

\* connect() reports.  A server that is gone by then is reported as a failure, if the socket
\* lived long enough to report at all.
Connected(h, ok) ==
  /\ pc[h] = "dialing"
  /\ \/ ~ Alive(dialed[h]) /\ Goto(h, "lost")
     \/ Alive(dialed[h]) /\ mode[dialed[h]] # "dial" /\ Goto(h, "failed")
     \/ /\ Alive(dialed[h]) /\ mode[dialed[h]] = "dial"
        /\ IF ok THEN Answer(h, "ok") ELSE Goto(h, "failed")
  /\ UNCHANGED << table, mode, dialed, wired, orphans, detaches, processVars, timeouts >>

BugDropFailed(h) ==
  /\ pc[h] \in {"failed", "lost"}
  /\ Answer(h, "error")
  /\ UNCHANGED << table, mode, dialed, wired, orphans, detaches, processVars, timeouts >>

\* The failure takes the entry away, by name, and is replied.
DropFailed(h) ==
  /\ pc[h] \in {"failed", "lost"}
  /\ Erase(NameOf[h])
  /\ Answer(h, "error")
  /\ UNCHANGED << mode, dialed, wired, orphans, detaches, processVars, timeouts >>

\* closeRtpServer
Close(n) ==
  /\ table[n] # None
  /\ Erase(n)
  /\ UNCHANGED << handlerVars, wired, orphans, detaches, processVars, timeouts >>

----------------------------------------------------------------------------
(* onDetach(): the callback of the helper, then the timeout event.         *)

Detach(s, cause) == [of |-> s, cause |-> cause,
                     step |-> IF s \in wired THEN "erase" ELSE "tell"]

\* onManager(), every 3 s.  A handler, a connect result or another call of onDetach() does not
\* last that long: a second round finds the process only if something keeps it.
TimedOut(s) ==
  /\ ProcessLives(s) /\ s \notin fed /\ watch[s] # "paused"
  /\ pc[s] \notin {"started", "emplaced"} /\ (timeouts[s] > 0 => Listed(s) \/ s \in orphans)
  /\ ~ \E d \in detaches : d.of = s /\ d.cause = "timeout"
  /\ detaches' = detaches \cup {Detach(s, "timeout")}
  /\ UNCHANGED << table, handlerVars, wired, orphans, processVars, timeouts >>

\* A TCP peer goes, publishing is refused, or the stream is closed.
Errs(s) ==
  /\ Alive(s) /\ s \in wired
  /\ ~ \E d \in detaches : d.of = s /\ d.cause = "error"
  /\ detaches' = detaches \cup {Detach(s, "error")}
  /\ UNCHANGED << table, handlerVars, wired, orphans, processVars, timeouts >>

BugDetachErases(s) ==
  \E d \in detaches :
    /\ d.of = s /\ d.step = "erase"
    /\ IF d.cause = "error" THEN Erase(NameOf[s]) ELSE UNCHANGED table
    /\ detaches' = (detaches \ {d})
         \cup (IF d.cause = "timeout" THEN {[d EXCEPT !.step = "tell"]} ELSE {})
    /\ UNCHANGED << handlerVars, wired, orphans, processVars, timeouts >>

\* s_rtp_server.erase(key)
DetachErases(s) ==
  \E d \in detaches :
    /\ d.of = s /\ d.step = "erase"
    /\ Erase(NameOf[s])
    /\ detaches' = (detaches \ {d})
         \cup (IF d.cause = "timeout" THEN {[d EXCEPT !.step = "tell"]} ELSE {})
    /\ UNCHANGED << handlerVars, wired, orphans, processVars, timeouts >>

\* on_rtp_server_timeout goes out.
DetachTells(s) ==
  \E d \in detaches :
    /\ d.of = s /\ d.step = "tell"
    /\ detaches' = detaches \ {d}
    /\ timeouts' = [timeouts EXCEPT ![s] = IF @ < 2 THEN @ + 1 ELSE @]
    /\ UNCHANGED << table, handlerVars, wired, orphans, processVars >>

----------------------------------------------------------------------------
(* The device, and the pause of the watchdog.                              *)

Feed(s) ==
  /\ Alive(s) /\ s \notin fed
  /\ fed' = fed \cup {s}
  /\ UNCHANGED << table, handlerVars, wired, orphans, detaches, watch, timeouts >>

Starve(s) ==
  /\ s \in fed
  /\ fed' = fed \ {s}
  /\ UNCHANGED << table, handlerVars, wired, orphans, detaches, watch, timeouts >>

\* pauseRtpTimeout(true); it needs the stream that the data made.
Pause(s) ==
  /\ Alive(s) /\ s \in fed /\ watch[s] = "on" /\ s \in Pausable
  /\ watch' = [watch EXCEPT ![s] = "paused"]
  /\ UNCHANGED << table, handlerVars, wired, orphans, detaches, fed, timeouts >>

BugPauseEnds(s) == FALSE /\ UNCHANGED vars

\* pauseRtpTimeout(false), or the check after pause_seconds.
PauseEnds(s) ==
  /\ watch[s] = "paused"
  /\ watch' = [watch EXCEPT ![s] = "spent"]
  /\ UNCHANGED << table, handlerVars, wired, orphans, detaches, fed, timeouts >>

----------------------------------------------------------------------------
Handler(h) == \/ Find(h) \/ StartFails(h) \/ ListenFails(h) \/ Start(h) \/ Emplace(h)
              \/ SetOnDetach(h) \/ ReplyPort(h) \/ Dial(h) \/ DropFailed(h)
              \/ \E ok \in BOOLEAN : Connected(h, ok)

Ending(s) == TimedOut(s) \/ Errs(s) \/ DetachErases(s) \/ DetachTells(s)

Device(s) == Feed(s) \/ Starve(s) \/ Pause(s) \/ PauseEnds(s)

Next == \/ \E h \in Opens : Handler(h) \/ Ending(h) \/ Device(h)
        \/ \E n \in Names : Close(n)

\* A handler goes on once it has begun; the timer, the detaching threads and the end of a
\* pause come.  Requests, closes, errors and data are never owed, nor is the result of connect
\* on a server that is gone.
Fairness ==
  \A h \in Opens :
    /\ WF_vars(StartFails(h) \/ Start(h) \/ Emplace(h) \/ SetOnDetach(h) \/ ReplyPort(h)
                 \/ Dial(h) \/ DropFailed(h))
    /\ WF_vars(DetachErases(h) \/ DetachTells(h))
    /\ WF_vars(TimedOut(h))
    /\ WF_vars(PauseEnds(h))

Spec == Init /\ [][Next]_vars
FairSpec == Spec /\ Fairness

----------------------------------------------------------------------------
(* Properties                                                              *)

\* Every variable has its type.
TypeOK ==
  /\ table \in [Names -> Opens \cup {None}]
  /\ mode \in [Opens -> Modes]
  /\ pc \in [Opens -> {"new", "starting", "started", "emplaced", "wired", "dialing",
                       "failed", "lost", "done"}]
  /\ dialed \in [Opens -> Opens \cup {None}]
  /\ reply \in [Opens -> {"none", "ok", "refused", "error"}]
  /\ wired \subseteq Opens /\ orphans \subseteq Opens /\ fed \subseteq Opens
  /\ detaches \subseteq [of : Opens, cause : {"timeout", "error"}, step : {"erase", "tell"}]
  /\ watch \in [Opens -> {"on", "paused", "spent"}]
  /\ timeouts \in [Opens -> 0 .. 2]

\* The signalling side hears of the timeout of a server once: by then the watchdog has taken
\* the server down, whatever else was ending it or opening its name again.
TimeoutReportedOnce == \A s \in Opens : timeouts[s] <= 1

\* So it is for every server whose start() came to its end.
StartedTimesOutOnce == \A s \in Opens \ orphans : timeouts[s] <= 1

\* A request that failed leaves no server behind that would have a retry refused with "This
\* stream already exists": a connect that failed has taken the entry away.
FailureFreesName == \A h \in Opens : reply[h] = "error" => ~ Listed(h)

\* A server that receives nothing any more is taken down in the end, although its watchdog was
\* paused.
UnfedIsRemoved == \A s \in Opens : <>[](s \notin fed) => <>[](~ Listed(s))
=============================================================================
