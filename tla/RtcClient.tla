----------------------------- MODULE RtcClient -----------------------------
(***************************************************************************)
(* The web page that plays and pushes over WebRTC (src/www/webrtc): the    *)
(* buttons of index.html and the RTCEndpoint of ZLMRTCClient.js.           *)
(*                                                                         *)
(* The page runs on one thread, but start(), the capture of a camera, the  *)
(* exchange of offer and answer and the switch of a device are chains of   *)
(* promises: each callback is one action, and buttons come in between.     *)
(* player is the one endpoint the page knows; an endpoint that start_play  *)
(* replaces is not closed by anyone.  A closed endpoint has neither pc nor *)
(* options, and every callback that uses one of them throws there.         *)
(*                                                                         *)
(* Definitions whose names begin with Bug are mutants of the definition    *)
(* that follows them; no specification uses them.                          *)
(***************************************************************************)
EXTENDS Naturals, Sequences, FiniteSets

CONSTANTS
  Users,     \* subset of {"patient", "any"}: who presses the buttons
  Modes,     \* subset of {"camera", "screen", "play"}: pushing a camera or a screen, or recvOnly
  Enabled,   \* the kinds that audioEnable and videoEnable allow
  MaxClicks  \* bound: buttons pressed

ASSUME RtcAssumption ==
  /\ Users \subseteq {"patient", "any"} /\ Modes \subseteq {"camera", "screen", "play"}
  /\ Enabled \subseteq {"audio", "video"} /\ Enabled # {}
  /\ MaxClicks \in Nat

Endpoints == 1 .. MaxClicks
NoPlayer == 0

\* A captured track: its endpoint (or 0, a probe of isSupportResolution), its kind, and the
\* click that switched to it (0: captured by start()).
Track == [of : 0 .. MaxClicks, kind : {"audio", "video"}, click : 0 .. MaxClicks]

VARIABLES
  user,      \* who presses the buttons
  player,    \* player of index.html: an endpoint, or NoPlayer (null)
  probes,    \* calls of isSupportResolution whose promise is pending
  switches,  \* captures of switchVideo and switcAudio that are pending
  ep,        \* the endpoints
  live,      \* captured tracks nobody has stopped
  clicks     \* buttons pressed

vars == << user, player, probes, switches, ep, live, clicks >>

----------------------------------------------------------------------------
(* An endpoint.  phase: the promise its chain waits for, "done" when the   *)
(* answer was handed to setRemoteDescription(), "over" when the chain      *)
(* ended before, "unheard" when a step after the capture was rejected: no  *)
(* catch() there tells the page.  The members are those of Endpoint.       *)

Unused == [phase |-> "unused", screen |-> FALSE, open |-> FALSE,
           local |-> {}, senders |-> {}, replacing |-> << >>, expected |-> {},
           grouped |-> FALSE, tracks |-> {}, shown |-> {}, told |-> FALSE, late |-> FALSE,
           switched |-> 0]

Used == {e \in Endpoints : ep[e].phase # "unused"}
Over == {"done", "over", "unheard"}

\* The page waits for nothing.
Idle == /\ probes = {} /\ switches = {}
        /\ \A e \in Used : ep[e].phase \in Over /\ ep[e].replacing = << >>

\* What is left of an endpoint whose pc and options are gone.
Shut(rec) == [rec EXCEPT !.open = FALSE, !.senders = {}, !.replacing = << >>,
                         !.expected = {}, !.grouped = FALSE, !.tracks = {}, !.shown = {}]

BugClose(eps, tracks, e) ==
  /\ ep' = [eps EXCEPT ![e] = Shut(@)]
  /\ live' = tracks

\* close(): the tracks that are in _localStream now are stopped.
Close(eps, tracks, e) ==
  /\ ep' = [eps EXCEPT ![e] = Shut(@)]
  /\ live' = tracks \ eps[e].local

\* stop() of the page: closes the player it knows.
Stop(eps, tracks) ==
  /\ player' = NoPlayer
  /\ IF player = NoPlayer THEN ep' = eps /\ live' = tracks ELSE Close(eps, tracks, player)

\* new Endpoint(): start() captures, receive() goes on with the offer.
Fresh(mode) ==
  [Unused EXCEPT !.phase = IF mode = "play" THEN "offering" ELSE "capturing",
                 !.screen = (mode = "screen"), !.open = TRUE]

BugStartPlay(eps, mode) ==
  LET e == Cardinality({x \in Endpoints : eps[x].phase # "unused"}) + player + 1
  IN  player' = e /\ ep' = [eps EXCEPT ![e] = Fresh(mode)]

\* start_play(): player is overwritten, whatever it was.
StartPlay(eps, mode) ==
  LET e == Cardinality({x \in Endpoints : eps[x].phase # "unused"}) + 1
  IN  player' = e /\ ep' = [eps EXCEPT ![e] = Fresh(mode)]

----------------------------------------------------------------------------
Init ==
  /\ user \in Users
  /\ player = NoPlayer /\ probes = {} /\ switches = {}
  /\ ep = [e \in Endpoints |-> Unused] /\ live = {} /\ clicks = 0

(* The buttons.  A patient user presses none while the page is waiting.    *)

Click ==
  /\ clicks < MaxClicks /\ clicks' = clicks + 1
  /\ user = "patient" => Idle
  /\ UNCHANGED user

\* start() for a camera: stop, then ask whether the camera has the resolution.
ClickProbe ==
  /\ Click
  /\ Stop(ep, live)
  /\ probes' = probes \cup {clicks'}
  /\ UNCHANGED switches

\* start() for a screen or to receive: stop and start in one go.
ClickStart(mode) ==
  /\ Click
  /\ LET closed == IF player = NoPlayer THEN ep
                   ELSE [ep EXCEPT ![player] = Shut(@)]
     IN  StartPlay(closed, mode)
  /\ live' = IF player = NoPlayer THEN live ELSE live \ ep[player].local
  /\ UNCHANGED << probes, switches >>

ClickStop ==
  /\ Click
  /\ player # NoPlayer
  /\ Stop(ep, live)
  /\ UNCHANGED << probes, switches >>

\* switchVideo(), switcAudio(): the capture begins.
ClickSwitch(kind) ==
  /\ Click
  /\ player # NoPlayer
  /\ switches' = switches \cup {[of |-> player, kind |-> kind, click |-> clicks']}
  /\ ep' = [ep EXCEPT ![player].switched = @ + 1]
  /\ UNCHANGED << player, probes, live >>

----------------------------------------------------------------------------
(* isSupportResolution(), for a camera that pushes.                        *)

BugProbeSucceeds(p) ==
  /\ probes' = probes \ {p}
  /\ live' = live \cup {[of |-> 0, kind |-> "video", click |-> p]}
  /\ StartPlay(ep, "camera")
  /\ UNCHANGED << user, switches, clicks >>

\* The camera was opened and is stopped at once; then start_play() runs, without a look at
\* what happened meanwhile.
ProbeSucceeds(p) ==
  /\ probes' = probes \ {p}
  /\ StartPlay(ep, "camera")
  /\ UNCHANGED << user, switches, live, clicks >>

ProbeFails(p) ==
  /\ probes' = probes \ {p}
  /\ UNCHANGED << user, player, switches, ep, live, clicks >>

----------------------------------------------------------------------------
(* The chain of start() and receive().                                     *)

Own == UNCHANGED << user, player, probes, switches, clicks >>

\* What a camera or a screen gives: a screen may come without sound.
Granted(e) == IF ep[e].screen /\ "video" \in Enabled
              THEN {{"video"}, Enabled} ELSE {Enabled}

\* The stream is kept and shown first; then this.options of a closed endpoint throws, and the
\* catch() reports that the capture failed.
Captured(e) ==
  /\ ep[e].phase = "capturing"
  /\ \E kinds \in Granted(e) :
       LET stream == [of : {e}, kind : kinds, click : {0}]
       IN  /\ live' = live \cup stream
           /\ ep' = IF ep[e].open
                    THEN [ep EXCEPT ![e].phase = "offering", ![e].local = stream,
                                    ![e].senders = stream]
                    ELSE [ep EXCEPT ![e].phase = "over", ![e].local = stream, ![e].late = TRUE,
                                    ![e].told = TRUE]
  /\ Own

BugCaptureFails(e) ==
  /\ ep[e].phase = "capturing"
  /\ ep' = [ep EXCEPT ![e].phase = "over"]
  /\ UNCHANGED live /\ Own

CaptureFails(e) ==
  /\ ep[e].phase = "capturing"
  /\ ep' = [ep EXCEPT ![e].phase = "over", ![e].told = TRUE]
  /\ UNCHANGED live /\ Own

\* createOffer() and setLocalDescription() succeed: on an endpoint closed before either, the
\* next callback throws and nothing is posted.
Offers(e) ==
  /\ ep[e].phase = "offering"
  /\ ep' = [ep EXCEPT ![e].phase = IF ep[e].open THEN "posting" ELSE "over"]
  /\ UNCHANGED live /\ Own

\* createOffer() is rejected, which catch() logs, or setLocalDescription(), whose promise is not
\* returned to the chain: no event is dispatched and the endpoint stays as it is.
OfferFails(e) ==
  /\ ep[e].phase = "offering" /\ ep[e].open
  /\ ep' = [ep EXCEPT ![e].phase = "unheard"]
  /\ UNCHANGED live /\ Own

\* The server answers with some of the kinds, as one stream or as loose tracks, and the answer
\* is handed to setRemoteDescription().
Answered(e) ==
  /\ ep[e].phase = "posting"
  /\ IF ep[e].open
     THEN \E kinds \in SUBSET Enabled : \E grouped \in {FALSE, kinds # {}} :
            ep' = [ep EXCEPT ![e].phase = "done", ![e].expected = kinds, ![e].grouped = grouped]
     ELSE ep' = [ep EXCEPT ![e].phase = "over"]
  /\ UNCHANGED live /\ Own

\* The server refuses: the page's handler stops the player it knows, be it this one or not.
Refused(e) ==
  /\ ep[e].phase = "posting"
  /\ Stop([ep EXCEPT ![e].phase = "over", ![e].told = TRUE], live)
  /\ UNCHANGED << user, probes, switches, clicks >>

\* The promise of axios is not returned to the chain either: its rejection reaches no catch().
PostFails(e) ==
  /\ ep[e].phase = "posting"
  /\ ep' = [ep EXCEPT ![e].phase = "unheard"]
  /\ UNCHANGED live /\ Own

\* setRemoteDescription() is rejected, in time or late, and its catch() only logs.  Had it
\* succeeded, the events of the tracks would have come with it.
RemoteFails(e) ==
  /\ ep[e].phase = "done" /\ ep[e].open /\ ep[e].tracks = {}
  /\ ep' = [ep EXCEPT ![e].phase = "unheard", ![e].expected = {}, ![e].grouped = FALSE]
  /\ UNCHANGED live /\ Own

BugShown(e, tracks) ==
  IF ep[e].grouped THEN ep[e].expected
  ELSE IF ep[e].tracks = Enabled THEN tracks ELSE ep[e].shown

\* _remoteStream after a track event: the stream the track came with, or a stream of the
\* tracks so far once there are as many of them as receivers.
Shown(e, tracks) ==
  IF ep[e].grouped THEN ep[e].expected
  ELSE IF tracks = Enabled THEN tracks ELSE ep[e].shown

\* _onTrack(); a closed connection has no events.
OnTrack(e, kind) ==
  /\ ep[e].phase = "done" /\ ep[e].open /\ kind \in ep[e].expected \ ep[e].tracks
  /\ ep' = [ep EXCEPT ![e].tracks = @ \cup {kind},
                      ![e].shown = Shown(e, ep[e].tracks \cup {kind})]
  /\ UNCHANGED live /\ Own

----------------------------------------------------------------------------
(* The captures of switchVideo() and switcAudio().                         *)

\* getSenders().find(): asks the senders in order, the one of the audio first; a sender
\* without a track throws, and so does a closed endpoint.
FindsSender(e, kind) ==
  /\ ep[e].open
  /\ \E t \in ep[e].senders : t.kind = kind
  /\ kind = "video" /\ "audio" \in Enabled => \E t \in ep[e].senders : t.kind = "audio"

BugSwitched(s) ==
  /\ switches' = switches \ {s}
  /\ live' = live \cup {s}
  /\ IF FindsSender(s.of, s.kind)
     THEN ep' = [ep EXCEPT ![s.of].local = @ \ {t \in ep[s.of].senders : t.kind = s.kind},
                           ![s.of].replacing = Append(@, s)]
     ELSE UNCHANGED ep
  /\ UNCHANGED << user, player, probes, clicks >>

\* The new track takes the place of the sender's in _localStream.  Nobody stops the old one,
\* and nobody stops the new one when no sender is found.
Switched(s) ==
  /\ switches' = switches \ {s}
  /\ live' = live \cup {s}
  /\ IF FindsSender(s.of, s.kind)
     THEN ep' = [ep EXCEPT ![s.of].local = (@ \ {t \in ep[s.of].senders : t.kind = s.kind})
                                             \cup {s},
                           ![s.of].replacing = Append(@, s)]
     ELSE UNCHANGED ep
  /\ UNCHANGED << user, player, probes, clicks >>

SwitchFails(s) ==
  /\ switches' = switches \ {s}
  /\ UNCHANGED << user, player, probes, ep, live, clicks >>

\* The promise of replaceTrack(): only now the sender has the new track.
Replaced(e) ==
  /\ ep[e].replacing # << >>
  /\ LET s == Head(ep[e].replacing)
     IN  ep' = [ep EXCEPT ![e].replacing = Tail(@),
                          ![e].senders = IF ep[e].open
                                         THEN {t \in @ : t.kind # s.kind} \cup {s} ELSE @]
  /\ UNCHANGED live /\ Own

----------------------------------------------------------------------------
Buttons == \/ "camera" \in Modes /\ ClickProbe
           \/ (\E mode \in Modes \ {"camera"} : ClickStart(mode))
           \/ ClickStop
           \/ \E kind \in Enabled : ClickSwitch(kind)

Probed == \E p \in probes : ProbeSucceeds(p) \/ ProbeFails(p)

Chain(e) == \/ Captured(e) \/ CaptureFails(e) \/ Offers(e) \/ OfferFails(e)
            \/ Answered(e) \/ Refused(e) \/ PostFails(e)

Tracks(e) == \E kind \in Enabled : OnTrack(e, kind)

Switching == \E s \in switches : Switched(s) \/ SwitchFails(s)

Next == \/ Buttons
        \/ Probed
        \/ Switching
        \/ \E e \in Endpoints : Chain(e) \/ RemoteFails(e) \/ Tracks(e) \/ Replaced(e)

Spec == Init /\ [][Next]_vars

\* The browser settles its promises and delivers its events; a user may press nothing, and
\* setRemoteDescription() need not fail.
Fairness ==
  /\ WF_vars(Probed) /\ WF_vars(Switching)
  /\ \A e \in Endpoints : WF_vars(Chain(e)) /\ WF_vars(Tracks(e)) /\ WF_vars(Replaced(e))

FairSpec == Spec /\ Fairness

----------------------------------------------------------------------------
(* Properties                                                              *)

Phases == {"unused", "capturing", "offering", "posting"} \cup Over

Endpoint == [
  phase : Phases, screen : BOOLEAN,
  open : BOOLEAN,             \* pc and options are there
  local : SUBSET Track,       \* _localStream
  senders : SUBSET Track,     \* what the senders of pc send
  replacing : Seq(Track),     \* replaceTrack() calls whose promise is pending
  expected : SUBSET Enabled, grouped : BOOLEAN,  \* what the server answered
  tracks : SUBSET Enabled,    \* track events so far
  shown : SUBSET Enabled,     \* _remoteStream
  told : BOOLEAN,             \* a failure was reported to the page
  late : BOOLEAN,             \* history: the capture succeeded after close()
  switched : Nat]             \* history: switches asked for

\* Every variable has its type.
TypeOK ==
  /\ user \in Users /\ player \in 0 .. MaxClicks /\ clicks \in 0 .. MaxClicks
  /\ probes \subseteq 1 .. MaxClicks /\ switches \subseteq Track /\ live \subseteq Track
  /\ ep \in [Endpoints -> Endpoint]

\* A user who waits for each step has one endpoint at a time, the one the page can stop, and
\* no camera but its own: nothing is captured for a page that has been stopped, and what
\* switches leave running is at most one track for each.
PageInControl ==
  user = "patient" =>
    /\ \A e \in Used : ep[e].open => e = player
    /\ \A e \in Used : ~ ep[e].late
    /\ \A t \in live : t.of # 0

\* Whoever presses the buttons, a closed endpoint has stopped what it captured before it was
\* closed, but for one track for each switch: the one that was switched away from, or to.
CloseReleases ==
  \A e \in Used : ~ ep[e].open /\ ~ ep[e].late =>
    Cardinality({t \in live : t.of = e}) <= ep[e].switched

\* The page shows the stream it receives, with all that the server sends.
Playing(e) == ep[e].phase = "done" /\ ep[e].shown # {} /\ ep[e].shown = ep[e].expected

\* The answer has loose tracks, and not one for every receiver: _onTrack() waits for the others,
\* shows nothing and says so to nobody.  An endpoint that pushes and gets nothing back is one.
Incomplete(e) == ep[e].phase = "done" /\ ~ ep[e].grouped /\ ep[e].expected # Enabled

\* Every endpoint comes to an end the page can see: it is closed, its failure is reported, or
\* it plays.  The exceptions: the rejection of a step after the capture (createOffer(),
\* setLocalDescription(), the request, setRemoteDescription()) is reported to nobody, and an
\* answer that is Incomplete shows nothing.
Settles ==
  \A e \in Endpoints :
    ep[e].phase # "unused" ~>
      \/ ~ ep[e].open
      \/ ep[e].told
      \/ Playing(e)
      \/ ep[e].phase = "unheard" \/ Incomplete(e)
=============================================================================
