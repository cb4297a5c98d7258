-------------------------- MODULE RtcClient_proofs --------------------------
(***************************************************************************)
(* What the WebRTC page keeps control of and what close() releases, for    *)
(* any number of buttons pressed.                                          *)
(*                                                                         *)
(* A button may close one endpoint and make the next in one step, so the   *)
(* parts of the invariant are operators of the endpoints, the tracks that  *)
(* are on and what is pending; each helper of RtcClient keeps them.        *)
(***************************************************************************)
EXTENDS RtcClient, FiniteSetTheorems, TLAPS

EpType == [Endpoints -> Endpoint]

UsedIn(eps) == {e \in Endpoints : eps[e].phase # "unused"}

\* The player of the page, if it has one, is an endpoint.
Known(eps, pl) == pl # NoPlayer => pl \in UsedIn(eps)

\* Endpoints are numbered from 1; each of them, and each probe, has cost one of n clicks.
Numbered(eps, pl, pr, n) ==
  /\ \E k \in Nat : UsedIn(eps) = 1 .. k /\ k + Cardinality(pr) <= n
  /\ Known(eps, pl)

\* With a user who waits there is one thing at a time: a probe while there is no player, or the
\* chain of the player, which is open.
OneAtATime(eps, pl, pr) ==
  /\ \A p, q \in pr : p = q
  /\ pr # {} => pl = NoPlayer
  /\ \A e \in UsedIn(eps) :
       /\ eps[e].open \/ eps[e].phase \notin Over => e = pl
       /\ eps[e].phase \notin Over => eps[e].open
       /\ ~ eps[e].late

\* Where tracks come from: a switch belongs to an endpoint, and its track has not come yet.
Arrived(eps, tracks, sw, n) ==
  /\ \A s \in sw : s.of \in UsedIn(eps) /\ s.click \in 1 .. n
  /\ \A t \in tracks : t.of \in UsedIn(eps) /\ t.click <= n /\ t \notin sw

\* What an endpoint holds is its own; a sender has one track of a kind; nothing is held before
\* the capture.
Holds(e, r, sw, n) ==
  /\ \A t \in r.local : t.of = e /\ t.click <= n /\ t \notin sw
  /\ \A s, t \in r.senders : s.kind = t.kind => s = t
  /\ r.phase \in {"unused", "capturing"} =>
       r.local = {} /\ r.senders = {} /\ r.replacing = << >>
  /\ r.phase = "unused" => ~ r.open

\* The tracks of an endpoint that close() does not reach.
Astray(e, r, tracks) == {t \in tracks : t.of = e} \ r.local
Pending(e, sw) == {s \in sw : s.of = e}

\* Each track astray has cost a switch, and so will each pending one.
Paid(e, r, tracks, sw) ==
  /\ Cardinality(Astray(e, r, tracks)) + Cardinality(Pending(e, sw)) <= r.switched
  /\ ~ r.open /\ ~ r.late => tracks \cap r.local = {}

\* All that is said of the endpoints, the tracks and the switches.
Sound(eps, tracks, sw, n) ==
  /\ eps \in EpType /\ tracks \in SUBSET Track /\ IsFiniteSet(tracks)
  /\ sw \in SUBSET Track /\ IsFiniteSet(sw)
  /\ Arrived(eps, tracks, sw, n)
  /\ \A e \in Endpoints : Holds(e, eps[e], sw, n) /\ Paid(e, eps[e], tracks, sw)

IInv ==
  /\ user \in Users /\ clicks \in 0 .. MaxClicks /\ probes \in SUBSET (1 .. MaxClicks)
  /\ Sound(ep, live, switches, clicks)
  /\ Numbered(ep, player, probes, clicks)
  /\ user = "patient" => OneAtATime(ep, player, probes)

----------------------------------------------------------------------------
(* An endpoint changes                                                     *)

LEMMA UsedKept ==
  ASSUME NEW eps \in EpType, NEW e \in Endpoints, NEW r \in Endpoint,
         r.phase # "unused", eps[e].phase # "unused"
  PROVE  /\ [eps EXCEPT ![e] = r] \in EpType
         /\ UsedIn([eps EXCEPT ![e] = r]) = UsedIn(eps)
         /\ [eps EXCEPT ![e] = r][e] = r
         /\ \A x \in Endpoints \ {e} : [eps EXCEPT ![e] = r][x] = eps[x]
  BY DEF EpType, UsedIn

LEMMA FiniteParts ==
  ASSUME NEW tracks, IsFiniteSet(tracks), NEW sw, IsFiniteSet(sw), NEW e, NEW r
  PROVE  /\ IsFiniteSet(Astray(e, r, tracks)) /\ Cardinality(Astray(e, r, tracks)) \in Nat
         /\ IsFiniteSet(Pending(e, sw)) /\ Cardinality(Pending(e, sw)) \in Nat
<1>1. Astray(e, r, tracks) \in SUBSET tracks /\ Pending(e, sw) \in SUBSET sw
  BY DEF Astray, Pending
<1> QED
  BY <1>1, FS_Subset, FS_CardinalityType

LEMMA OneMore ==
  ASSUME NEW S, IsFiniteSet(S), NEW x, NEW T \in SUBSET (S \cup {x})
  PROVE  Cardinality(T) \in Nat /\ Cardinality(T) <= Cardinality(S) + 1
<1> DEFINE wider == S \cup {x}
<1>1. Cardinality(S) \in Nat
  BY FS_CardinalityType
<1>2. IsFiniteSet(wider)
      /\ Cardinality(wider) = IF x \in S THEN Cardinality(S) ELSE Cardinality(S) + 1
  BY FS_AddElement
<1> HIDE DEF wider
<1>3. Cardinality(T) <= Cardinality(wider) /\ IsFiniteSet(T)
  BY <1>2, FS_Subset DEF wider
<1>4. Cardinality(T) \in Nat
  BY <1>3, FS_CardinalityType
<1> QED
  BY <1>1, <1>2, <1>3, <1>4

\* A step of an endpoint that leaves its tracks alone.
LEMMA SoundKept ==
  ASSUME NEW eps, NEW tracks, NEW sw, NEW n, Sound(eps, tracks, sw, n),
         NEW e \in Endpoints, NEW r \in Endpoint,
         eps[e].phase # "unused", r.phase \notin {"unused", "capturing"},
         r.local = eps[e].local, r.open = eps[e].open, r.late = eps[e].late,
         r.switched = eps[e].switched,
         \A s, t \in r.senders : s.kind = t.kind => s = t
  PROVE  Sound([eps EXCEPT ![e] = r], tracks, sw, n)
<1> DEFINE new == [eps EXCEPT ![e] = r]
<1>1. /\ new \in EpType /\ UsedIn(new) = UsedIn(eps) /\ new[e] = r
      /\ \A x \in Endpoints \ {e} : new[x] = eps[x]
  BY UsedKept DEF Sound
<1> HIDE DEF new
<1>2. Arrived(new, tracks, sw, n)
  BY <1>1 DEF Sound, Arrived
<1>3. Holds(e, r, sw, n) /\ Paid(e, r, tracks, sw)
  <2>1. Holds(e, eps[e], sw, n) /\ Paid(e, eps[e], tracks, sw)
    BY DEF Sound
  <2>2. Holds(e, r, sw, n)
    BY <2>1 DEF Holds
  <2>3. Paid(e, r, tracks, sw)
    BY <2>1 DEF Paid, Astray
  <2> QED
    BY <2>2, <2>3
<1>4. \A x \in Endpoints : Holds(x, new[x], sw, n) /\ Paid(x, new[x], tracks, sw)
  BY <1>1, <1>3 DEF Sound
<1>5. Sound(new, tracks, sw, n)
  BY <1>1, <1>2, <1>4 DEF Sound
<1> QED
  BY <1>5 DEF new

\* close() stops what the endpoint holds, and nothing of another endpoint.
LEMMA ShutType ==
  ASSUME NEW r \in Endpoint
  PROVE  /\ Shut(r) \in Endpoint
         /\ Shut(r).phase = r.phase /\ Shut(r).local = r.local /\ Shut(r).late = r.late
         /\ Shut(r).switched = r.switched /\ ~ Shut(r).open
         /\ Shut(r).senders = {} /\ Shut(r).replacing = << >>
<1>1. /\ << >> \in Seq(Track) /\ {} \in SUBSET Track /\ {} \in SUBSET Enabled
      /\ FALSE \in BOOLEAN
  OBVIOUS
<1>2. ASSUME NEW b \in BOOLEAN, NEW sq \in Seq(Track)
      PROVE  [r EXCEPT !.open = b, !.senders = {}, !.replacing = sq, !.expected = {},
                       !.grouped = b, !.tracks = {}, !.shown = {}] \in Endpoint
  BY DEF Endpoint
<1>3. Shut(r) \in Endpoint
  BY <1>1, <1>2 DEF Shut
<1>4. /\ Shut(r).phase = r.phase /\ Shut(r).local = r.local /\ Shut(r).late = r.late
      /\ Shut(r).switched = r.switched /\ Shut(r).open = FALSE
      /\ Shut(r).senders = {} /\ Shut(r).replacing = << >>
  BY DEF Shut, Endpoint
<1> QED
  BY <1>3, <1>4

LEMMA SoundClosed ==
  ASSUME NEW eps, NEW tracks, NEW sw, NEW n, Sound(eps, tracks, sw, n),
         NEW e \in UsedIn(eps)
  PROVE  Sound([eps EXCEPT ![e] = Shut(@)], tracks \ eps[e].local, sw, n)
<1> DEFINE r == Shut(eps[e])
           new == [eps EXCEPT ![e] = r]
           rest == tracks \ eps[e].local
<1>0. e \in Endpoints /\ eps[e] \in Endpoint /\ eps[e].phase # "unused"
  BY DEF UsedIn, Sound, EpType
<1>1. /\ r \in Endpoint /\ r.phase = eps[e].phase /\ r.local = eps[e].local
      /\ r.late = eps[e].late /\ r.switched = eps[e].switched /\ ~ r.open
      /\ r.senders = {} /\ r.replacing = << >>
  BY <1>0, ShutType
<1>2. /\ new \in EpType /\ UsedIn(new) = UsedIn(eps) /\ new[e] = r
      /\ \A x \in Endpoints \ {e} : new[x] = eps[x]
  BY <1>0, <1>1, UsedKept DEF Sound
<1>3. rest \in SUBSET tracks /\ rest \in SUBSET Track /\ IsFiniteSet(rest)
  BY FS_Subset DEF Sound
<1>4. Arrived(new, rest, sw, n)
  BY <1>2, <1>3 DEF Sound, Arrived
<1>5. Holds(e, r, sw, n)
  <2>1. Holds(e, eps[e], sw, n)
    BY <1>0 DEF Sound
  <2> QED
    BY <1>1, <2>1 DEF Holds
<1>6. Paid(e, r, rest, sw)
  <2>1. Astray(e, r, rest) = Astray(e, eps[e], tracks) /\ rest \cap r.local = {}
    BY <1>1 DEF Astray
  <2>2. Paid(e, eps[e], tracks, sw)
    BY <1>0 DEF Sound
  <2> QED
    BY <1>1, <2>1, <2>2 DEF Paid
<1>7. ASSUME NEW x \in Endpoints \ {e}
      PROVE  Paid(x, eps[x], rest, sw)
  <2>1. \A t \in eps[e].local : t.of = e
    BY <1>0 DEF Sound, Holds
  <2>2. Astray(x, eps[x], rest) = Astray(x, eps[x], tracks)
    BY <2>1 DEF Astray
  <2>3. Paid(x, eps[x], tracks, sw)
    BY DEF Sound
  <2> QED
    BY <1>3, <2>2, <2>3 DEF Paid
<1> HIDE DEF new, r, rest
<1>8. \A x \in Endpoints : Holds(x, new[x], sw, n) /\ Paid(x, new[x], rest, sw)
  BY <1>2, <1>5, <1>6, <1>7 DEF Sound
<1>9. Sound(new, rest, sw, n)
  BY <1>2, <1>3, <1>4, <1>8 DEF Sound
<1> QED
  BY <1>9 DEF new, r, rest

----------------------------------------------------------------------------
(* The buttons' helpers                                                    *)

\* A click more leaves all of it sound.
LEMMA SoundLater ==
  ASSUME NEW eps, NEW tracks, NEW sw, NEW n \in Nat, NEW m \in Nat, n <= m,
         Sound(eps, tracks, sw, n)
  PROVE  Sound(eps, tracks, sw, m)
<1>0. MaxClicks \in Nat
  BY RtcAssumption
<1>1. \A t \in Track : t.click \in Int
  BY <1>0 DEF Track
<1>2. tracks \in SUBSET Track /\ sw \in SUBSET Track
      /\ \A e \in Endpoints : eps[e].local \in SUBSET Track
  BY DEF Sound, EpType, Endpoint
<1>3. Arrived(eps, tracks, sw, m)
  BY <1>1, <1>2 DEF Sound, Arrived
<1>4. ASSUME NEW e \in Endpoints
      PROVE  Holds(e, eps[e], sw, m)
  <2>1. Holds(e, eps[e], sw, n) /\ eps[e].local \in SUBSET Track
    BY <1>2 DEF Sound
  <2> QED
    BY <1>1, <2>1 DEF Holds
<1> QED
  BY <1>3, <1>4 DEF Sound

\* The endpoints and the tracks after stop().
ShutOne(eps, pl) == IF pl = NoPlayer THEN eps ELSE [eps EXCEPT ![pl] = Shut(@)]
Silenced(eps, tracks, pl) == IF pl = NoPlayer THEN tracks ELSE tracks \ eps[pl].local

\* Nobody but the player changes, and the player is closed.
LEMMA OnlyPlayerShut ==
  ASSUME NEW eps \in EpType, NEW pl, Known(eps, pl)
  PROVE  /\ UsedIn(ShutOne(eps, pl)) = UsedIn(eps)
         /\ \A e \in Endpoints : /\ ShutOne(eps, pl)[e].phase = eps[e].phase
                                 /\ ShutOne(eps, pl)[e].late = eps[e].late
                                 /\ ShutOne(eps, pl)[e].open => eps[e].open /\ e # pl
<1>0. NoPlayer \notin Endpoints
  BY RtcAssumption DEF Endpoints, NoPlayer
<1>1. CASE pl = NoPlayer
  BY <1>0, <1>1 DEF ShutOne
<1>2. CASE pl # NoPlayer
  <2> DEFINE r == Shut(eps[pl])
             new == [eps EXCEPT ![pl] = r]
  <2>1. pl \in Endpoints /\ eps[pl] \in Endpoint /\ eps[pl].phase # "unused"
    BY <1>2 DEF Known, UsedIn, EpType
  <2>2. r \in Endpoint /\ r.phase = eps[pl].phase /\ r.late = eps[pl].late /\ ~ r.open
    BY <2>1, ShutType
  <2>3. /\ UsedIn(new) = UsedIn(eps) /\ new[pl] = r
        /\ \A x \in Endpoints \ {pl} : new[x] = eps[x]
    BY <2>1, <2>2, UsedKept
  <2>4. ShutOne(eps, pl) = new
    BY <1>2 DEF ShutOne
  <2> HIDE DEF new, r
  <2> QED
    BY <2>2, <2>3, <2>4
<1> QED
  BY <1>1, <1>2

LEMMA SoundStopped ==
  ASSUME NEW eps, NEW tracks, NEW sw, NEW n, Sound(eps, tracks, sw, n),
         NEW pl, Known(eps, pl)
  PROVE  Sound(ShutOne(eps, pl), Silenced(eps, tracks, pl), sw, n)
<1>1. CASE pl = NoPlayer
  BY <1>1 DEF ShutOne, Silenced
<1>2. CASE pl # NoPlayer
  BY <1>2, SoundClosed DEF ShutOne, Silenced, Known
<1> QED
  BY <1>1, <1>2

\* A new endpoint holds nothing, and nothing belongs to it yet.
LEMMA SoundStarted ==
  ASSUME NEW eps, NEW tracks, NEW sw, NEW n, Sound(eps, tracks, sw, n),
         NEW k \in Nat, UsedIn(eps) = 1 .. k, k + 1 \in Endpoints, NEW mode
  PROVE  /\ Sound([eps EXCEPT ![k + 1] = Fresh(mode)], tracks, sw, n)
         /\ UsedIn([eps EXCEPT ![k + 1] = Fresh(mode)]) = 1 .. k + 1
<1> DEFINE e == k + 1
           r == Fresh(mode)
           new == [eps EXCEPT ![e] = r]
<1>0. e \in Endpoints /\ e \notin UsedIn(eps) /\ eps \in EpType
  BY DEF Sound
<1>1. /\ r \in Endpoint /\ r.phase \in {"offering", "capturing"} /\ r.local = {}
      /\ r.senders = {} /\ r.replacing = << >> /\ r.open /\ r.switched = 0
  <2>1. << >> \in Seq(Track) /\ (mode = "screen") \in BOOLEAN
    OBVIOUS
  <2>2. ASSUME NEW b \in BOOLEAN, NEW sq \in Seq(Track), NEW ph \in {"offering", "capturing"}
        PROVE  [[Unused EXCEPT !.replacing = sq] EXCEPT !.phase = ph, !.screen = b, !.open = TRUE]
                 \in Endpoint
    BY DEF Unused, Endpoint, Phases
  <2>3. [Unused EXCEPT !.replacing = << >>] = Unused
    BY DEF Unused
  <2>4. r \in Endpoint
    BY <2>1, <2>2, <2>3 DEF Fresh
  <2>5. /\ r.phase \in {"offering", "capturing"} /\ r.local = {}
        /\ r.senders = {} /\ r.replacing = << >> /\ r.open = TRUE /\ r.switched = 0
    BY DEF Fresh, Unused
  <2> QED
    BY <2>4, <2>5
<1> HIDE DEF r
<1>2. /\ new \in EpType /\ new[e] = r /\ \A x \in Endpoints \ {e} : new[x] = eps[x]
  BY <1>0, <1>1 DEF EpType
<1>3. UsedIn(new) = UsedIn(eps) \cup {e}
  BY <1>0, <1>1, <1>2 DEF UsedIn
<1> HIDE DEF new
<1>4. UsedIn(new) = 1 .. k + 1
  <2>1. 1 .. k + 1 = (1 .. k) \cup {k + 1}
    OBVIOUS
  <2> QED
    BY <1>3, <2>1
<1>5. Arrived(new, tracks, sw, n)
  BY <1>3 DEF Sound, Arrived
<1>6. Holds(e, r, sw, n)
  BY <1>1 DEF Holds
<1>7. Paid(e, r, tracks, sw)
  <2>1. Astray(e, r, tracks) = {} /\ Pending(e, sw) = {}
    BY <1>0 DEF Sound, Arrived, Astray, Pending
  <2>2. Cardinality(Astray(e, r, tracks)) + Cardinality(Pending(e, sw)) <= r.switched
    <3>1. Cardinality(Astray(e, r, tracks)) = 0 /\ Cardinality(Pending(e, sw)) = 0
      BY <2>1, FS_EmptySet, Zenon
    <3> QED
      BY <1>1, <3>1
  <2>3. ~ r.open /\ ~ r.late => tracks \cap r.local = {}
    BY <1>1
  <2> QED
    BY <2>2, <2>3 DEF Paid
<1>8. \A x \in Endpoints : Holds(x, new[x], sw, n) /\ Paid(x, new[x], tracks, sw)
  BY <1>2, <1>6, <1>7 DEF Sound
<1>9. Sound(new, tracks, sw, n)
  BY <1>2, <1>5, <1>8 DEF Sound
<1> QED
  BY <1>4, <1>9 DEF new, r

----------------------------------------------------------------------------
(* The steps of an endpoint that leave its tracks alone                    *)

LEMMA OneKept ==
  ASSUME NEW eps \in EpType, NEW pl, NEW pr, OneAtATime(eps, pl, pr),
         NEW e \in Endpoints, NEW r \in Endpoint,
         eps[e].phase # "unused", r.phase # "unused",
         r.open = eps[e].open, r.late = eps[e].late,
         r.phase \in Over \/ eps[e].phase \notin Over
  PROVE  OneAtATime([eps EXCEPT ![e] = r], pl, pr)
<1> DEFINE new == [eps EXCEPT ![e] = r]
<1>1. /\ UsedIn(new) = UsedIn(eps) /\ new[e] = r
      /\ \A x \in Endpoints \ {e} : new[x] = eps[x]
  BY UsedKept
<1>2. e \in UsedIn(eps) /\ UsedIn(eps) \subseteq Endpoints
  BY DEF UsedIn
<1> HIDE DEF new
<1>3. OneAtATime(new, pl, pr)
  BY <1>1, <1>2 DEF OneAtATime
<1> QED
  BY <1>3 DEF new

LEMMA Quiet ==
  ASSUME IInv, NEW e \in Endpoints, NEW r \in Endpoint,
         ep[e].phase # "unused", r.phase \notin {"unused", "capturing"},
         r.phase \in Over \/ ep[e].phase \notin Over,
         r.local = ep[e].local, r.open = ep[e].open, r.late = ep[e].late,
         r.switched = ep[e].switched,
         \A s, t \in r.senders : s.kind = t.kind => s = t,
         ep' = [ep EXCEPT ![e] = r],
         UNCHANGED << user, player, probes, switches, live, clicks >>
  PROVE  IInv'
<1>1. ep \in EpType /\ Sound(ep, live, switches, clicks)
  BY DEF IInv, Sound
<1>2. Sound(ep', live, switches, clicks)
  BY <1>1, SoundKept
<1>3. UsedIn(ep') = UsedIn(ep)
  <2>1. r.phase # "unused" /\ ep[e].phase # "unused"
    OBVIOUS
  <2>2. ep'[e] = r /\ \A x \in Endpoints \ {e} : ep'[x] = ep[x]
    BY <1>1 DEF EpType
  <2> QED
    BY <2>1, <2>2 DEF UsedIn
<1>4. Numbered(ep', player, probes, clicks)
  BY <1>3 DEF IInv, Numbered, Known
<1>5. user = "patient" => OneAtATime(ep', player, probes)
  BY <1>1, OneKept DEF IInv
<1> QED
  BY <1>2, <1>4, <1>5 DEF IInv

\* What the invariant says of one endpoint.
LEMMA OfOne ==
  ASSUME IInv, NEW e \in Endpoints
  PROVE  /\ ep \in EpType /\ ep[e] \in Endpoint
         /\ Holds(e, ep[e], switches, clicks) /\ Paid(e, ep[e], live, switches)
  BY DEF IInv, Sound, EpType

\* The chain goes on, or ends, and nothing is captured.
LEMMA ChainQuiet ==
  ASSUME IInv, NEW e \in Endpoints,
         \/ CaptureFails(e) \/ Offers(e) \/ OfferFails(e)
         \/ Answered(e) \/ PostFails(e) \/ RemoteFails(e)
  PROVE  IInv'
<1> DEFINE old == ep[e]
<1>0. /\ old \in Endpoint /\ ep \in EpType
      /\ \A s, t \in old.senders : s.kind = t.kind => s = t
  BY OfOne DEF Holds
<1>1. UNCHANGED << user, player, probes, switches, live, clicks >>
  BY DEF CaptureFails, Offers, OfferFails, Answered, PostFails, RemoteFails, Own
<1>2. PICK r \in Endpoint :
        /\ ep' = [ep EXCEPT ![e] = r]
        /\ r.phase \notin {"unused", "capturing"}
        /\ r.phase \in Over \/ old.phase \notin Over
        /\ old.phase # "unused"
        /\ r.local = old.local /\ r.open = old.open /\ r.late = old.late
        /\ r.switched = old.switched /\ r.senders = old.senders
  <2>1. CASE CaptureFails(e)
    <3> DEFINE r == [old EXCEPT !.phase = "over", !.told = TRUE]
    <3>1. /\ r \in Endpoint /\ r.phase = "over" /\ r.local = old.local /\ r.open = old.open
          /\ r.late = old.late /\ r.switched = old.switched /\ r.senders = old.senders
      BY <1>0 DEF Endpoint, Phases, Over
    <3>2. ep' = [ep EXCEPT ![e] = r] /\ old.phase = "capturing"
      BY <2>1 DEF CaptureFails
    <3> HIDE DEF r
    <3> QED
      BY <3>1, <3>2 DEF Over
  <2>2. CASE Offers(e)
    <3> DEFINE ph == IF old.open THEN "posting" ELSE "over"
               r == [old EXCEPT !.phase = ph]
    <3>0. ph \in {"posting", "over"}
      OBVIOUS
    <3> HIDE DEF ph
    <3>1. /\ r \in Endpoint /\ r.phase = ph /\ r.local = old.local /\ r.open = old.open
          /\ r.late = old.late /\ r.switched = old.switched /\ r.senders = old.senders
      BY <1>0, <3>0 DEF Endpoint, Phases, Over
    <3>2. ep' = [ep EXCEPT ![e] = r] /\ old.phase = "offering"
      BY <2>2 DEF Offers, ph
    <3> HIDE DEF r
    <3> QED
      BY <3>0, <3>1, <3>2 DEF Over
  <2>3. CASE Answered(e)
    <3>1. old.phase = "posting"
      BY <2>3 DEF Answered
    <3>2. CASE old.open
      <4>1. PICK x \in SUBSET Enabled, g \in BOOLEAN :
              ep' = [ep EXCEPT ![e].phase = "done", ![e].expected = x, ![e].grouped = g]
        BY <2>3, <3>2 DEF Answered
      <4> DEFINE r == [old EXCEPT !.phase = "done", !.expected = x, !.grouped = g]
      <4>2. /\ r \in Endpoint /\ r.phase = "done" /\ r.local = old.local /\ r.open = old.open
            /\ r.late = old.late /\ r.switched = old.switched /\ r.senders = old.senders
        BY <1>0 DEF Endpoint, Phases, Over
      <4>3. ep' = [ep EXCEPT ![e] = r]
        BY <4>1
      <4> HIDE DEF r
      <4> QED
        BY <3>1, <4>2, <4>3 DEF Over
    <3>3. CASE ~ old.open
      <4> DEFINE r == [old EXCEPT !.phase = "over"]
      <4>1. /\ r \in Endpoint /\ r.phase = "over" /\ r.local = old.local /\ r.open = old.open
            /\ r.late = old.late /\ r.switched = old.switched /\ r.senders = old.senders
        BY <1>0 DEF Endpoint, Phases, Over
      <4>2. ep' = [ep EXCEPT ![e] = r]
        BY <2>3, <3>3 DEF Answered
      <4> HIDE DEF r
      <4> QED
        BY <3>1, <4>1, <4>2 DEF Over
    <3> QED
      BY <3>2, <3>3
  <2>4. CASE PostFails(e) \/ OfferFails(e)
    <3> DEFINE r == [old EXCEPT !.phase = "unheard"]
    <3>1. /\ r \in Endpoint /\ r.phase = "unheard" /\ r.local = old.local /\ r.open = old.open
          /\ r.late = old.late /\ r.switched = old.switched /\ r.senders = old.senders
      BY <1>0 DEF Endpoint, Phases, Over
    <3>2. ep' = [ep EXCEPT ![e] = r] /\ old.phase \in {"offering", "posting"}
      BY <2>4 DEF PostFails, OfferFails
    <3> HIDE DEF r
    <3> QED
      BY <3>1, <3>2 DEF Over
  <2>5. CASE RemoteFails(e)
    <3> DEFINE r == [old EXCEPT !.phase = "unheard", !.expected = {}, !.grouped = FALSE]
    <3>1. /\ r \in Endpoint /\ r.phase = "unheard" /\ r.local = old.local /\ r.open = old.open
          /\ r.late = old.late /\ r.switched = old.switched /\ r.senders = old.senders
      BY <1>0 DEF Endpoint, Phases, Over
    <3>2. ep' = [ep EXCEPT ![e] = r] /\ old.phase = "done"
      BY <2>5 DEF RemoteFails
    <3> HIDE DEF r
    <3> QED
      BY <3>1, <3>2 DEF Over
  <2> QED
    BY <2>1, <2>2, <2>3, <2>4, <2>5
<1>3. \A s, t \in r.senders : s.kind = t.kind => s = t
  BY <1>0, <1>2
<1> QED
  BY <1>1, <1>2, <1>3, Quiet

\* A track of the server arrives: what is sent is not touched.
LEMMA TrackQuiet ==
  ASSUME IInv, NEW e \in Endpoints, NEW kind \in Enabled, OnTrack(e, kind)
  PROVE  IInv'
<1> DEFINE old == ep[e]
           seen == old.tracks \cup {kind}
           shown == Shown(e, seen)
           r == [old EXCEPT !.tracks = seen, !.shown = shown]
<1>0. /\ old \in Endpoint /\ ep \in EpType
      /\ \A s, t \in old.senders : s.kind = t.kind => s = t
  BY OfOne DEF Holds
<1>1. seen \in SUBSET Enabled /\ shown \in SUBSET Enabled
  BY <1>0 DEF Endpoint, Shown
<1>2. ep' = [ep EXCEPT ![e] = r]
  BY DEF OnTrack
<1> HIDE DEF seen, shown
<1>3. /\ r \in Endpoint /\ r.phase = old.phase /\ r.local = old.local /\ r.open = old.open
      /\ r.late = old.late /\ r.switched = old.switched /\ r.senders = old.senders
  BY <1>0, <1>1 DEF Endpoint
<1>4. /\ old.phase = "done"
      /\ UNCHANGED << user, player, probes, switches, live, clicks >>
  BY DEF OnTrack, Own
<1> HIDE DEF r
<1>5. \A s, t \in r.senders : s.kind = t.kind => s = t
  BY <1>0, <1>3
<1> QED
  BY <1>2, <1>3, <1>4, <1>5, Quiet DEF Over

\* A sender has the new track: still one of its kind.
LEMMA ReplacedQuiet ==
  ASSUME IInv, NEW e \in Endpoints, Replaced(e)
  PROVE  IInv'
<1> DEFINE old == ep[e]
           s == Head(old.replacing)
           sent == IF old.open THEN {t \in old.senders : t.kind # s.kind} \cup {s}
                   ELSE old.senders
           left == Tail(old.replacing)
           r == [old EXCEPT !.replacing = left, !.senders = sent]
<1>0. /\ old \in Endpoint /\ ep \in EpType /\ Holds(e, old, switches, clicks)
  BY OfOne
<1>1. old.replacing \in Seq(Track) /\ old.replacing # << >>
  BY <1>0 DEF Replaced, Endpoint
<1>2. old.phase \notin {"unused", "capturing"}
  BY <1>0, <1>1 DEF Holds
<1>3. left \in Seq(Track) /\ s \in Track
  BY <1>1
<1>4. sent \in SUBSET Track
  BY <1>0, <1>3 DEF Endpoint
<1>5. \A x, t \in sent : x.kind = t.kind => x = t
  BY <1>0 DEF Holds
<1>6. ep' = [ep EXCEPT ![e] = r] /\ UNCHANGED << user, player, probes, switches, live, clicks >>
  BY DEF Replaced, Own
<1> HIDE DEF sent, left
<1>7. /\ r \in Endpoint /\ r.phase = old.phase /\ r.local = old.local /\ r.open = old.open
      /\ r.late = old.late /\ r.switched = old.switched /\ r.senders = sent
  BY <1>0, <1>3, <1>4 DEF Endpoint
<1> HIDE DEF r
<1> QED
  BY <1>2, <1>5, <1>6, <1>7, Quiet

----------------------------------------------------------------------------
(* The buttons                                                             *)

\* When nothing is pending, stop() leaves no endpoint open.
LEMMA AllClosed ==
  ASSUME NEW eps, NEW tracks, NEW sw, NEW n, Sound(eps, tracks, sw, n),
         NEW pl, Known(eps, pl),
         NEW pr, OneAtATime(eps, pl, pr), \A e \in UsedIn(eps) : eps[e].phase \in Over
  PROVE  \A e \in UsedIn(ShutOne(eps, pl)) :
           /\ ~ ShutOne(eps, pl)[e].open /\ ~ ShutOne(eps, pl)[e].late
           /\ ShutOne(eps, pl)[e].phase \in Over
<1>1. eps \in EpType /\ UsedIn(eps) \subseteq Endpoints
  BY DEF Sound, UsedIn
<1>2. /\ UsedIn(ShutOne(eps, pl)) = UsedIn(eps)
      /\ \A e \in Endpoints : /\ ShutOne(eps, pl)[e].phase = eps[e].phase
                              /\ ShutOne(eps, pl)[e].late = eps[e].late
                              /\ ShutOne(eps, pl)[e].open => eps[e].open /\ e # pl
  BY <1>1, OnlyPlayerShut
<1>3. ASSUME NEW e \in UsedIn(eps)
      PROVE  /\ ~ ShutOne(eps, pl)[e].open /\ ~ ShutOne(eps, pl)[e].late
             /\ ShutOne(eps, pl)[e].phase \in Over
  <2>1. eps[e].phase \in Over /\ ~ eps[e].late /\ (eps[e].open => e = pl) /\ e \in Endpoints
    BY <1>1 DEF OneAtATime
  <2> QED
    BY <1>2, <2>1
<1> QED
  BY <1>2, <1>3

\* start_play() takes the next endpoint.
LEMMA StartsNext ==
  ASSUME NEW eps, NEW mode, NEW k \in Nat, UsedIn(eps) = 1 .. k, StartPlay(eps, mode)
  PROVE  player' = k + 1 /\ ep' = [eps EXCEPT ![k + 1] = Fresh(mode)]
<1>1. Cardinality(1 .. k) = k
  BY FS_Interval
<1> QED
  BY <1>1 DEF StartPlay, UsedIn

LEMMA OneStarted ==
  ASSUME NEW eps \in EpType, NEW k \in Nat, UsedIn(eps) = 1 .. k, k + 1 \in Endpoints, NEW mode,
         \A e \in UsedIn(eps) : ~ eps[e].open /\ ~ eps[e].late /\ eps[e].phase \in Over,
         UsedIn([eps EXCEPT ![k + 1] = Fresh(mode)]) = 1 .. k + 1
  PROVE  OneAtATime([eps EXCEPT ![k + 1] = Fresh(mode)], k + 1, {})
<1> DEFINE new == [eps EXCEPT ![k + 1] = Fresh(mode)]
<1>1. new[k + 1] = Fresh(mode) /\ \A x \in 1 .. k : new[x] = eps[x]
  BY DEF EpType, UsedIn
<1>2. Fresh(mode).open = TRUE /\ Fresh(mode).late = FALSE
      /\ Fresh(mode).phase \in {"offering", "capturing"}
  BY DEF Fresh, Unused
<1>3. UsedIn(new) = (1 .. k) \cup {k + 1}
  OBVIOUS
<1> HIDE DEF new
<1>4. OneAtATime(new, k + 1, {})
  BY <1>1, <1>2, <1>3 DEF OneAtATime, Over
<1> QED
  BY <1>4 DEF new

\* What every button finds: one click more is allowed, and a patient user has waited.
LEMMA Clicked ==
  ASSUME IInv, Click
  PROVE  /\ clicks' = clicks + 1 /\ clicks \in Nat /\ clicks' \in 1 .. MaxClicks
         /\ user' \in Users /\ user' = user
         /\ Sound(ep, live, switches, clicks')
         /\ IsFiniteSet(probes) /\ Cardinality(probes) \in Nat
         /\ user = "patient" => /\ OneAtATime(ep, player, probes)
                                /\ probes = {} /\ \A e \in UsedIn(ep) : ep[e].phase \in Over
<1>1. /\ clicks' = clicks + 1 /\ clicks \in Nat /\ clicks' \in 1 .. MaxClicks
      /\ user' \in Users /\ user' = user
  BY RtcAssumption DEF IInv, Click
<1>2. Sound(ep, live, switches, clicks')
  BY <1>1, SoundLater DEF IInv
<1>3. IsFiniteSet(probes) /\ Cardinality(probes) \in Nat
  <2>1. IsFiniteSet(1 .. MaxClicks) /\ probes \in SUBSET (1 .. MaxClicks)
    BY FS_Interval, RtcAssumption DEF IInv
  <2> QED
    BY <2>1, FS_Subset, FS_CardinalityType
<1>4. user = "patient" => /\ OneAtATime(ep, player, probes)
                          /\ probes = {} /\ \A e \in UsedIn(ep) : ep[e].phase \in Over
  BY DEF IInv, Click, Idle, UsedIn, Used
<1> QED
  BY <1>1, <1>2, <1>3, <1>4

\* stop() has run, and a probe may have begun.
LEMMA AfterStop ==
  ASSUME IInv, Click, Stop(ep, live), UNCHANGED switches,
         probes' = probes \/ probes' = probes \cup {clicks'}
  PROVE  IInv'
<1>0. /\ Sound(ep, live, switches, clicks') /\ Known(ep, player)
      /\ clicks' \in 1 .. MaxClicks
  BY Clicked DEF IInv, Numbered
<1>1. player' = NoPlayer /\ ep' = ShutOne(ep, player) /\ live' = Silenced(ep, live, player)
  BY DEF Stop, Close, ShutOne, Silenced
<1>2. Sound(ep', live', switches', clicks') /\ UsedIn(ep') = UsedIn(ep)
  <2>1. /\ Sound(ShutOne(ep, player), Silenced(ep, live, player), switches, clicks')
        /\ UsedIn(ShutOne(ep, player)) = UsedIn(ep)
    BY <1>0, SoundStopped, OnlyPlayerShut DEF Sound
  <2> QED
    BY <1>1, <2>1
<1>3. Numbered(ep', player', probes', clicks')
  <2>1. Cardinality(probes') \in Nat /\ Cardinality(probes') <= Cardinality(probes) + 1
    BY Clicked, OneMore
  <2>2. PICK k \in Nat : UsedIn(ep) = 1 .. k /\ k + Cardinality(probes) <= clicks
    BY DEF IInv, Numbered
  <2>3. UsedIn(ep') = 1 .. k /\ k + Cardinality(probes') <= clicks'
    BY Clicked, <1>2, <2>1, <2>2
  <2> QED
    BY <1>1, <2>3 DEF Numbered, Known
<1>4. ASSUME user' = "patient"
      PROVE  OneAtATime(ep', player', probes')
  <2>1. /\ OneAtATime(ep, player, probes)
        /\ probes = {} /\ \A e \in UsedIn(ep) : ep[e].phase \in Over
    BY <1>4, Clicked
  <2>2. \A e \in UsedIn(ShutOne(ep, player)) :
          /\ ~ ShutOne(ep, player)[e].open /\ ~ ShutOne(ep, player)[e].late
          /\ ShutOne(ep, player)[e].phase \in Over
    BY <1>0, <2>1, AllClosed, Zenon
  <2>3. \A e \in UsedIn(ep') : ~ ep'[e].open /\ ~ ep'[e].late /\ ep'[e].phase \in Over
    BY <1>1, <2>2
  <2> QED
    BY <1>1, <2>1, <2>3 DEF OneAtATime
<1>5. probes' \in SUBSET (1 .. MaxClicks)
  BY <1>0 DEF IInv
<1>6. user' \in Users /\ clicks' \in 0 .. MaxClicks
  BY <1>0, Clicked
<1> QED
  BY <1>2, <1>3, <1>4, <1>5, <1>6 DEF IInv

LEMMA StartKeeps ==
  ASSUME IInv, NEW mode, ClickStart(mode)
  PROVE  IInv'
<1> DEFINE closed == ShutOne(ep, player)
<1>0. /\ Click /\ UNCHANGED << probes, switches >>
      /\ StartPlay(closed, mode) /\ live' = Silenced(ep, live, player)
  BY DEF ClickStart, ShutOne, Silenced
<1>1. /\ Sound(ep, live, switches, clicks') /\ Known(ep, player)
  BY <1>0, Clicked DEF IInv, Numbered
<1>2. Sound(closed, live', switches, clicks') /\ UsedIn(closed) = UsedIn(ep)
  <2>1. /\ Sound(ShutOne(ep, player), Silenced(ep, live, player), switches, clicks')
        /\ UsedIn(ShutOne(ep, player)) = UsedIn(ep)
    BY <1>1, SoundStopped, OnlyPlayerShut DEF Sound
  <2> QED
    BY <1>0, <2>1
<1>3. PICK k \in Nat : UsedIn(ep) = 1 .. k /\ k + Cardinality(probes) <= clicks
  BY DEF IInv, Numbered
<1> HIDE DEF closed
<1>4. player' = k + 1 /\ ep' = [closed EXCEPT ![k + 1] = Fresh(mode)]
  BY <1>0, <1>2, <1>3, StartsNext
<1>5. k + 1 \in Endpoints /\ k + 1 + Cardinality(probes) <= clicks'
  <2>1. /\ clicks' = clicks + 1 /\ clicks \in Nat /\ clicks' \in 1 .. MaxClicks
        /\ Cardinality(probes) \in Nat
    BY <1>0, Clicked
  <2> QED
    BY <1>3, <2>1, RtcAssumption DEF Endpoints
<1>6. Sound(ep', live', switches', clicks') /\ UsedIn(ep') = 1 .. k + 1
  BY <1>0, <1>2, <1>3, <1>4, <1>5, SoundStarted
<1>7. Numbered(ep', player', probes', clicks')
  <2>1. k + 1 \in Nat /\ k + 1 \in UsedIn(ep')
    BY <1>6
  <2> QED
    BY <1>0, <1>4, <1>5, <1>6, <2>1 DEF Numbered, Known
<1>8. ASSUME user' = "patient"
      PROVE  OneAtATime(ep', player', probes')
  <2>1. /\ OneAtATime(ep, player, probes)
        /\ probes = {} /\ \A e \in UsedIn(ep) : ep[e].phase \in Over
    BY <1>0, <1>8, Clicked
  <2>2. \A e \in UsedIn(closed) :
          ~ closed[e].open /\ ~ closed[e].late /\ closed[e].phase \in Over
    BY <1>1, <2>1, AllClosed, Zenon DEF closed
  <2>3. closed \in EpType
    BY <1>2 DEF Sound
  <2> QED
    BY <1>0, <1>2, <1>3, <1>4, <1>5, <1>6, <2>1, <2>2, <2>3, OneStarted
<1> QED
  BY <1>0, <1>6, <1>7, <1>8, Clicked DEF IInv

\* switchVideo(), switcAudio(): the switch is counted, and its track has a number of its own.
LEMMA SwitchCounted ==
  ASSUME IInv, NEW kind \in Enabled, ClickSwitch(kind)
  PROVE  IInv'
<1> DEFINE e == player
           s == [of |-> player, kind |-> kind, click |-> clicks']
           r == [ep[e] EXCEPT !.switched = @ + 1]
<1>0. /\ Click /\ e # NoPlayer /\ switches' = switches \cup {s} /\ ep' = [ep EXCEPT ![e] = r]
      /\ UNCHANGED << player, probes, live >>
  BY DEF ClickSwitch
<1>1. /\ clicks' = clicks + 1 /\ clicks \in Nat /\ clicks' \in 1 .. MaxClicks
      /\ Sound(ep, live, switches, clicks') /\ Sound(ep, live, switches, clicks)
      /\ user' = user /\ user' \in Users
  BY <1>0, Clicked DEF IInv
<1>2. e \in UsedIn(ep) /\ e \in Endpoints /\ ep[e] \in Endpoint /\ ep \in EpType
      /\ ep[e].phase # "unused"
  BY <1>0, <1>1 DEF IInv, Numbered, Known, UsedIn, Sound, EpType
<1>3. /\ r \in Endpoint /\ r.phase = ep[e].phase /\ r.local = ep[e].local /\ r.open = ep[e].open
      /\ r.late = ep[e].late /\ r.senders = ep[e].senders /\ r.replacing = ep[e].replacing
      /\ r.switched = ep[e].switched + 1 /\ ep[e].switched \in Nat
  BY <1>2 DEF Endpoint
<1>4. s \in Track /\ s.of = e /\ s.click = clicks'
  BY <1>1, <1>2, RtcAssumption DEF Track, Endpoints
<1> HIDE DEF r, s
<1>5. /\ ep' \in EpType /\ UsedIn(ep') = UsedIn(ep) /\ ep'[e] = r
      /\ \A x \in Endpoints \ {e} : ep'[x] = ep[x]
  <2>1. r.phase # "unused"
    BY <1>2, <1>3
  <2>2. ep' \in EpType /\ ep'[e] = r /\ \A x \in Endpoints \ {e} : ep'[x] = ep[x]
    BY <1>0, <1>2, <1>3 DEF EpType
  <2> QED
    BY <1>2, <2>1, <2>2 DEF UsedIn
\* The new track is neither on nor held by anybody yet.
<1>6. s \notin live /\ s \notin switches /\ \A x \in Endpoints : s \notin ep[x].local
  <2>1. \A t \in live : t.click <= clicks
    BY <1>1 DEF Sound, Arrived
  <2>2. \A t \in switches : t.click <= clicks
    BY <1>1 DEF Sound, Arrived
  <2>3. \A x \in Endpoints : \A t \in ep[x].local : t.click <= clicks
    BY <1>1 DEF Sound, Holds
  <2> QED
    BY <1>1, <1>4, <2>1, <2>2, <2>3
<1>7. switches' \in SUBSET Track /\ IsFiniteSet(switches')
  BY <1>0, <1>1, <1>4, FS_AddElement DEF Sound
<1>8. Arrived(ep', live', switches', clicks')
  <2>1. Arrived(ep, live, switches, clicks') /\ clicks' \in 1 .. clicks'
    BY <1>1 DEF Sound
  <2>2. s.of \in UsedIn(ep) /\ s.click \in 1 .. clicks'
    BY <1>2, <1>4, <2>1
  <2>3. Arrived(ep, live, switches \cup {s}, clicks')
    BY <1>6, <2>1, <2>2 DEF Arrived
  <2> QED
    BY <1>0, <1>5, <2>3 DEF Arrived
<1>9. ASSUME NEW x \in Endpoints
      PROVE  Holds(x, ep'[x], switches', clicks') /\ Paid(x, ep'[x], live', switches')
  <2>1. Holds(x, ep[x], switches, clicks') /\ Paid(x, ep[x], live, switches)
    BY <1>1 DEF Sound
  <2>2. /\ ep'[x].phase = ep[x].phase /\ ep'[x].local = ep[x].local /\ ep'[x].open = ep[x].open
        /\ ep'[x].late = ep[x].late /\ ep'[x].senders = ep[x].senders
        /\ ep'[x].replacing = ep[x].replacing
    BY <1>3, <1>5
  <2>3. Holds(x, ep'[x], switches', clicks')
    BY <1>0, <1>6, <2>1, <2>2 DEF Holds
  <2>4. Astray(x, ep'[x], live') = Astray(x, ep[x], live)
    BY <1>0, <2>2 DEF Astray
  <2>5. /\ Cardinality(Astray(x, ep[x], live)) \in Nat
        /\ IsFiniteSet(Pending(x, switches)) /\ Cardinality(Pending(x, switches)) \in Nat
    BY <1>1, FiniteParts DEF Sound
  <2>6. CASE x = e
    <3>1. Pending(x, switches') = Pending(x, switches) \cup {s}
      BY <1>0, <1>4, <2>6 DEF Pending
    <3>2. s \notin Pending(x, switches)
      BY <1>6 DEF Pending
    <3>3. Cardinality(Pending(x, switches')) = Cardinality(Pending(x, switches)) + 1
      BY <2>5, <3>1, <3>2, FS_AddElement
    <3>4. Cardinality(Astray(x, ep[x], live)) + Cardinality(Pending(x, switches)) <= ep[x].switched
      BY <2>1 DEF Paid
    <3>5. Cardinality(Astray(x, ep'[x], live')) + Cardinality(Pending(x, switches'))
            <= ep'[x].switched
      BY <1>3, <1>5, <2>4, <2>5, <2>6, <3>3, <3>4
    <3>6. ~ ep'[x].open /\ ~ ep'[x].late => live' \cap ep'[x].local = {}
      BY <1>0, <2>1, <2>2 DEF Paid
    <3> QED
      BY <2>3, <3>5, <3>6 DEF Paid
  <2>7. CASE x # e
    <3>1. Pending(x, switches') = Pending(x, switches)
      BY <1>0, <1>4, <2>7 DEF Pending
    <3>2. ep'[x] = ep[x]
      BY <1>5, <2>7
    <3> QED
      BY <1>0, <2>1, <2>3, <3>1, <3>2 DEF Paid
  <2> QED
    BY <2>6, <2>7
<1>10. Sound(ep', live', switches', clicks')
  BY <1>0, <1>1, <1>5, <1>7, <1>8, <1>9 DEF Sound
<1>11. Numbered(ep', player', probes', clicks')
  <2>1. PICK k \in Nat : UsedIn(ep) = 1 .. k /\ k + Cardinality(probes) <= clicks
    BY DEF IInv, Numbered
  <2>2. Cardinality(probes) \in Nat
    BY <1>0, Clicked
  <2>3. UsedIn(ep') = 1 .. k /\ k + Cardinality(probes) <= clicks'
    BY <1>1, <1>5, <2>1, <2>2
  <2>4. Known(ep', player)
    BY <1>2, <1>5 DEF Known
  <2> QED
    BY <1>0, <2>3, <2>4 DEF Numbered
<1>12. user' = "patient" => OneAtATime(ep', player', probes')
  <2>1. ASSUME OneAtATime(ep, player, probes)
        PROVE  OneAtATime(ep', player, probes)
    BY <1>0, <1>2, <1>3, <2>1, OneKept
  <2> QED
    BY <1>0, <1>1, <2>1 DEF IInv
<1> QED
  BY <1>0, <1>1, <1>10, <1>11, <1>12 DEF IInv

----------------------------------------------------------------------------
(* The probe of the resolution                                             *)

LEMMA ProbeEnds ==
  ASSUME IInv, NEW p \in probes
  PROVE  /\ IsFiniteSet(probes \ {p}) /\ Cardinality(probes \ {p}) \in Nat
         /\ Cardinality(probes \ {p}) + 1 = Cardinality(probes)
<1>1. IsFiniteSet(1 .. MaxClicks) /\ probes \in SUBSET (1 .. MaxClicks)
  BY FS_Interval, RtcAssumption DEF IInv
<1>2. IsFiniteSet(probes) /\ Cardinality(probes) \in Nat
  BY <1>1, FS_Subset, FS_CardinalityType
<1>3. IsFiniteSet(probes \ {p}) /\ Cardinality(probes \ {p}) = Cardinality(probes) - 1
  BY <1>2, FS_RemoveElement
<1>4. Cardinality(probes \ {p}) \in Nat
  BY <1>3, FS_CardinalityType
<1> QED
  BY <1>2, <1>3, <1>4

LEMMA ProbeKeeps ==
  ASSUME IInv, NEW p \in probes, ProbeSucceeds(p)
  PROVE  IInv'
<1>0. /\ UNCHANGED << user, switches, live, clicks >> /\ probes' = probes \ {p}
      /\ StartPlay(ep, "camera")
  BY DEF ProbeSucceeds
<1>1. PICK k \in Nat : UsedIn(ep) = 1 .. k /\ k + Cardinality(probes) <= clicks
  BY DEF IInv, Numbered
<1>2. player' = k + 1 /\ ep' = [ep EXCEPT ![k + 1] = Fresh("camera")]
  BY <1>0, <1>1, StartsNext
<1>3. k + 1 \in Endpoints /\ k + 1 + Cardinality(probes') <= clicks'
  <2>1. clicks \in 0 .. MaxClicks
    BY DEF IInv
  <2> QED
    <3>1. Cardinality(probes') \in Nat /\ Cardinality(probes') + 1 = Cardinality(probes)
      BY <1>0, ProbeEnds
    <3> QED
      BY <1>0, <1>1, <2>1, <3>1, RtcAssumption DEF Endpoints
<1>4. Sound(ep', live, switches, clicks) /\ UsedIn(ep') = 1 .. k + 1
  BY <1>1, <1>2, <1>3, SoundStarted DEF IInv
<1>5. Numbered(ep', player', probes', clicks')
  <2>1. k + 1 \in Nat /\ k + 1 \in UsedIn(ep')
    BY <1>4
  <2> QED
    BY <1>2, <1>3, <1>4, <2>1 DEF Numbered, Known
<1>6. ASSUME user' = "patient"
      PROVE  OneAtATime(ep', player', probes')
  <2>1. OneAtATime(ep, player, probes) /\ player = NoPlayer /\ \A q \in probes : q = p
    BY <1>0, <1>6 DEF IInv, OneAtATime
  <2>2. NoPlayer \notin UsedIn(ep)
    BY <1>1 DEF NoPlayer
  <2>3. \A e \in UsedIn(ep) : ~ ep[e].open /\ ~ ep[e].late /\ ep[e].phase \in Over
    BY <2>1, <2>2 DEF OneAtATime
  <2>4. ep \in EpType /\ probes' = {}
    BY <1>0, <2>1 DEF IInv, Sound
  <2> QED
    BY <1>1, <1>2, <1>3, <1>4, <2>3, <2>4, OneStarted
<1>7. probes' \in SUBSET (1 .. MaxClicks)
  BY <1>0 DEF IInv
<1> QED
  BY <1>0, <1>4, <1>5, <1>6, <1>7 DEF IInv

LEMMA ProbeFailsKeeps ==
  ASSUME IInv, NEW p \in probes, ProbeFails(p)
  PROVE  IInv'
<1>0. /\ UNCHANGED << user, player, switches, ep, live, clicks >> /\ probes' = probes \ {p}
  BY DEF ProbeFails
<1>1. Numbered(ep, player, probes', clicks)
  <2>1. PICK k \in Nat : UsedIn(ep) = 1 .. k /\ k + Cardinality(probes) <= clicks
    BY DEF IInv, Numbered
  <2>2. clicks \in Int
    BY RtcAssumption DEF IInv
  <2>3. k + Cardinality(probes') <= clicks
    <3>1. Cardinality(probes') \in Nat /\ Cardinality(probes') + 1 = Cardinality(probes)
      BY <1>0, ProbeEnds
    <3> QED
      BY <2>1, <2>2, <3>1
  <2> QED
    BY <2>1, <2>3 DEF IInv, Numbered
<1>2. user = "patient" => OneAtATime(ep, player, probes')
  BY <1>0 DEF IInv, OneAtATime
<1> QED
  BY <1>0, <1>1, <1>2 DEF IInv

----------------------------------------------------------------------------
(* Captures                                                                *)

\* Tracks of one endpoint come, and switches of it end: the others keep what was said of them.
LEMMA SoundOne ==
  ASSUME NEW eps, NEW tracks, NEW sw, NEW n, Sound(eps, tracks, sw, n),
         NEW e \in UsedIn(eps), NEW r \in Endpoint, r.phase # "unused",
         NEW more \in SUBSET Track, IsFiniteSet(more), tracks \subseteq more,
         \A t \in more \ tracks : t.of = e,
         NEW fewer \in SUBSET sw, \A s \in sw \ fewer : s.of = e,
         Arrived(eps, more, fewer, n), Holds(e, r, fewer, n), Paid(e, r, more, fewer)
  PROVE  Sound([eps EXCEPT ![e] = r], more, fewer, n)
<1> DEFINE new == [eps EXCEPT ![e] = r]
<1>1. e \in Endpoints /\ eps \in EpType /\ eps[e].phase # "unused"
  BY DEF UsedIn, Sound
<1>2. new \in EpType /\ new[e] = r /\ \A x \in Endpoints \ {e} : new[x] = eps[x]
  BY <1>1 DEF EpType
<1>3. UsedIn(new) = UsedIn(eps)
  BY <1>1, <1>2 DEF UsedIn
<1> HIDE DEF new
<1>4. fewer \in SUBSET Track /\ IsFiniteSet(fewer)
  BY FS_Subset DEF Sound
<1>5. Arrived(new, more, fewer, n)
  BY <1>3 DEF Arrived
<1>6. ASSUME NEW x \in Endpoints \ {e}
      PROVE  Holds(x, eps[x], fewer, n) /\ Paid(x, eps[x], more, fewer)
  <2>1. Holds(x, eps[x], sw, n) /\ Paid(x, eps[x], tracks, sw)
    BY DEF Sound
  <2>2. Holds(x, eps[x], fewer, n)
    BY <2>1 DEF Holds
  <2>3. Astray(x, eps[x], more) = Astray(x, eps[x], tracks)
    BY DEF Astray
  <2>4. Pending(x, fewer) = Pending(x, sw)
    BY DEF Pending
  <2>5. more \cap eps[x].local = tracks \cap eps[x].local
    BY <2>1 DEF Holds
  <2> QED
    BY <2>1, <2>2, <2>3, <2>4, <2>5 DEF Paid
<1>7. \A x \in Endpoints : Holds(x, new[x], fewer, n) /\ Paid(x, new[x], more, fewer)
  BY <1>2, <1>6
<1>8. Sound(new, more, fewer, n)
  BY <1>2, <1>4, <1>5, <1>7 DEF Sound
<1> QED
  BY <1>8 DEF new

\* A camera or a screen gives at most one track of each kind.
LEMMA StreamTracks ==
  ASSUME NEW e \in Endpoints, NEW kinds \in SUBSET Enabled
  PROVE  /\ [of : {e}, kind : kinds, click : {0}] \in SUBSET Track
         /\ IsFiniteSet([of : {e}, kind : kinds, click : {0}])
         /\ \A t \in [of : {e}, kind : kinds, click : {0}] : t.of = e /\ t.click = 0
         /\ \A s, t \in [of : {e}, kind : kinds, click : {0}] : s.kind = t.kind => s = t
<1> DEFINE stream == [of : {e}, kind : kinds, click : {0}]
           sound == [of |-> e, kind |-> "audio", click |-> 0]
           picture == [of |-> e, kind |-> "video", click |-> 0]
<1>1. stream \in SUBSET Track
  <2>1. e \in 0 .. MaxClicks /\ 0 \in 0 .. MaxClicks /\ kinds \in SUBSET {"audio", "video"}
    BY RtcAssumption DEF Endpoints
  <2> QED
    BY <2>1 DEF Track
<1>2. IsFiniteSet({sound} \cup {picture})
  <2> HIDE DEF sound, picture
  <2> QED
    BY FS_Singleton, FS_AddElement
<1>3. stream \in SUBSET ({sound} \cup {picture})
  <2>1. ASSUME NEW t \in stream
        PROVE  t = sound \/ t = picture
    <3>1. t.kind \in {"audio", "video"} /\ t = [of |-> e, kind |-> t.kind, click |-> 0]
      BY RtcAssumption
    <3> QED
      BY <3>1
  <2> QED
    BY <2>1
<1>4. IsFiniteSet(stream)
  <2> HIDE DEF sound, picture, stream
  <2> QED
    BY <1>2, <1>3, FS_Subset
<1>5. \A t \in stream : t.of = e /\ t.click = 0
  OBVIOUS
<1>6. \A s, t \in stream : s.kind = t.kind => s = t
  OBVIOUS
<1> QED
  BY <1>1, <1>4, <1>5, <1>6

\* The stream is kept whether the endpoint is open or not; a closed one is late.
LEMMA CaptureKeeps ==
  ASSUME IInv, NEW e \in Endpoints, Captured(e)
  PROVE  IInv'
<1> DEFINE old == ep[e]
<1>0. /\ old \in Endpoint /\ ep \in EpType /\ Sound(ep, live, switches, clicks)
      /\ Holds(e, old, switches, clicks) /\ Paid(e, old, live, switches)
      /\ clicks \in Nat
  BY OfOne, RtcAssumption DEF IInv
<1>1. /\ old.phase = "capturing" /\ old.local = {} /\ old.senders = {}
      /\ UNCHANGED << user, player, probes, switches, clicks >>
      /\ e \in UsedIn(ep)
  BY <1>0 DEF Captured, Own, Holds, UsedIn
<1>2. PICK kinds \in SUBSET Enabled :
        LET stream == [of : {e}, kind : kinds, click : {0}]
        IN  /\ live' = live \cup stream
            /\ ep' = IF old.open
                     THEN [ep EXCEPT ![e].phase = "offering", ![e].local = stream,
                                     ![e].senders = stream]
                     ELSE [ep EXCEPT ![e].phase = "over", ![e].local = stream,
                                     ![e].late = TRUE, ![e].told = TRUE]
  <2>1. Granted(e) \subseteq SUBSET Enabled
    BY DEF Granted
  <2> QED
    BY <2>1 DEF Captured
<1> DEFINE stream == [of : {e}, kind : kinds, click : {0}]
<1>3. /\ stream \in SUBSET Track /\ IsFiniteSet(stream)
      /\ \A t \in stream : t.of = e /\ t.click = 0
      /\ \A s, t \in stream : s.kind = t.kind => s = t
  BY StreamTracks
<1>4. /\ live' = live \cup stream
      /\ old.open => ep' = [ep EXCEPT ![e].phase = "offering", ![e].local = stream,
                                      ![e].senders = stream]
      /\ ~ old.open => ep' = [ep EXCEPT ![e].phase = "over", ![e].local = stream,
                                        ![e].late = TRUE, ![e].told = TRUE]
  BY <1>2
<1> HIDE DEF stream
<1>5. PICK r \in Endpoint :
        /\ ep' = [ep EXCEPT ![e] = r] /\ r.phase \in {"offering", "over"}
        /\ r.local = stream /\ r.open = old.open /\ r.switched = old.switched
        /\ r.senders = stream \/ r.senders = {}
        /\ r.open \/ r.late
        /\ old.open => r.late = old.late
  <2>1. CASE old.open
    <3> DEFINE r == [old EXCEPT !.phase = "offering", !.local = stream, !.senders = stream]
    <3>1. ep' = [ep EXCEPT ![e] = r]
      BY <1>4, <2>1
    <3>2. /\ r \in Endpoint /\ r.phase = "offering" /\ r.local = stream /\ r.open = old.open
          /\ r.switched = old.switched /\ r.senders = stream /\ r.late = old.late
      BY <1>0, <1>3 DEF Endpoint, Phases
    <3> HIDE DEF r
    <3> QED
      BY <2>1, <3>1, <3>2
  <2>2. CASE ~ old.open
    <3> DEFINE r == [old EXCEPT !.phase = "over", !.local = stream, !.late = TRUE, !.told = TRUE]
    <3>1. ep' = [ep EXCEPT ![e] = r]
      BY <1>4, <2>2
    <3>2. /\ r \in Endpoint /\ r.phase = "over" /\ r.local = stream /\ r.open = old.open
          /\ r.switched = old.switched /\ r.senders = old.senders /\ r.late = TRUE
      BY <1>0, <1>3 DEF Endpoint, Phases, Over
    <3> HIDE DEF r
    <3> QED
      BY <1>1, <2>2, <3>1, <3>2
  <2> QED
    BY <2>1, <2>2
<1>6. live' \in SUBSET Track /\ IsFiniteSet(live')
  BY <1>0, <1>3, <1>4, FS_Union DEF Sound
<1>7. \A t \in stream : t \notin switches
  BY <1>0, <1>3 DEF Sound, Arrived
<1>8. Arrived(ep, live', switches, clicks)
  BY <1>0, <1>1, <1>3, <1>4, <1>7 DEF Sound, Arrived
<1>9. Holds(e, r, switches, clicks)
  <2>1. \A t \in r.local : t.of = e /\ t.click <= clicks /\ t \notin switches
    BY <1>0, <1>3, <1>5, <1>7
  <2>2. \A s, t \in r.senders : s.kind = t.kind => s = t
    <3>1. CASE r.senders = stream
      BY <1>3, <3>1
    <3>2. CASE r.senders = {}
      BY <3>2
    <3> QED
      BY <1>5, <3>1, <3>2
  <2>3. r.phase \notin {"unused", "capturing"}
    BY <1>5
  <2> QED
    BY <2>1, <2>2, <2>3 DEF Holds
<1>10. Paid(e, r, live', switches)
  <2>1. Astray(e, r, live') \in SUBSET Astray(e, old, live)
    BY <1>1, <1>4, <1>5 DEF Astray
  <2>2. /\ IsFiniteSet(Astray(e, old, live)) /\ Cardinality(Astray(e, old, live)) \in Nat
        /\ Cardinality(Pending(e, switches)) \in Nat /\ Cardinality(Astray(e, r, live')) \in Nat
    BY <1>0, <1>6, FiniteParts DEF Sound
  <2>3. Cardinality(Astray(e, r, live')) <= Cardinality(Astray(e, old, live))
    BY <2>1, <2>2, FS_Subset
  <2>4. Cardinality(Astray(e, r, live')) + Cardinality(Pending(e, switches)) <= r.switched
    <3>1. /\ Cardinality(Astray(e, old, live)) + Cardinality(Pending(e, switches)) <= old.switched
          /\ old.switched \in Nat
      BY <1>0 DEF Paid, Endpoint
    <3> QED
      BY <1>5, <2>2, <2>3, <3>1
  <2>5. ~ r.open /\ ~ r.late => live' \cap r.local = {}
    BY <1>5
  <2> QED
    BY <2>4, <2>5 DEF Paid
<1>11. Sound(ep', live', switches, clicks)
  <2>1. live \subseteq live' /\ \A t \in live' \ live : t.of = e
    BY <1>3, <1>4
  <2>2. r.phase # "unused"
    BY <1>5
  <2>3. Sound([ep EXCEPT ![e] = r], live', switches, clicks)
    BY <1>0, <1>1, <1>6, <1>8, <1>9, <1>10, <2>1, <2>2, SoundOne
  <2> QED
    BY <1>5, <2>3
<1>12. Numbered(ep', player, probes, clicks)
  <2>1. ep'[e] = r /\ (\A x \in Endpoints \ {e} : ep'[x] = ep[x]) /\ r.phase # "unused"
    BY <1>0, <1>5 DEF EpType
  <2>2. UsedIn(ep') = UsedIn(ep)
    BY <1>1, <2>1 DEF UsedIn
  <2> QED
    BY <2>2 DEF IInv, Numbered, Known
<1>13. ASSUME user = "patient"
       PROVE  OneAtATime(ep', player, probes)
  <2>1. OneAtATime(ep, player, probes)
    BY <1>13 DEF IInv
  <2>2. old.open /\ old.phase \notin Over
    BY <1>1, <2>1 DEF OneAtATime, Over
  <2>3. OneAtATime([ep EXCEPT ![e] = r], player, probes)
    BY <1>0, <1>1, <1>5, <2>1, <2>2, OneKept
  <2> QED
    BY <1>5, <2>3
<1> QED
  BY <1>1, <1>11, <1>12, <1>13 DEF IInv

----------------------------------------------------------------------------
(* The server refuses                                                      *)

\* The player is stopped.  With a patient user it is the endpoint that was refused.
LEMMA RefusedKeeps ==
  ASSUME IInv, NEW e \in Endpoints, Refused(e)
  PROVE  IInv'
<1> DEFINE old == ep[e]
           r == [old EXCEPT !.phase = "over", !.told = TRUE]
           eps == [ep EXCEPT ![e] = r]
<1>0. /\ old \in Endpoint /\ ep \in EpType /\ Sound(ep, live, switches, clicks)
      /\ Holds(e, old, switches, clicks)
  BY OfOne DEF IInv
<1>1. /\ old.phase = "posting" /\ Stop(eps, live)
      /\ UNCHANGED << user, probes, switches, clicks >>
  BY DEF Refused
<1>2. /\ r \in Endpoint /\ r.phase = "over" /\ r.local = old.local /\ r.open = old.open
      /\ r.late = old.late /\ r.switched = old.switched /\ r.senders = old.senders
  BY <1>0 DEF Endpoint, Phases, Over
<1> HIDE DEF r
<1>3. \A s, t \in r.senders : s.kind = t.kind => s = t
  BY <1>0, <1>2 DEF Holds
<1>4. Sound(eps, live, switches, clicks)
  BY <1>0, <1>1, <1>2, <1>3, SoundKept
<1>5. eps \in EpType /\ eps[e] = r /\ \A x \in Endpoints \ {e} : eps[x] = ep[x]
  BY <1>0, <1>2 DEF EpType
<1>6. user = "patient" => OneAtATime(eps, player, probes)
  <2>1. ASSUME OneAtATime(ep, player, probes)
        PROVE  OneAtATime(eps, player, probes)
    BY <1>0, <1>1, <1>2, <2>1, OneKept DEF Over
  <2> QED
    BY <2>1 DEF IInv
<1> HIDE DEF eps
<1>7. UsedIn(eps) = UsedIn(ep)
  BY <1>1, <1>2, <1>5 DEF UsedIn
<1>8. Known(eps, player)
  BY <1>7 DEF IInv, Numbered, Known
<1>9. player' = NoPlayer /\ ep' = ShutOne(eps, player) /\ live' = Silenced(eps, live, player)
  BY <1>1 DEF Stop, Close, ShutOne, Silenced
<1>10. Sound(ep', live', switches, clicks)
  BY <1>4, <1>8, <1>9, SoundStopped
<1>11. Numbered(ep', player', probes, clicks)
  <2>1. UsedIn(ep') = UsedIn(ep)
    BY <1>5, <1>7, <1>8, <1>9, OnlyPlayerShut
  <2> QED
    BY <1>9, <2>1 DEF IInv, Numbered, Known
<1>12. ASSUME user = "patient"
       PROVE  OneAtATime(ep', player', probes)
  <2>1. OneAtATime(eps, player, probes) /\ OneAtATime(ep, player, probes)
    BY <1>6, <1>12 DEF IInv
  <2>2. e = player /\ e \in UsedIn(ep)
    BY <1>1, <2>1 DEF OneAtATime, UsedIn, Over
  <2>3. \A x \in UsedIn(eps) : eps[x].phase \in Over
    <3>1. ASSUME NEW x \in UsedIn(ep), x # e
          PROVE  eps[x].phase \in Over
      BY <1>5, <2>1, <2>2, <3>1 DEF OneAtATime, UsedIn
    <3> QED
      BY <1>2, <1>5, <1>7, <3>1 DEF Over
  <2>4. \A x \in UsedIn(ep') : ~ ep'[x].open /\ ~ ep'[x].late /\ ep'[x].phase \in Over
    BY <1>4, <1>8, <1>9, <2>1, <2>3, AllClosed
  <2>5. \A p, q \in probes : p = q
    BY <2>1 DEF OneAtATime
  <2> QED
    BY <1>9, <2>4, <2>5 DEF OneAtATime
<1> QED
  BY <1>1, <1>10, <1>11, <1>12 DEF IInv

----------------------------------------------------------------------------
(* The captures of a switch                                                *)

\* A pending switch has its endpoint, which has not its track yet; it is paid for.
LEMMA OfSwitch ==
  ASSUME IInv, NEW s \in switches
  PROVE  /\ s \in Track /\ s.of \in UsedIn(ep) /\ s.of \in Endpoints /\ s \notin live
         /\ s \notin ep[s.of].local /\ s.click <= clicks
         /\ Arrived(ep, live, switches \ {s}, clicks)
         /\ Arrived(ep, live \cup {s}, switches \ {s}, clicks)
         /\ live \cup {s} \in SUBSET Track /\ IsFiniteSet(live \cup {s})
         /\ Cardinality(Pending(s.of, switches \ {s})) \in Nat
         /\ Cardinality(Pending(s.of, switches \ {s})) + 1 = Cardinality(Pending(s.of, switches))
<1>0. Sound(ep, live, switches, clicks) /\ clicks \in Int
  BY RtcAssumption DEF IInv
<1>1. /\ s \in Track /\ s.of \in UsedIn(ep) /\ s.click \in 1 .. clicks /\ s \notin live
      /\ Arrived(ep, live, switches, clicks)
  BY <1>0 DEF Sound, Arrived
<1>2. s.of \in Endpoints /\ s \notin ep[s.of].local
  BY <1>0, <1>1 DEF UsedIn, Sound, Holds
<1>3. s.click <= clicks
  BY <1>0, <1>1
<1>4. Arrived(ep, live, switches \ {s}, clicks)
  BY <1>1 DEF Arrived
<1>5. Arrived(ep, live \cup {s}, switches \ {s}, clicks)
  BY <1>1, <1>3, <1>4 DEF Arrived
<1>6. live \cup {s} \in SUBSET Track /\ IsFiniteSet(live \cup {s})
  BY <1>0, <1>1, FS_AddElement DEF Sound
<1>7. IsFiniteSet(Pending(s.of, switches)) /\ Cardinality(Pending(s.of, switches)) \in Nat
  BY <1>0, FiniteParts DEF Sound
<1>8. Pending(s.of, switches \ {s}) = Pending(s.of, switches) \ {s} /\ s \in Pending(s.of, switches)
  BY DEF Pending
<1>9. /\ Cardinality(Pending(s.of, switches \ {s})) \in Nat
      /\ Cardinality(Pending(s.of, switches \ {s})) + 1 = Cardinality(Pending(s.of, switches))
  <2> DEFINE pending == Pending(s.of, switches)
  <2> HIDE DEF pending
  <2>1. IsFiniteSet(pending) /\ Cardinality(pending) \in Nat /\ s \in pending
    BY <1>7, <1>8 DEF pending
  <2>2. IsFiniteSet(pending \ {s}) /\ Cardinality(pending \ {s}) = Cardinality(pending) - 1
    BY <2>1, FS_RemoveElement
  <2>3. Cardinality(pending \ {s}) \in Nat
    BY <2>2, FS_CardinalityType
  <2>4. Cardinality(pending \ {s}) + 1 = Cardinality(pending)
    BY <2>1, <2>2, <2>3
  <2>5. Pending(s.of, switches) = pending /\ Pending(s.of, switches \ {s}) = pending \ {s}
    BY <1>8 DEF pending
  <2> QED
    BY <2>3, <2>4, <2>5, Zenon
<1> QED
  BY <1>1, <1>2, <1>3, <1>4, <1>5, <1>6, <1>9

\* An endpoint whose switch ends: what remains to be shown is about that endpoint only.
LEMMA SwitchEnds ==
  ASSUME IInv, NEW s \in switches, NEW r \in Endpoint, NEW more \in {live, live \cup {s}},
         r.phase = ep[s.of].phase, r.open = ep[s.of].open, r.late = ep[s.of].late,
         Holds(s.of, r, switches \ {s}, clicks), Paid(s.of, r, more, switches \ {s}),
         ep' = [ep EXCEPT ![s.of] = r], live' = more, switches' = switches \ {s},
         UNCHANGED << user, player, probes, clicks >>
  PROVE  IInv'
<1> DEFINE e == s.of
<1>0. /\ ep \in EpType /\ Sound(ep, live, switches, clicks)
      /\ e \in UsedIn(ep) /\ e \in Endpoints /\ ep[e].phase # "unused"
      /\ IsFiniteSet(live) /\ live \in SUBSET Track
  BY OfSwitch DEF IInv, Sound, UsedIn
<1>1. /\ Arrived(ep, more, switches \ {s}, clicks) /\ more \in SUBSET Track /\ IsFiniteSet(more)
      /\ live \subseteq more /\ \A t \in more \ live : t.of = e
  BY <1>0, OfSwitch
<1>2. switches \ {s} \in SUBSET switches /\ \A t \in switches \ (switches \ {s}) : t.of = e
  OBVIOUS
<1> HIDE DEF e
<1>3. Sound([ep EXCEPT ![e] = r], more, switches \ {s}, clicks)
  BY <1>0, <1>1, <1>2, SoundOne DEF e
<1>4. Numbered(ep', player, probes, clicks)
  <2>1. ep'[e] = r /\ \A x \in Endpoints \ {e} : ep'[x] = ep[x]
    BY <1>0 DEF EpType, e
  <2>2. UsedIn(ep') = UsedIn(ep)
    BY <1>0, <2>1 DEF UsedIn, e
  <2> QED
    BY <2>2 DEF IInv, Numbered, Known
<1>5. user = "patient" => OneAtATime(ep', player, probes)
  <2>1. ASSUME OneAtATime(ep, player, probes)
        PROVE  OneAtATime([ep EXCEPT ![e] = r], player, probes)
    BY <1>0, <2>1, OneKept DEF e
  <2> QED
    BY <2>1 DEF IInv, e
<1> QED
  BY <1>3, <1>4, <1>5 DEF IInv, e

LEMMA SwitchFailsKeeps ==
  ASSUME IInv, NEW s \in switches, SwitchFails(s)
  PROVE  IInv'
<1> DEFINE e == s.of
           r == ep[e]
<1>0. /\ switches' = switches \ {s} /\ live' = live /\ ep' = ep
      /\ UNCHANGED << user, player, probes, clicks >>
  BY DEF SwitchFails
<1>1. /\ e \in Endpoints /\ ep \in EpType /\ r \in Endpoint /\ ep = [ep EXCEPT ![e] = r]
      /\ Holds(e, r, switches, clicks) /\ Paid(e, r, live, switches)
      /\ Sound(ep, live, switches, clicks)
  BY OfSwitch, OfOne DEF EpType, IInv
<1>2. Holds(e, r, switches \ {s}, clicks)
  BY <1>1 DEF Holds
<1>3. Paid(e, r, live, switches \ {s})
  <2>1. Cardinality(Astray(e, r, live)) \in Nat
    BY <1>1, FiniteParts DEF Sound
  <2>2. Cardinality(Astray(e, r, live)) + Cardinality(Pending(e, switches)) <= r.switched
        /\ r.switched \in Nat
    BY <1>1 DEF Paid, Endpoint
  <2>3. /\ Cardinality(Pending(e, switches \ {s})) \in Nat
        /\ Cardinality(Pending(e, switches \ {s})) + 1 = Cardinality(Pending(e, switches))
    BY OfSwitch
  <2>4. Cardinality(Astray(e, r, live)) + Cardinality(Pending(e, switches \ {s})) <= r.switched
    BY <2>1, <2>2, <2>3
  <2> QED
    BY <1>1, <2>4 DEF Paid
<1> HIDE DEF r
<1>4. ep' = [ep EXCEPT ![e] = r]
  BY <1>0, <1>1
<1>5. r.phase = ep[e].phase /\ r.open = ep[e].open /\ r.late = ep[e].late
  BY DEF r
<1> QED
  BY <1>0, <1>1, <1>2, <1>3, <1>4, <1>5, SwitchEnds

\* No sender is found: the new track is astray.
LEMMA SwitchLost ==
  ASSUME IInv, NEW s \in switches, Switched(s), ~ FindsSender(s.of, s.kind)
  PROVE  IInv'
<1> DEFINE e == s.of
           r == ep[e]
           more == live \cup {s}
<1>0. /\ switches' = switches \ {s} /\ live' = more /\ ep' = ep
      /\ UNCHANGED << user, player, probes, clicks >>
  BY DEF Switched
<1>1. /\ e \in Endpoints /\ ep \in EpType /\ r \in Endpoint /\ ep = [ep EXCEPT ![e] = r]
      /\ Holds(e, r, switches, clicks) /\ Paid(e, r, live, switches)
      /\ Sound(ep, live, switches, clicks)
  BY OfSwitch, OfOne DEF EpType, IInv
<1>2. Holds(e, r, switches \ {s}, clicks)
  BY <1>1 DEF Holds
<1>3. s \notin r.local /\ s \notin live
  BY OfSwitch
<1>4. Paid(e, r, more, switches \ {s})
  <2>1. /\ IsFiniteSet(Astray(e, r, live)) /\ Cardinality(Astray(e, r, live)) \in Nat
    BY <1>1, FiniteParts DEF Sound
  <2>2. Astray(e, r, more) = Astray(e, r, live) \cup {s} /\ s \notin Astray(e, r, live)
    BY <1>3 DEF Astray
  <2>3. Cardinality(Astray(e, r, more)) = Cardinality(Astray(e, r, live)) + 1
    BY <2>1, <2>2, FS_AddElement
  <2>4. Cardinality(Astray(e, r, live)) + Cardinality(Pending(e, switches)) <= r.switched
        /\ r.switched \in Nat
    BY <1>1 DEF Paid, Endpoint
  <2>5. /\ Cardinality(Pending(e, switches \ {s})) \in Nat
        /\ Cardinality(Pending(e, switches \ {s})) + 1 = Cardinality(Pending(e, switches))
    BY OfSwitch
  <2>6. Cardinality(Astray(e, r, more)) + Cardinality(Pending(e, switches \ {s})) <= r.switched
    BY <2>1, <2>3, <2>4, <2>5
  <2>7. ~ r.open /\ ~ r.late => more \cap r.local = {}
    BY <1>1, <1>3 DEF Paid
  <2> QED
    BY <2>6, <2>7 DEF Paid
<1> HIDE DEF r
<1>5. ep' = [ep EXCEPT ![e] = r]
  BY <1>0, <1>1
<1>6. r.phase = ep[e].phase /\ r.open = ep[e].open /\ r.late = ep[e].late
  BY DEF r
<1>7. more \in {live, live \cup {s}}
  OBVIOUS
<1> HIDE DEF more
<1> QED
  BY <1>0, <1>1, <1>2, <1>4, <1>5, <1>6, <1>7, SwitchEnds

\* The new track takes the place of the sender's, which is astray from now on.
LEMMA SwitchFound ==
  ASSUME IInv, NEW s \in switches, Switched(s), FindsSender(s.of, s.kind)
  PROVE  IInv'
<1> DEFINE e == s.of
           old == ep[e]
           gone == {t \in old.senders : t.kind = s.kind}
           held == (old.local \ gone) \cup {s}
           queue == Append(old.replacing, s)
           r == [old EXCEPT !.local = held, !.replacing = queue]
           more == live \cup {s}
<1>0. /\ switches' = switches \ {s} /\ live' = more /\ ep' = [ep EXCEPT ![e] = r]
      /\ UNCHANGED << user, player, probes, clicks >>
  BY DEF Switched
<1>1. /\ e \in Endpoints /\ ep \in EpType /\ old \in Endpoint /\ s \in Track
      /\ Holds(e, old, switches, clicks) /\ Paid(e, old, live, switches)
      /\ Sound(ep, live, switches, clicks)
  BY OfSwitch, OfOne DEF IInv
<1>2. /\ old.open /\ old.phase \notin {"unused", "capturing"}
      /\ old.senders \in SUBSET Track /\ \E t \in old.senders : t.kind = s.kind
  BY <1>1 DEF FindsSender, Holds, Endpoint
<1>3. held \in SUBSET Track /\ queue \in Seq(Track)
  BY <1>1 DEF Endpoint
\* A sender has one track of the kind.
<1>4. PICK t0 \in old.senders : gone \subseteq {t0}
  BY <1>1, <1>2 DEF Holds
<1>5. /\ r \in Endpoint /\ r.phase = old.phase /\ r.open = old.open /\ r.late = old.late
      /\ r.local = held /\ r.senders = old.senders /\ r.switched = old.switched
  <2> HIDE DEF held, queue
  <2> QED
    BY <1>1, <1>3 DEF Endpoint
<1> HIDE DEF r
<1>6. Holds(e, r, switches \ {s}, clicks)
  <2>1. \A t \in held : t.of = e /\ t.click <= clicks /\ t \notin switches \ {s}
    BY <1>1, OfSwitch DEF Holds
  <2>2. \A x, y \in r.senders : x.kind = y.kind => x = y
    BY <1>1, <1>5 DEF Holds
  <2> QED
    BY <1>2, <1>5, <2>1, <2>2 DEF Holds
<1>7. Paid(e, r, more, switches \ {s})
  <2>1. /\ IsFiniteSet(Astray(e, old, live)) /\ Cardinality(Astray(e, old, live)) \in Nat
    BY <1>1, FiniteParts DEF Sound
  <2>2. Astray(e, r, more) \in SUBSET (Astray(e, old, live) \cup {t0})
    BY <1>4, <1>5 DEF Astray
  <2>3. /\ Cardinality(Astray(e, r, more)) \in Nat
        /\ Cardinality(Astray(e, r, more)) <= Cardinality(Astray(e, old, live)) + 1
    BY <2>1, <2>2, OneMore
  <2>4. Cardinality(Astray(e, old, live)) + Cardinality(Pending(e, switches)) <= old.switched
        /\ old.switched \in Nat
    BY <1>1 DEF Paid, Endpoint
  <2>5. /\ Cardinality(Pending(e, switches \ {s})) \in Nat
        /\ Cardinality(Pending(e, switches \ {s})) + 1 = Cardinality(Pending(e, switches))
    BY OfSwitch
  <2>6. Cardinality(Astray(e, r, more)) + Cardinality(Pending(e, switches \ {s})) <= r.switched
    BY <1>5, <2>1, <2>3, <2>4, <2>5
  <2>7. ~ r.open /\ ~ r.late => more \cap r.local = {}
    BY <1>2, <1>5
  <2> QED
    BY <2>6, <2>7 DEF Paid
<1>8. more \in {live, live \cup {s}}
  OBVIOUS
<1> HIDE DEF more
<1> QED
  BY <1>0, <1>5, <1>6, <1>7, <1>8, SwitchEnds

----------------------------------------------------------------------------
(* The invariant, and the properties                                       *)

LEMMA InitInv == Init => IInv
<1> SUFFICES ASSUME Init PROVE IInv
  OBVIOUS
<1>1. MaxClicks \in Nat /\ IsFiniteSet({}) /\ Cardinality({}) = 0
  BY RtcAssumption, FS_EmptySet
<1>2. Unused \in Endpoint
  BY DEF Unused, Endpoint, Phases
<1>3. ep \in EpType /\ \A e \in Endpoints : ep[e] = Unused
  BY <1>2 DEF Init, EpType
<1>4. UsedIn(ep) = {}
  BY <1>3 DEF UsedIn, Unused
<1>5. Arrived(ep, live, switches, clicks)
  BY DEF Init, Arrived
<1>6. ASSUME NEW e \in Endpoints
      PROVE  Holds(e, ep[e], switches, clicks) /\ Paid(e, ep[e], live, switches)
  <2>1. /\ ep[e].local = {} /\ ep[e].senders = {} /\ ep[e].replacing = << >>
        /\ ep[e].open = FALSE /\ ep[e].switched = 0 /\ ep[e].phase = "unused"
    BY <1>3 DEF Unused
  <2>2. Astray(e, ep[e], live) = {} /\ Pending(e, switches) = {}
    BY DEF Init, Astray, Pending
  <2>3. Cardinality(Astray(e, ep[e], live)) + Cardinality(Pending(e, switches)) <= ep[e].switched
    <3>1. Cardinality(Astray(e, ep[e], live)) = 0 /\ Cardinality(Pending(e, switches)) = 0
      BY <1>1, <2>2
    <3> QED
      BY <2>1, <3>1
  <2> QED
    BY <2>1, <2>3 DEF Holds, Paid
<1>7. Sound(ep, live, switches, clicks)
  BY <1>1, <1>3, <1>5, <1>6 DEF Init, Sound
<1>8. Numbered(ep, player, probes, clicks)
  <2>1. UsedIn(ep) = 1 .. 0 /\ 0 + Cardinality(probes) <= clicks
    BY <1>1, <1>4 DEF Init
  <2> QED
    BY <2>1 DEF Init, Numbered, Known
<1>9. OneAtATime(ep, player, probes)
  BY <1>4 DEF Init, OneAtATime
<1> QED
  BY <1>1, <1>7, <1>8, <1>9 DEF Init, IInv

LEMMA StepInv == IInv /\ [Next]_vars => IInv'
<1> SUFFICES ASSUME IInv, [Next]_vars PROVE IInv'
  OBVIOUS
<1>1. CASE Buttons
  <2>1. CASE ClickProbe
    BY <2>1, AfterStop DEF ClickProbe
  <2>2. ASSUME NEW mode, ClickStart(mode)
        PROVE  IInv'
    BY <2>2, StartKeeps
  <2>3. CASE ClickStop
    BY <2>3, AfterStop DEF ClickStop
  <2>4. ASSUME NEW kind \in Enabled, ClickSwitch(kind)
        PROVE  IInv'
    BY <2>4, SwitchCounted
  <2> QED
    BY <1>1, <2>1, <2>2, <2>3, <2>4 DEF Buttons
<1>2. CASE Probed
  BY <1>2, ProbeKeeps, ProbeFailsKeeps DEF Probed
<1>3. CASE Switching
  BY <1>3, SwitchLost, SwitchFound, SwitchFailsKeeps DEF Switching
<1>4. ASSUME NEW e \in Endpoints, Chain(e)
      PROVE  IInv'
  BY <1>4, ChainQuiet, CaptureKeeps, RefusedKeeps DEF Chain
<1>5. ASSUME NEW e \in Endpoints, Tracks(e)
      PROVE  IInv'
  BY <1>5, TrackQuiet DEF Tracks
<1>6. ASSUME NEW e \in Endpoints, Replaced(e)
      PROVE  IInv'
  BY <1>6, ReplacedQuiet
<1>7. ASSUME NEW e \in Endpoints, RemoteFails(e)
      PROVE  IInv'
  BY <1>7, ChainQuiet
<1>8. CASE UNCHANGED vars
  BY <1>8 DEF vars, IInv
<1> QED
  BY <1>1, <1>2, <1>3, <1>4, <1>5, <1>6, <1>7, <1>8 DEF Next

\* What the steps of the page keep, whoever presses the buttons.
THEOREM Invariant == Spec => []IInv
BY InitInv, StepInv, PTL DEF Spec

\* Every variable of the page has its type, and start_play never runs out of endpoints: each
\* has cost a button.
THEOREM PageTyping == Spec => []TypeOK
<1>1. IInv => TypeOK
  <2> SUFFICES ASSUME IInv PROVE TypeOK
    OBVIOUS
  <2>1. player \in 0 .. MaxClicks
    BY RtcAssumption DEF IInv, Numbered, Known, UsedIn, Endpoints, NoPlayer
  <2> QED
    BY <2>1 DEF IInv, Sound, EpType, TypeOK
<1> QED
  BY <1>1, Invariant, PTL

\* A user who waits for each step has one endpoint, the player, and no camera but its own.
THEOREM OwnPlayer == Spec => []PageInControl
<1>1. IInv => PageInControl
  <2> SUFFICES ASSUME IInv, user = "patient"
      PROVE  /\ \A e \in Used : ep[e].open => e = player
             /\ \A e \in Used : ~ ep[e].late
             /\ \A t \in live : t.of # 0
    BY DEF PageInControl
  <2>1. OneAtATime(ep, player, probes) /\ Used = UsedIn(ep)
    BY DEF IInv, Used, UsedIn
  <2>2. \A t \in live : t.of \in Endpoints
    BY DEF IInv, Sound, Arrived, UsedIn
  <2>3. 0 \notin Endpoints
    BY RtcAssumption DEF Endpoints
  <2> QED
    BY <2>1, <2>2, <2>3 DEF OneAtATime
<1> QED
  BY <1>1, Invariant, PTL

\* A closed endpoint has stopped what it captured, but for one track for each switch.
THEOREM ClosedIsSilent == Spec => []CloseReleases
<1>1. IInv => CloseReleases
  <2> SUFFICES ASSUME IInv, NEW e \in Used, ~ ep[e].open, ~ ep[e].late
      PROVE  Cardinality({t \in live : t.of = e}) <= ep[e].switched
    BY DEF CloseReleases
  <2>1. /\ e \in Endpoints /\ Paid(e, ep[e], live, switches) /\ ep[e] \in Endpoint
        /\ Sound(ep, live, switches, clicks)
    BY OfOne DEF Used, IInv
  <2>2. {t \in live : t.of = e} = Astray(e, ep[e], live)
    BY <2>1 DEF Paid, Astray
  <2>3. /\ Cardinality(Astray(e, ep[e], live)) \in Nat
        /\ Cardinality(Pending(e, switches)) \in Nat
    BY <2>1, FiniteParts DEF Sound
  <2>4. Cardinality(Astray(e, ep[e], live)) + Cardinality(Pending(e, switches)) <= ep[e].switched
        /\ ep[e].switched \in Nat
    BY <2>1 DEF Paid, Endpoint
  <2>5. Cardinality(Astray(e, ep[e], live)) <= ep[e].switched
    BY <2>3, <2>4
  <2> QED
    BY <2>2, <2>5, Zenon
<1> QED
  BY <1>1, Invariant, PTL
=============================================================================
