---------------------------- MODULE StreamLookup ----------------------------
(***************************************************************************)
(* What MediaSource::findAsync() promises a player: one answer, a stream   *)
(* that is registered when it is given, or nothing.  Implemented by        *)
(* MediaSource.                                                            *)
(***************************************************************************)
CONSTANTS Requests, Keys, Sources, KeyOf, SourceKey, None

VARIABLES
  present,  \* key -> the source a player can find there, or None
  answer    \* request -> "none", then None (no stream) or a source

Unanswered == "none"

Init == /\ present = [k \in Keys |-> None]
        /\ answer = [r \in Requests |-> Unanswered]

\* A name is taken only when it is free.
Appear(s) == /\ present[SourceKey[s]] = None
             /\ present' = [present EXCEPT ![SourceKey[s]] = s]
             /\ UNCHANGED answer

Vanish(k) == /\ present[k] # None
             /\ present' = [present EXCEPT ![k] = None]
             /\ UNCHANGED answer

Answer(r) == /\ answer[r] = Unanswered
             /\ \E a \in {None, present[KeyOf[r]]} : answer' = [answer EXCEPT ![r] = a]
             /\ UNCHANGED present

Next == \/ \E s \in Sources : Appear(s)
        \/ \E k \in Keys : Vanish(k)
        \/ \E r \in Requests : Answer(r)

Spec == Init /\ [][Next]_<< present, answer >>
=============================================================================
