--------------------------- MODULE MCMediaSource ---------------------------
(***************************************************************************)
(* Small instances of MediaSource for TLC.                                 *)
(***************************************************************************)
EXTENDS MediaSource, TLC

CONSTANTS k1, s1, s2, n1, n2, r1, r2

\* Two lookups of one name by two sessions, two publishers of that name.
OneKey == [s \in {s1, s2} |-> k1]
TwoSessions == r1 :> n1 @@ r2 :> n2
SameKey == r1 :> k1 @@ r2 :> k1
=============================================================================
