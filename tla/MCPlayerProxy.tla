--------------------------- MODULE MCPlayerProxy ---------------------------
(* Small values for the constants of PlayerProxy; the delays are the       *)
(* default ones.                                                           *)
EXTENDS PlayerProxy

AllKinds == {"plain", "ts", "hls", "srt"}
OnlySrt == {"srt"}
Some == {-1, 0, 2}
Unlimited == {-1}

=============================================================================
