--------------------------- MODULE MCPlaybackSessions ---------------------------
(***************************************************************************)
(* Small instances of PlaybackSessions for TLC.                            *)
(***************************************************************************)
EXTENDS PlaybackSessions

Both == {"udp", "tcp"}
AllOutcomes == {"playing", "error", "mute"}
Playing == {"playing"}
OnlyTcp == {"tcp"}
AllControls == {"pause", "resume", "jump"}
Jump == {"jump"}

OnePoller  == [threads |-> {"t1"}, careful |-> TRUE, requests |-> 5, players |-> 3]
TwoPollers == [threads |-> {"t1", "t2"}, careful |-> FALSE, requests |-> 4, players |-> 2]
ThreePlayers == [TwoPollers EXCEPT !.requests = 5, !.players = 3]
BothSetups == {OnePoller, TwoPollers}
OnlyThree == {ThreePlayers}
=============================================================================
