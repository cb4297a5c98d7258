--------------------------- MODULE MCRtpServers ---------------------------
(***************************************************************************)
(* Small instances of RtpServers for TLC.                                  *)
(***************************************************************************)
EXTENDS RtpServers

CONSTANTS n1

TcpModes == {"passive", "dial"}
Passive == {"passive"}
OneName == [h \in Opens |-> n1]
=============================================================================
