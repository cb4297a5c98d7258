---------------------------- MODULE MCRtpProcess ----------------------------
(* Small values for the constants of RtpProcess.                           *)
EXTENDS RtpProcess

MCPauses == {2}

=============================================================================
