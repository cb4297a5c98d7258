---------------------------- MODULE MCRtcClient ----------------------------
(***************************************************************************)
(* A small instance of RtcClient for TLC.                                  *)
(***************************************************************************)
EXTENDS RtcClient

BothUsers == {"patient", "any"}
AllModes == {"camera", "screen", "play"}
SoundAndVision == {"audio", "video"}
=============================================================================
