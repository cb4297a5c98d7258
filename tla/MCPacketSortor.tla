--------------------------- MODULE MCPacketSortor ---------------------------
(***************************************************************************)
(* Small instances of PacketSortor for TLC.                                *)
(***************************************************************************)
EXTENDS PacketSortor

\* A stream that begins away from the wrap, one whose gap can span it, and one that crosses it.
Beginnings == {3, 9, 12}

\* A counter that falls back by a little (SeqMax is 15) and by a lot, or leaps ahead.
Restarts == {13, 9, 5}
=============================================================================
