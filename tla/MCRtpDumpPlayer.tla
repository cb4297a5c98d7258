-------------------------- MODULE MCRtpDumpPlayer --------------------------
(***************************************************************************)
(* Small instances of RtpDumpPlayer for TLC.                               *)
(***************************************************************************)
EXTENDS RtpDumpPlayer

Rtp(stamp) == [len |-> "ok", stamp |-> stamp]
Short == [len |-> "small", stamp |-> 0]
Broken == [len |-> "invalid", stamp |-> 0]

\* Two packets of one frame, a later one after a timestamp wrap, a skipped runt, a broken tail.
Recording == << Rtp(248), Rtp(248), Short, Rtp(254), Rtp(0), Broken, Rtp(9) >>
Single == << Rtp(7) >>
\* Frames, and no packet among them.
Runts == << Short, Short >>

AllFiles == {Recording, Single, Runts, << >>}

BothTransports == {"udp", "tcp"}
SlowAndDouble == {1, 4}
WithOffset == {0, 2, 100}
Steps == {-3, 3}
=============================================================================
