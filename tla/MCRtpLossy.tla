----------------------------- MODULE MCRtpLossy -----------------------------
(***************************************************************************)
(* Model-checking instance of RtpLossy.  The packetizer's NAL units are of *)
(* one, two and three packets (1, 4 and 6 bytes, of which two fit into a   *)
(* packet), so that a middle fragment can be lost or repeated, and enough  *)
(* for the sequence numbers to wrap.  Any sender's packets are of every    *)
(* kind, with FU-A timestamps on either side of both age limits.           *)
(***************************************************************************)
EXTENDS RtpLossy

MCFrames == {<<6>>, <<1, 4>>}

MCTimes == {0, 2, 4}

MCPackets ==
    {Packet(seq, ts, FALSE, "single", FALSE, FALSE, 1, 0, 1) :
        seq \in {0, 1}, ts \in MCTimes}
    \union
    {Packet(seq, ts, FALSE, "fua", start, end, 1, 1, 2) :
        seq \in 0..2, ts \in MCTimes, start \in BOOLEAN, end \in BOOLEAN}
    \union
    {Packet(seq, 0, FALSE, kind, FALSE, FALSE, 1, 0, units) :
        seq \in {1, 2}, kind \in {"stapa", "other"}, units \in {0, 2}}
=============================================================================
