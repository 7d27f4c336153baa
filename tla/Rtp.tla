-------------------------------- MODULE Rtp --------------------------------
(* The RTP packets that the packetizer of the agent and the parser of the  *)
(* server share.  A packet carries bytes from..to-1 of one NAL unit: all   *)
(* of a "single" one; of a "fua" one without byte 0, the NAL header, which *)
(* is rebuilt from the two FU-A header bytes.  No sender of the repository *)
(* makes the other kinds: "stapa", with the whole NAL units from..to-1     *)
(* (and, perhaps, a part of another), and "other", with none.              *)
EXTENDS Integers, Sequences

CONSTANTS SeqSize,  \* 2^16: sequence numbers are 16 bits wide
          TsSize    \* 2^32: timestamps are 32 bits wide

ASSUME RtpAssumption == /\ SeqSize \in Nat /\ SeqSize > 2
                        /\ TsSize \in Nat \ {0}

Packet(seq, ts, marker, kind, start, end, nal, from, to) ==
    [seq |-> seq, ts |-> ts, marker |-> marker, kind |-> kind, start |-> start,
     end |-> end, nal |-> nal, from |-> from, to |-> to]

RtpPackets ==
    [seq : 0..(SeqSize - 1), ts : 0..(TsSize - 1), marker : BOOLEAN,
     kind : {"single", "fua", "stapa", "other"}, start : BOOLEAN,
     end : BOOLEAN, nal : Nat, from : Nat, to : Nat]
=============================================================================
