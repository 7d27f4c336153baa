------------------------------ MODULE RtpLossy ------------------------------
(***************************************************************************)
(* The parser at the end of a network that is less kind than the TCP       *)
(* connection of the repository (RtpPath): either the packets are those of *)
(* the packetizer, but lost, repeated and reordered less than half a       *)
(* sequence number cycle apart, which is what the gap detection of         *)
(* feed_rtp is for; or they come from any sender, in any order.            *)
(***************************************************************************)
EXTENDS RtpPacketizer, RtpParser

CONSTANT MaxHeard  \* bound on the NAL units fed from the packetizer's packets

ASSUME LossyAssumption == MaxHeard \in Nat

VARIABLES sender,   \* "packetizer" or "any"
          history,  \* every packet the packetizer sent
          last      \* which of them arrived last, or 0

lossyVars == <<packetizerVars, parserVars, sender, history, last>>

LossyInit ==
    /\ PacketizerInit /\ ParserInit
    /\ sender \in {"packetizer", "any"}
    /\ history = <<>>
    /\ last = 0

Send ==
    /\ sender = "packetizer"
    /\ PacketizerNext
    /\ history' = history \o out'
    /\ UNCHANGED <<parserVars, sender, last>>

\* How far from the last packet the next one to arrive may be.
Window == SeqSize \div 2

Arrive ==
    /\ sender = "packetizer"
    /\ Len(fed) < MaxHeard
    /\ \E i \in DOMAIN history :
          /\ last = 0 \/ i - last \in (-Window)..Window
          /\ FeedRtp(history[i])
          /\ last' = i
    /\ UNCHANGED <<packetizerVars, sender, history>>

AnyPacket ==
    /\ sender = "any"
    /\ ParserNext
    /\ UNCHANGED <<packetizerVars, sender, history, last>>

LossyNext == Send \/ Arrive \/ AnyPacket
LossySpec == LossyInit /\ [][LossyNext]_lossyVars
-----------------------------------------------------------------------------
\* Whatever is lost, repeated or reordered, every NAL unit given to feed_nal
\* is one of the packetizer's, with all its bytes in order: never one with a
\* hole, and never fragments of two.
OnlyWholeNals ==
    sender = "packetizer" =>
        \A k \in DOMAIN fed :
            LET ps == fed[k].packets
            IN  /\ \A i \in DOMAIN ps : ps[i].nal = ps[1].nal
                /\ CarryWhole(ps, given[ps[1].nal])
=============================================================================
