------------------------------ MODULE RtpPath ------------------------------
(***************************************************************************)
(* From the encoder's NAL units to feed_nal: the main loop of main.cpp     *)
(* packetizes a frame and sends it packet by packet on the RTSP            *)
(* connection; AgentSession.handle hands each packet to a RtpParser of its *)
(* own.  TCP keeps the order, but recv may return any number of packets    *)
(* and a part of one, and the connection can break at any byte, losing     *)
(* what is in flight and the rest of the frame; the next connection begins *)
(* with a new session, while the packetizer goes on counting, also for the *)
(* frames it packetizes while there is no connection.                      *)
(***************************************************************************)
EXTENDS RtpPacketizer, RtpParser

CONSTANT MaxBreaks   \* bound on the connections that break

ASSUME PathAssumption == MaxBreaks \in Nat

VARIABLES connected,  \* the agent has a socket and has done the handshake
          index,      \* how many packets of out the agent has sent
          breaks,     \* the connections that broke so far
          wire,       \* what is in flight, in both sockets' buffers
          buf,        \* _buf of the AgentSession
          session     \* the first NAL unit sent on the current connection

pathVars == <<connected, index, breaks, wire, buf, session>>
vars == <<packetizerVars, parserVars, pathVars>>

\* A packet travels, with the four bytes before it, as two pieces, cut anywhere.
Pieces(p) == <<[packet |-> p, part |-> 1], [packet |-> p, part |-> 2]>>

Init ==
    /\ PacketizerInit /\ ParserInit
    /\ connected = FALSE
    /\ index = 0
    /\ breaks = 0
    /\ wire = <<>> /\ buf = <<>>
    /\ session = 1

Sending == index < Len(out)

\* _buf begins with the four bytes and as many more as they announce.
WholePacket == Len(buf) >= 2

\* The AgentSession and the RtpParser of a new connection.
NewSession == NewParser /\ buf' = <<>>

\* The main loop packetizes the next frame on a working connection.
Frame ==
    /\ connected /\ ~Sending
    /\ PacketizerNext
    /\ index' = 0
    /\ UNCHANGED <<parserVars, connected, breaks, wire, buf, session>>

\* Without a connection the frame is packetized before Connect is tried: it
\* is dropped when that fails...
DropFrame ==
    /\ ~connected
    /\ PacketizerNext
    /\ index' = Len(out')
    /\ UNCHANGED <<parserVars, connected, breaks, wire, buf, session>>

\* Mutant of Connect: the frame that was being sent is sent again.
ConnectAndResend ==
    /\ ~connected /\ wire = <<>> /\ ~WholePacket /\ out # <<>>
    /\ connected' = TRUE
    /\ index' = 0
    /\ session' = Len(given)
    /\ NewSession
    /\ UNCHANGED <<packetizerVars, fed, breaks, wire>>

\* ...and the first to be sent when Connect and Handshake succeed, which is
\* when the server has read the connection before to its end.
Connect ==
    /\ ~connected /\ wire = <<>> /\ ~WholePacket
    /\ PacketizerNext
    /\ connected' = TRUE
    /\ index' = 0
    /\ session' = Len(given) + 1
    /\ NewSession
    /\ UNCHANGED <<fed, breaks, wire>>

SendRtp ==
    /\ connected /\ Sending
    /\ wire' = wire \o Pieces(out[index + 1])
    /\ index' = index + 1
    /\ UNCHANGED <<packetizerVars, parserVars, connected, breaks, buf, session>>

\* The connection breaks: SendRtp fails and the main loop gives up the frame.
\* What the server still gets is a prefix of what was in flight.
Break ==
    /\ connected /\ breaks < MaxBreaks
    /\ breaks' = breaks + 1
    /\ connected' = FALSE
    /\ index' = Len(out)
    /\ \E n \in 0..Len(wire) : wire' = SubSeq(wire, 1, n)
    /\ UNCHANGED <<packetizerVars, parserVars, buf, session>>

\* recv, when what is left in _buf is not a whole packet.
Recv ==
    /\ ~WholePacket
    /\ \E n \in 1..Len(wire) : /\ buf' = buf \o SubSeq(wire, 1, n)
                             /\ wire' = SubSeq(wire, n + 1, Len(wire))
    /\ UNCHANGED <<packetizerVars, parserVars, connected, index, breaks, session>>

\* One turn of the loop over _buf.
HandlePacket ==
    /\ WholePacket
    /\ FeedRtp(buf[1].packet)
    /\ buf' = SubSeq(buf, 3, Len(buf))
    /\ UNCHANGED <<packetizerVars, connected, index, breaks, wire, session>>

Next == Frame \/ DropFrame \/ Connect \/ SendRtp \/ Break
        \/ Recv \/ HandlePacket
Spec == Init /\ [][Next]_vars
-----------------------------------------------------------------------------
Received == [k \in DOMAIN fed |-> fed[k].packets[1].nal]

\* NAL units arrive whole and under their frame's timestamp, across broken
\* connections and frames that were packetized and never sent.
ArriveWhole ==
    \A k \in DOMAIN fed :
        LET ps == fed[k].packets
        IN  /\ \A i \in DOMAIN ps : ps[i].nal = ps[1].nal
            /\ CarryWhole(ps, given[ps[1].nal])
            /\ fed[k].ts = ps[1].ts

\* While a connection lasts nothing is lost on it: what arrived is everything
\* from the session's first NAL unit on, and when nothing is in flight that
\* is everything sent.  No wrap-around of the sequence number is a gap.
NothingLostInSession ==
    \E before \in 0..Len(fed) :
        /\ \A k \in DOMAIN fed :
              IF k <= before THEN Received[k] < session
                             ELSE Received[k] = session + (k - before - 1)
        /\ connected /\ wire = <<>> /\ buf = <<>> /\ ~Sending =>
              Len(fed) - before = Len(given) - session + 1

\* The path implements the abstract pipe.
Pipe == INSTANCE NalPipe WITH given <- Len(given), received <- Received
ImplementsNalPipe == Pipe!Spec
=============================================================================
