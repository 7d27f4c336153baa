--------------------------- MODULE RtpPacketizer ---------------------------
(***************************************************************************)
(* H264RtpPacketizer: how the NAL units of a frame, which AnnexB has cut   *)
(* apart, become RTP packets.  A NAL unit is an identity and a size.       *)
(***************************************************************************)
EXTENDS Rtp, SequencesExt

CONSTANTS MaxPayload,  \* max_payload_ (8000, set by main)
          TsStep,      \* rtp_ts_step (90000 / kFps)
          Frames,      \* the frames of an instance: sizes of their NAL units
          MaxFrames    \* bound on the frames of a behaviour

ASSUME PacketizerAssumption ==
    /\ MaxPayload \in Nat \ {0}
    /\ TsStep \in Nat /\ MaxFrames \in Nat
    /\ \A frame \in Frames : frame \in Seq(Nat \ {0})

VARIABLES frames,    \* the frames packetized so far
          given,     \* their NAL units, in order: the sizes
          sequence,  \* sequence_
          rtpTs,     \* main's rtp_ts
          out        \* out_packets, main's rtp_packets

packetizerVars == <<frames, given, sequence, rtpTs, out>>

\* The number of fragments of a NAL unit of the given size.
num_packets(size) == ((size - 1) + MaxPayload - 1) \div MaxPayload

PacketizeSingleNal(nal, size, seq, ts) ==
    <<Packet(seq % SeqSize, ts, TRUE, "single", FALSE, FALSE, nal, 0, size)>>

PacketizeFuA(nal, size, seq, ts) ==
    [i \in 1..num_packets(size) |->
        LET offset == (i - 1) * MaxPayload
            chunk  == IF MaxPayload < size - 1 - offset
                      THEN MaxPayload ELSE size - 1 - offset
            last   == i = num_packets(size)
        IN  Packet((seq + i - 1) % SeqSize, ts, last, "fua", i = 1, last,
                   nal, 1 + offset, 1 + offset + chunk)]

PacketizeNal(nal, size, seq, ts) ==
    IF size <= MaxPayload THEN PacketizeSingleNal(nal, size, seq, ts)
                          ELSE PacketizeFuA(nal, size, seq, ts)

\* Mutant of MarkLast: WriteHeader's markers are left as they are.
MarkNone(packets) == packets

\* The marker bit only on the very last RTP packet of the frame.
MarkLast(packets) ==
    [i \in DOMAIN packets |->
        [packets[i] EXCEPT !.marker = (i = Len(packets))]]

\* The packets of a frame: sizes are those of its NAL units, first is the
\* identity of the first, seq the sequence number the last frame left.
Packetize(sizes, first, seq, ts) ==
    LET Written[k \in 0..Len(sizes)] ==
            IF k = 0 THEN <<>>
            ELSE LET ps == Written[k - 1]
                 IN  ps \o PacketizeNal(first + k - 1, sizes[k], seq + Len(ps), ts)
    IN  MarkLast(Written[Len(sizes)])
-----------------------------------------------------------------------------
PacketizerInit ==
    /\ frames = <<>> /\ given = <<>>
    /\ sequence = 0
    /\ rtpTs = 0
    /\ out = <<>>

\* sequence_ after all the packets of a frame are written.
NextSequence(packets) == (sequence + Len(packets)) % SeqSize

\* One call of Packetize by the main loop, which then steps rtp_ts.
PacketizeFrame(frame) ==
    /\ Len(frames) < MaxFrames
    /\ frames' = Append(frames, frame) /\ given' = given \o frame
    /\ out' = Packetize(frame, Len(given) + 1, sequence, rtpTs)
    /\ sequence' = NextSequence(out')
    /\ rtpTs' = (rtpTs + TsStep) % TsSize

PacketizerNext == \E frame \in Frames : PacketizeFrame(frame)
-----------------------------------------------------------------------------
\* Packet p carries bytes of a NAL unit of the given size: all of them, or a
\* FU-A fragment, marked start with the byte after the header and end with the
\* last one.
Carries(p, size) ==
    \/ p.kind = "single" /\ p.from = 0 /\ p.to = size
    \/ /\ p.kind = "fua"
       /\ p.from >= 1 /\ p.to - p.from \in 1..MaxPayload /\ p.to <= size
       /\ p.start <=> p.from = 1
       /\ p.end <=> p.to = size

Begins(p) == p.kind = "single" \/ p.start
Ends(p) == p.kind = "single" \/ p.end

\* Packet q goes on where packet p stopped: in its NAL unit, or with the next.
Follows(p, q) ==
    /\ q.seq = (p.seq + 1) % SeqSize
    /\ IF Ends(p) THEN Begins(q) /\ q.nal = p.nal + 1
                  ELSE q.nal = p.nal /\ q.from = p.to /\ q.ts = p.ts

\* Packets ps carry all bytes of a NAL unit of the given size, each once: one
\* packet with the whole unit, or FU-A fragments, the first marked start and
\* the last end, that cover what follows the header.
CarryWhole(ps, size) ==
    \/ /\ Len(ps) = 1 /\ ps[1].kind = "single"
       /\ ps[1].from = 0 /\ ps[1].to = size
    \/ /\ ps # <<>> /\ ps[1].from = 1 /\ ps[Len(ps)].to = size
       /\ \A i \in DOMAIN ps : /\ ps[i].kind = "fua"
                               /\ ps[i].to - ps[i].from \in 1..MaxPayload
                               /\ ps[i].start <=> i = 1
                               /\ ps[i].end <=> i = Len(ps)
       /\ \A i \in 1..(Len(ps) - 1) : ps[i].to = ps[i + 1].from

\* Every frame is sent whole: its packets, numbered one after the other, run
\* from the first byte of its first NAL unit to the last byte of its last, with
\* one timestamp, and with one marker, on the last packet.
FrameWhole ==
    out # <<>> =>
        /\ Begins(out[1]) /\ out[1].nal = Len(given) - Len(Last(frames)) + 1
        /\ Ends(Last(out)) /\ Last(out).nal = Len(given)
        /\ \A i \in DOMAIN out : /\ Carries(out[i], given[out[i].nal])
                                /\ out[i].ts = out[1].ts
                                /\ out[i].marker <=> i = Len(out)
        /\ \A i \in 1..(Len(out) - 1) : Follows(out[i], out[i + 1])
=============================================================================
