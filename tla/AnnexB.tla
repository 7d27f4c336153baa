------------------------------ MODULE AnnexB ------------------------------
(***************************************************************************)
(* The byte stream between x264 and the packetizer: how x264 writes the    *)
(* NAL units of a frame behind start codes, and how                        *)
(* H264RtpPacketizer::Packetize cuts them apart again.  Offsets are the    *)
(* code's, from 0.                                                         *)
(***************************************************************************)
EXTENDS Integers, Sequences, SequencesExt, FiniteSetsExt

\* nal_unit_type and nal_ref_idc of the NAL units of a frame, as one byte.
Header == [sps |-> 103, pps |-> 104, sei |-> 6, idr |-> 101, slice |-> 65]

\* Inserts a 3 before every byte below 4 that follows two zeros.
nal_escape(src) ==
    FoldLeft(LAMBDA dst, b :
                 IF /\ Len(dst) >= 2 /\ b <= 3
                    /\ dst[Len(dst)] = 0 /\ dst[Len(dst) - 1] = 0
                 THEN dst \o <<3, b>> ELSE Append(dst, b),
             <<>>, src)

\* A NAL unit behind its start code.
x264_nal_encode(type, payload, b_long_startcode) ==
    (IF b_long_startcode THEN <<0, 0, 0, 1>> ELSE <<0, 0, 1>>)
        \o <<Header[type]>> \o nal_escape(payload)

\* The NAL units of a frame, of the given types, each with that payload.
encoder_encapsulate_nals(types, payload) ==
    FlattenSeq([i \in DOMAIN types |->
        x264_nal_encode(types[i], payload,
                        i = 1 \/ types[i] \in {"sps", "pps"})])
-----------------------------------------------------------------------------
Starts(d, o, code) ==
    \A k \in 1..Len(code) : d[o + k] = code[k]

\* Mutant of is_start_code: the four-byte form is forgotten.
is_short_start_code(d, pos) ==
    pos + 3 < Len(d) /\ Starts(d, pos, <<0, 0, 1>>)

is_start_code(d, pos) ==
    /\ pos + 3 < Len(d)
    /\ Starts(d, pos, <<0, 0, 0, 1>>) \/ Starts(d, pos, <<0, 0, 1>>)

StartCodeLen(d, o) ==
    IF o + 3 >= Len(d) THEN 0
    ELSE IF Starts(d, o, <<0, 0, 0, 1>>) THEN 4
    ELSE IF Starts(d, o, <<0, 0, 1>>) THEN 3
    ELSE 0

\* Where the NAL unit that begins at s ends.
NalEnd(d, s) == Min({e \in s..Len(d) : e = Len(d) \/ is_start_code(d, e)})

\* One turn of the loop per element: the NAL units from offset o on.
Split(d) ==
    LET From[o \in 0..Len(d)] ==
          LET s == o + StartCodeLen(d, o)
              e == NalEnd(d, s)
          IN  IF o >= Len(d) \/ s >= Len(d) THEN <<>>
              ELSE IF e = s THEN From[e]
              ELSE <<SubSeq(d, s + 1, e)>> \o From[e]
    IN  From[0]
=============================================================================
