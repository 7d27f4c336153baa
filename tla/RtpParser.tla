----------------------------- MODULE RtpParser -----------------------------
(***************************************************************************)
(* RtpParser of webrtc_server.py: from RTP packets to whole NAL units.     *)
(* One action is one call of feed_rtp, which runs in one thread.  What it  *)
(* gives to feed_nal is kept in `fed`: the packets whose payloads make up  *)
(* the NAL unit, and the timestamp.                                        *)
(***************************************************************************)
EXTENDS Rtp

CONSTANTS StartAge,      \* 45000: age at which a start replaces a buffer
          StaleAge,      \* 90000: age at which a buffer is given up
          Packets,       \* the packets an agent may send, in any order
          MaxFed,        \* bound on the NAL units of a behaviour
          MaxFragments   \* bound on the packets collected

ASSUME ParserAssumption ==
    /\ StartAge \in Nat /\ StaleAge \in Nat
    /\ MaxFed \in Nat /\ MaxFragments \in Nat
    /\ Packets \subseteq RtpPackets

VARIABLES lastSeq,  \* _last_seq: -1 before the first packet
          fuaBuf,   \* _fua_buf: the packets collected; NoBuffer for None
          fuaTs,    \* _fua_ts
          fed       \* what feed_nal was called with

parserVars == <<lastSeq, fuaBuf, fuaTs, fed>>

NoBuffer == <<>>

ParserInit ==
    /\ lastSeq = -1 /\ fuaBuf = NoBuffer /\ fuaTs = 0
    /\ fed = <<>>

\* Mutant of NewParser: the sessions share one parser.
SameParser == UNCHANGED <<lastSeq, fuaBuf, fuaTs>>

\* The parser of a new AgentSession.
NewParser == lastSeq' = -1 /\ fuaBuf' = NoBuffer /\ fuaTs' = 0

FeedNal(packets, ts) == fed' = Append(fed, [packets |-> packets, ts |-> ts])

\* Mutant of Age: the difference is not taken modulo 2^32.
AgeNoWrap(p) == p.ts - fuaTs

Age(p) == (p.ts - fuaTs) % TsSize

\* Mutants of AfterGapCheck: no gap detection; no wrap-around.
AfterNoCheck(p) == fuaBuf

AfterRawCheck(p) ==
    IF lastSeq >= 0 /\ p.seq - lastSeq # 1 THEN NoBuffer ELSE fuaBuf

\* The buffer after the gap detection of feed_rtp.
AfterGapCheck(p) ==
    IF lastSeq >= 0 /\ (p.seq - lastSeq) % SeqSize # 1 THEN NoBuffer ELSE fuaBuf

FeedSingle(p) ==
    /\ p.kind = "single"
    /\ FeedNal(<<p>>, p.ts)
    /\ fuaBuf' = AfterGapCheck(p)
    /\ UNCHANGED fuaTs

\* A start fragment opens a buffer unless a fresh one is open: then it is
\* ignored.
FeedStart(p) ==
    /\ p.kind = "fua" /\ p.start
    /\ LET buf == AfterGapCheck(p)
       IN  \/ /\ buf # NoBuffer /\ Age(p) <= StartAge
              /\ fuaBuf' = buf
              /\ UNCHANGED <<fuaTs, fed>>
           \/ /\ buf = NoBuffer \/ Age(p) > StartAge
              /\ fuaTs' = p.ts
              /\ IF p.end THEN FeedNal(<<p>>, p.ts) /\ fuaBuf' = NoBuffer
                          ELSE fuaBuf' = <<p>> /\ UNCHANGED fed

\* A fragment without start extends the buffer; without one it is dropped.
FeedContinuation(p) ==
    /\ p.kind = "fua" /\ ~p.start
    /\ LET buf == AfterGapCheck(p)
       IN  \/ /\ buf = NoBuffer \/ Age(p) > StaleAge
              /\ fuaBuf' = NoBuffer
              /\ UNCHANGED fed
           \/ /\ buf # NoBuffer /\ Age(p) <= StaleAge
              /\ IF p.end
                 THEN FeedNal(Append(buf, p), fuaTs) /\ fuaBuf' = NoBuffer
                 ELSE fuaBuf' = Append(buf, p) /\ UNCHANGED fed
    /\ UNCHANGED fuaTs

\* Every whole NAL unit of a STAP-A packet; what is cut off at its end is not.
FeedStapA(p) ==
    /\ p.kind = "stapa"
    /\ fed' = fed \o [i \in 1..(p.to - p.from) |-> [packets |-> <<p>>, ts |-> p.ts]]
    /\ fuaBuf' = AfterGapCheck(p)
    /\ UNCHANGED fuaTs

\* An empty payload, an unknown type, a FU-A packet without its second byte.
FeedNothing(p) ==
    /\ p.kind = "other"
    /\ fuaBuf' = AfterGapCheck(p)
    /\ UNCHANGED <<fuaTs, fed>>

\* Packets of another version or payload type, which return at once, are no p.
FeedRtp(p) ==
    /\ lastSeq' = p.seq
    /\ \/ FeedSingle(p) \/ FeedStart(p) \/ FeedContinuation(p)
       \/ FeedStapA(p) \/ FeedNothing(p)
-----------------------------------------------------------------------------
ParserNext ==
    /\ Len(fed) < MaxFed /\ Len(fuaBuf) < MaxFragments
    /\ \E p \in Packets : FeedRtp(p)

ParserSpec == ParserInit /\ [][ParserNext]_parserVars
-----------------------------------------------------------------------------
\* Whatever packets arrive, in whatever order, a NAL unit given to feed_nal is
\* a packet of its own or runs from a start to an end fragment with neither
\* in between, all of it timestamped within StaleAge of its first packet.
FedFramed ==
    \A k \in DOMAIN fed :
        LET ps == fed[k].packets
        IN  /\ ps # <<>> /\ fed[k].ts = ps[1].ts
            /\ \/ Len(ps) = 1 /\ ps[1].kind # "fua"
               \/ \A i \in DOMAIN ps :
                     /\ ps[i].kind = "fua"
                     /\ ps[i].start <=> i = 1
                     /\ ps[i].end <=> i = Len(ps)
                     /\ i > 1 => (ps[i].ts - ps[1].ts) % TsSize <= StaleAge
=============================================================================
