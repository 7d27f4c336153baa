----------------------- MODULE H264StreamTrackProofs -----------------------
(***************************************************************************)
(* Proofs about H264StreamTrack, whatever the capacity of the two queues   *)
(* and the number of NALs: every behaviour is type correct, notices every  *)
(* gap, never feeds a spliced decoder twice, and cannot lose a wake-up of  *)
(* recv; frames leave recv in decoding order, and no context decodes with  *)
(* parameter sets older than it should.                                    *)
(***************************************************************************)
EXTENDS H264StreamTrack, Integers, SequenceFacts, TLAPS

\* The bounded deque stays within its bound and keeps the type of its items.
LEMMA PutDropOldestFacts ==
    ASSUME NEW q \in Seq(Nat), NEW max \in Nat \ {0}, NEW item \in Nat,
           Len(q) <= max
    PROVE  /\ PutDropOldest(q, max, item) \in Seq(Nat)
           /\ Len(PutDropOldest(q, max, item)) <= max
           /\ PutDropOldest(q, max, item) # <<>>
<1>1. CASE Len(q) >= max
  <2>1. q # <<>> /\ Tail(q) \in Seq(Nat) /\ Len(Tail(q)) = Len(q) - 1
    BY <1>1, TailFacts
  <2>2. QED
    BY <1>1, <2>1, AppendFacts DEF PutDropOldest
<1>2. CASE ~(Len(q) >= max)
  <2>1. Len(q) \in Nat /\ Len(q) + 1 <= max
    BY <1>2
  <2>2. PutDropOldest(q, max, item) = Append(q, item)
    BY <1>2 DEF PutDropOldest
  <2>3. QED
    BY <2>1, <2>2, AppendFacts
<1>3. QED
  BY <1>1, <1>2
-----------------------------------------------------------------------------
\* Every behaviour is type correct; the decode queue and the deque stay
\* within the bounds given at webrtc_server.py:184 and :193.
THEOREM TypeCorrect == Spec => []TypeOK
<1>1. Init => TypeOK
  <2> SUFFICES ASSUME Init PROVE TypeOK
    OBVIOUS
  <2>1. /\ <<>> \in Seq(Nat) /\ <<>> \in Seq(NalKinds)
        /\ <<>> \in Seq(Callbacks) /\ Len(<<>>) = 0
    OBVIOUS
  <2>2. /\ params \in [sps : Nat, pps : Nat]
        /\ codec \in [last : Nat, sps : Nat, pps : Nat, spliced : BOOLEAN]
    BY DEF Init, FreshCodec
  <2>3. QED
    <3>1. /\ decodeQueue \in Seq(Nat) /\ Len(decodeQueue) <= DecodeQueueMax
          /\ fed \in Seq(NalKinds) /\ Len(fed) <= MaxNal
          /\ callbacks \in Seq(Callbacks)
          /\ deque \in Seq(Nat) /\ Len(deque) <= DequeMax
      BY <2>1, BoundsAssumption DEF Init
    <3>2. /\ running \in BOOLEAN /\ decodeOverflow \in BOOLEAN
          /\ hasFrames \in BOOLEAN
      BY DEF Init
    <3>3. /\ nal = 0 /\ frame = 0 /\ delivered = 0 /\ askedAt = 0
          /\ feeder = "idle" /\ decoder = "loop" /\ receiver = "idle"
      BY DEF Init, Sentinel
    <3>4. QED
      BY <2>2, <3>1, <3>2, <3>3 DEF TypeOK
<1>2. TypeOK /\ [Next]_vars => TypeOK'
  <2> SUFFICES ASSUME TypeOK, [Next]_vars PROVE TypeOK'
    OBVIOUS
  <2> USE DEF TypeOK, feederVars, decoderVars, receiverVars
  <2>1. ASSUME NEW kind \in NalKinds, FeedNal(kind) PROVE TypeOK'
    <3>1. /\ fed' \in Seq(NalKinds)
          /\ Len(fed') = Len(fed) + 1
      BY <2>1, AppendFacts DEF FeedNal
    <3>2. params' \in [sps : Nat, pps : Nat]
      <4>1. CASE kind = "slice"
        BY <2>1, <4>1 DEF FeedNal
      <4>2. CASE kind # "slice"
        <5>1. /\ kind \in {"sps", "pps"} /\ Len(fed') \in Nat
              /\ params' = [params EXCEPT ![kind] = Len(fed')]
          BY <2>1, <3>1, <4>2, BoundsAssumption DEF FeedNal
        <5>2. QED
          BY <5>1
      <4>3. QED
        BY <4>1, <4>2
    <3>3. QED
      BY <2>1, <3>1, <3>2, BoundsAssumption DEF FeedNal
  <2>2. CASE FeedPut
    <3>1. CASE decodeQueue' = Append(decodeQueue, Len(fed))
      <4>1. decodeQueue \in Seq(Nat) /\ Len(fed) \in Nat
        OBVIOUS
      <4>2. Len(decodeQueue) < DecodeQueueMax \/ decodeQueue' = decodeQueue
        BY <2>2 DEF FeedPut
      <4>3. /\ decodeQueue' \in Seq(Nat)
            /\ Len(decodeQueue') = Len(decodeQueue) + 1
        BY ONLY <3>1, <4>1, AppendFacts
      <4>4. Len(decodeQueue') <= DecodeQueueMax
        <5>1. Len(decodeQueue) \in Nat /\ DecodeQueueMax \in Nat
          BY <4>1, BoundsAssumption
        <5>2. QED
          BY ONLY <4>2, <4>3, <5>1
      <4>5. QED
        BY <2>2, <4>3, <4>4 DEF FeedPut
    <3>2. CASE decodeQueue' = decodeQueue
      BY <2>2, <3>2 DEF FeedPut
    <3>3. QED
      BY <2>2, <3>1, <3>2 DEF FeedPut
  <2>3. CASE FeedOverflow
    BY <2>3 DEF FeedOverflow
  <2>4. CASE DecodeLoop
    BY <2>4 DEF DecodeLoop
  <2>5. CASE DecodeCheck
    BY <2>5 DEF DecodeCheck
  <2>6. CASE DecodeClear
    BY <2>6 DEF DecodeClear
  <2>7. CASE DecodeDrain
    BY <2>7 DEF DecodeDrain
  <2>8. CASE DecodeDiscard
    <3>1. decodeQueue' \in Seq(Nat) /\ Len(decodeQueue') <= DecodeQueueMax
      <4>1. CASE decodeQueue # <<>>
        <5>1. /\ Tail(decodeQueue) \in Seq(Nat)
              /\ Len(Tail(decodeQueue)) <= DecodeQueueMax
          BY <4>1, TailFacts, BoundsAssumption
        <5>2. decodeQueue' = Tail(decodeQueue)
          BY <2>8, <4>1 DEF DecodeDiscard
        <5>3. QED
          BY <5>1, <5>2
      <4>2. CASE decodeQueue = <<>>
        BY <2>8, <4>2 DEF DecodeDiscard
      <4>3. QED
        BY <4>1, <4>2
    <3>2. QED
      BY <2>8, <3>1 DEF DecodeDiscard
  <2>9. CASE DecodeReset
    BY <2>9 DEF DecodeReset, FreshCodec
  <2>10. CASE DecodeAsk
    <3>1. [op |-> "request", frame |-> 0] \in Callbacks
      BY DEF Callbacks
    <3>2. QED
      BY <2>10, <3>1, AppendFacts DEF DecodeAsk
  <2>11. CASE DecodeGet
    <3>1. /\ decodeQueue' \in Seq(Nat) /\ Len(decodeQueue') <= DecodeQueueMax
          /\ nal' \in Nat
      <4>1. CASE decodeQueue # <<>>
        <5>1. /\ Tail(decodeQueue) \in Seq(Nat)
              /\ Len(Tail(decodeQueue)) <= DecodeQueueMax
              /\ Head(decodeQueue) \in Nat
          <6>1. /\ decodeQueue \in Seq(Nat) /\ Len(decodeQueue) <= DecodeQueueMax
                /\ DecodeQueueMax \in Nat
            BY BoundsAssumption
          <6>2. QED
            BY ONLY <4>1, <6>1, TailFacts
        <5>2. decodeQueue' = Tail(decodeQueue) /\ nal' = Head(decodeQueue)
          BY <2>11, <4>1 DEF DecodeGet
        <5>3. QED
          BY <5>1, <5>2
      <4>2. CASE decodeQueue = <<>>
        BY <2>11, <4>2 DEF DecodeGet
      <4>3. QED
        BY <4>1, <4>2
    <3>2. QED
      BY <2>11, <3>1 DEF DecodeGet
  <2>12. CASE DecodeNal
    <3>1. codec' \in [last : Nat, sps : Nat, pps : Nat, spliced : BOOLEAN]
      BY <2>12 DEF DecodeNal, Decoded
    <3>2. [op |-> "put", frame |-> nal] \in Callbacks
      BY DEF Callbacks
    <3>3. callbacks' \in Seq(Callbacks)
      <4>1. Append(callbacks, [op |-> "put", frame |-> nal]) \in Seq(Callbacks)
        BY <3>2, AppendFacts
      <4>2. QED
        BY <2>12, <4>1 DEF DecodeNal
    <3>4. QED
      BY <2>12, <3>1, <3>3 DEF DecodeNal
  <2>13. CASE PutFrame
    <3>1. Head(callbacks).frame \in Nat /\ callbacks' \in Seq(Callbacks)
      <4>1. callbacks # <<>> /\ callbacks' = Tail(callbacks)
        BY <2>13 DEF PutFrame, NextCallback
      <4>2. Head(callbacks) \in Callbacks /\ Tail(callbacks) \in Seq(Callbacks)
        BY <4>1, TailFacts
      <4>3. QED
        BY <4>1, <4>2 DEF Callbacks
    <3>2. deque' \in Seq(Nat) /\ Len(deque') <= DequeMax
      BY <2>13, <3>1, PutDropOldestFacts, BoundsAssumption DEF PutFrame
    <3>3. QED
      BY <2>13, <3>1, <3>2 DEF PutFrame
  <2>14. CASE RequestKeyframe
    <3>1. Tail(callbacks) \in Seq(Callbacks)
      BY <2>14, TailFacts DEF RequestKeyframe, NextCallback
    <3>2. [op |-> "ask", frame |-> 0] \in Callbacks
      BY DEF Callbacks
    <3>3. callbacks' \in Seq(Callbacks)
      BY <2>14, <3>1, <3>2, AppendFacts DEF RequestKeyframe
    <3>4. QED
      BY <2>14, <3>3 DEF RequestKeyframe
  <2>15. CASE OnKeyframeRequest
    <3>1. callbacks' \in Seq(Callbacks)
      BY <2>15, TailFacts DEF OnKeyframeRequest, NextCallback
    <3>2. QED
      BY <2>15, <3>1 DEF OnKeyframeRequest
  <2>16. CASE Recv
    <3>1. /\ deque' \in Seq(Nat) /\ Len(deque') <= DequeMax
          /\ frame' \in Nat
      <4>1. CASE deque # <<>>
        <5>1. /\ Tail(deque) \in Seq(Nat) /\ Len(Tail(deque)) <= DequeMax
              /\ Head(deque) \in Nat
          BY <4>1, TailFacts, BoundsAssumption
        <5>2. deque' = Tail(deque) /\ frame' = Head(deque)
          BY <2>16, <4>1 DEF Recv
        <5>3. QED
          BY <5>1, <5>2
      <4>2. CASE deque = <<>>
        BY <2>16, <4>2 DEF Recv
      <4>3. QED
        BY <4>1, <4>2
    <3>2. receiver' \in {"waiting", "pacing"}
      BY <2>16 DEF Recv
    <3>3. CASE UNCHANGED hasFrames
      BY <2>16, <3>1, <3>2, <3>3 DEF Recv
    <3>4. CASE hasFrames' = FALSE
      BY <2>16, <3>1, <3>2, <3>4 DEF Recv
    <3>5. QED
      BY <2>16, <3>3, <3>4 DEF Recv
  <2>17. CASE RecvReturn
    BY <2>17 DEF RecvReturn
  <2>18. CASE Stop
    <3>1. CASE decodeQueue' = Append(decodeQueue, Sentinel)
               /\ Len(decodeQueue) < DecodeQueueMax
      <4>1. /\ Append(decodeQueue, Sentinel) \in Seq(Nat)
            /\ Len(Append(decodeQueue, Sentinel)) <= DecodeQueueMax
        BY <3>1, AppendFacts, BoundsAssumption DEF Sentinel
      <4>2. QED
        BY <2>18, <3>1, <4>1 DEF Stop
    <3>2. CASE decodeQueue' = decodeQueue
      BY <2>18, <3>2 DEF Stop
    <3>3. QED
      BY <2>18, <3>1, <3>2 DEF Stop
  <2>19. CASE UNCHANGED vars
    BY <2>19 DEF vars
  <2>20. QED
    BY <2>1, <2>2, <2>3, <2>4, <2>5, <2>6, <2>7, <2>8, <2>9, <2>10, <2>11,
       <2>12, <2>13, <2>14, <2>15, <2>16, <2>17, <2>18, <2>19
       DEF Next, Feeder, Decoder, Callback, Receiver
<1>3. QED
  BY <1>1, <1>2, PTL DEF Spec
-----------------------------------------------------------------------------
(***************************************************************************)
(* No gap goes unnoticed.  NoSilentGap is inductive relative to TypeOK:    *)
(* the claim is about the queue as a chain, so each step only has to show  *)
(* what it does to the two ends of the chain.                              *)
(***************************************************************************)

\* A queue stays gapless when the NAL after its last one is appended.
LEMMA GaplessAppend ==
    ASSUME NEW q \in Seq(Nat), NEW n \in Nat, Gapless(q),
           q # <<>> => \/ q[Len(q)] = Sentinel \/ n = Sentinel
                       \/ n = q[Len(q)] + 1
    PROVE  Gapless(Append(q, n))
<1> DEFINE r == Append(q, n)
<1>1. /\ Len(q) \in Nat /\ Len(r) = Len(q) + 1
      /\ \A i \in 1..Len(q) : r[i] = q[i]
      /\ r[Len(q) + 1] = n
  BY AppendFacts
<1> SUFFICES ASSUME NEW i \in 1..(Len(r) - 1)
             PROVE  r[i] = Sentinel \/ r[i + 1] = Sentinel \/ r[i + 1] = r[i] + 1
  BY DEF Gapless
<1> HIDE DEF r
<1>2. CASE i = Len(q)
  <2>1. q # <<>> /\ r[i] = q[Len(q)] /\ r[i + 1] = n
    BY <1>1, <1>2
  <2>2. QED
    BY <2>1
<1>3. CASE i # Len(q)
  <2>1. /\ i \in 1..(Len(q) - 1)
        /\ r[i] = q[i] /\ r[i + 1] = q[i + 1]
    BY <1>1, <1>3
  <2>2. QED
    BY <2>1 DEF Gapless
<1>4. QED
  BY <1>2, <1>3

\* A gapless queue stays gapless when its head is taken, and the new head
\* follows the old one.
LEMMA GaplessTail ==
    ASSUME NEW q \in Seq(Nat), q # <<>>, Gapless(q)
    PROVE  /\ Gapless(Tail(q))
           /\ Tail(q) = <<>> => Len(q) = 1
           /\ Tail(q) # <<>> =>
                 /\ Tail(q)[Len(Tail(q))] = q[Len(q)]
                 /\ \/ q[1] = Sentinel \/ Tail(q)[1] = Sentinel
                    \/ Tail(q)[1] = q[1] + 1
<1> DEFINE r == Tail(q)
<1>1. /\ Len(q) \in Nat /\ Len(q) >= 1 /\ Len(r) = Len(q) - 1
      /\ \A i \in 1..(Len(q) - 1) : r[i] = q[i + 1]
      /\ r \in Seq(Nat)
  BY TailFacts
<1>2. r = <<>> <=> Len(r) = 0
  BY <1>1
<1> HIDE DEF r
<1>3. Gapless(r)
  <2> SUFFICES ASSUME NEW i \in 1..(Len(r) - 1)
               PROVE  \/ r[i] = Sentinel \/ r[i + 1] = Sentinel
                      \/ r[i + 1] = r[i] + 1
    BY DEF Gapless
  <2> DEFINE j == i + 1
  <2>1. i \in 1..(Len(q) - 1) /\ j \in 1..(Len(q) - 1)
    BY <1>1
  <2>2. r[i] = q[j] /\ r[j] = q[j + 1]
    BY <1>1, <2>1
  <2>3. q[j] = Sentinel \/ q[j + 1] = Sentinel \/ q[j + 1] = q[j] + 1
    BY <2>1 DEF Gapless
  <2>4. QED
    BY <2>2, <2>3
<1>4. r = <<>> => Len(q) = 1
  BY <1>1, <1>2
<1>5. ASSUME r # <<>>
      PROVE  /\ r[Len(r)] = q[Len(q)]
             /\ q[1] = Sentinel \/ r[1] = Sentinel \/ r[1] = q[1] + 1
  <2>1. /\ 1 \in 1..(Len(q) - 1)
        /\ r[Len(r)] = q[Len(q)] /\ r[1] = q[1 + 1]
    BY <1>1, <1>2, <1>5
  <2>2. QED
    BY <2>1 DEF Gapless
<1>6. QED
  BY <1>3, <1>4, <1>5 DEF r

\* Steps that leave the feed, the queue and the decode thread alone.
gapVars == <<running, decodeQueue, decodeOverflow, fed, feeder, decoder, nal,
             codec>>

LEMMA NoSilentGapStep ==
    ASSUME TypeOK, NoSilentGap, [Next]_vars
    PROVE  NoSilentGap'
<1> USE DEF TypeOK, feederVars, decoderVars, receiverVars, Sentinel
<1>1. CASE UNCHANGED gapVars
  BY <1>1 DEF gapVars, NoSilentGap, Gapless, EndsMeet, Decoding, Taken,
              Offered
<1>2. ASSUME NEW kind \in NalKinds, FeedNal(kind) PROVE NoSilentGap'
  <2>1. Len(fed') = Len(fed) + 1
    BY <1>2, AppendFacts DEF FeedNal
  <2>2. Offered' = Offered
    BY <1>2, <2>1 DEF FeedNal, Offered
  <2>3. QED
    BY <1>2, <2>2 DEF FeedNal, NoSilentGap, Gapless, EndsMeet, Decoding,
                      Taken
<1>3. CASE FeedPut
  <2>1. CASE feeder' = "full" /\ UNCHANGED decodeQueue
    <3>1. Offered' = Offered /\ Taken' = Taken /\ Decoding' = Decoding
      BY <1>3, <2>1 DEF FeedPut, Offered, Taken, Decoding
    <3>2. UNCHANGED <<decodeOverflow, decoder, nal, codec>>
      BY <1>3 DEF FeedPut
    <3>3. QED
      BY <2>1, <3>1, <3>2 DEF NoSilentGap, Gapless, EndsMeet
  <2>2. CASE decodeQueue' = Append(decodeQueue, Len(fed)) /\ feeder' = "idle"
    <3>1. ASSUME ~decodeOverflow', Decoding' PROVE Gapless(decodeQueue') /\ EndsMeet'
      <4>1. Gapless(decodeQueue) /\ EndsMeet
        BY <1>3, <3>1 DEF FeedPut, NoSilentGap, Decoding
      <4>2. /\ Offered = Len(fed) - 1 /\ Offered' = Len(fed)
            /\ Taken' = Taken
        BY <1>3, <2>2 DEF FeedPut, Offered, Taken
      <4>3. /\ Len(decodeQueue') = Len(decodeQueue) + 1
            /\ decodeQueue' # <<>>
            /\ \A i \in 1..Len(decodeQueue) : decodeQueue'[i] = decodeQueue[i]
            /\ decodeQueue'[Len(decodeQueue')] = Len(fed)
            /\ Len(fed) \in Nat
        <5>1. Len(fed) \in Nat
          OBVIOUS
        <5>2. QED
          BY <2>2, <5>1, AppendFacts
      <4>4. decodeQueue # <<>> => decodeQueue[Len(decodeQueue)]
                                      \in {Sentinel, Len(fed) - 1}
        BY <4>1, <4>2 DEF EndsMeet
      <4>5. Gapless(decodeQueue')
        BY <2>2, <4>1, <4>3, <4>4, GaplessAppend
      <4>6. CASE decodeQueue = <<>>
        BY <1>3, <4>1, <4>2, <4>3, <4>5, <4>6 DEF FeedPut, EndsMeet
      <4>7. CASE decodeQueue # <<>>
        <5>1. Len(decodeQueue) \in Nat /\ Len(decodeQueue) >= 1
          BY <4>7, TailFacts
        <5>2. EndsMeet'
          BY <1>3, <4>1, <4>2, <4>3, <4>7, <5>1 DEF FeedPut, EndsMeet
        <5>3. QED
          BY <4>5, <5>2
      <4>8. QED
        BY <4>6, <4>7
    <3>2. QED
      BY <3>1 DEF NoSilentGap
  <2>3. QED
    BY <1>3, <2>1, <2>2 DEF FeedPut
<1>4. CASE FeedOverflow \/ DecodeClear \/ DecodeDrain
  BY <1>4 DEF FeedOverflow, DecodeClear, DecodeDrain, NoSilentGap, Decoding,
              Gapless, EndsMeet, Taken, Offered
<1>5. CASE DecodeLoop \/ DecodeCheck \/ DecodeAsk
  BY <1>5 DEF DecodeLoop, DecodeCheck, DecodeAsk, NoSilentGap, Decoding,
              Gapless, EndsMeet, Taken, Offered
<1>6. CASE DecodeDiscard
  <2>1. CASE decodeQueue = <<>>
    <3>1. decodeQueue' = <<>> /\ Gapless(<<>>)
      BY <1>6, <2>1 DEF DecodeDiscard, Gapless
    <3>2. decoder' = "reset" /\ Taken' = 0
      BY <1>6, <2>1 DEF DecodeDiscard, Taken
    <3>3. QED
      BY <3>1, <3>2 DEF NoSilentGap, EndsMeet
  <2>2. CASE decodeQueue # <<>>
    BY <1>6, <2>2 DEF DecodeDiscard, NoSilentGap, Decoding
  <2>3. QED
    BY <2>1, <2>2
<1>7. CASE DecodeReset
  BY <1>7 DEF DecodeReset, FreshCodec, NoSilentGap, Decoding, Gapless,
              EndsMeet, Taken, Offered
<1>8. CASE DecodeGet
  <2>1. CASE decodeQueue = <<>>
    BY <1>8, <2>1 DEF DecodeGet, NoSilentGap, Decoding, Gapless,
                      EndsMeet, Taken, Offered
  <2>2. ASSUME decodeQueue # <<>>, ~decodeOverflow', Decoding'
        PROVE  Gapless(decodeQueue') /\ EndsMeet'
    <3>1. /\ nal' = decodeQueue[1] /\ nal' # Sentinel /\ decoder' = "decode"
          /\ decodeQueue' = Tail(decodeQueue)
      BY <1>8, <2>2, TailFacts DEF DecodeGet, Decoding
    <3>2. Gapless(decodeQueue) /\ EndsMeet
      BY <1>8, <2>2 DEF DecodeGet, NoSilentGap, Decoding
    <3>3. Taken' = nal' /\ Offered' = Offered /\ codec' = codec
          /\ Taken = codec.last
      BY <1>8, <3>1 DEF DecodeGet, Taken, Offered
    <3>4. Gapless(decodeQueue')
      BY <2>2, <3>1, <3>2, GaplessTail
    <3>5. codec'.last \in {0, nal' - 1}
      BY <2>2, <3>1, <3>2, <3>3 DEF EndsMeet
    <3>6. CASE decodeQueue' = <<>>
      <4>1. nal' = decodeQueue[Len(decodeQueue)]
        BY <2>2, <3>1, <3>2, <3>6, GaplessTail
      <4>2. Taken' = Offered'
        BY <2>2, <3>1, <3>2, <3>3, <4>1 DEF EndsMeet
      <4>3. QED
        BY <3>4, <3>5, <3>6, <4>2 DEF EndsMeet
    <3>7. CASE decodeQueue' # <<>>
      <4>1. /\ decodeQueue'[Len(decodeQueue')] = decodeQueue[Len(decodeQueue)]
            /\ decodeQueue'[1] = Sentinel \/ decodeQueue'[1] = nal' + 1
        BY <2>2, <3>1, <3>2, <3>7, GaplessTail
      <4>2. nal' \in Nat
        BY <2>2, <3>1, TailFacts
      <4>3. Taken' = decodeQueue'[1] - 1 \/ decodeQueue'[1] = Sentinel
        BY ONLY <3>3, <4>1, <4>2
      <4>4. decodeQueue'[Len(decodeQueue')] \in {Sentinel, Offered'}
        BY <2>2, <3>2, <3>3, <4>1 DEF EndsMeet
      <4>5. QED
        BY <3>4, <3>5, <3>7, <4>3, <4>4 DEF EndsMeet
    <3>8. QED
      BY <3>6, <3>7
  <2>3. QED
    BY <2>1, <2>2 DEF NoSilentGap
<1>9. CASE DecodeNal
  <2>1. codec'.last = nal /\ Taken' = nal /\ Taken = nal
    BY <1>9 DEF DecodeNal, Decoded, Taken
  <2>2. QED
    BY <1>9, <2>1 DEF DecodeNal, NoSilentGap, Decoding, Gapless, EndsMeet,
                      Offered
<1>10. CASE Stop
  <2>1. CASE UNCHANGED decodeQueue
    BY <1>10, <2>1 DEF Stop, NoSilentGap, Decoding, Gapless, EndsMeet,
                       Taken, Offered
  <2>2. CASE decodeQueue' = Append(decodeQueue, Sentinel)
    <3>1. /\ decodeQueue' # <<>>
          /\ Len(decodeQueue) \in Nat
          /\ Len(decodeQueue') = Len(decodeQueue) + 1
          /\ \A i \in 1..Len(decodeQueue) : decodeQueue'[i] = decodeQueue[i]
          /\ decodeQueue'[Len(decodeQueue')] = Sentinel
      <4>1. decodeQueue \in Seq(Nat) /\ Sentinel \in Nat
        OBVIOUS
      <4>2. QED
        BY ONLY <2>2, <4>1, AppendFacts
    <3>2. CASE decodeQueue = <<>>
      BY <1>10, <3>1, <3>2 DEF Stop, NoSilentGap, Decoding, Gapless,
                               EndsMeet, Taken, Offered
    <3>3. CASE decodeQueue # <<>>
      <4>1. Len(decodeQueue) >= 1
        BY <3>3, TailFacts
      <4>2. Gapless(decodeQueue) => Gapless(decodeQueue')
        BY <2>2, GaplessAppend
      <4>3. EndsMeet => EndsMeet'
        <5>1. /\ Taken' = Taken /\ Offered' = Offered
              /\ UNCHANGED <<decoder, nal, codec>>
          BY <1>10 DEF Stop, Taken, Offered
        <5>2. decodeQueue'[1] = decodeQueue[1]
          BY <3>1, <4>1
        <5>3. QED
          BY <3>1, <3>3, <5>1, <5>2 DEF EndsMeet
      <4>4. Decoding' => Decoding
        BY <1>10 DEF Stop, Decoding
      <4>5. QED
        BY <1>10, <4>2, <4>3, <4>4 DEF Stop, NoSilentGap
    <3>4. QED
      BY <3>2, <3>3
  <2>3. QED
    BY <1>10, <2>1, <2>2 DEF Stop
<1>11. CASE Callback \/ Receiver
  <2>1. UNCHANGED gapVars
    BY <1>11 DEF gapVars, Callback, Receiver, PutFrame, RequestKeyframe,
                 OnKeyframeRequest, Recv, RecvReturn
  <2>2. QED
    BY <1>1, <2>1
<1>12. CASE UNCHANGED vars
  BY <1>1, <1>12 DEF vars, gapVars
<1>13. QED
  BY <1>2, <1>3, <1>4, <1>5, <1>6, <1>7, <1>8, <1>9, <1>10, <1>11, <1>12
     DEF Next, Feeder, Decoder

\* In every behaviour a gap in what the decoder gets is flagged.
THEOREM GapsNoticed == Spec => []NoSilentGap
<1>1. Init => NoSilentGap
  BY DEF Init, NoSilentGap, Gapless, EndsMeet, Taken, Offered, FreshCodec
<1>2. TypeOK /\ NoSilentGap /\ [Next]_vars => NoSilentGap'
  BY NoSilentGapStep
<1>3. QED
  BY <1>1, <1>2, TypeCorrect, PTL DEF Spec
-----------------------------------------------------------------------------
\* In every behaviour a decoder context that was given a NAL after a lost one
\* is replaced before it is given another.
THEOREM SpliceAlwaysRepaired == Spec => []SpliceRepaired
<1>1. Init => SpliceRepaired
  BY DEF Init, SpliceRepaired, FreshCodec
<1>2. TypeOK /\ NoSilentGap /\ SpliceRepaired /\ [Next]_vars => SpliceRepaired'
  <2> SUFFICES ASSUME TypeOK, NoSilentGap, SpliceRepaired, [Next]_vars
               PROVE  SpliceRepaired'
    OBVIOUS
  <2> USE DEF feederVars, decoderVars, receiverVars
  <2>1. CASE UNCHANGED gapVars
    BY <2>1 DEF gapVars, SpliceRepaired
  <2>2. CASE Feeder \/ Stop
    BY <2>2 DEF Feeder, Stop, FeedNal, FeedPut, FeedOverflow, SpliceRepaired
  <2>3. CASE DecodeLoop \/ DecodeCheck \/ DecodeAsk
    BY <2>3 DEF DecodeLoop, DecodeCheck, DecodeAsk, SpliceRepaired
  <2>4. CASE DecodeClear \/ DecodeDrain \/ DecodeDiscard
    BY <2>4 DEF DecodeClear, DecodeDrain, DecodeDiscard, SpliceRepaired
  <2>5. CASE DecodeReset
    BY <2>5 DEF DecodeReset, FreshCodec, SpliceRepaired
  <2>6. CASE DecodeGet
    BY <2>6 DEF DecodeGet, SpliceRepaired
  <2>7. CASE DecodeNal
    <3>1. CASE decodeOverflow
      BY <2>7, <3>1 DEF DecodeNal, SpliceRepaired
    <3>2. CASE ~decodeOverflow
      <4>1. EndsMeet /\ ~codec.spliced
        BY <2>7, <3>2 DEF DecodeNal, SpliceRepaired, NoSilentGap, Decoding
      <4>2. codec.last \in {0, nal - 1}
        BY <2>7, <4>1 DEF DecodeNal, EndsMeet
      <4>3. ~(codec.last # 0 /\ nal # codec.last + 1)
        BY <4>2 DEF TypeOK
      <4>4. ~codec'.spliced
        BY <2>7, <4>1, <4>3 DEF DecodeNal, Decoded
      <4>5. QED
        BY <4>4 DEF SpliceRepaired
    <3>3. QED
      BY <3>1, <3>2
  <2>8. CASE Callback \/ Receiver
    <3>1. UNCHANGED gapVars
      BY <2>8 DEF gapVars, Callback, Receiver, PutFrame, RequestKeyframe,
                  OnKeyframeRequest, Recv, RecvReturn
    <3>2. QED
      BY <2>1, <3>1
  <2>9. CASE UNCHANGED vars
    BY <2>1, <2>9 DEF vars, gapVars
  <2>10. QED
    BY <2>2, <2>3, <2>4, <2>5, <2>6, <2>7, <2>8, <2>9 DEF Next, Decoder
<1>3. QED
  BY <1>1, <1>2, TypeCorrect, GapsNoticed, PTL DEF Spec
-----------------------------------------------------------------------------
\* In every behaviour recv is awake, or about to be, while the deque holds a
\* frame.
THEOREM WakeupNeverLost == Spec => []NoLostWakeup
<1>1. Init => NoLostWakeup
  BY DEF Init, NoLostWakeup
<1>2. NoLostWakeup /\ [Next]_vars => NoLostWakeup'
  <2> SUFFICES ASSUME NoLostWakeup, [Next]_vars PROVE NoLostWakeup'
    OBVIOUS
  <2> USE DEF NoLostWakeup, feederVars, decoderVars, receiverVars
  <2>1. CASE UNCHANGED receiverVars
    BY <2>1
  <2>2. CASE PutFrame
    BY <2>2 DEF PutFrame
  <2>3. CASE Recv
    BY <2>3 DEF Recv
  <2>4. CASE RecvReturn
    BY <2>4 DEF RecvReturn
  <2>5. CASE Feeder \/ Decoder \/ RequestKeyframe \/ OnKeyframeRequest \/ Stop
    <3>1. UNCHANGED receiverVars
      BY <2>5 DEF Feeder, FeedNal, FeedPut, FeedOverflow, Decoder, DecodeLoop,
                  DecodeCheck, DecodeClear, DecodeDrain, DecodeDiscard,
                  DecodeReset, DecodeAsk, DecodeGet, DecodeNal,
                  RequestKeyframe, OnKeyframeRequest, Stop
    <3>2. QED
      BY <2>1, <3>1
  <2>6. CASE UNCHANGED vars
    BY <2>1, <2>6 DEF vars
  <2>7. QED
    BY <2>2, <2>3, <2>4, <2>5, <2>6 DEF Next, Callback, Receiver
<1>3. QED
  BY <1>1, <1>2, PTL DEF Spec
-----------------------------------------------------------------------------
\* A frame is on its way through the queue (a NAL still), the codec, the
\* ready queue of the event loop, the deque and recv.  The invariant orders
\* each stage, and puts all that is in one stage before all that is in the
\* stages behind it.
IsPut(i) == callbacks[i].op = "put"

\* The NALs in the decode queue rise, but for the None of stop().
QueueRising ==
    \A i, j \in 1..Len(decodeQueue) :
        i < j /\ decodeQueue[i] # Sentinel /\ decodeQueue[j] # Sentinel
            => decodeQueue[i] < decodeQueue[j]

\* The decode thread took an older NAL, feed_nal is past all of them.
QueueAhead ==
    /\ nal <= Offered
    /\ \A i \in 1..Len(decodeQueue) :
           /\ decodeQueue[i] <= Offered
           /\ decodeQueue[i] # Sentinel => nal < decodeQueue[i]

PutsRising ==
    \A i, j \in 1..Len(callbacks) :
        i < j /\ IsPut(i) /\ IsPut(j) => callbacks[i].frame < callbacks[j].frame

DequeRising ==
    \A i, j \in 1..Len(deque) : i < j => deque[i] < deque[j]

\* Frame f left the codec before the NAL the decode thread is at.
Behind(f) == /\ decoder # "done" => f <= nal
             /\ decoder = "decode" => f < nal

PutsBehind ==
    \A i \in 1..Len(callbacks) : IsPut(i) => Behind(callbacks[i].frame)

DequeBehind ==
    \A i \in 1..Len(deque) :
        /\ Behind(deque[i])
        /\ \A j \in 1..Len(callbacks) :
               IsPut(j) => deque[i] < callbacks[j].frame

FrameBehind ==
    /\ Behind(frame)
    /\ \A i \in 1..Len(deque) : frame < deque[i]
    /\ \A j \in 1..Len(callbacks) : IsPut(j) => frame < callbacks[j].frame

DeliveredBehind ==
    /\ delivered <= frame
    /\ receiver = "pacing" => delivered < frame

OrderInv ==
    /\ QueueRising /\ QueueAhead
    /\ PutsRising /\ PutsBehind
    /\ DequeRising /\ DequeBehind
    /\ FrameBehind /\ DeliveredBehind
-----------------------------------------------------------------------------
\* The items of the deque after an append: those of before from number k + 1
\* on, and the new one.
LEMMA PutDropOldestItems ==
    ASSUME NEW q \in Seq(Nat), NEW max \in Nat \ {0}, NEW item \in Nat
    PROVE  \E k \in {0, 1} :
               /\ k <= Len(q)
               /\ Len(PutDropOldest(q, max, item)) = Len(q) - k + 1
               /\ \A i \in 1..(Len(q) - k) :
                      PutDropOldest(q, max, item)[i] = q[i + k]
               /\ PutDropOldest(q, max, item)[Len(q) - k + 1] = item
<1>1. CASE Len(q) >= max
  <2>1. q # <<>>
    BY <1>1
  <2>2. /\ Tail(q) \in Seq(Nat) /\ Len(q) \in Nat /\ Len(q) >= 1
        /\ Len(Tail(q)) = Len(q) - 1
        /\ \A i \in 1..(Len(q) - 1) : Tail(q)[i] = q[i + 1]
    BY <2>1, TailFacts
  <2>3. PutDropOldest(q, max, item) = Append(Tail(q), item)
    BY <1>1 DEF PutDropOldest
  <2>4. /\ Len(Append(Tail(q), item)) = Len(q) - 1 + 1
        /\ \A i \in 1..(Len(q) - 1) : Append(Tail(q), item)[i] = q[i + 1]
        /\ Append(Tail(q), item)[Len(q) - 1 + 1] = item
    BY <2>2, AppendFacts
  <2>5. QED
    BY <2>2, <2>3, <2>4
<1>2. CASE ~(Len(q) >= max)
  <2>1. PutDropOldest(q, max, item) = Append(q, item)
    BY <1>2 DEF PutDropOldest
  <2>2. /\ Len(q) \in Nat
        /\ Len(Append(q, item)) = Len(q) - 0 + 1
        /\ \A i \in 1..(Len(q) - 0) : Append(q, item)[i] = q[i + 0]
        /\ Append(q, item)[Len(q) - 0 + 1] = item
    BY AppendFacts
  <2>3. QED
    BY <2>1, <2>2
<1>3. QED
  BY <1>1, <1>2

orderVars == <<decodeQueue, fed, feeder, decoder, nal, callbacks, deque,
               receiver, frame, delivered>>

LEMMA OrderInvStep ==
    ASSUME TypeOK, OrderInv, [Next]_vars
    PROVE  OrderInv'
<1> USE DEF feederVars, decoderVars, receiverVars, Sentinel, IsPut
<1>0. /\ nal \in Nat /\ frame \in Nat /\ delivered \in Nat
      /\ Len(fed) \in Nat /\ decodeQueue \in Seq(Nat)
      /\ Len(decodeQueue) \in Nat
      /\ \A i \in 1..Len(decodeQueue) : decodeQueue[i] \in Nat
      /\ callbacks \in Seq(Callbacks) /\ Len(callbacks) \in Nat
      /\ \A i \in 1..Len(callbacks) : callbacks[i].frame \in Nat
      /\ deque \in Seq(Nat) /\ Len(deque) \in Nat
      /\ \A i \in 1..Len(deque) : deque[i] \in Nat
      /\ Offered \in Int
  <2>1. /\ nal \in Nat /\ frame \in Nat /\ delivered \in Nat
        /\ Len(fed) \in Nat /\ Offered \in Int
    BY DEF TypeOK, Offered
  <2>2. /\ decodeQueue \in Seq(Nat) /\ deque \in Seq(Nat)
        /\ Len(decodeQueue) \in Nat /\ Len(deque) \in Nat
        /\ \A i \in 1..Len(decodeQueue) : decodeQueue[i] \in Nat
        /\ \A i \in 1..Len(deque) : deque[i] \in Nat
    <3>1. decodeQueue \in Seq(Nat) /\ deque \in Seq(Nat)
      BY DEF TypeOK
    <3>2. QED
      BY ONLY <3>1
  <2>3. /\ callbacks \in Seq(Callbacks) /\ Len(callbacks) \in Nat
        /\ \A i \in 1..Len(callbacks) : callbacks[i] \in Callbacks
    BY DEF TypeOK
  <2>4. \A c \in Callbacks : c.frame \in Nat
    BY DEF Callbacks
  <2>5. QED
    BY <2>1, <2>2, <2>3, <2>4
<1>1. CASE UNCHANGED orderVars
  BY <1>1 DEF orderVars, OrderInv, QueueRising, QueueAhead, PutsRising,
              PutsBehind, DequeRising, DequeBehind, FrameBehind,
              DeliveredBehind, Behind, Offered
\* The queue is filled: only its two conjuncts can be disturbed.
<1>2. ASSUME UNCHANGED <<decoder, nal, callbacks>>,
             UNCHANGED <<deque, receiver>>,
             UNCHANGED <<frame, delivered>>, QueueRising', QueueAhead'
      PROVE  OrderInv'
  BY <1>2 DEF OrderInv, PutsRising, PutsBehind, DequeRising, DequeBehind,
              FrameBehind, DeliveredBehind, Behind
<1>3. ASSUME NEW kind \in NalKinds, FeedNal(kind) PROVE OrderInv'
  <2>1. Len(fed') = Len(fed) + 1
    BY <1>3, AppendFacts DEF FeedNal, TypeOK
  <2>2. Offered' = Offered
    BY <1>0, <1>3, <2>1 DEF FeedNal, Offered
  <2>3. QueueRising' /\ QueueAhead'
    BY <1>3, <2>2 DEF FeedNal, OrderInv, QueueRising, QueueAhead
  <2>4. QED
    BY <1>2, <1>3, <2>3 DEF FeedNal
\* An item of another order goes to the end of the queue.
<1>4. ASSUME NEW n \in Nat, decodeQueue' = Append(decodeQueue, n),
             Offered' >= Offered, Offered' \in Int, n <= Offered',
             n = 0 \/ Offered < n, nal' = nal
      PROVE  QueueRising' /\ QueueAhead'
  <2>1. /\ Len(decodeQueue') = Len(decodeQueue) + 1
        /\ \A i \in 1..Len(decodeQueue) : decodeQueue'[i] = decodeQueue[i]
        /\ decodeQueue'[Len(decodeQueue) + 1] = n
    BY <1>0, <1>4, AppendFacts
  <2>2. \A i \in 1..Len(decodeQueue') :
            i \in 1..Len(decodeQueue) \/ i = Len(decodeQueue) + 1
    BY <1>0, <2>1
  <2>3. /\ nal <= Offered
        /\ \A i \in 1..Len(decodeQueue) :
               /\ decodeQueue[i] <= Offered
               /\ decodeQueue[i] # 0 => nal < decodeQueue[i]
    BY DEF OrderInv, QueueAhead
  <2>4. QueueAhead'
    <3>1. nal' <= Offered'
      BY <1>0, <1>4, <2>3
    <3>2. ASSUME NEW i \in 1..Len(decodeQueue')
          PROVE  /\ decodeQueue'[i] <= Offered'
                 /\ decodeQueue'[i] # 0 => nal' < decodeQueue'[i]
      <4>1. CASE i \in 1..Len(decodeQueue)
        <5>1. decodeQueue'[i] = decodeQueue[i] /\ decodeQueue[i] \in Nat
          BY <1>0, <2>1, <4>1
        <5>2. /\ decodeQueue[i] <= Offered
              /\ decodeQueue[i] # 0 => nal < decodeQueue[i]
          BY <2>3, <4>1
        <5>3. QED
          BY <1>0, <1>4, <5>1, <5>2
      <4>2. CASE i = Len(decodeQueue) + 1
        BY <1>0, <1>4, <2>1, <2>3, <4>2
      <4>3. QED
        BY <2>2, <4>1, <4>2
    <3>3. QED
      BY <3>1, <3>2 DEF QueueAhead
  <2>5. QueueRising'
    <3> SUFFICES ASSUME NEW i \in 1..Len(decodeQueue'),
                        NEW j \in 1..Len(decodeQueue'),
                        i < j, decodeQueue'[i] # 0, decodeQueue'[j] # 0
                 PROVE  decodeQueue'[i] < decodeQueue'[j]
      BY DEF QueueRising
    <3>1. i \in 1..Len(decodeQueue)
      BY <1>0, <2>1
    <3>2. CASE j \in 1..Len(decodeQueue)
      BY <2>1, <3>1, <3>2 DEF OrderInv, QueueRising
    <3>3. CASE j = Len(decodeQueue) + 1
      <4>1. decodeQueue'[i] = decodeQueue[i] /\ decodeQueue[i] \in Nat
        BY <1>0, <2>1, <3>1
      <4>2. decodeQueue[i] <= Offered
        BY <2>3, <3>1
      <4>3. decodeQueue'[j] = n
        BY <2>1, <3>3
      <4>4. QED
        <5>1. n \in Nat /\ (n = 0 \/ Offered < n) /\ Offered \in Int
          BY <1>0, <1>4
        <5>2. decodeQueue'[j] # 0
          OBVIOUS
        <5>3. QED
          BY ONLY <4>1, <4>2, <4>3, <5>1, <5>2
    <3>4. QED
      BY <2>2, <3>2, <3>3
  <2>6. QED
    BY <2>4, <2>5
<1>5. CASE FeedPut
  <2>1. feeder = "put" /\ Offered = Len(fed) - 1
    BY <1>5 DEF FeedPut, Offered
  <2>2. CASE feeder' = "full" /\ decodeQueue' = decodeQueue
    <3>1. Offered' = Offered
      BY <1>5, <2>1, <2>2 DEF FeedPut, Offered
    <3>2. QueueRising' /\ QueueAhead'
      BY <1>5, <2>2, <3>1 DEF FeedPut, OrderInv, QueueRising, QueueAhead
    <3>3. QED
      BY <1>2, <1>5, <3>2 DEF FeedPut
  <2>3. CASE decodeQueue' = Append(decodeQueue, Len(fed)) /\ feeder' = "idle"
    <3>1. Offered' = Len(fed)
      BY <1>5, <2>3 DEF FeedPut, Offered
    <3>2. /\ nal' = nal /\ Len(fed) \in Nat /\ Offered' \in Int
          /\ Offered' >= Offered /\ Len(fed) <= Offered'
          /\ Offered < Len(fed)
      BY <1>0, <1>5, <2>1, <3>1 DEF FeedPut
    <3>3. QueueRising' /\ QueueAhead'
      BY <1>4, <2>3, <3>2
    <3>4. QED
      BY <1>2, <1>5, <3>3 DEF FeedPut
  <2>4. QED
    BY <1>5, <2>2, <2>3 DEF FeedPut
<1>6. CASE FeedOverflow
  <2>1. Offered' >= Offered /\ Offered' \in Int
    BY <1>0, <1>6 DEF FeedOverflow, Offered
  <2>2. QueueRising' /\ QueueAhead'
    BY <1>0, <1>6, <2>1 DEF FeedOverflow, OrderInv, QueueRising, QueueAhead
  <2>3. QED
    BY <1>2, <1>6, <2>2 DEF FeedOverflow
<1>7. CASE Stop
  <2>1. Offered' = Offered /\ nal' = nal
    BY <1>7 DEF Stop, Offered
  <2>2. CASE decodeQueue' = decodeQueue
    <3>1. QueueRising' /\ QueueAhead'
      BY <2>1, <2>2 DEF OrderInv, QueueRising, QueueAhead
    <3>2. QED
      BY <1>2, <1>7, <3>1 DEF Stop
  <2>3. CASE decodeQueue' = Append(decodeQueue, 0)
    <3>1. 0 <= Offered
      BY <1>0 DEF OrderInv, QueueAhead
    <3>2. QueueRising' /\ QueueAhead'
      BY <1>0, <1>4, <2>1, <2>3, <3>1
    <3>3. QED
      BY <1>2, <1>7, <3>2 DEF Stop
  <2>4. QED
    BY <1>7, <2>2, <2>3 DEF Stop
\* The decode thread goes its way without taking or decoding a NAL.
<1>8. ASSUME UNCHANGED <<decodeQueue, fed, feeder>>,
             UNCHANGED <<nal, callbacks>>,
             UNCHANGED <<deque, receiver>>, UNCHANGED <<frame, delivered>>,
             decoder \notin {"decode", "done"}, decoder' # "decode"
      PROVE  OrderInv'
  <2>1. Offered' = Offered
    BY <1>8 DEF Offered
  <2>2. QueueRising' /\ QueueAhead'
    BY <1>8, <2>1 DEF OrderInv, QueueRising, QueueAhead
  <2>3. PutsRising' /\ DequeRising' /\ DeliveredBehind'
    BY <1>8 DEF OrderInv, PutsRising, DequeRising, DeliveredBehind
  <2>4. PutsBehind' /\ DequeBehind' /\ FrameBehind'
    BY <1>8 DEF OrderInv, PutsBehind, DequeBehind, FrameBehind, Behind
  <2>5. QED
    BY <2>2, <2>3, <2>4 DEF OrderInv
<1>9. CASE \/ DecodeLoop \/ DecodeCheck \/ DecodeClear
           \/ DecodeDrain \/ DecodeReset
  BY <1>8, <1>9 DEF DecodeLoop, DecodeCheck, DecodeClear, DecodeDrain,
                    DecodeReset
\* The head of the queue is taken.
<1>10. ASSUME decodeQueue # <<>>, decodeQueue' = Tail(decodeQueue),
              UNCHANGED <<fed, feeder>>,
              nal' \in {nal, decodeQueue[1]}
       PROVE  QueueRising' /\ QueueAhead'
  <2>1. /\ Len(decodeQueue) >= 1
        /\ Len(decodeQueue') = Len(decodeQueue) - 1
        /\ \A i \in 1..(Len(decodeQueue) - 1) :
               decodeQueue'[i] = decodeQueue[i + 1]
    BY <1>0, <1>10, TailFacts
  <2>2. Offered' = Offered
    BY <1>10 DEF Offered
  <2>3. /\ nal <= Offered
        /\ \A i \in 1..Len(decodeQueue) :
               /\ decodeQueue[i] <= Offered
               /\ decodeQueue[i] # 0 => nal < decodeQueue[i]
    BY DEF OrderInv, QueueAhead
  <2>4. \A i \in 1..Len(decodeQueue') :
            /\ i \in 1..(Len(decodeQueue) - 1)
            /\ i + 1 \in 1..Len(decodeQueue) /\ 1 < i + 1
    BY <1>0, <2>1
  <2>5. QueueRising'
    <3> SUFFICES ASSUME NEW i \in 1..Len(decodeQueue'),
                        NEW j \in 1..Len(decodeQueue'),
                        i < j, decodeQueue'[i] # 0, decodeQueue'[j] # 0
                 PROVE  decodeQueue'[i] < decodeQueue'[j]
      BY DEF QueueRising
    <3>1. /\ decodeQueue'[i] = decodeQueue[i + 1]
          /\ decodeQueue'[j] = decodeQueue[j + 1]
      BY <2>1, <2>4
    <3>2. i + 1 < j + 1
      BY <1>0, <2>1
    <3>3. QED
      BY <2>4, <3>1, <3>2 DEF OrderInv, QueueRising
  <2>6. QueueAhead'
    <3>1. nal' <= Offered'
      <4>1. 1 \in 1..Len(decodeQueue)
        BY <1>0, <2>1
      <4>2. QED
        BY <1>10, <2>2, <2>3, <4>1
    <3>2. ASSUME NEW i \in 1..Len(decodeQueue')
          PROVE  /\ decodeQueue'[i] <= Offered'
                 /\ decodeQueue'[i] # 0 => nal' < decodeQueue'[i]
      <4>1. /\ decodeQueue'[i] = decodeQueue[i + 1]
            /\ i + 1 \in 1..Len(decodeQueue) /\ 1 < i + 1
            /\ 1 \in 1..Len(decodeQueue)
        BY <1>0, <2>1, <2>4
      <4>2. CASE nal' = nal
        BY <2>2, <2>3, <4>1, <4>2
      <4>3. CASE nal' = decodeQueue[1] /\ decodeQueue[1] # 0
        <5>1. decodeQueue[i + 1] # 0 => decodeQueue[1] < decodeQueue[i + 1]
          BY <4>1, <4>3 DEF OrderInv, QueueRising
        <5>2. QED
          BY <2>2, <2>3, <4>1, <4>3, <5>1
      <4>4. CASE nal' = 0
        BY <1>0, <2>2, <2>3, <4>1, <4>4
      <4>5. QED
        BY <1>10, <4>2, <4>3, <4>4
    <3>3. QED
      BY <3>1, <3>2 DEF QueueAhead
  <2>7. QED
    BY <2>5, <2>6
<1>11. CASE DecodeDiscard
  <2>1. CASE decodeQueue = <<>>
    BY <1>8, <1>11, <2>1 DEF DecodeDiscard
  <2>2. CASE decodeQueue # <<>>
    <3>1. QueueRising' /\ QueueAhead'
      BY <1>10, <1>11, <2>2 DEF DecodeDiscard
    <3>2. /\ UNCHANGED <<nal, callbacks>> /\ UNCHANGED <<deque, receiver>>
          /\ UNCHANGED <<frame, delivered>>
          /\ decoder = "discard" /\ decoder' = "drain"
      BY <1>11, <2>2 DEF DecodeDiscard
    <3>3. PutsRising' /\ DequeRising' /\ DeliveredBehind'
      BY <3>2 DEF OrderInv, PutsRising, DequeRising, DeliveredBehind
    <3>4. PutsBehind' /\ DequeBehind' /\ FrameBehind'
      BY <3>2 DEF OrderInv, PutsBehind, DequeBehind, FrameBehind, Behind
    <3>5. QED
      BY <3>1, <3>3, <3>4 DEF OrderInv
  <2>3. QED
    BY <2>1, <2>2
<1>12. CASE DecodeGet
  <2>1. CASE decodeQueue = <<>>
    BY <1>8, <1>12, <2>1 DEF DecodeGet
  <2>2. CASE decodeQueue # <<>>
    <3>1. /\ nal' = decodeQueue[1] /\ decodeQueue' = Tail(decodeQueue)
          /\ 1 \in 1..Len(decodeQueue)
      BY <1>0, <1>12, <2>2, TailFacts DEF DecodeGet
    <3>2. QueueRising' /\ QueueAhead'
      BY <1>10, <1>12, <2>2, <3>1 DEF DecodeGet
    <3>3. /\ UNCHANGED callbacks /\ UNCHANGED <<deque, receiver>>
          /\ UNCHANGED <<frame, delivered>>
          /\ decoder = "get"
          /\ decoder' = IF nal' = 0 THEN "done" ELSE "decode"
      BY <1>12, <2>2 DEF DecodeGet
    <3>4. PutsRising' /\ DequeRising' /\ DeliveredBehind'
      BY <3>3 DEF OrderInv, PutsRising, DequeRising, DeliveredBehind
    <3>5. nal' # 0 => nal < nal' /\ nal' \in Nat
      BY <1>0, <3>1 DEF OrderInv, QueueAhead
    <3>6. PutsBehind'
      BY <1>0, <3>3, <3>5 DEF OrderInv, PutsBehind, Behind
    <3>7. DequeBehind'
      BY <1>0, <3>3, <3>5 DEF OrderInv, DequeBehind, Behind
    <3>8. FrameBehind'
      BY <1>0, <3>3, <3>5 DEF OrderInv, FrameBehind, Behind
    <3>9. QED
      BY <3>2, <3>4, <3>6, <3>7, <3>8 DEF OrderInv
  <2>3. QED
    BY <2>1, <2>2
\* A callback that carries no frame is scheduled, another is done.
<1>13. ASSUME UNCHANGED <<decodeQueue, fed, feeder, nal>>,
              UNCHANGED <<deque, receiver>>, UNCHANGED <<frame, delivered>>,
              \/ decoder \notin {"decode", "done"} /\ decoder' # "decode"
              \/ decoder' = decoder,
              NEW k \in {0, 1}, k <= Len(callbacks),
              Len(callbacks') \in Nat,
              \A i \in 1..Len(callbacks') : callbacks'[i].op = "put" =>
                  /\ i + k \in 1..Len(callbacks)
                  /\ callbacks'[i] = callbacks[i + k]
       PROVE  OrderInv'
  <2>1. QueueRising' /\ QueueAhead' /\ DequeRising' /\ DeliveredBehind'
    BY <1>13 DEF OrderInv, QueueRising, QueueAhead, DequeRising,
                 DeliveredBehind, Offered
  <2>2. /\ decoder' # "done" => decoder # "done"
        /\ decoder' = "decode" => decoder = "decode"
        /\ decoder # "done" => decoder = "decode" \/ decoder' # "decode"
    BY <1>13
  <2>3. PutsRising'
    <3> SUFFICES ASSUME NEW i \in 1..Len(callbacks'),
                        NEW j \in 1..Len(callbacks'), i < j,
                        callbacks'[i].op = "put", callbacks'[j].op = "put"
                 PROVE  callbacks'[i].frame < callbacks'[j].frame
      BY DEF PutsRising
    <3>1. /\ i + k \in 1..Len(callbacks) /\ callbacks'[i] = callbacks[i + k]
          /\ j + k \in 1..Len(callbacks) /\ callbacks'[j] = callbacks[j + k]
          /\ i + k < j + k
      BY <1>13
    <3>2. QED
      BY <3>1 DEF OrderInv, PutsRising
  <2>4. PutsBehind'
    BY <1>13, <2>2 DEF OrderInv, PutsBehind, Behind
  <2>5. DequeBehind'
    BY <1>13, <2>2 DEF OrderInv, DequeBehind, Behind
  <2>6. FrameBehind'
    BY <1>13, <2>2 DEF OrderInv, FrameBehind, Behind
  <2>7. QED
    BY <2>1, <2>3, <2>4, <2>5, <2>6 DEF OrderInv
<1>14. CASE DecodeAsk
  <2>1. [op |-> "request", frame |-> 0] \in Callbacks
    BY DEF Callbacks
  <2>2. /\ Len(callbacks') = Len(callbacks) + 1
        /\ \A i \in 1..Len(callbacks) : callbacks'[i] = callbacks[i]
        /\ callbacks'[Len(callbacks) + 1] = [op |-> "request", frame |-> 0]
    BY <1>0, <1>14, <2>1, AppendFacts DEF DecodeAsk
  <2>3. \A i \in 1..Len(callbacks') : callbacks'[i].op = "put" =>
            /\ i + 0 \in 1..Len(callbacks)
            /\ callbacks'[i] = callbacks[i + 0]
    BY <1>0, <2>2
  <2>4. Len(callbacks') \in Nat /\ 0 <= Len(callbacks) /\ 0 \in {0, 1}
    BY <1>0, <2>2
  <2>5. /\ UNCHANGED <<decodeQueue, fed, feeder, nal>>
        /\ UNCHANGED <<deque, receiver>> /\ UNCHANGED <<frame, delivered>>
        /\ decoder \notin {"decode", "done"} /\ decoder' # "decode"
    BY <1>14 DEF DecodeAsk
  <2>6. QED
    BY <1>13, <2>3, <2>4, <2>5
<1>15. CASE OnKeyframeRequest
  <2>1. callbacks # <<>> /\ callbacks' = Tail(callbacks)
    BY <1>15 DEF OnKeyframeRequest, NextCallback
  <2>2. /\ Len(callbacks) >= 1 /\ Len(callbacks') = Len(callbacks) - 1
        /\ \A i \in 1..(Len(callbacks) - 1) : callbacks'[i] = callbacks[i + 1]
    BY <1>0, <2>1, TailFacts
  <2>3. \A i \in 1..Len(callbacks') : callbacks'[i].op = "put" =>
            /\ i + 1 \in 1..Len(callbacks)
            /\ callbacks'[i] = callbacks[i + 1]
    BY <1>0, <2>2
  <2>4. Len(callbacks') \in Nat /\ 1 <= Len(callbacks) /\ 1 \in {0, 1}
    BY <1>0, <2>2
  <2>5. /\ UNCHANGED <<decodeQueue, fed, feeder, nal>>
        /\ UNCHANGED <<deque, receiver>> /\ UNCHANGED <<frame, delivered>>
        /\ decoder' = decoder
    BY <1>15 DEF OnKeyframeRequest
  <2>6. QED
    BY <1>13, <2>3, <2>4, <2>5
<1>16. CASE RequestKeyframe
  <2> DEFINE rest == Tail(callbacks)
             ask == [op |-> "ask", frame |-> 0]
  <2>1. callbacks # <<>> /\ callbacks' = Append(rest, ask)
    BY <1>16 DEF RequestKeyframe, NextCallback
  <2>2. /\ Len(callbacks) >= 1 /\ Len(rest) = Len(callbacks) - 1
        /\ \A i \in 1..(Len(callbacks) - 1) : rest[i] = callbacks[i + 1]
        /\ rest \in Seq(Callbacks)
    BY <1>0, <2>1, TailFacts
  <2>3. ask \in Callbacks /\ ask.op = "ask"
    BY DEF Callbacks
  <2> HIDE DEF rest, ask
  <2>4. /\ Len(callbacks') = Len(rest) + 1
        /\ \A i \in 1..Len(rest) : callbacks'[i] = rest[i]
        /\ callbacks'[Len(rest) + 1] = ask
    BY <2>1, <2>2, <2>3, AppendFacts
  <2>5. \A i \in 1..Len(callbacks') : callbacks'[i].op = "put" =>
            /\ i + 1 \in 1..Len(callbacks)
            /\ callbacks'[i] = callbacks[i + 1]
    <3> SUFFICES ASSUME NEW i \in 1..Len(callbacks'), callbacks'[i].op = "put"
                 PROVE  /\ i + 1 \in 1..Len(callbacks)
                        /\ callbacks'[i] = callbacks[i + 1]
      OBVIOUS
    <3>1. i # Len(rest) + 1
      BY <2>3, <2>4
    <3>2. i \in 1..(Len(callbacks) - 1) /\ i \in 1..Len(rest)
      BY <1>0, <2>2, <2>4, <3>1
    <3>3. callbacks'[i] = rest[i] /\ rest[i] = callbacks[i + 1]
      BY <2>2, <2>4, <3>2
    <3>4. i + 1 \in 1..Len(callbacks)
      BY <1>0, <3>2
    <3>5. QED
      BY <3>3, <3>4
  <2>6. Len(callbacks') \in Nat /\ 1 <= Len(callbacks) /\ 1 \in {0, 1}
    BY <1>0, <2>2, <2>4
  <2>7. /\ UNCHANGED <<decodeQueue, fed, feeder, nal>>
        /\ UNCHANGED <<deque, receiver>> /\ UNCHANGED <<frame, delivered>>
        /\ decoder' = decoder
    BY <1>16 DEF RequestKeyframe
  <2>8. QED
    BY <1>13, <2>5, <2>6, <2>7
\* A frame is scheduled: it is newer than all before it.
<1>17. CASE DecodeNal
  <2>1. /\ UNCHANGED <<decodeQueue, fed, feeder, nal>>
        /\ UNCHANGED <<deque, receiver>> /\ UNCHANGED <<frame, delivered>>
        /\ decoder = "decode" /\ decoder' = "loop"
    BY <1>17 DEF DecodeNal
  <2>2. QueueRising' /\ QueueAhead' /\ DequeRising' /\ DeliveredBehind'
    BY <2>1 DEF OrderInv, QueueRising, QueueAhead, DequeRising,
                DeliveredBehind, Offered
  <2>4. CASE callbacks' = callbacks
    <3>1. PutsRising' /\ PutsBehind' /\ DequeBehind' /\ FrameBehind'
      BY <2>1, <2>4 DEF OrderInv, PutsRising, PutsBehind, DequeBehind,
                        FrameBehind, Behind
    <3>2. QED
      BY <2>2, <3>1 DEF OrderInv
  <2>5. CASE callbacks' = Append(callbacks, [op |-> "put", frame |-> nal])
    <3> DEFINE put == [op |-> "put", frame |-> nal]
    <3>1. put \in Callbacks /\ put.frame = nal
      BY <1>0 DEF Callbacks
    <3>2. /\ Len(callbacks') = Len(callbacks) + 1
          /\ \A i \in 1..Len(callbacks) : callbacks'[i] = callbacks[i]
          /\ callbacks'[Len(callbacks) + 1] = put
      BY <1>0, <2>5, <3>1, AppendFacts
    <3> HIDE DEF put
    <3>3. \A i \in 1..Len(callbacks') :
              i \in 1..Len(callbacks) \/ i = Len(callbacks) + 1
      BY <1>0, <3>2
    <3>4. \A i \in 1..Len(callbacks) :
              IsPut(i) => callbacks[i].frame < nal
      BY <1>0, <2>1 DEF OrderInv, PutsBehind, Behind
    <3>5. PutsBehind'
      <4> SUFFICES ASSUME NEW i \in 1..Len(callbacks'), callbacks'[i].op = "put"
                   PROVE  Behind(callbacks[i].frame)'
        BY DEF PutsBehind
      <4>1. CASE i \in 1..Len(callbacks)
        <5>1. callbacks'[i] = callbacks[i]
          BY <3>2, <4>1
        <5>2. callbacks[i].frame <= nal
          BY <1>0, <3>4, <4>1, <5>1
        <5>3. QED
          BY <2>1, <5>1, <5>2 DEF Behind
      <4>2. CASE i = Len(callbacks) + 1
        BY <1>0, <2>1, <3>1, <3>2, <4>2 DEF Behind
      <4>3. QED
        BY <3>3, <4>1, <4>2
    <3>6. PutsRising'
      <4> SUFFICES ASSUME NEW i \in 1..Len(callbacks'),
                          NEW j \in 1..Len(callbacks'), i < j,
                          callbacks'[i].op = "put", callbacks'[j].op = "put"
                   PROVE  callbacks'[i].frame < callbacks'[j].frame
        BY DEF PutsRising
      <4>1. i \in 1..Len(callbacks) /\ callbacks'[i] = callbacks[i]
        BY <1>0, <3>2
      <4>2. CASE j \in 1..Len(callbacks)
        BY <3>2, <4>1, <4>2 DEF OrderInv, PutsRising
      <4>3. CASE j = Len(callbacks) + 1
        BY <3>1, <3>2, <3>4, <4>1, <4>3
      <4>4. QED
        BY <3>3, <4>2, <4>3
    <3>7. DequeBehind'
      <4>1. \A i \in 1..Len(deque) : deque[i] < nal
        BY <2>1 DEF OrderInv, DequeBehind, Behind
      <4>2. ASSUME NEW i \in 1..Len(deque), NEW j \in 1..Len(callbacks'),
                   callbacks'[j].op = "put"
            PROVE  deque[i] < callbacks'[j].frame
        <5>1. CASE j \in 1..Len(callbacks)
          BY <3>2, <4>2, <5>1 DEF OrderInv, DequeBehind
        <5>2. CASE j = Len(callbacks) + 1
          BY <3>1, <3>2, <4>1, <5>2
        <5>3. QED
          BY <3>3, <5>1, <5>2
      <4>3. QED
        BY <1>0, <2>1, <4>1, <4>2 DEF DequeBehind, Behind
    <3>8. FrameBehind'
      <4>1. frame < nal
        BY <2>1 DEF OrderInv, FrameBehind, Behind
      <4>2. ASSUME NEW j \in 1..Len(callbacks'), callbacks'[j].op = "put"
            PROVE  frame < callbacks'[j].frame
        <5>1. CASE j \in 1..Len(callbacks)
          BY <3>2, <4>2, <5>1 DEF OrderInv, FrameBehind
        <5>2. CASE j = Len(callbacks) + 1
          BY <3>1, <3>2, <4>1, <5>2
        <5>3. QED
          BY <3>3, <5>1, <5>2
      <4>3. QED
        BY <1>0, <2>1, <4>1, <4>2 DEF OrderInv, FrameBehind, Behind
    <3>9. QED
      BY <2>2, <3>5, <3>6, <3>7, <3>8 DEF OrderInv
  <2>6. QED
    BY <1>17, <2>4, <2>5 DEF DecodeNal
\* A frame moves from the ready queue to the deque, which may lose its oldest.
<1>18. CASE PutFrame
  <2> DEFINE item == Head(callbacks).frame
             n == Len(deque)
             m == Len(callbacks)
  <2>1. /\ callbacks # <<>> /\ callbacks' = Tail(callbacks)
        /\ callbacks[1].op = "put"
        /\ deque' = PutDropOldest(deque, DequeMax, item)
        /\ UNCHANGED <<decodeQueue, fed, feeder, decoder, nal>>
        /\ UNCHANGED <<receiver, frame, delivered>>
    BY <1>0, <1>18, TailFacts DEF PutFrame, NextCallback
  <2>2. /\ m >= 1 /\ 1 \in 1..m /\ Len(callbacks') = m - 1
        /\ \A j \in 1..(m - 1) : /\ callbacks'[j] = callbacks[j + 1]
                                 /\ j + 1 \in 1..m /\ 1 < j + 1
        /\ item = callbacks[1].frame /\ item \in Nat
    BY <1>0, <2>1, TailFacts
  <2>3. PICK k \in {0, 1} :
            /\ k <= n /\ Len(deque') = n - k + 1
            /\ \A i \in 1..(n - k) : deque'[i] = deque[i + k]
            /\ deque'[n - k + 1] = item
    <3>1. deque \in Seq(Nat) /\ DequeMax \in Nat \ {0} /\ item \in Nat
      BY <1>0, <2>2, BoundsAssumption
    <3> HIDE DEF item
    <3>2. QED
      BY ONLY <2>1, <3>1, PutDropOldestItems
  <2> HIDE DEF item
  <2>4. \A i \in 1..Len(deque') :
            \/ i \in 1..(n - k) /\ i + k \in 1..n /\ deque'[i] = deque[i + k]
            \/ i = n - k + 1 /\ deque'[i] = item
    <3>1. n \in Nat
      BY <1>0
    <3>2. \A i \in 1..(n - k + 1) :
              (i \in 1..(n - k) /\ i + k \in 1..n) \/ i = n - k + 1
      BY <3>1
    <3>3. QED
      BY <2>3, <3>2
  <2>5. /\ \A i \in 1..n : deque[i] < item
        /\ frame < item
        /\ \A j \in 1..(m - 1) :
               callbacks'[j].op = "put" => item < callbacks'[j].frame
    BY <1>0, <2>1, <2>2 DEF OrderInv, DequeBehind, FrameBehind, PutsRising
  <2>6. QueueRising' /\ QueueAhead' /\ DeliveredBehind'
    BY <2>1 DEF OrderInv, QueueRising, QueueAhead, DeliveredBehind, Offered
  <2>7. PutsRising' /\ PutsBehind'
    <3>1. PutsBehind'
      BY <2>1, <2>2 DEF OrderInv, PutsBehind, Behind
    <3>2. ASSUME NEW i \in 1..(m - 1), NEW j \in 1..(m - 1), i < j,
                 callbacks'[i].op = "put", callbacks'[j].op = "put"
          PROVE  callbacks'[i].frame < callbacks'[j].frame
      <4>1. /\ i + 1 \in 1..m /\ j + 1 \in 1..m /\ i + 1 < j + 1
            /\ callbacks'[i] = callbacks[i + 1]
            /\ callbacks'[j] = callbacks[j + 1]
        BY <1>0, <2>2, <3>2
      <4>2. QED
        BY <3>2, <4>1 DEF OrderInv, PutsRising
    <3>3. PutsRising'
      BY <2>2, <3>2 DEF PutsRising
    <3>4. QED
      BY <3>1, <3>3
  <2>8. DequeRising'
    <3> SUFFICES ASSUME NEW i \in 1..Len(deque'),
                        NEW j \in 1..Len(deque'), i < j
                 PROVE  deque'[i] < deque'[j]
      BY DEF DequeRising
    <3>1. i + k \in 1..n /\ deque'[i] = deque[i + k]
      <4>1. n \in Nat /\ i # n - k + 1
        BY <1>0, <2>3
      <4>2. QED
        BY <2>4, <4>1
    <3>2. CASE j + k \in 1..n /\ deque'[j] = deque[j + k]
      <4>1. i + k < j + k
        BY <1>0, <2>3
      <4>2. QED
        BY <3>1, <3>2, <4>1 DEF OrderInv, DequeRising
    <3>3. CASE deque'[j] = item
      BY <2>5, <3>1, <3>3
    <3>4. QED
      BY <2>4, <3>2, <3>3
  <2>9. DequeBehind'
    <3> SUFFICES ASSUME NEW i \in 1..Len(deque')
                 PROVE  /\ decoder' # "done" => deque'[i] <= nal'
                        /\ decoder' = "decode" => deque'[i] < nal'
                        /\ \A j \in 1..Len(callbacks') :
                             callbacks'[j].op = "put" =>
                                 deque'[i] < callbacks'[j].frame
      BY DEF DequeBehind, Behind
    <3>1. CASE i + k \in 1..n /\ deque'[i] = deque[i + k]
      BY <2>1, <2>2, <3>1 DEF OrderInv, DequeBehind, Behind
    <3>2. CASE deque'[i] = item
      BY <2>1, <2>2, <2>5, <3>2 DEF OrderInv, PutsBehind, Behind
    <3>3. QED
      BY <2>4, <3>1, <3>2
  <2>10. FrameBehind'
    <3>1. \A i \in 1..Len(deque') : frame < deque'[i]
      BY <2>4, <2>5 DEF OrderInv, FrameBehind
    <3>2. \A j \in 1..Len(callbacks') :
              callbacks'[j].op = "put" => frame < callbacks'[j].frame
      BY <2>2 DEF OrderInv, FrameBehind
    <3>3. QED
      BY <2>1, <3>1, <3>2 DEF OrderInv, FrameBehind, Behind
  <2>11. QED
    BY <2>6, <2>7, <2>8, <2>9, <2>10 DEF OrderInv
\* recv pops the oldest frame.
<1>19. CASE Recv
  <2>1. /\ UNCHANGED <<decodeQueue, fed, feeder, decoder, nal>>
        /\ UNCHANGED <<callbacks, delivered>>
    BY <1>19 DEF Recv
  <2>2. QueueRising' /\ QueueAhead' /\ PutsRising' /\ PutsBehind'
    BY <2>1 DEF OrderInv, QueueRising, QueueAhead, PutsRising, PutsBehind,
                Behind, Offered
  <2>3. CASE deque = <<>>
    <3>1. UNCHANGED <<frame, deque>> /\ receiver' = "waiting"
      BY <1>19, <2>3 DEF Recv
    <3>2. DequeRising' /\ DequeBehind' /\ FrameBehind' /\ DeliveredBehind'
      BY <2>1, <3>1 DEF OrderInv, DequeRising, DequeBehind, FrameBehind,
                        DeliveredBehind, Behind
    <3>3. QED
      BY <2>2, <3>2 DEF OrderInv
  <2>4. CASE deque # <<>>
    <3>1. /\ frame' = deque[1] /\ receiver' = "pacing"
          /\ 1 \in 1..Len(deque) /\ Len(deque') = Len(deque) - 1
          /\ \A i \in 1..(Len(deque) - 1) : deque'[i] = deque[i + 1]
      <4>1. frame' = Head(deque) /\ deque' = Tail(deque) /\ receiver' = "pacing"
        BY <1>19, <2>4 DEF Recv
      <4>2. /\ Head(deque) = deque[1] /\ Len(deque) >= 1
            /\ Len(Tail(deque)) = Len(deque) - 1
            /\ \A i \in 1..(Len(deque) - 1) : Tail(deque)[i] = deque[i + 1]
        BY <1>0, <2>4, TailFacts
      <4>3. 1 \in 1..Len(deque)
        BY <1>0, <4>2
      <4>4. QED
        BY <4>1, <4>2, <4>3
    <3>2. \A i \in 1..Len(deque') : /\ i + 1 \in 1..Len(deque) /\ 1 < i + 1
                                    /\ deque'[i] = deque[i + 1]
      BY <1>0, <3>1
    <3>3. DequeRising'
      <4> SUFFICES ASSUME NEW i \in 1..Len(deque'),
                          NEW j \in 1..Len(deque'), i < j
                   PROVE  deque'[i] < deque'[j]
        BY DEF DequeRising
      <4>1. i + 1 < j + 1
        BY <1>0, <3>1
      <4>2. QED
        BY <3>2, <4>1 DEF OrderInv, DequeRising
    <3>4. DequeBehind'
      BY <2>1, <3>2 DEF OrderInv, DequeBehind, Behind
    <3>5. FrameBehind'
      <4>1. \A i \in 1..Len(deque') : frame' < deque'[i]
        BY <3>1, <3>2 DEF OrderInv, DequeRising
      <4>2. QED
        BY <2>1, <3>1, <4>1 DEF OrderInv, DequeBehind, FrameBehind, Behind
    <3>6. DeliveredBehind'
      <4>1. delivered <= frame /\ frame < frame'
        BY <3>1 DEF OrderInv, DeliveredBehind, FrameBehind
      <4>2. QED
        BY <1>0, <2>1, <3>1, <4>1 DEF DeliveredBehind
    <3>7. QED
      BY <2>2, <3>3, <3>4, <3>5, <3>6 DEF OrderInv
  <2>5. QED
    BY <2>3, <2>4
<1>20. CASE RecvReturn
  <2>1. /\ UNCHANGED <<decodeQueue, fed, feeder, decoder, nal>>
        /\ UNCHANGED <<callbacks, deque, frame>>
        /\ delivered' = frame /\ receiver' = "idle"
    BY <1>20 DEF RecvReturn
  <2>2. DeliveredBehind'
    BY <1>0, <2>1 DEF DeliveredBehind
  <2>3. QueueRising' /\ QueueAhead' /\ PutsRising' /\ PutsBehind'
    BY <2>1 DEF OrderInv, QueueRising, QueueAhead, PutsRising, PutsBehind,
                Behind, Offered
  <2>4. DequeRising' /\ DequeBehind' /\ FrameBehind'
    BY <2>1 DEF OrderInv, DequeRising, DequeBehind, FrameBehind, Behind
  <2>5. QED
    BY <2>2, <2>3, <2>4 DEF OrderInv
<1>21. CASE UNCHANGED vars
  BY <1>1, <1>21 DEF vars, orderVars
<1>22. QED
  BY <1>3, <1>5, <1>6, <1>7, <1>9, <1>11, <1>12, <1>14, <1>15, <1>16, <1>17,
     <1>18, <1>19, <1>20, <1>21 DEF Next, Feeder, Decoder, Callback, Receiver

\* In every behaviour recv returns frames in decoding order, each once.
THEOREM FramesInOrder == Spec => DeliveredInOrder
<1>1. Init => OrderInv
  BY DEF Init, OrderInv, QueueRising, QueueAhead, PutsRising, PutsBehind,
         DequeRising, DequeBehind, FrameBehind, DeliveredBehind, Behind,
         Offered, Sentinel
<1>2. TypeOK /\ OrderInv /\ [Next]_vars => OrderInv'
  BY OrderInvStep
<1>3. OrderInv /\ [Next]_vars => [delivered' > delivered]_delivered
  <2> SUFFICES ASSUME OrderInv, [Next]_vars, delivered' # delivered
               PROVE  delivered' > delivered
    OBVIOUS
  <2>1. RecvReturn
    BY DEF Next, Feeder, Decoder, Callback, Receiver, FeedNal, FeedPut,
           FeedOverflow, DecodeLoop, DecodeCheck, DecodeClear, DecodeDrain,
           DecodeDiscard, DecodeReset, DecodeAsk, DecodeGet, DecodeNal,
           PutFrame, RequestKeyframe, OnKeyframeRequest, Recv, Stop, vars,
           receiverVars
  <2>2. QED
    BY <2>1 DEF RecvReturn, OrderInv, DeliveredBehind
<1>4. QED
  BY <1>1, <1>2, <1>3, TypeCorrect, PTL DEF Spec, DeliveredInOrder
-----------------------------------------------------------------------------
\* Of the parameter sets among the first n NALs context c knows the latest,
\* or a newer one.
Knows(c, n) ==
    \A i \in 1..n : /\ fed[i] = "sps" => c.sps >= i
                    /\ fed[i] = "pps" => c.pps >= i

\* The NALs a context created now, from params, may miss in the queue.
Queued == IF feeder = "put" THEN Len(fed) - 1 ELSE Len(fed)

ParamsKnown ==
    /\ params.sps <= Len(fed) /\ params.pps <= Len(fed)
    /\ Knows(params, Len(fed))

\* Whatever is in the queue, in the codec or at the decode thread was fed.
ItemsFed ==
    /\ feeder # "idle" => Len(fed) >= 1
    /\ \A i \in 1..Len(decodeQueue) : decodeQueue[i] <= Len(fed)
    /\ codec.last <= Len(fed)
    /\ decoder = "decode" => nal \in 1..Len(fed)

ContextKnows == ~codec.spliced => Knows(codec, codec.last)

\* A context that was given nothing yet knows what precedes its first NAL.
FreshKnows ==
    codec.last = 0 =>
        /\ decoder = "decode" => Knows(codec, nal - 1)
        /\ decoder \in {"ask", "loop", "check", "get"} =>
              /\ decodeQueue = <<>> => Knows(codec, Queued)
              /\ decodeQueue # <<>> /\ decodeQueue[1] # Sentinel =>
                    Knows(codec, decodeQueue[1] - 1)

ParamsInv == ParamsKnown /\ ItemsFed /\ ContextKnows /\ FreshKnows

LEMMA ParamsInvStep ==
    ASSUME TypeOK, ParamsInv, [Next]_vars
    PROVE  ParamsInv'
<1> USE DEF feederVars, decoderVars, receiverVars, Sentinel
<1>0. /\ nal \in Nat /\ Len(fed) \in Nat /\ fed \in Seq(NalKinds)
      /\ decodeQueue \in Seq(Nat) /\ Len(decodeQueue) \in Nat
      /\ \A i \in 1..Len(decodeQueue) : decodeQueue[i] \in Nat
      /\ decodeQueue # <<>> => 1 \in 1..Len(decodeQueue)
  <2>1. nal \in Nat /\ fed \in Seq(NalKinds) /\ decodeQueue \in Seq(Nat)
    BY DEF TypeOK
  <2>2. QED
    BY ONLY <2>1
<1>00. /\ codec \in [last : Nat, sps : Nat, pps : Nat, spliced : BOOLEAN]
       /\ params \in [sps : Nat, pps : Nat]
  BY DEF TypeOK
<1>1. CASE UNCHANGED <<decodeQueue, fed, feeder, params, decoder, nal, codec>>
  BY <1>1 DEF ParamsInv, ParamsKnown, ItemsFed, ContextKnows, FreshKnows,
              Knows, Queued
<1>2. ASSUME NEW kind \in NalKinds, FeedNal(kind) PROVE ParamsInv'
  <2>1. /\ Len(fed') = Len(fed) + 1
        /\ \A i \in 1..Len(fed) : fed'[i] = fed[i]
        /\ fed'[Len(fed) + 1] = kind
    BY <1>0, <1>2, AppendFacts DEF FeedNal
  <2>2. /\ feeder = "idle" /\ feeder' = "put"
        /\ UNCHANGED <<decodeQueue, decoder, nal, codec>>
    BY <1>2 DEF FeedNal
  <2>3. Queued = Len(fed) /\ Queued' = Len(fed)
    BY <1>0, <2>1, <2>2 DEF Queued
  <2>4. ParamsKnown'
    <3>1. kind \in {"sps", "pps", "slice"}
      BY BoundsAssumption
    <3>2. /\ kind = "sps" => /\ params'.sps = Len(fed) + 1
                             /\ params'.pps = params.pps
          /\ kind = "pps" => /\ params'.pps = Len(fed) + 1
                             /\ params'.sps = params.sps
          /\ kind = "slice" => params' = params
      BY <1>00, <1>2, <2>1 DEF FeedNal
    <3>3. /\ params.sps \in Nat /\ params.sps <= Len(fed)
          /\ params.pps \in Nat /\ params.pps <= Len(fed)
      BY <1>00 DEF ParamsInv, ParamsKnown
    <3>4. /\ params.sps <= params'.sps /\ params'.sps <= Len(fed')
          /\ params.pps <= params'.pps /\ params'.pps <= Len(fed')
          /\ params'.sps \in Nat /\ params'.pps \in Nat
      BY <1>0, <2>1, <3>1, <3>2, <3>3
    <3>5. ASSUME NEW i \in 1..Len(fed')
          PROVE  /\ fed'[i] = "sps" => params'.sps >= i
                 /\ fed'[i] = "pps" => params'.pps >= i
      <4>1. CASE i = Len(fed) + 1
        BY <1>0, <2>1, <3>2, <4>1
      <4>2. CASE i \in 1..Len(fed)
        <5>1. /\ fed'[i] = "sps" => params.sps >= i
              /\ fed'[i] = "pps" => params.pps >= i
          BY <2>1, <4>2 DEF ParamsInv, ParamsKnown, Knows
        <5>2. QED
          BY <3>3, <3>4, <5>1
      <4>3. QED
        BY <1>0, <2>1, <4>1, <4>2
    <3>6. QED
      BY <3>4, <3>5 DEF ParamsKnown, Knows
  <2>5. ItemsFed'
    BY <1>0, <1>00, <2>1, <2>2 DEF ParamsInv, ItemsFed
  <2>6. ContextKnows'
    <3>1. codec.last \in Nat /\ codec.last <= Len(fed)
      BY <1>00 DEF ParamsInv, ItemsFed
    <3>2. QED
      BY <1>0, <2>1, <2>2, <3>1 DEF ParamsInv, ContextKnows, Knows
  <2>7. FreshKnows'
    <3>1. /\ decoder = "decode" => nal \in 1..Len(fed)
          /\ decodeQueue # <<>> => /\ decodeQueue[1] \in Nat
                                   /\ decodeQueue[1] <= Len(fed)
      BY <1>0 DEF ParamsInv, ItemsFed
    <3>2. CASE decoder = "decode"
      <4>1. \A i \in 1..(nal - 1) : fed'[i] = fed[i]
        BY <1>0, <2>1, <3>1, <3>2
      <4>2. QED
        BY <2>2, <3>2, <4>1 DEF ParamsInv, FreshKnows, Knows
    <3>3. CASE decoder # "decode" /\ decodeQueue = <<>>
      BY <2>1, <2>2, <2>3, <3>3 DEF ParamsInv, FreshKnows, Knows
    <3>4. CASE decoder # "decode" /\ decodeQueue # <<>>
      <4>1. \A i \in 1..(decodeQueue[1] - 1) : fed'[i] = fed[i]
        BY <1>0, <2>1, <3>1, <3>4
      <4>2. QED
        BY <2>2, <3>4, <4>1 DEF ParamsInv, FreshKnows, Knows
    <3>5. QED
      BY <3>2, <3>3, <3>4
  <2>8. QED
    BY <2>4, <2>5, <2>6, <2>7 DEF ParamsInv
\* From here on nothing is fed; what is left to show is about the queue, the
\* decode thread and the context.
<1>3. ASSUME UNCHANGED <<fed, params>>, ItemsFed', ContextKnows', FreshKnows'
      PROVE  ParamsInv'
  BY <1>3 DEF ParamsInv, ParamsKnown, Knows
<1>4. ASSUME UNCHANGED <<fed, codec>> PROVE ContextKnows'
  BY <1>4 DEF ParamsInv, ContextKnows, Knows
\* An item goes to the end of the queue.
<1>5. ASSUME NEW n \in Nat, decodeQueue' = Append(decodeQueue, n),
             UNCHANGED <<fed, params>>, UNCHANGED <<decoder, nal, codec>>,
             feeder' = feeder \/ feeder' = "idle",
             n # 0 => n = Len(fed) /\ Queued = Len(fed) - 1
      PROVE  ParamsInv'
  <2>1. /\ Len(decodeQueue') = Len(decodeQueue) + 1
        /\ decodeQueue' # <<>>
        /\ \A i \in 1..Len(decodeQueue) : decodeQueue'[i] = decodeQueue[i]
        /\ decodeQueue'[Len(decodeQueue) + 1] = n
    BY <1>0, <1>5, AppendFacts
  <2>2. ItemsFed'
    <3>1. \A i \in 1..Len(decodeQueue') :
              i \in 1..Len(decodeQueue) \/ i = Len(decodeQueue) + 1
      BY <1>0, <2>1
    <3>2. n <= Len(fed)
      BY <1>0, <1>5
    <3>3. \A i \in 1..Len(decodeQueue') : decodeQueue'[i] <= Len(fed')
      BY <1>5, <2>1, <3>1, <3>2 DEF ParamsInv, ItemsFed
    <3>4. QED
      BY <1>5, <3>3 DEF ParamsInv, ItemsFed
  <2>3. FreshKnows'
    <3>1. CASE decodeQueue = <<>>
      <4>1. decodeQueue'[1] = n
        BY <2>1, <3>1
      <4>2. QED
        BY <1>5, <2>1, <3>1, <4>1 DEF ParamsInv, FreshKnows, Knows
    <3>2. CASE decodeQueue # <<>>
      <4>1. decodeQueue'[1] = decodeQueue[1]
        BY <1>0, <2>1, <3>2
      <4>2. QED
        BY <1>5, <2>1, <3>2, <4>1 DEF ParamsInv, FreshKnows, Knows
    <3>3. QED
      BY <3>1, <3>2
  <2>4. ContextKnows'
    BY <1>4, <1>5
  <2>5. QED
    BY <1>3, <1>5, <2>2, <2>3, <2>4
<1>6. CASE FeedPut
  <2>1. /\ feeder = "put" /\ Queued = Len(fed) - 1
        /\ UNCHANGED <<fed, params>> /\ UNCHANGED <<decoder, nal, codec>>
    BY <1>6 DEF FeedPut, Queued
  <2>2. CASE /\ Len(decodeQueue) >= DecodeQueueMax
             /\ feeder' = "full" /\ decodeQueue' = decodeQueue
    <3>1. decodeQueue # <<>>
      BY <2>2, BoundsAssumption
    <3>2. ItemsFed' /\ FreshKnows'
      BY <2>1, <2>2, <3>1 DEF ParamsInv, ItemsFed, FreshKnows, Knows
    <3>3. QED
      BY <1>3, <1>4, <2>1, <3>2
  <2>3. CASE decodeQueue' = Append(decodeQueue, Len(fed)) /\ feeder' = "idle"
    <3>1. Len(fed) \in Nat
      BY <1>0
    <3>2. QED
      BY <1>5, <2>1, <2>3, <3>1
  <2>4. QED
    BY <1>6, <2>2, <2>3 DEF FeedPut
<1>7. CASE FeedOverflow
  <2>1. /\ UNCHANGED <<fed, params>> /\ UNCHANGED <<decoder, nal, codec>>
        /\ UNCHANGED decodeQueue /\ feeder = "full" /\ feeder' = "idle"
    BY <1>7 DEF FeedOverflow
  <2>2. Queued' = Queued
    BY <2>1 DEF Queued
  <2>3. ItemsFed' /\ FreshKnows'
    BY <2>1, <2>2 DEF ParamsInv, ItemsFed, FreshKnows, Knows
  <2>4. QED
    BY <1>3, <1>4, <2>1, <2>3
<1>8. CASE Stop
  <2>1. /\ UNCHANGED <<fed, params>> /\ UNCHANGED <<decoder, nal, codec>>
        /\ UNCHANGED feeder
    BY <1>8 DEF Stop
  <2>2. CASE decodeQueue' = decodeQueue
    <3>1. ItemsFed' /\ FreshKnows'
      BY <2>1, <2>2 DEF ParamsInv, ItemsFed, FreshKnows, Knows, Queued
    <3>2. QED
      BY <1>3, <1>4, <2>1, <3>1
  <2>3. CASE decodeQueue' = Append(decodeQueue, 0)
    BY <1>5, <2>1, <2>3
  <2>4. QED
    BY <1>8, <2>2, <2>3 DEF Stop
\* The decode thread goes its way with the same queue and context.
<1>9. ASSUME UNCHANGED <<fed, params>>, UNCHANGED <<decodeQueue, feeder>>,
             UNCHANGED <<nal, codec>>, decoder' # "decode",
             \/ decoder \in {"ask", "loop", "check", "get"}
             \/ decoder' \notin {"ask", "loop", "check", "get"}
      PROVE  ParamsInv'
  <2>1. ItemsFed'
    BY <1>9 DEF ParamsInv, ItemsFed
  <2>2. FreshKnows'
    BY <1>9 DEF ParamsInv, FreshKnows, Knows, Queued
  <2>3. QED
    BY <1>3, <1>4, <1>9, <2>1, <2>2
<1>10. CASE DecodeLoop \/ DecodeCheck \/ DecodeClear \/ DecodeDrain \/ DecodeAsk
  BY <1>9, <1>10 DEF DecodeLoop, DecodeCheck, DecodeClear, DecodeDrain,
                     DecodeAsk
\* The head of the queue is taken.
<1>11. ASSUME decodeQueue # <<>>, decodeQueue' = Tail(decodeQueue)
       PROVE  \A i \in 1..Len(decodeQueue') : decodeQueue'[i] <= Len(fed)
  <2>1. /\ Len(decodeQueue') = Len(decodeQueue) - 1
        /\ \A i \in 1..(Len(decodeQueue) - 1) :
               decodeQueue'[i] = decodeQueue[i + 1]
    BY <1>0, <1>11, TailFacts
  <2>2. \A i \in 1..Len(decodeQueue') :
            /\ i \in 1..(Len(decodeQueue) - 1) /\ i + 1 \in 1..Len(decodeQueue)
    BY <1>0, <2>1
  <2>3. QED
    BY <2>1, <2>2 DEF ParamsInv, ItemsFed
<1>12. CASE DecodeDiscard
  <2>1. CASE decodeQueue = <<>>
    BY <1>9, <1>12, <2>1 DEF DecodeDiscard
  <2>2. CASE decodeQueue # <<>>
    <3>1. /\ UNCHANGED <<fed, params>> /\ UNCHANGED <<nal, codec, feeder>>
          /\ decodeQueue' = Tail(decodeQueue) /\ decoder' = "drain"
      BY <1>12, <2>2 DEF DecodeDiscard
    <3>2. ItemsFed'
      BY <1>11, <2>2, <3>1 DEF ParamsInv, ItemsFed
    <3>3. FreshKnows'
      BY <3>1 DEF FreshKnows
    <3>4. QED
      BY <1>3, <1>4, <3>1, <3>2, <3>3
  <2>3. QED
    BY <2>1, <2>2
\* The fresh context is given the latest parameter sets.
<1>13. CASE DecodeReset
  <2>1. /\ UNCHANGED <<fed, params>> /\ UNCHANGED <<decodeQueue, feeder, nal>>
        /\ decoder' = "ask"
        /\ codec' = [last |-> 0, sps |-> params.sps, pps |-> params.pps,
                     spliced |-> FALSE]
    BY <1>13 DEF DecodeReset, FreshCodec
  <2>2. /\ codec'.last = 0
        /\ codec'.sps = params.sps /\ codec'.pps = params.pps
    BY <2>1
  <2>3. ItemsFed'
    BY <1>0, <2>1, <2>2 DEF ParamsInv, ItemsFed
  <2>4. \A i \in 1..Len(fed) : /\ fed'[i] = "sps" => codec'.sps >= i
                               /\ fed'[i] = "pps" => codec'.pps >= i
    BY <2>1, <2>2 DEF ParamsInv, ParamsKnown, Knows
  <2>5. ContextKnows'
    BY <2>2 DEF ContextKnows, Knows
  <2>6. FreshKnows'
    <3>1. CASE decodeQueue = <<>>
      <4>1. Queued' \in Int /\ Queued' <= Len(fed)
        BY <1>0, <2>1 DEF Queued
      <4>2. \A i \in 1..Queued' : i \in 1..Len(fed)
        BY <1>0, <4>1
      <4>3. QED
        BY <2>1, <2>4, <3>1, <4>2 DEF FreshKnows, Knows
    <3>2. CASE decodeQueue # <<>>
      <4>1. decodeQueue[1] \in Nat /\ decodeQueue[1] <= Len(fed)
        BY <1>0, <3>2 DEF ParamsInv, ItemsFed
      <4>2. \A i \in 1..(decodeQueue[1] - 1) : i \in 1..Len(fed)
        BY <1>0, <4>1
      <4>3. QED
        BY <2>1, <2>4, <3>2, <4>2 DEF FreshKnows, Knows
    <3>3. QED
      BY <3>1, <3>2
  <2>7. QED
    BY <1>3, <2>1, <2>3, <2>5, <2>6
<1>14. CASE DecodeGet
  <2>1. CASE decodeQueue = <<>>
    BY <1>9, <1>14, <2>1 DEF DecodeGet
  <2>2. CASE decodeQueue # <<>>
    <3>1. /\ UNCHANGED <<fed, params>> /\ UNCHANGED <<codec, feeder>>
          /\ decodeQueue' = Tail(decodeQueue) /\ nal' = decodeQueue[1]
          /\ decoder = "get"
          /\ decoder' = IF nal' = 0 THEN "done" ELSE "decode"
      BY <1>0, <1>14, <2>2, TailFacts DEF DecodeGet
    <3>2. decodeQueue[1] \in Nat /\ decodeQueue[1] <= Len(fed)
      BY <1>0, <2>2 DEF ParamsInv, ItemsFed
    <3>3. ItemsFed'
      <4>1. decoder' = "decode" => nal' \in 1..Len(fed)
        BY <1>0, <3>1, <3>2
      <4>2. QED
        BY <1>11, <2>2, <3>1, <4>1 DEF ParamsInv, ItemsFed
    <3>4. FreshKnows'
      BY <2>2, <3>1 DEF ParamsInv, FreshKnows, Knows
    <3>5. QED
      BY <1>3, <1>4, <3>1, <3>3, <3>4
  <2>3. QED
    BY <2>1, <2>2
\* A NAL that follows what the context knows: a parameter set replaces the
\* one of before.
<1>15. CASE DecodeNal
  <2>1. /\ UNCHANGED <<fed, params>> /\ UNCHANGED <<decodeQueue, feeder, nal>>
        /\ decoder = "decode" /\ decoder' = "loop"
        /\ codec' = [last    |-> nal,
                     sps     |-> IF fed[nal] = "sps" THEN nal ELSE codec.sps,
                     pps     |-> IF fed[nal] = "pps" THEN nal ELSE codec.pps,
                     spliced |-> codec.spliced
                                    \/ (codec.last # 0 /\ nal # codec.last + 1)]
    BY <1>15 DEF DecodeNal, Decoded
  <2>2. nal \in 1..Len(fed)
    BY <2>1 DEF ParamsInv, ItemsFed
  <2>3. /\ codec'.last = nal
        /\ codec'.sps = IF fed[nal] = "sps" THEN nal ELSE codec.sps
        /\ codec'.pps = IF fed[nal] = "pps" THEN nal ELSE codec.pps
        /\ codec'.spliced = (codec.spliced
                                \/ (codec.last # 0 /\ nal # codec.last + 1))
    BY <2>1
  <2>4. ItemsFed' /\ FreshKnows'
    BY <1>0, <2>1, <2>2, <2>3 DEF ParamsInv, ItemsFed, FreshKnows
  <2>5. ContextKnows'
    <3> SUFFICES ASSUME ~codec'.spliced, NEW i \in 1..codec'.last
                 PROVE  /\ fed'[i] = "sps" => codec'.sps >= i
                        /\ fed'[i] = "pps" => codec'.pps >= i
      BY DEF ContextKnows, Knows
    <3>1. Knows(codec, nal - 1)
      <4>1. ~codec.spliced /\ (codec.last = 0 \/ nal = codec.last + 1)
        BY <2>3
      <4>2. CASE codec.last = 0
        BY <2>1, <4>2 DEF ParamsInv, FreshKnows
      <4>3. CASE nal = codec.last + 1
        <5>1. codec.last = nal - 1
          BY <1>00, <4>3
        <5>2. QED
          BY <4>1, <5>1 DEF ParamsInv, ContextKnows
      <4>4. QED
        BY <4>1, <4>2, <4>3
    <3>2. CASE i = nal
      BY <2>1, <2>2, <2>3, <3>2
    <3>3. CASE i # nal
      <4>1. i \in 1..(nal - 1) /\ i <= nal
        BY <2>2, <2>3, <3>3
      <4>2. /\ fed[i] = "sps" => codec.sps >= i
            /\ fed[i] = "pps" => codec.pps >= i
        BY <3>1, <4>1 DEF Knows
      <4>3. QED
        BY <1>0, <1>00, <2>1, <2>3, <4>1, <4>2
    <3>4. QED
      BY <3>2, <3>3
  <2>6. QED
    BY <1>3, <2>1, <2>4, <2>5
<1>16. CASE Callback \/ Receiver
  <2>1. UNCHANGED <<decodeQueue, fed, feeder, params, decoder, nal, codec>>
    BY <1>16 DEF Callback, Receiver, PutFrame, RequestKeyframe,
                 OnKeyframeRequest, Recv, RecvReturn
  <2>2. QED
    BY <1>1, <2>1
<1>17. CASE UNCHANGED vars
  BY <1>1, <1>17 DEF vars
<1>18. QED
  BY <1>2, <1>6, <1>7, <1>8, <1>10, <1>12, <1>13, <1>14, <1>15, <1>16, <1>17
     DEF Next, Feeder, Decoder

\* In every behaviour a context that lost nothing since it was created knows
\* the latest parameter sets fed before the last NAL it decoded, dropped or
\* drained ones included.
THEOREM ParamsNeverStale == Spec => []ParamsNotStale
<1>1. Init => ParamsInv
  <2> SUFFICES ASSUME Init PROVE ParamsInv
    OBVIOUS
  <2>1. /\ fed = <<>> /\ decodeQueue = <<>>
        /\ feeder = "idle" /\ decoder = "loop"
        /\ params.sps = 0 /\ params.pps = 0 /\ codec.last = 0
        /\ Len(fed) = 0 /\ Len(decodeQueue) = 0
    BY DEF Init, FreshCodec
  <2>2. QED
    BY <2>1 DEF ParamsInv, ParamsKnown, ItemsFed, ContextKnows, FreshKnows,
                Knows, Queued
<1>2. TypeOK /\ ParamsInv /\ [Next]_vars => ParamsInv'
  BY ParamsInvStep
<1>3. ParamsInv => ParamsNotStale
  BY DEF ParamsInv, ContextKnows, Knows, ParamsNotStale
<1>4. QED
  BY <1>1, <1>2, <1>3, TypeCorrect, PTL DEF Spec
=============================================================================
