-------------------------- MODULE H264StreamTrack --------------------------
(***************************************************************************)
(* H264StreamTrack of webrtc_server.py: the bridge between the RTSP thread *)
(* (feed_nal), the decode thread (_decode_loop) and the asyncio event loop *)
(* (_put, _request_keyframe, recv, stop).                                  *)
(*                                                                         *)
(* A NAL unit is its position in the order in which feed_nal accepted it,  *)
(* and `fed` remembers the kind of each.  A decoded frame is the NAL that  *)
(* completed it.  One action is one access to shared state, so the three   *)
(* threads interleave wherever Python may switch between them.             *)
(***************************************************************************)
EXTENDS Naturals, Sequences

CONSTANTS NalKinds,        \* the kinds of NAL units the agent sends
          DecodeQueueMax,  \* maxsize of _decode_queue (60)
          DequeMax,        \* DEQUE_MAXLEN (5)
          MaxNal           \* bound on the NALs of a behaviour

ASSUME BoundsAssumption ==
    /\ NalKinds \subseteq {"sps", "pps", "slice"}
    /\ DecodeQueueMax \in Nat \ {0}
    /\ DequeMax \in Nat \ {0}
    /\ MaxNal \in Nat

VARIABLES
    running,         \* self._running
    decodeQueue,     \* self._decode_queue; Sentinel stands for None
    decodeOverflow,  \* self._decode_overflow
    params,          \* _sps_data and _pps_data: the last NAL of each kind, or 0
    fed,             \* the kinds of the NALs fed so far
    feeder,          \* where the RTSP thread is in feed_nal
    decoder,         \* where the decode thread is in _decode_loop
    nal,             \* the item the decode thread took
    codec,           \* self._codec: what the current context has been given
    callbacks,       \* call_soon_threadsafe: the event loop's ready queue
    deque,           \* self._deque
    hasFrames,       \* self._has_frames
    receiver,        \* where the consumer is in recv
    frame,           \* the frame recv popped
    delivered,       \* the last frame recv returned, or 0
    askedAt          \* NALs fed when the agent was last asked for a keyframe

feederVars   == <<fed, feeder, params>>
decoderVars  == <<decoder, nal, codec>>
receiverVars == <<deque, hasFrames, receiver, frame, delivered>>
vars == <<running, decodeQueue, decodeOverflow, feederVars, decoderVars,
          callbacks, receiverVars, askedAt>>

Sentinel == 0

\* Mutant of FreshCodec: the parameter sets are not replayed.
UnprimedCodec(p) == [last |-> 0, sps |-> 0, pps |-> 0, spliced |-> FALSE]

\* A new context, given the parameter sets p before anything else.
FreshCodec(p) == [last |-> 0, sps |-> p.sps, pps |-> p.pps, spliced |-> FALSE]

Init ==
    /\ running = TRUE
    /\ decodeQueue = <<>>
    /\ decodeOverflow = FALSE
    /\ params = [sps |-> 0, pps |-> 0]
    /\ fed = <<>>
    /\ feeder = "idle"
    /\ decoder = "loop"
    /\ nal = Sentinel
    /\ codec = FreshCodec(params)
    /\ callbacks = <<>>
    /\ deque = <<>>
    /\ hasFrames = FALSE
    /\ receiver = "idle"
    /\ frame = 0
    /\ delivered = 0
    /\ askedAt = 0
-----------------------------------------------------------------------------
(* The RTSP thread in feed_nal.  The put and the handler of queue.Full are *)
(* two steps: the flag is raised some time after the queue was full.       *)

FeedNal(kind) ==
    /\ feeder = "idle"
    /\ running
    /\ Len(fed) < MaxNal
    /\ fed' = Append(fed, kind)
    /\ params' = IF kind = "slice" THEN params
                 ELSE [params EXCEPT ![kind] = Len(fed')]
    /\ feeder' = "put"
    /\ UNCHANGED <<running, decodeQueue, decodeOverflow, decoderVars,
                   callbacks, receiverVars, askedAt>>

FeedPut ==
    /\ feeder = "put"
    /\ \/ /\ Len(decodeQueue) < DecodeQueueMax
          /\ decodeQueue' = Append(decodeQueue, Len(fed))
          /\ feeder' = "idle"
       \/ /\ Len(decodeQueue) >= DecodeQueueMax
          /\ feeder' = "full"
          /\ UNCHANGED decodeQueue
    /\ UNCHANGED <<running, decodeOverflow, fed, params, decoderVars,
                   callbacks, receiverVars, askedAt>>

\* Mutant of FeedOverflow: queue.Full is swallowed.
DropUnflagged ==
    /\ feeder = "full"
    /\ feeder' = "idle"
    /\ UNCHANGED <<running, decodeQueue, decodeOverflow, fed, params,
                   decoderVars, callbacks, receiverVars, askedAt>>

FeedOverflow ==
    /\ feeder = "full"
    /\ decodeOverflow' = TRUE
    /\ feeder' = "idle"
    /\ UNCHANGED <<running, decodeQueue, fed, params, decoderVars,
                   callbacks, receiverVars, askedAt>>
-----------------------------------------------------------------------------
(* The decode thread. *)

\* Mutant of DecodeLoop: only None ends the thread.
LoopForever ==
    /\ decoder = "loop"
    /\ decoder' = "check"
    /\ UNCHANGED <<running, decodeQueue, decodeOverflow, feederVars, nal,
                   codec, callbacks, receiverVars, askedAt>>

DecodeLoop ==
    /\ decoder = "loop"
    /\ decoder' = IF running THEN "check" ELSE "done"
    /\ UNCHANGED <<running, decodeQueue, decodeOverflow, feederVars, nal,
                   codec, callbacks, receiverVars, askedAt>>

DecodeCheck ==
    /\ decoder = "check"
    /\ decoder' = IF decodeOverflow THEN "clear" ELSE "get"
    /\ UNCHANGED <<running, decodeQueue, decodeOverflow, feederVars, nal,
                   codec, callbacks, receiverVars, askedAt>>

DecodeClear ==
    /\ decoder = "clear"
    /\ decodeOverflow' = FALSE
    /\ decoder' = "drain"
    /\ UNCHANGED <<running, decodeQueue, feederVars, nal, codec, callbacks,
                   receiverVars, askedAt>>

\* One round of the draining loop: the test of _running...
DecodeDrain ==
    /\ decoder = "drain"
    /\ decoder' = IF running THEN "discard" ELSE "reset"
    /\ UNCHANGED <<running, decodeQueue, decodeOverflow, feederVars, nal,
                   codec, callbacks, receiverVars, askedAt>>

\* ...and get_nowait, which ends the loop when the queue is empty.
DecodeDiscard ==
    /\ decoder = "discard"
    /\ \/ /\ decodeQueue # <<>>
          /\ decodeQueue' = Tail(decodeQueue)
          /\ decoder' = "drain"
       \/ /\ decodeQueue = <<>>
          /\ decoder' = "reset"
          /\ UNCHANGED decodeQueue
    /\ UNCHANGED <<running, decodeOverflow, feederVars, nal, codec,
                   callbacks, receiverVars, askedAt>>

\* Mutant of DecodeReset: no keyframe is asked for.
ResetSilently ==
    /\ decoder = "reset"
    /\ codec' = FreshCodec(params)
    /\ decoder' = "loop"
    /\ UNCHANGED <<running, decodeQueue, decodeOverflow, feederVars, nal,
                   callbacks, receiverVars, askedAt>>

DecodeReset ==
    /\ decoder = "reset"
    /\ codec' = FreshCodec(params)
    /\ decoder' = "ask"
    /\ UNCHANGED <<running, decodeQueue, decodeOverflow, feederVars, nal,
                   callbacks, receiverVars, askedAt>>

DecodeAsk ==
    /\ decoder = "ask"
    /\ callbacks' = Append(callbacks, [op |-> "request", frame |-> 0])
    /\ decoder' = "loop"
    /\ UNCHANGED <<running, decodeQueue, decodeOverflow, feederVars, nal,
                   codec, receiverVars, askedAt>>

\* get(timeout=0.05): the head, or queue.Empty and once more round the loop.
DecodeGet ==
    /\ decoder = "get"
    /\ \/ /\ decodeQueue # <<>>
          /\ nal' = Head(decodeQueue)
          /\ decodeQueue' = Tail(decodeQueue)
          /\ decoder' = IF nal' = Sentinel THEN "done" ELSE "decode"
       \/ /\ decodeQueue = <<>>
          /\ decoder' = "loop"
          /\ UNCHANGED <<nal, decodeQueue>>
    /\ UNCHANGED <<running, decodeOverflow, feederVars, codec, callbacks,
                   receiverVars, askedAt>>

\* The context after NAL n: spliced once a NAL is missing from what it saw.
Decoded(c, n) ==
    [last    |-> n,
     sps     |-> IF fed[n] = "sps" THEN n ELSE c.sps,
     pps     |-> IF fed[n] = "pps" THEN n ELSE c.pps,
     spliced |-> c.spliced \/ (c.last # 0 /\ n # c.last + 1)]

\* Whether the NAL completes a frame is up to the codec; an exception ends
\* the iteration the way a NAL without a frame does.
DecodeNal ==
    /\ decoder = "decode"
    /\ codec' = Decoded(codec, nal)
    /\ \/ callbacks' = Append(callbacks, [op |-> "put", frame |-> nal])
       \/ UNCHANGED callbacks
    /\ decoder' = "loop"
    /\ UNCHANGED <<running, decodeQueue, decodeOverflow, feederVars, nal,
                   receiverVars, askedAt>>
-----------------------------------------------------------------------------
(* The event loop: callbacks run one at a time, in the order scheduled. *)

NextCallback(op) == callbacks # <<>> /\ Head(callbacks).op = op

\* Mutants of PutDropOldest: a deque without maxlen; a full one that refuses.
PutUnbounded(q, max, item) == Append(q, item)
PutRefuseNewest(q, max, item) == IF Len(q) >= max THEN q ELSE Append(q, item)

\* deque(maxlen): the oldest item makes room.
PutDropOldest(q, max, item) ==
    Append(IF Len(q) >= max THEN Tail(q) ELSE q, item)

PutFrame ==
    /\ NextCallback("put")
    /\ deque' = PutDropOldest(deque, DequeMax, Head(callbacks).frame)
    /\ hasFrames' = TRUE
    /\ callbacks' = Tail(callbacks)
    /\ UNCHANGED <<running, decodeQueue, decodeOverflow, feederVars,
                   decoderVars, receiver, frame, delivered, askedAt>>

RequestKeyframe ==
    /\ NextCallback("request")
    /\ callbacks' = Append(Tail(callbacks), [op |-> "ask", frame |-> 0])
    /\ UNCHANGED <<running, decodeQueue, decodeOverflow, feederVars,
                   decoderVars, receiverVars, askedAt>>

OnKeyframeRequest ==
    /\ NextCallback("ask")
    /\ askedAt' = Len(fed)
    /\ callbacks' = Tail(callbacks)
    /\ UNCHANGED <<running, decodeQueue, decodeOverflow, feederVars,
                   decoderVars, receiverVars>>

\* Mutants of Recv: the event is cleared before the deque is tested; the
\* newest frame is popped.
RecvClearFirst ==
    /\ \/ /\ receiver = "idle"
          /\ hasFrames' = FALSE
          /\ receiver' = "waiting"
          /\ UNCHANGED <<frame, deque>>
       \/ /\ receiver = "waiting" /\ hasFrames
          /\ frame' = Head(deque)
          /\ deque' = Tail(deque)
          /\ receiver' = "pacing"
          /\ UNCHANGED hasFrames
    /\ UNCHANGED <<running, decodeQueue, decodeOverflow, feederVars,
                   decoderVars, callbacks, delivered, askedAt>>

RecvNewest ==
    /\ receiver = "idle" \/ (receiver = "waiting" /\ hasFrames)
    /\ deque # <<>>
    /\ frame' = deque[Len(deque)]
    /\ deque' = SubSeq(deque, 1, Len(deque) - 1)
    /\ receiver' = "pacing"
    /\ UNCHANGED <<running, decodeQueue, decodeOverflow, feederVars,
                   decoderVars, callbacks, hasFrames, delivered, askedAt>>

\* recv: test the deque on entry and after every wake-up, with no await
\* between the test and clear().
Recv ==
    /\ receiver = "idle" \/ (receiver = "waiting" /\ hasFrames)
    /\ \/ /\ deque # <<>>
          /\ frame' = Head(deque)
          /\ deque' = Tail(deque)
          /\ receiver' = "pacing"
          /\ UNCHANGED hasFrames
       \/ /\ deque = <<>>
          /\ hasFrames' = FALSE
          /\ receiver' = "waiting"
          /\ UNCHANGED <<frame, deque>>
    /\ UNCHANGED <<running, decodeQueue, decodeOverflow, feederVars,
                   decoderVars, callbacks, delivered, askedAt>>

\* The pacing sleep is over (or was not needed) and the frame is returned.
RecvReturn ==
    /\ receiver = "pacing"
    /\ delivered' = frame
    /\ receiver' = "idle"
    /\ UNCHANGED <<running, decodeQueue, decodeOverflow, feederVars,
                   decoderVars, callbacks, deque, hasFrames, frame, askedAt>>

\* The sentinel is best effort: queue.Full is ignored.
Stop ==
    /\ running
    /\ running' = FALSE
    /\ decodeQueue' = IF Len(decodeQueue) < DecodeQueueMax
                      THEN Append(decodeQueue, Sentinel) ELSE decodeQueue
    /\ UNCHANGED <<decodeOverflow, feederVars, decoderVars, callbacks,
                   receiverVars, askedAt>>
-----------------------------------------------------------------------------
Feeder   == (\E kind \in NalKinds : FeedNal(kind)) \/ FeedPut \/ FeedOverflow
Decoder  == DecodeLoop \/ DecodeCheck \/ DecodeClear \/ DecodeDrain
            \/ DecodeDiscard \/ DecodeReset \/ DecodeAsk \/ DecodeGet
            \/ DecodeNal
Callback == PutFrame \/ RequestKeyframe \/ OnKeyframeRequest
Receiver == Recv \/ RecvReturn

Next == Feeder \/ Decoder \/ Callback \/ Receiver \/ Stop

\* A thread inside a function goes on; nothing obliges the agent to send
\* another NAL or the application to stop.
Fairness ==
    /\ WF_vars(FeedPut) /\ WF_vars(FeedOverflow)
    /\ WF_vars(Decoder)
    /\ WF_vars(Callback)
    /\ WF_vars(Receiver)

Spec == Init /\ [][Next]_vars
FairSpec == Spec /\ Fairness
-----------------------------------------------------------------------------
Callbacks == [op : {"put", "request", "ask"}, frame : Nat]

\* Types of the shared state and of the control points, with the bounds of
\* the two bounded queues.
TypeOK ==
    /\ running \in BOOLEAN
    /\ decodeQueue \in Seq(Nat) /\ Len(decodeQueue) <= DecodeQueueMax
    /\ decodeOverflow \in BOOLEAN
    /\ params \in [sps : Nat, pps : Nat]
    /\ fed \in Seq(NalKinds) /\ Len(fed) <= MaxNal
    /\ feeder \in {"idle", "put", "full"}
    /\ decoder \in {"loop", "check", "clear", "drain", "discard", "reset",
                    "ask", "get", "decode", "done"}
    /\ nal \in Nat
    /\ codec \in [last : Nat, sps : Nat, pps : Nat, spliced : BOOLEAN]
    /\ callbacks \in Seq(Callbacks)
    /\ deque \in Seq(Nat) /\ Len(deque) <= DequeMax
    /\ hasFrames \in BOOLEAN
    /\ receiver \in {"idle", "waiting", "pacing"}
    /\ frame \in Nat
    /\ delivered \in Nat
    /\ askedAt \in Nat

\* The NALs feed_nal is through with, whether they were queued or dropped.
Offered == IF feeder = "idle" THEN Len(fed) ELSE Len(fed) - 1

\* The decode thread is going to decode what is queued.
Decoding == \/ decoder \in {"check", "get", "decode"}
            \/ running /\ decoder \in {"reset", "ask", "loop"}

\* The last NAL the decode thread took over from the queue, or 0 for none
\* since the context was created.
Taken == IF decoder = "decode" THEN nal
         ELSE IF decoder = "reset" THEN 0 ELSE codec.last

\* Neighbours in a queue are consecutive NALs, up to the None of stop().
Gapless(q) ==
    \A i \in 1..(Len(q) - 1) :
        q[i] = Sentinel \/ q[i + 1] = Sentinel \/ q[i + 1] = q[i] + 1

\* What the codec was given, what is queued and what feed_nal will queue next
\* follow one another.
EndsMeet ==
    /\ decodeQueue = <<>> => Taken \in {0, Offered}
    /\ decodeQueue # <<>> =>
          /\ \/ decodeQueue[1] = Sentinel
             \/ Taken \in {0, decodeQueue[1] - 1}
          /\ decodeQueue[Len(decodeQueue)] \in {Sentinel, Offered}
    /\ decoder = "decode" => codec.last \in {0, nal - 1}

\* A gap never goes unnoticed: unless the overflow is flagged or being
\* handled, all that was fed since the context was created reaches it.
NoSilentGap == ~decodeOverflow /\ Decoding => Gapless(decodeQueue) /\ EndsMeet

\* A codec context that was given a NAL after a lost one (feed_nal dropped it
\* on queue.Full) never gets a second: the overflow is flagged or the decode
\* thread is already on its way to a fresh context.
SpliceRepaired ==
    codec.spliced => /\ decodeOverflow \/ decoder \in {"drain", "discard", "reset"}
                     /\ decoder \notin {"get", "decode"}

\* Parameter sets survive an overflow: of all the SPS and PPS fed before the
\* last NAL a context decoded, it knows the latest or a newer one, even when
\* the NAL itself was dropped or drained.
ParamsNotStale ==
    ~codec.spliced =>
        \A i \in 1..codec.last : /\ fed[i] = "sps" => codec.sps >= i
                                 /\ fed[i] = "pps" => codec.pps >= i

\* recv cannot sleep on a non-empty deque: the event it waits for is set.
NoLostWakeup == receiver = "waiting" /\ deque # <<>> => hasFrames

\* recv returns frames in decoding order, none twice.
DeliveredInOrder == [][delivered' > delivered]_delivered

\* Every NAL dropped on queue.Full is followed by a keyframe request made
\* after the drop, unless the track is stopped.
DropLeadsToKeyframeRequest ==
    \A n \in 1..MaxNal :
        (feeder = "full" /\ Len(fed) = n) ~> (askedAt >= n \/ ~running)

\* A frame is skipped only in favour of newer ones: once decoded, it or a
\* newer frame is returned by recv.
FreshFrameDelivered ==
    \A n \in 1..MaxNal :
        (\E i \in DOMAIN callbacks :
            callbacks[i] = [op |-> "put", frame |-> n]) ~> delivered >= n

\* stop() ends the decode thread even when the queue had no room for None.
StopEndsDecoder == ~running ~> decoder = "done"
=============================================================================
