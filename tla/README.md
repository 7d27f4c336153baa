# A verification of the RTSP/WebRTC screen-streaming system

The repository streams a Windows screen to a browser. `src/main.cpp` (the
*agent*) captures the screen, encodes it with x264, packs H.264 into RTP and
pushes it through one interleaved RTSP-over-TCP connection to
`src/webrtc_server.py` (the *server*), which decodes the video and offers it to
browsers over WebRTC. This directory holds TLA+ models of that program, the
configurations that model-check them, and proofs about them.

## 1. Inventory

| Component | Source | State | Operations | Hard part |
|---|---|---|---|---|
| H264StreamTrack | `webrtc_server.py:178-307` | decode queue (60), overflow flag, SPS/PPS globals, codec context, deque (5), event, `_running` | `feed_nal` (RTSP thread), `_decode_loop` (decode thread), `_put`, `_request_keyframe`, `recv`, `stop` (event loop) | three threads, two bounded queues, lost wake-ups, gaps in a predictive stream |
| Frame pacing | `webrtc_server.py:285-307` | first timestamp and its time | the second half of `recv` | 32-bit timestamps that wrap or start again |
| RtpParser | `webrtc_server.py:310-412` | last sequence number, FU-A buffer, its timestamp | `feed_rtp`, `_handle_fua`, `_handle_stapa` | lost, repeated, reordered packets; 16- and 32-bit wrap-around |
| AgentSession | `webrtc_server.py:417-542` | connection, receive buffer, `_play_sent`, a parser | `handle`, `request_keyframe` | replies and `!K` share one TCP connection between two threads |
| RtspServer | `webrtc_server.py:545-592` | listening socket, `_agent_session`, `_running` | `run`, `stop` | one agent at a time; half-open connections |
| Relay queues | `webrtc_server.py:58-71, 645-650` | a deque (3) and an event for each viewer | `put_nowait`, `get` | slow viewers, wake-ups |
| Viewer page and `/offer` | `webrtc_server.py:102-174, 636-697` | the global `pc`, calls of `start()`, timers | `start`, `oniceconnectionstatechange`, `/offer` | calls that overlap at every `await` |
| Lifespan | `webrtc_server.py:597-622` | track, RTSP thread, certificate | start-up, shutdown | `stop` against threads in mid-step |
| RtpH264Packetizer | `rtp/h264_rtp_packetizer.cpp` | `sequence_`, `max_payload_`, `ssrc_` | `Packetize`, `PacketizeSingleNal`, `PacketizeFuA`, the Annex-B splitter | size boundaries, the marker of the last packet |
| RtspClient | `main.cpp:64-198` | `sock_`, `handshake_done_`, `keyframe_requested_` | `Connect`, `Disconnect`, `Handshake`, `SendRtp`, `CheckForIncoming`, `recv_resp` | blocking sockets, partial reads, no framing of replies |
| Main loop | `main.cpp:260-338` | `rtp_ts`, `next_frame`, the packets of the frame | capture, encode, packetize, connect, poll, send, wait | reconnecting in mid-stream |
| Encoder | `WinRT-API/encoder_x264.cpp` | x264 handle, frame size, `m_frame_count`, YUV buffer | `Initialize`, `EncodeFrame`, `RequestKeyframe`, `Flush`, `Shutdown`, `bgra_to_i420` | index arithmetic; the only IDR frame is the first, afterwards a refresh wave |
| Capture | `WinRT-API/capture_wgc.cpp` | outputs with pool, session and staging texture | `Initialize`, `EnumerateOutputs`, `CaptureFrame`, `Shutdown` | no frame while the screen is still; sizes read once |
| Firewall script | `scripts/allowlist_firewall.sh` | the host's packet filter | apply (UFW or iptables), revert | order of commands, failures between them |

Calls and messages: the main loop captures, encodes, packetizes and sends one
frame at a time; packets travel on one TCP connection, framed by `$`, a channel
and a 16-bit length; `AgentSession.handle` feeds each to the parser, which feeds
whole NAL units to the track; `recv` is called by aiortc through a relay. In the
other direction the track asks for a keyframe through the event loop, which
calls `AgentSession.request_keyframe`, which sends `!K` to the agent.

What makes each correct, in a sentence:

* **H264StreamTrack**: a NAL lost to a full queue is noticed, the decoder is
  restarted with current parameter sets and a keyframe is asked for; frames come
  out in order, none older than need be, and the consumer is woken.
* **RtpH264Packetizer / RtpParser**: every NAL the parser emits is one the
  packetizer was given, whole, whatever packets are lost, repeated or reordered;
  without losses all of them come out, in order.
* **AgentSession, RtspServer, RtspClient**: RTP flows only after PLAY; agent and
  server agree on which connection that is; a lost connection is replaced by a new
  one; a keyframe request reaches the agent.
* **Relay queues**: a viewer holds the last frames and never sleeps on one; a slow
  viewer harms no other.
* **Frame pacing**: a frame leaves on schedule, and the schedule survives wrapped
  and restarted timestamps.
* **Viewer page**: after a loss the page ends up connected, with one open peer.
* **Encoder, Capture**: planes are indexed within bounds; every pixel is used; a
  request for a keyframe starts a refresh.
* **Firewall script**: a run that succeeds lets the given addresses in and no
  others; one that fails leaves no half of a rule set in force; revert undoes.

## 2. Modules

| Module | Models | Extended / used by |
|---|---|---|
| `H264StreamTrack` | the track | `MCH264StreamTrack`, `H264StreamTrackProofs` |
| `H264StreamTrackProofs` | theorems about the track | extends `SequenceFacts` |
| `AnnexB` | how x264 writes NAL units as bytes, and the splitter of `Packetize` | `SliceThreads` |
| `Rtp` | RTP packets, sequence numbers and timestamps | `RtpPacketizer`, `RtpParser` |
| `RtpPacketizer` | the packets of a frame | `RtpLossy`, `RtpPath` |
| `RtpParser` | `feed_rtp` | `RtpLossy`, `RtpPath` |
| `RtpLossy` | parser behind a network that loses, repeats, reorders, or behind any sender | `MCRtpLossy` |
| `NalPipe` | abstract: NAL units arrive in order, none twice | refined by `RtpPath` |
| `RtpPath` | packetizer, main loop, TCP connections that break, parser | `MCRtpPath` |
| `AgentLink` | RtspClient, main loop, RtspServer and AgentSession over TCP | `MCAgentLink` |
| `Viewer` | the page's `start()` against `/offer` | `MCViewer` |
| `Relay` | DroppingQueue behind the media relay | `Delivery` |
| `Pacing` | the schedule in `recv` | `Delivery` |
| `Delivery` | the relay's loop: a paced frame goes to every viewer | `MCDelivery`, `DeliveryProofs` |
| `Firewall` | `allowlist_firewall.sh` | `MCFirewall` |
| `SequenceFacts` | lemmas about sequences and queues, induction on numbers, and recursion | the proof modules |
| `RtpProofs` | theorems about packetizer, parser, lossy network and path | |
| `AgentLinkProofs` | theorems about the link | |
| `EdgeProofs` | theorems about the page and the firewall script | extends `Viewer` and `Firewall`, which share nothing |
| `DeliveryProofs` | theorems about relay, schedule and their composition | |
| `FrameEncoder` | abstract: one frame a call, a failure told by the next | refined by `SliceThreads` |
| `SliceThreads` | x264's slice threads and their pool, and the bytes of a frame | `MCSliceThreads` |
| `IntraRefresh` | x264's moving bar of intra blocks, and a decoder behind it | `Agent`, refined by it |
| `ColorConversion` | `bgra_to_i420` | `Agent` |
| `Agent` | `main` with `WGCCapture` and `X264Encoder`, from start to exit | `MCAgent` |
| `AgentProofs` | theorems about refresh, colours and the agent | |
| `SliceThreadsProofs` | theorems about the slice threads | |

### H264StreamTrack

A NAL is its position in the order `feed_nal` accepted it; `fed` keeps the kinds
(SPS, PPS, anything else), since the code only tells these apart. A decoded frame
is named after the NAL that completed it; a NAL completes at most one. The codec
is external: of a context the model keeps the last NAL it was given, the
parameter sets it knows, and whether a NAL was missing (`spliced`).

One action is one access to shared state. `feed_nal` is `FeedNal` (test of
`_running`, parameter sets under their lock), `FeedPut` (`put_nowait`) and
`FeedOverflow` (the `except queue.Full` handler). `_decode_loop` is one action
per test, `get`, and assignment of a shared field, including both tests of
`_running`. The event loop runs the callbacks scheduled with
`call_soon_threadsafe` in order: `PutFrame`, `RequestKeyframe`, which schedules
`OnKeyframeRequest`. `recv` is `Recv`, which has no `await` between its test and
`clear()`, and `RecvReturn`, after the pacing sleep.

Bounds: `DecodeQueueMax` and `DequeMax` stand for 60 and 5; 1 and 2 reach the
overflow, the drain, the refill during the drain, a second overflow while the
first is handled, and the drop of the oldest frame. `MaxNal` (3) bounds the NALs of
a behaviour: with a one-place queue three are enough for a NAL to be lost and
another decoded past the hole. The safety properties are proved for all bounds
(section 4).

Fairness: a thread that is inside a function goes on (`FeedPut`, `FeedOverflow`),
the decode thread and the event loop keep running, and aiortc keeps calling `recv`.
Nothing obliges the agent to send or the application to stop. Deadlock is not
checked: after `stop()` or the last NAL the track rests.

### AnnexB, Rtp, RtpPacketizer

`AnnexB` works on bytes, because the splitter does. `nal_escape`, `x264_nal_encode`
and `encoder_encapsulate_nals` are x264's: the escape byte 3, the header, and which
start codes have four bytes. `Split` is the loop of `Packetize` with the code's
offsets, `is_start_code` and `StartCodeLen` its two tests. `RoundTrip`, in
`SliceThreads`, compares what the splitter finds with the NAL units of the frame.
Payloads of up to three zeros before a 1 or a 3 are what could be taken for a start
code or an escape; a payload's trailing bits keep its last byte from zero. With an
empty payload a NAL unit is its header alone: one byte behind a start code of three
or four, at the end of the buffer or before the next start code.

Behind the splitter a NAL unit is an identity and a size; `given` holds the sizes of
all NAL units packetized so far, so that a packet's `nal` says which one it carries. A packet is a record of
the RTP fields and of the bytes it carries, `from..to` of one NAL unit.
`PacketizeFuA` is the fragment loop with its integer division. Its property
`FrameWhole` is checked in `RtpPath`, with two bytes to a fragment and NAL units of
one, two, three, five and six bytes: less than a fragment, exactly one or two, a
byte more.
(A NAL unit of `max_payload_ + 1` bytes becomes one FU-A packet with both the start
and the end bit set, which RFC 3984 section 5.8, named in `h264_rtp_packetizer.h:5`,
forbids; the repository's parser accepts it.)

### RtpParser, RtpLossy

One action of `RtpParser` is one call of `feed_rtp`; it runs in one thread. The
buffer holds packets in place of bytes. `Age` is the code's `& 0xFFFFFFFF`. Besides
the single NAL units and FU-A packets the agent sends there are STAP-A packets and
packets without a NAL unit, which count for the gap detection.

`RtpLossy` has two kinds of sender. The packetizer's packets are lost, repeated and
reordered less than half a sequence cycle apart, which is the assumption under
which a gap can be seen at all; TCP is kinder, and the run is there because that is
what the code's gap detection is for. NAL units of one, four and six bytes, two to a
packet, are one, two and three packets: the last has a middle fragment to lose or to
repeat, and three frames number past the wrap. Any sender's packets come at any time, with
timestamps on both sides of both age limits and of the wrap.

### NalPipe, RtpPath

`RtpPath` is the path over TCP. A frame is packetized, its packets sent one by one;
a connection may break at any byte, which loses the rest of the frame and what is
in flight. On the wire a packet, with the four bytes before it, is two pieces, cut
anywhere; `Recv` reads any number of pieces into `_buf`, and `HandlePacket` takes a
packet from it when it is all there. As in `main.cpp` a frame is packetized *before* `Connect` is tried, so
that sequence numbers and timestamps go on while there is no connection. The
refinement mapping is direct: `given` is the number of NAL units packetized,
`received` what `feed_nal` was called with. Sequence numbers and timestamps have
two bits, so that both wrap; four frames and two breaks make a fragmented NAL unit
end on one connection and the next begin on another.

### AgentLink

Both ends of the RTSP connection. Connections are numbered; `c2s` and `s2c` hold
what was sent and not read. A unit is what one `send` passes: a request, half a
reply, `!K`, or the packets of one frame. Receiving is per unit except for replies,
which are two units because `recv_resp` looks for `200 OK` in whatever one `recv`
returns and leaves the rest for the next; `MaxSplits` bounds how often that
happens. `Window` is what fits into both socket buffers: the agent's `send` blocks
when it is full.

The agent's control is the main loop's: capture, connect, one step of `Handshake`
per request, poll, send; `Disconnect` is part of whatever step calls it. The
server's is that of `RtspServer.run` and `handle`: accept, publish the session,
read a unit, end, withdraw the session, listen again. `OnKeyframeRequest` is the
event loop's thread, which may run between any two steps of the RTSP thread.

Bounds: three failures (a broken connection, a restarted agent, a failing
`accept`), two requests, one split reply. Three failures are enough for a
connection that dies while the next waits in the backlog and the one after that is
being opened. Fairness is weak fairness of the agent's handshake, of its streaming
loop and of the RTSP thread, which are running threads that never wait for each
other except through the network; **the screen is assumed to keep changing**, since
`CaptureFrame` returns nothing on a still screen and the loop goes no further. No
fairness for failures or requests. Keyframe requests come only once the track was
fed (`fed`): without video there is no track to lose a picture. `Silent` lets a
connection die without the server seeing an end, once the handshake is done; it is
FALSE in the passing run and TRUE in `link_silent`, which shows the consequence.
In the silent run the agent itself notices by a failing `send`.

`KeyframeForwarded` speaks of an agent that is streaming. A request sent while the
agent is still in its handshake is lost: the session is published before the
handshake (`webrtc_server.py:575`), `recv_resp` only looks for `200 OK`, and an `!K`
read together with a reply is forgotten, one read alone fails the handshake.

### Viewer

One call of `start()` makes one peer, so both have one number. The actions are the
stretches between two `await`s; a promise of a peer that has been closed never
settles. The peer that takes an answer is the one `pc` refers to *now*
(`webrtc_server.py:166`), which need not be the one that asked. `IceDisconnected`
and `IceFailed` each set a timer. Three losses suffice for two timers of one peer
to be pending while a third call is at its `fetch`; one outage for a call that is
refused. Timing assumption: ICE gives up only after the answer to `/offer` has
come, since it waits tens of seconds and the answer takes one. Fairness: promises
settle, timers fire, ICE comes to a verdict, the server comes back.

### Relay, Pacing, Delivery

aiortc's `MediaRelay` is external: its task awaits a frame from the track and passes
it to the queue of every subscriber without an `await`. In `Relay` a frame is its
number; `Get` is `DroppingQueue.get` from its call, or from its wake-up, to its next
`await`. In `Pacing`, `Recv(p, t)` takes a frame with timestamp `p` at time `t`. Time
is counted in ticks of the 90 kHz clock; the code's seconds are `MaxWait` (1 s),
`MaxLag` (0.5 s) and `Early` (2 ms). The clock is read at most twice in a call, and
the model takes the two readings for one; a sleep ends when it is due. `Delivery`
composes them: one turn of the relay's loop is a `Recv` and a `RelayFrame`, and
viewers move in between.

Two viewers, queues of two and three frames overflow and drain; with four ticks in
a cycle all pairs of timestamps occur at all times of a cycle. That is small for the
schedule, whose properties are proved for every clock. Fairness: the sender of a
viewer that stays keeps asking, which aiortc's `RTCRtpSender` does in a loop.
Nothing obliges the track to deliver.

### IntraRefresh

The only IDR frame of this program is its first, and a request for a keyframe is a
request for a *refresh*: x264 moves a bar of intra blocks over the picture, column
by column. The module has the encoder's bookkeeping (`x264_encoder_encode`,
`encoder.c:3626-3660`) and a decoder that gets some of the frames. The float
`f_pir_position` is kept times `Keyint`, which makes the arithmetic exact; at the
program's sizes single precision has bits to spare, so that the roundings are the
same but for ties. What the encoder's motion search may use of the previous frame
is `Needs`, from the limit in `analyse.c:340-347`: blocks left of the bar do not
refer to what the previous bar had not passed. The limit binds the search, not the
predicted vector of a skipped block (`analyse.c:3009`), which may *stray*: the
properties say nothing of a picture after a stray block until the next bar, and
`strayed` frames are frames that may come at any time after which counting begins
anew. The decoder's `clean` columns are those *sure* to be right: the worst case over
all pictures.

`RecoveryPointTrue` is what the SEI message in front of a bar claims.
`RepairedByPeriod` answers what a frame dropped without a connection, or a lost
request, costs: a period and a bar of frames without a stray block; while strayed
frames keep coming, nothing is promised of the picture. `RepairedOnRequest` bounds the answer to "!K":
what is left of the bar under way, and one bar. The theorem `RequestsFutile` shows
the limit of the latter: in a picture wider than `Keyint` macroblocks (30 in this
program, 480 pixels) a bar takes the whole period, and requests change nothing.
`Architectur.md:112` says that the mechanism of "!K" works; for the pictures of a real
screen it has no effect beyond the periodic refresh.

### ColorConversion, Agent

`ColorConversion` is the arithmetic of `bgra_to_i420`: places and formulas. `Agent`
is `main` with everything it calls on its own thread: initialization that may fail
at every call of Windows, the loop, the way out. The link to the server is reduced
to "off", "tcp", "rtsp", with a server at its other end that answers or is silent;
a frame is encoded as `IntraRefresh` says, by extension, so
that `Agent` implements it with no mapping (`AgentRefreshes`), and the decoder is the
one at the far end. `held` is what the process has to give back. Smart pointers
give back what they hold with their last reference: that is what becomes of the
session of a monitor for which `IsCursorCaptureEnabled` or `StartCapture` throws
(`"start"`), since its handler closes the pool alone (`capture_wgc.cpp:157-161`). The
staging texture is a raw pointer, given back by `Shutdown` and nothing else. So
`NothingLeaked` says two things: at any time what is held of a monitor is in reach
of a `Shutdown`, and at the exit nothing is held.

Pictures of six and sixteen pixels with macroblocks of two and a period of five
frames are a narrow and a wide one: one whose bar moves a column a frame and is done
before the period, one whose bar takes all of it. Odd sizes, no monitor, and a
failure of each call for the first or second of two monitors are the other
instances. Fairness is weak fairness of the main thread alone. `connect` gives up
by itself. `recv` in the handshake and `send` have no timeout: they return, by
`Main`, while the server answers; on a silent connection (`FallSilent`, or one that
`Connect` finds in the backlog) they may return (`Unblocked`: the server reads on,
the socket's buffer has room, TCP gives up), but nothing makes them. `Poll` asks
`select` first and does not block. `StopLeadsToExit` says therefore that after a
signal the program exits *or* one call is held by a silent server for ever
(`HeldByServer`); the server at the end of `link_silent` is such a one, and the
"Stopping..." of the signal's handler (`main.cpp:48`) is then not true. The screen need
not change.

### FrameEncoder, SliceThreads

`X264Encoder` sets `b_sliced_threads`, and x264 then codes every frame with a pool of
threads, returns it when its slices are *coded*, lets the threads go on filtering,
and reaps them at the next call. One action is one stretch under a lock or between
two: the pool's lists (`threadpool.c`), the passes of a slice (`frame.c:701-716`),
coding, filtering, and the first row, which needs the slice above to be filtered.
A thread that finds its condition false sleeps until a broadcast on that condition
variable, and then tests again; a broadcast nobody hears is lost, as it is in the
code. A slice may fail in the middle (no memory for its bits): it leaves no NAL unit,
and is told to the caller by the *next* call, which then fails, so that the program
leaves its loop. A failure after the NAL unit was counted (`nal_end`) is left out.

`NoLostWakeup` says that while a thread sleeps, what it waits for has not happened yet,
so that no broadcast came too early or was forgotten. `NeverStuck` rests on it: in the
middle of a call of the encoder there is always a thread that has something to do. A slice waits for the one above it, the caller for
each slice in turn, and a thread holds one slice at a time; that these waits never
close a circle hangs on the order in which jobs are taken and on a failed slice being
broadcast as filtered.

`FrameEncoder` is what the program relies on: one frame a call, in order, at most
one that lacks a slice and then none, every call returns, `Shutdown` ends. The
mapping forgets the threads; its fairness is implied by that of the threads that
are awake. Three threads are the least with a slice that has a neighbour on both
sides; three frames are an IDR, a P-frame and a P-frame that starts a bar.

### Firewall

One action per group of commands that change the packet filter; `set -e` lets any
of them fail and end the script (`Fail`), after `ufw enable` too, with the firewall
up. UFW collects its rules until `enable`, iptables applies each at once. Two
addresses and three runs, each with any arguments, cover a run after a failed or a
different one. UFW is reset first, so that a run which succeeds lets in the addresses
it was given and no other (`ProvidedReachable`). The iptables branch flushes nothing
(line 81): what an earlier run let in stays let in, and `ProvidedReachable` says of
iptables only that the given addresses are let in and the default is to drop. That
is less than the script's lines 7-9 promise, see section 3. `revert()` is not
modelled, because every path above its call exits.


## 3. Runs

Passing runs:

| Run | Configuration | Properties | Shows |
|---|---|---|---|
| `track` | `MCH264StreamTrack.cfg` | `TypeOK`, `NoSilentGap`, `SpliceRepaired`, `ParamsNotStale`, `NoLostWakeup`, `DeliveredInOrder`, `DropLeadsToKeyframeRequest`, `FreshFrameDelivered`, `StopEndsDecoder` | With a one-place decode queue, where every put can overflow, also while an overflow is handled, and a two-place deque, every interleaving of the RTSP thread, the decode thread, the event loop, the consumer and stop(): gaps are flagged and repaired with current parameter sets, recv is woken and returns frames in order, a drop leads to a keyframe request, and stop() ends the decode thread even when its sentinel does not fit. |
| `lossy` | `MCRtpLossy.cfg` | `OnlyWholeNals`, `FedFramed` | Packets of three frames, with NAL units of one, two and three packets, lost, repeated and reordered within half a sequence cycle, with wrap-around: every NAL unit fed is whole. And packets of any sender in any order, with timestamps on either side of both age limits and of the wrap-around: what reaches feed_nal is framed by a start and an end fragment and not stale. |
| `path` | `MCRtpPath.cfg` | `FrameWhole`, `ArriveWhole`, `NothingLostInSession`, `ImplementsNalPipe` | Four frames of NAL units of one to six bytes, two bytes to a fragment, in pieces of any length over connections of which two break at any byte, with sequence numbers and timestamps that wrap: NAL units arrive whole, in order, at most once, and all of them while the connection lasts. |
| `link` | `MCAgentLink.cfg` | `RepliesPaired`, `HandshakeAgreed`, `KeyframeForwarded`, `StreamsAgain` | Three breaks, restarts of the agent or failures of accept, two keyframe requests and a reply that arrives in two parts, at any time: agent and server agree on the connection, keyframe requests reach a streaming agent, and streaming resumes. |
| `agent` | `MCAgent.cfg` | `RecoveryPointTrue`, `RepairedByPeriod`, `RepairedOnRequest`, `NothingLeaked`, `PictureFits`, `StopLeadsToExit` | Agents with up to two monitors of any usable and unusable kind, narrow and wide pictures, any call of Windows, x264 or the network failing, a server that falls silent, requests and a signal at any time: the refresh repairs a viewer's picture when x264 says it does, pictures fit the encoder, nothing is held of a monitor that failed, and the program stops and gives everything back unless a silent server holds it. |
| `slices` | `MCSliceThreads.cfg` | `WholeFrame`, `ReferenceComplete`, `RoundTrip`, `NoLostWakeup`, `NeverStuck`, `ImplementsFrameEncoder` | Three slice threads code three frames, any slice failing, in every order of their steps: frames are returned whole, no slice is coded from a reference that is not complete, the splitter finds the NAL units again whatever zeros they hold, no thread sleeps through what it waits for, they never all wait for each other, and every call returns. |
| `viewer` | `MCViewer.cfg` | `OneOpenPeer`, `StaysConnected` | Three losses of the path and an outage of the server at any time, with the doubled timers and overlapping calls of start() they cause: one peer stays open, and only a refused request can leave the page unconnected. |
| `firewall` | `MCFirewall.cfg` | `ProvidedReachable`, `NeverHalfApplied` | Three runs with any of two addresses, each failing anywhere: a successful run drops by default and lets every given address in, with UFW no other, and UFW never comes up with a part of the rules. |
| `delivery` | `MCDelivery.cfg` | `HoldsLatest`, `ViewerAwake`, `OnSchedule`, `SteadyKept`, `EveryViewerServed` | Three frames with any timestamps at any time, paced and copied to two viewers that come, go and read as they like: frames leave on schedule, a steady stream keeps its schedule through a wrap, each viewer holds the last frames without a gap, sleeps on none, and is served while it stays. |

Runs in which TLC finds a property violated that a document or a comment of the
repository states:

| Run | Property | What the code does | Where it is promised |
|---|---|---|---|
| `link_silent` | `StreamsAgain` | A connection lost without the server noticing: the agent connects again and waits in recv_resp for ever, because the server still reads from the dead connection. (`main.cpp:192`) | `main.cpp:312`: "VPS disconnected, reconnecting..." |
| `viewer_outage` | `RecoversFromOutage` | The server is away when the page asks for an answer: fetch rejects, start() ends, and the page stays dead after the server is back. (`webrtc_server.py:160`) | `README.md:108`: "ICE restart при обрыве" |
| `firewall_revert` | `RevertUndoes` | A run with --revert applies the allow-list once more, with no address in it. (`scripts/allowlist_firewall.sh:68`) | `scripts/allowlist_firewall.sh:15` and `28`: "undo changes" |

Deadlock is not checked where the system may come to rest: a bounded number of
frames, runs or losses is used up, or a track was stopped. `AgentLink` is checked
for deadlock.

`allowlist_firewall.sh:7-9` says that the script restricts connections to its ports,
"allowing only the provided source IP addresses". With iptables, two runs with one
address each are a behaviour of `Firewall` in which the second succeeds and the
first's address is still let in: no rule is flushed. `ProvidedReachable` does not
claim otherwise, and no run is spent on the disagreement.

Documents that disagree with the code without a behaviour to check:
`Architectur.md:92` says the server ignores sequence numbers, which `feed_rtp`
does compare; `README.md` names 1400 bytes as the limit of a single NAL unit, while
`main.cpp` sets 8000; `Architectur.md` has a deque of 10 frames, the code 5; and
`README.md` names 30 frames per second, CRF and STUN, while the code has 15, a
constant quantizer and no ICE servers.


Every property has a mutant in `PROJECT.json`: a plausible bug of one definition
(the operators marked *Mutant of* in the modules) with which TLC finds the
property violated.

## 4. Proofs

Every safety property of the passing runs is a theorem, for all values of the
constants. Liveness is checked by TLC alone.

`H264StreamTrackProofs` proves the track's safety for all capacities and any
number of NALs, from `BoundsAssumption` alone (both capacities positive).

* `TypeCorrect` is inductive as it stands.
* `GapsNoticed`: `NoSilentGap` says that, unless the overflow is flagged or being
  handled, *what the codec was given*, *what is queued* and *what feed_nal will
  queue next* form one chain of consecutive NALs. It is inductive relative to
  `TypeOK`. The lemmas `GaplessAppend` and `GaplessTail` say what a put and a get
  do to a chain; the step lemma `NoSilentGapStep` has one step per action.
* `SpliceAlwaysRepaired` needs `NoSilentGap`: a NAL decoded while the flag is clear
  follows the last one, so only a decode that raced with an overflow can splice
  the context, and then the flag is up before the next test.
* `WakeupNeverLost` is inductive as it stands.
* `FramesInOrder`: a NAL goes through the queue, the codec, the ready queue of the
  event loop, the deque and `recv`. `OrderInv` says that each stage is in rising
  order and that whatever is in one stage is newer than all that is further on;
  every step moves one item over one border.
* `ParamsNeverStale`: that a context knows the latest parameter sets when it decodes
  its first NAL was settled when it was made, by `_sps_data` and `_pps_data`, which
  also hold the sets of dropped and drained NALs. `FreshKnows` carries this fact from
  `DecodeReset` to that first NAL, while the RTSP thread goes on feeding; from there
  `ContextKnows` advances by one NAL at a time. Both are inductive relative to
  `TypeOK`.

`RtpProofs` follows a NAL unit from `Packetize` to `feed_nal`, for every
`MaxPayload`, every size of sequence numbers above two, all timestamps, and frames
of any NAL units.

* The packetizer. `PacketizerInv` says that the packets of the last frame are
  numbered up to `sequence_`, and `FrameWhole`. `Packetize` is a recursive function
  over the NAL units of a frame; `FrameSent` goes up it one NAL unit at a time with
  `CountingUp`, induction on numbers in the form that asks for a *set* of numbers.
  `Fragments` is the integer division of the fragment loop: the last fragment is
  neither empty nor more than `MaxPayload`.
* The parser, fed by any sender: `FramedInv` needs nothing of the packets
  (`LossyFramed`).
* The parser behind a network that loses, repeats and reorders. `ParserInv` says
  that what `feed_rtp` holds are the first fragments of one NAL unit. That the next
  one it accepts continues them is the gap detection, and holds because two packets
  less than a sequence cycle apart with adjacent numbers *are* adjacent
  (`NoGapNext`); `HeardInv` places the buffer in the history of what was sent, so
  that the lemma can be used. `OnlyWholeHeard` follows.
* The path. `FlightInv` says that what is in the socket and in `_buf` are linked
  packets, of which only the first and, when the connection broke, the last may lack
  a piece, and that the next packet to be sent follows them. `PathInv` adds that what
  was fed in this session are its NAL units, none missing, and that the first packet
  in flight, or the next sent, is the one the parser waits for (`Awaited`).
  `PathHandle` is the step that hands one over. From it follow `ArriveWhole`,
  `NothingLostInSession`, and, by a case for each action, the whole refinement
  `ImplementsNalPipe` (`PathIsPipe`), which has no fairness.

`AgentLinkProofs` proves the link for any number of breaks, restarts, failures and
requests. `LinkInv` has four parts beside the type: only the last connection can be
open (`LinksInv`), where the agent is by its socket (`AgentInv`), that an open
connection is in the backlog or the one being handled (`ServerInv`), and that the
handshake on an open connection is either *asking* (the request of this step is all
that is in flight) or *answered* (no request, and one reply, whose second half may
be left) (`HandshakeInv`). That PLAY was seen when its reply is read carries over to
`Streaming`, which is `HandshakeAgreed`; `RepliesPaired` counts requests and replies,
and is `Asking` or `Answered` in numbers.

`SliceThreadsProofs` proves the slice threads for any number of threads and frames,
whichever slices fail.

* The frame. `SlicesInv`: a slice's job is in one place (`OneJob`), which slices are
  active is which jobs are on their way (`ActiveInv`), how far a job is by the place of
  its thread (`ProgressInv`), which frame contexts and rows belong to (`FrameInv`), and
  what `main` waits for (`ReturnInv`). `ReferenceComplete` needs all of it: a slice is
  coded only after the jobs of the last frame were reaped, which have filtered their
  rows, and if one of them failed no further slice is coded. `EncoderSteps` is the
  safety part of `ImplementsFrameEncoder`.
* The waits. `WakeInv` is inductive relative to `SlicesInv`. It adds to `NoLostWakeup`
  (`SleepInv`) that jobs are taken from top to bottom (`FifoInv`), that a job that
  found no slice above it to wait for finds it filtered (`FilteredInv`), and that there
  is a free job for every slice that is not active, so that the caller never waits for
  one (`RoomInv`). `ThreadsNeverStuck` follows: of the threads that have a job, the one
  with the *topmost* slice does not wait, since the slice above it is filtered
  (`SomeoneWorks`); if none has, a thread that is awake takes the first job of the list.
  With weak fairness of the threads this is half of what makes every call return; the
  other half, that a call has finitely many steps, is left to TLC.
* The bytes. `UnitsFoundAgain` is `RoundTrip` for every payload of bytes that ends as
  x264's do (`PayloadsAssumption`). `EscapeSafe`: an escaped payload has no two zeros
  before a byte below 3 and does not end with a zero, so that no start code is in a NAL
  unit or across its end (`NoneInside`); `Flattened` says where each unit is in the
  bytes of a frame; `SplitTurns` unfolds the loop of `Packetize`, `UnitCut` is one turn of
  it, and `FoundAgain` goes over the units from the last to the first. The folds and the recursive
  functions are unfolded by `Recursion` of `SequenceFacts`: an equation in which every
  value depends on values of smaller measure only has a solution. It takes the right-hand
  side as a *function* on functions, since the provers cannot instantiate an operator.

`DeliveryProofs` proves the relay's safety for any set of viewers, any `QueueMax > 0`
and any number of frames. `RelayTypeOK /\ HoldsLatest` is inductive: that a queue holds
the *last* frames without a gap needs that its length is bounded, and that nothing
in it was got yet needs that it is gapless. `ViewersAwake` is inductive relative to
it. The properties of the schedule hold for every clock, every threshold and every
timestamp. `OffsetIsTicks` shows that adding 2^32 once is the difference modulo 2^32.
`Schedule` (`PacingTypeOK`, `OnSchedule`) is inductive, with one case
for each outcome of a call. `SteadyStreamKept` follows from it by `TicksAdd`: offsets
of a steady stream add up as long as they do not go once round the clock.
`DeliveryComposes` shows that each step of `Delivery` is a step of either part or
leaves it alone, so that all of this holds of the composition (`DeliverySafe`).

`EdgeProofs` proves the page and the firewall script. For any number of losses and
outages the page holds one open peer (`PeersClosed`). `PageInv` adds that the current
peer is the last one made: a late answer of an earlier call lands on the current peer,
and ICE has no event for a closed one, so nothing opens an earlier peer again. For any
addresses and any number of runs, a run of the script that reports success lets in every
address it was given, with UFW no other (`AllowedAfterSuccess`), and UFW only ever
comes up with all of its rules (`UfwWholeOrDown`). `ScriptInv` says what the packet filter is by how far the
script is: the addresses that are done are allowed, UFW is down meanwhile and then up
with exactly them, iptables drops already.

`AgentProofs` proves the refresh for every width and every period. The inductive
invariant `RefreshInv` says where a bar is by its age (`position` is `age + 1`
increments, capped at the right side), that bars join, and how many columns a
decoder has after how many frames; the step from one bar to the next needs that a
bar is complete before the next begins, which is `BarsRunToTheEnd`: the increment is
chosen such that the right side is reached within a period, in either case of
`Increment`. `RequestsFutile` follows from the same facts. `RequestRepairs`, the bound
on the answer to a request, strengthens it by `AskedInv`: a request is waiting for
the bar under way, or has the bar of its own. The module then shows that `Agent`
implements `IntraRefresh` (every action is one of its steps or a stutter), which
carries the theorems over (`ViewersRecover`); that whatever fails everything is given
back (`EverythingGivenBack`; the invariant: what is held is what the next `Shutdown`
releases, to which a monitor that failed adds nothing, `FailedKeepsNothing`); that the
picture encoded has the size `Initialize` accepted (`PicturesFit`); that in a
picture of a size it accepts, of any width and height, the conversion fills the
buffer and takes every pixel (`AcceptedFills`); and that colours are in range.

The assumptions are those the modules name (`BoundsAssumption`, `RtpAssumption`,
`PacketizerAssumption`, `ParserAssumption`, `LossyAssumption`, `PathAssumption`,
`LinkAssumption`, `SliceThreadsAssumption`, `PayloadsAssumption`, `RelayAssumption`, `PacingAssumption`,
`ViewerAssumption`, `RefreshAssumption`, `AgentAssumption`): capacities are positive,
there are more than two sequence numbers, `Early <= MaxWait`, two slices at least, a
payload does not end with a zero byte (its trailing bits keep it from that),
pictures are at least two macroblocks wide. `TypeCorrect`, `LinkTyped` and
`RelayTypeCorrect` say that no queue passes its bound. `LinkTyped`, `RelayTypeCorrect`
and `PacingTypeCorrect` are proved only; no run repeats them.


Only model-checked:

* Liveness, and `ENABLED` with it: `FairSpec` of every module, and of
  `ImplementsFrameEncoder` the part that says every call returns.

## 5. Plan

Done: the track, the path from encoder to track, the link, the viewers, the
firewall, and the agent with capture, colour conversion, refresh and slice threads.

Left: (1) the parameter sets of the answer to `/offer`, read
between an SPS and its PPS when an agent of another resolution takes over; (2) a
keyframe request that blocks the event loop in `sendall`, which needs the agent's
receive window and time.

## 6. Not modelled

* Most of `x264_build/`, the vendored x264, which is nine tenths of the repository's
  lines: its command line, filters, muxers, assembly, other architectures and test
  tools are not used by the program; motion search, transforms, entropy coding,
  lookahead and rate control compute on data that no property of this program tells
  apart (with a constant quantizer, no B-frames and one reference they decide nothing
  else). What of x264 governs the stream's structure is in `IntraRefresh`,
  `SliceThreads` and `AnnexB`.
* `build64/`, `CMakeFiles/`, the build scripts: generated or build-time only.
* The HTML page's styling, logging, the health endpoint, TLS set-up.
* WinRT, Direct3D, PyAV and aiortc themselves: external, modelled only by
  how the code uses them.
* The lifespan: it makes the track and the RTSP thread and stops both at the end;
  `H264StreamTrack.stop` is in the track's model, and the RTSP thread is a daemon that
  ends with the process whether or not it saw `RtspServer.stop`.
* The text of RTSP messages, of SDP and of the page; the certificate cache; TEARDOWN
  and malformed requests, which no sender of the repository produces.
* The end of an `AgentSession` by an exception, which closes the listening socket
  under a waiting agent: `AcceptFails` has the same effect on the connections.
* The pacing of the agent's loop (`next_frame`, `main.cpp:321-331`) and `Flush`, which
  nothing calls.
* A monitor whose `item.Size()` differs from its rectangle (`capture_wgc.cpp:146`, under
  DPI scaling): what `CopyResource` does then is Direct3D's.
