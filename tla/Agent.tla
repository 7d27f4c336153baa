-------------------------------- MODULE Agent --------------------------------
(***************************************************************************)
(* The agent program: main of main.cpp with the screen capture and the     *)
(* encoder it drives, from its start to its exit.  What Windows answers    *)
(* about a monitor is chosen with the monitor; the link to the server is   *)
(* reduced to what the encoder's frames meet there (AgentLink has it in    *)
(* full); a frame is converted as in ColorConversion and encoded as in     *)
(* IntraRefresh.                                                           *)
(***************************************************************************)
EXTENDS IntraRefresh, ColorConversion, Sequences, FiniteSets

CONSTANTS MacroBlock,  \* pixels of a macroblock's side: 16
          Monitors     \* sequences of monitors an instance may have

\* What fails in the callback for a monitor, in the order of its calls: "start"
\* is IsCursorCaptureEnabled or StartCapture, when there is a session already.
Failures == {"item", "pool", "session", "start", "staging"}

ASSUME AgentAssumption ==
    /\ MacroBlock \in Nat \ {0}
    /\ Monitors \subseteq Seq([w : Int, h : Int, fails : Failures \cup {"no"}])

VARIABLES
    monitors,  \* the monitors: [w, h, fails], fails "no" for a usable one
    main,      \* where main is
    seen,      \* monitors EnumDisplayMonitors has called back for
    held,      \* what the process holds and must give back
    outputs,   \* m_outputs: the numbers of the usable monitors
    encoder,   \* the width and height X264Encoder was initialized with
    bgra,      \* those of the picture in bgra
    link,      \* rtsp_client: "off", "tcp", or "rtsp" once handshake_done_
    server,    \* the other end of link: it "answers", or is "silent"
    stop       \* ~g_running

agentVars ==
    <<monitors, main, seen, held, outputs, encoder, bgra, link, server, stop>>
vars == <<agentVars, refreshVars>>

Device  == <<"device", 0>>
Encoder == {<<"encoder", 0>>, <<"timer", 0>>}  \* and what timeBeginPeriod began

NoSize == <<0, 0>>
Size(m) == <<monitors[m].w, monitors[m].h>>
Columns(w) == (w + MacroBlock - 1) \div MacroBlock  \* i_mb_width
Usable == {m \in DOMAIN monitors : monitors[m].fails = "no"}

Init ==
    /\ monitors \in Monitors
    /\ main = "start" /\ seen = 0 /\ held = {} /\ outputs = <<>>
    /\ encoder = NoSize /\ bgra = NoSize
    /\ link = "off" /\ server = "answers" /\ stop = FALSE
    /\ RefreshInit
    /\ \A m \in Usable : (\A n \in Usable : m <= n) =>
                             width = Columns(monitors[m].w)
-----------------------------------------------------------------------------
\* InitInterop: CreateD3D11Device may throw before or after it has a device.
\* Initialize then returns without a Shutdown.
InitInterop ==
    /\ main = "start"
    /\ \/ held' = {Device} /\ main' = "enumerate"
       \/ held' \in {{}, {Device}} /\ main' = "leave"
    /\ UNCHANGED <<monitors, seen, outputs, encoder, bgra, link, server, stop>>

\* What a WGCOutput refers to by smart pointers, whose last reference gives it
\* back, and all it refers to: the staging texture is a raw pointer.
Smart(m) == {<<"pool", m>>, <<"session", m>>}
OutputOf(m) == Smart(m) \cup {<<"staging", m>>}

\* What the callback for monitor m has made when it returns.
Made(m) ==
    CASE monitors[m].fails \in {"item", "pool"} -> {}
      [] monitors[m].fails = "session" -> {<<"pool", m>>}
      [] monitors[m].fails \in {"start", "staging"} -> Smart(m)
      [] monitors[m].fails = "no" -> OutputOf(m)

\* What is left of it.  After a failure nothing refers to the callback's local
\* WGCOutput any more; the Close calls before it reach only what goes with it,
\* and a session that does not start is not even closed.
Kept(m) == IF monitors[m].fails = "no" THEN Made(m) ELSE Made(m) \ Smart(m)

\* The callback of EnumerateOutputs for the next monitor.
EnumerateOutput ==
    /\ main = "enumerate" /\ seen < Len(monitors)
    /\ seen' = seen + 1
    /\ held' = held \cup Kept(seen')
    /\ outputs' = IF monitors[seen'].fails = "no"
                  THEN Append(outputs, seen') ELSE outputs
    /\ UNCHANGED <<monitors, main, encoder, bgra, link, server, stop>>

\* Mutant of Released: m_outputs is cleared without a Release of the staging
\* textures.
ReleasedSmart == {Device} \cup UNION {Smart(outputs[i]) : i \in DOMAIN outputs}

\* What WGCCapture::Shutdown gives back: the outputs, then the device.
Released == {Device} \cup UNION {OutputOf(outputs[i]) : i \in DOMAIN outputs}

CaptureShutdown == held' = held \ Released /\ outputs' = <<>>

\* The rest of Initialize: it fails, after a Shutdown, if no monitor is usable.
EnumerationEnds ==
    /\ main = "enumerate" /\ seen = Len(monitors)
    /\ IF outputs = <<>> THEN CaptureShutdown /\ main' = "leave"
                         ELSE main' = "encoder" /\ UNCHANGED <<held, outputs>>
    /\ UNCHANGED <<monitors, seen, encoder, bgra, link, server, stop>>

\* Mutant of Accepts: sizes are not required to be even.
AcceptsAny(w, h) == w > 0 /\ h > 0

\* The sizes X264Encoder::Initialize accepts; kFps and kQp are in range.
Accepts(w, h) == AcceptsAny(w, h) /\ w % 2 = 0 /\ h % 2 = 0

\* The monitor whose size GetMonitorInfo(0) returns.
Screen == outputs[1]

\* X264Encoder::Initialize; x264_encoder_open may fail too.
InitEncoder ==
    /\ main = "encoder"
    /\ \/ /\ Accepts(monitors[Screen].w, monitors[Screen].h)
          /\ encoder' = Size(Screen)
          /\ held' = held \cup Encoder
          /\ main' = "capture"
       \/ main' = "leave" /\ UNCHANGED <<encoder, held>>
    /\ UNCHANGED <<monitors, seen, outputs, bgra, link, server, stop>>
-----------------------------------------------------------------------------
\* Mutant of Running: a connected agent does not stop.
RunningWhileLinked == ~stop \/ link = "rtsp"

Running == ~stop

\* CaptureFrame(0) with a new picture.  A call without one, or one that fails,
\* changes nothing; it only lets main look at g_running again.
CaptureFrame ==
    /\ main = "capture" /\ Running
    /\ bgra' = Size(outputs[1])
    /\ main' = "encode"
    /\ UNCHANGED <<monitors, seen, held, outputs, encoder, link,
                   server, stop, refreshVars>>

\* EncodeFrame, with a slice thread that fails or not; then the loop is left.
EncodeFrame ==
    /\ main = "encode"
    /\ \/ /\ EncodeIdr \/ \E strayed \in BOOLEAN : EncodeP(strayed)
          /\ main' = IF link = "rtsp" THEN "poll" ELSE "connect"
       \/ main' = "cleanup" /\ UNCHANGED refreshVars
    /\ UNCHANGED <<monitors, seen, held, outputs, encoder, bgra, link,
                   server, stop>>

\* Connect, which fails or not: the kernel completes a connection that the
\* server may never come to accept.  A frame that meets no connection is gone.
Connect ==
    /\ main = "connect"
    /\ \/ /\ link' = "tcp" /\ server' \in {"answers", "silent"}
          /\ main' = "handshake" /\ UNCHANGED refreshVars
       \/ Lose /\ main' = "capture" /\ UNCHANGED <<link, server>>
    /\ UNCHANGED <<monitors, seen, held, outputs, encoder, bgra, stop>>

\* Handshake, which fails or not, and the Disconnect after a failure.
Handshake ==
    /\ main = "handshake"
    /\ \/ /\ link' = "rtsp" /\ main' = "poll"
          /\ UNCHANGED <<server, refreshVars>>
       \/ link' = "off" /\ server' = "answers" /\ Lose /\ main' = "capture"
    /\ UNCHANGED <<monitors, seen, held, outputs, encoder, bgra, stop>>

\* CheckForIncoming, and RequestKeyframe if there is a "!K".
Poll ==
    /\ main = "poll"
    /\ main' = "send"
    /\ Request \/ UNCHANGED refreshVars
    /\ UNCHANGED <<monitors, seen, held, outputs, encoder, bgra, link,
                   server, stop>>

\* SendRtp for the packets of the frame: they reach a decoder, or are dropped
\* on the way there, or the connection breaks.
Send ==
    /\ main = "send"
    /\ main' = "capture"
    /\ \/ (Arrive \/ Lose) /\ UNCHANGED <<link, server>>
       \/ Lose /\ link' = "off" /\ server' = "answers"
    /\ UNCHANGED <<monitors, seen, held, outputs, encoder, bgra, stop>>

\* The loop's test finds g_running false.
LeaveLoop ==
    /\ main = "capture" /\ ~Running
    /\ main' = "cleanup"
    /\ UNCHANGED <<monitors, seen, held, outputs, encoder, bgra, link,
                   server, stop>>

\* Disconnect, the two Shutdowns and timeEndPeriod after the loop.
Cleanup ==
    /\ main = "cleanup"
    /\ link' = "off" /\ server' = "answers"
    /\ encoder' = NoSize
    /\ outputs' = <<>>
    /\ held' = held \ (Encoder \cup Released)
    /\ main' = "leave"
    /\ UNCHANGED <<monitors, seen, bgra, stop>>

\* The destructors of what main has made so far; each is a Shutdown.
Leave ==
    /\ main = "leave"
    /\ CaptureShutdown
    /\ main' = "exited"
    /\ UNCHANGED <<monitors, seen, encoder, bgra, link, server, stop>>

\* SIGINT or SIGTERM.
Signal ==
    /\ main # "exited" /\ ~stop
    /\ stop' = TRUE
    /\ UNCHANGED <<monitors, main, seen, held, outputs, encoder, bgra,
                   link, server>>

\* The other end of the connection stops reading and answering, or is gone
\* without a FIN or a RST.
FallSilent ==
    /\ link # "off" /\ server = "answers"
    /\ server' = "silent"
    /\ UNCHANGED <<monitors, main, seen, held, outputs, encoder, bgra,
                   link, stop>>

\* recv and send have no timeout.  On a silent connection they may return after
\* all: the server reads on, send finds room in the socket's buffer, TCP gives
\* the connection up.  Nothing makes them.
Blocking == Handshake \/ Send
Unblocked == server = "silent" /\ Blocking

Main == \/ /\ \/ InitInterop \/ EnumerateOutput \/ EnumerationEnds \/ InitEncoder
              \/ LeaveLoop \/ Cleanup \/ Leave
           /\ UNCHANGED refreshVars
        \/ CaptureFrame \/ EncodeFrame \/ Connect \/ Poll
        \/ server = "answers" /\ Blocking

Next ==
    \/ Main \/ Unblocked
    \/ (Signal \/ FallSilent) /\ UNCHANGED refreshVars

\* Fairness: main is a thread that runs; connect gives up by itself; recv and
\* send return as long as the server reads and answers.  Nothing is assumed of
\* a silent server, and nothing makes the screen change.
Spec == Init /\ [][Next]_vars /\ WF_vars(Main)
-----------------------------------------------------------------------------
AgentTypeOK ==
    /\ RefreshTypeOK
    /\ monitors \in Monitors
    /\ main \in {"start", "enumerate", "encoder", "capture", "encode", "connect",
                 "handshake", "poll", "send", "cleanup", "leave", "exited"}
    /\ seen \in 0..Len(monitors)
    /\ held \subseteq {Device} \cup Encoder
                       \cup UNION {OutputOf(m) : m \in DOMAIN monitors}
    /\ outputs \in Seq(DOMAIN monitors)
    /\ {encoder, bgra} \subseteq {NoSize} \cup {Size(m) : m \in DOMAIN monitors}
    /\ link \in {"off", "tcp", "rtsp"}
    /\ server \in {"answers", "silent"}
    /\ stop \in BOOLEAN

\* No frame pool, capture session or texture is held but those of the outputs a
\* Shutdown reaches, so that a monitor whose callback failed at any call keeps
\* none; and whatever failed, the program exits with nothing of theirs, no
\* device, encoder, timer period or connection left behind.
NothingLeaked ==
    /\ \A m \in DOMAIN monitors :
          OutputOf(m) \cap held # {} => \E i \in DOMAIN outputs : outputs[i] = m
    /\ main = "exited" => held = {} /\ link = "off"

\* The picture given to the encoder is one of the size it was opened with, a
\* size whose conversion fills the encoder's buffer from the picture's pixels.
PictureFits == main = "encode" => bgra = encoder /\ Fills(encoder[1], encoder[2])

\* A call of recv or send that a silent server never lets return.
HeldByServer == server = "silent" /\ main \in {"handshake", "send"}

\* After a signal the program exits, unless one such call lasts for ever: no
\* failure of a connection, no retry, no still screen and no server that falls
\* silent only for a time keeps it in its loop.
StopLeadsToExit == stop ~> (main = "exited" \/ []HeldByServer)
=============================================================================
