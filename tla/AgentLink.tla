------------------------------ MODULE AgentLink ------------------------------
(***************************************************************************)
(* The agent's RtspClient and main loop (main.cpp) and the server's        *)
(* RtspServer and AgentSession (webrtc_server.py), over TCP connections    *)
(* that may break: handshake, streaming, keyframe requests, reconnection.  *)
(*                                                                         *)
(* Connections are numbered in the order the agent opens them.  What one   *)
(* side passes to a single send arrives in order; c2s[n] and s2c[n] hold   *)
(* what was sent on connection n and not read yet.  A reply is two units,  *)
(* the part with "200 OK" and the rest, since recv may return only the     *)
(* first; a frame's packets are the one unit "rtp".                        *)
(***************************************************************************)
EXTENDS Naturals, Sequences, FiniteSets, SequencesExt

CONSTANTS Window,     \* units a connection holds before send blocks
          MaxBreaks,  \* bound on breaks, restarts and failures of accept
          MaxAsks,    \* bound on keyframe requests
          MaxSplits,  \* bound on replies recv returns only a part of
          Silent      \* whether a break may go unnoticed by the server

ASSUME LinkAssumption ==
    /\ Window \in Nat \ {0}
    /\ {MaxBreaks, MaxAsks, MaxSplits} \subseteq Nat
    /\ Silent \in BOOLEAN

VARIABLES
    agent,          \* where the agent is in its main loop
    sock,           \* sock_: the agent's connection, or None
    step,           \* the request Handshake is at
    handshakeDone,  \* handshake_done_
    refresh,        \* the encoder was asked for an intra refresh
    link,           \* the state of each connection
    c2s, s2c,       \* in flight to the server and to the agent
    listening,      \* whether the server has a listening socket
    backlog,        \* connections the server has not accepted
    server,         \* where the RTSP thread is in RtspServer.run
    serving,        \* the connection of the session being handled, or None
    playSent,       \* its _play_sent
    session,        \* _agent_session
    fed,            \* whether the track ever got video: it asks only then
    breaks, asks, splits

agentVars  == <<agent, sock, step, handshakeDone, refresh>>
netVars    == <<link, c2s, s2c>>
serverVars == <<listening, backlog, server, serving, playSent, session, fed>>
counters   == <<breaks, asks, splits>>
vars == <<agentVars, netVars, serverVars, counters>>

None == 0
Requests == <<"OPTIONS", "DESCRIBE", "SETUP", "PLAY">>
Reply    == <<"200 OK", "rest">>

Opened == Len(link)
TypeOK ==
    /\ agent \in {"capture", "connect", "wait", "poll", "send"}
    /\ link \in Seq({"open", "closed", "broken", "silent"})
    /\ sock \in 0..Opened
    /\ step \in 1..4
    /\ {handshakeDone, refresh, listening, playSent, fed} \subseteq BOOLEAN
    /\ c2s \in Seq(Seq({"rtp", "OPTIONS", "DESCRIBE", "SETUP", "PLAY"}))
    /\ s2c \in Seq(Seq({"200 OK", "rest", "!K"}))
    /\ Len(c2s) = Opened /\ Len(s2c) = Opened
    /\ \A n \in 1..Opened : Len(c2s[n]) <= Window
    /\ backlog \in Seq(1..Opened)
    /\ server \in {"accept", "publish", "handle", "ended"}
    /\ serving \in 0..Opened
    /\ session \in 0..Opened
    /\ breaks \in 0..MaxBreaks /\ asks \in 0..MaxAsks /\ splits \in 0..MaxSplits

Init ==
    /\ agent = "capture" /\ sock = None /\ step = 1
    /\ handshakeDone = FALSE /\ refresh = FALSE
    /\ link = <<>> /\ c2s = <<>> /\ s2c = <<>>
    /\ listening = TRUE /\ backlog = <<>> /\ server = "accept"
    /\ serving = None /\ playSent = FALSE /\ session = None
    /\ fed = FALSE
    /\ breaks = 0 /\ asks = 0 /\ splits = 0

Put(queues, n, units) == [queues EXCEPT ![n] = @ \o units]

\* A frame is captured and encoded; a refresh that was asked for starts here.
EncodeFrame ==
    /\ agent = "capture"
    /\ refresh' = FALSE
    /\ agent' = IF handshakeDone THEN "poll" ELSE "connect"
    /\ UNCHANGED <<sock, step, handshakeDone, netVars, serverVars, counters>>
-----------------------------------------------------------------------------
(* The agent.  closesocket delivers what was sent, or resets the connection *)
(* when it holds unread data; the frame at hand is dropped.                *)

Disconnect ==
    /\ agent' = "capture"
    /\ sock' = None
    /\ handshakeDone' = FALSE
    /\ link' = [link EXCEPT ![sock] = IF @ = "open" THEN "closed" ELSE @]
    /\ c2s' \in {c2s, [c2s EXCEPT ![sock] = <<>>]}
    /\ s2c' = [s2c EXCEPT ![sock] = <<>>]
    /\ UNCHANGED <<step, refresh, serverVars>>

\* TCP connects as soon as the server listens, before it accepts.
Connect ==
    /\ agent = "connect"
    /\ listening
    /\ sock' = Opened + 1
    /\ link' = Append(link, "open")
    /\ c2s' = Append(c2s, <<Requests[1]>>)
    /\ s2c' = Append(s2c, <<>>)
    /\ backlog' = Append(backlog, sock')
    /\ step' = 1
    /\ agent' = "wait"
    /\ UNCHANGED <<handshakeDone, refresh, listening, server, serving,
                   playSent, session, fed, counters>>

ConnectRefused ==
    /\ agent = "connect"
    /\ ~listening
    /\ agent' = "capture"
    /\ UNCHANGED <<sock, step, handshakeDone, refresh, netVars, serverVars,
                   counters>>

\* Mutant of Accepted: anything the server sends is taken for its reply.
AcceptedAny(bytes) == bytes # <<>>

Accepted(bytes) == "200 OK" \in Range(bytes)

\* recv_resp took the first n units: the next request, or the end of Handshake.
NextRequest(n) ==
    /\ s2c' = [s2c EXCEPT ![sock] = SubSeq(@, n + 1, Len(@))]
    /\ \/ /\ step < 4
          /\ step' = step + 1
          /\ c2s' = Put(c2s, sock, <<Requests[step']>>)
          /\ UNCHANGED <<agent, handshakeDone>>
       \/ /\ step = 4
          /\ handshakeDone' = TRUE
          /\ agent' = "poll"
          /\ UNCHANGED <<step, c2s>>
    /\ UNCHANGED <<sock, refresh, link, serverVars>>

RecvResp ==
    /\ agent = "wait"
    /\ \E n \in 1..Len(s2c[sock]) :
          /\ \/ n = Len(s2c[sock]) /\ UNCHANGED splits
             \/ n < Len(s2c[sock]) /\ splits < MaxSplits /\ splits' = splits + 1
          /\ IF Accepted(SubSeq(s2c[sock], 1, n)) THEN NextRequest(n)
                                                  ELSE Disconnect
    /\ UNCHANGED <<breaks, asks>>

RecvFails ==
    /\ agent = "wait"
    /\ link[sock] = "broken"
    /\ Disconnect
    /\ UNCHANGED counters

\* Mutant of CheckForIncoming: the socket is drained, the answer forgotten.
DrainIncoming ==
    /\ agent = "poll"
    /\ s2c' = [s2c EXCEPT ![sock] = <<>>]
    /\ agent' = "send"
    /\ UNCHANGED <<sock, step, handshakeDone, refresh, link, c2s, serverVars,
                   counters>>

\* One recv of at most 63 bytes, when select says there is something.
CheckForIncoming ==
    /\ agent = "poll"
    /\ \E n \in (IF s2c[sock] = <<>> THEN {0} ELSE 1..Len(s2c[sock])) :
          /\ s2c' = [s2c EXCEPT ![sock] = SubSeq(@, n + 1, Len(@))]
          /\ refresh' = (refresh \/ "!K" \in Range(SubSeq(s2c[sock], 1, n)))
    /\ agent' = "send"
    /\ UNCHANGED <<sock, step, handshakeDone, link, c2s, serverVars, counters>>

SendRtp ==
    /\ agent = "send"
    /\ link[sock] = "open"
    /\ Len(c2s[sock]) < Window
    /\ c2s' = Put(c2s, sock, <<"rtp">>)
    /\ agent' = "capture"
    /\ UNCHANGED <<sock, step, handshakeDone, refresh, link, s2c, serverVars,
                   counters>>

\* Mutant of SendFails: the socket is closed but the loop goes on with it.
SendFailsKept ==
    /\ agent = "send"
    /\ link[sock] # "open"
    /\ agent' = "capture"
    /\ UNCHANGED <<sock, step, handshakeDone, refresh, netVars, serverVars,
                   counters>>

SendFails ==
    /\ agent = "send"
    /\ link[sock] # "open"
    /\ Disconnect
    /\ UNCHANGED counters
-----------------------------------------------------------------------------
(* The network, and the agent's host. *)

\* The agent's connection fails; what was in flight is lost.  A silent failure
\* gives the server neither data nor an end of the stream.
Break ==
    /\ sock # None
    /\ link[sock] = "open"
    /\ breaks < MaxBreaks
    /\ breaks' = breaks + 1
    /\ link' \in {[link EXCEPT ![sock] = how] :
                    how \in {"broken"} \cup
                            (IF Silent /\ handshakeDone THEN {"silent"} ELSE {})}
    /\ c2s' = [c2s EXCEPT ![sock] = <<>>]
    /\ s2c' = [s2c EXCEPT ![sock] = <<>>]
    /\ UNCHANGED <<agentVars, serverVars, asks, splits>>

\* The agent is killed and started again; the system closes its socket.
Restart ==
    /\ sock # None
    /\ breaks < MaxBreaks
    /\ breaks' = breaks + 1
    /\ agent' = "capture" /\ sock' = None /\ step' = 1
    /\ handshakeDone' = FALSE /\ refresh' = FALSE
    /\ link' = [link EXCEPT ![sock] = IF @ = "open" THEN "closed" ELSE @]
    /\ c2s' \in {c2s, [c2s EXCEPT ![sock] = <<>>]}
    /\ s2c' = [s2c EXCEPT ![sock] = <<>>]
    /\ UNCHANGED <<serverVars, asks, splits>>
-----------------------------------------------------------------------------
(* The RTSP thread.  A session is published before its handshake. *)

Accept ==
    /\ server = "accept"
    /\ backlog # <<>>
    /\ serving' = Head(backlog)
    /\ backlog' = Tail(backlog)
    /\ playSent' = FALSE
    /\ server' = "publish"
    /\ UNCHANGED <<agentVars, netVars, listening, session, fed, counters>>

PublishSession ==
    /\ server = "publish"
    /\ session' = serving
    /\ server' = "handle"
    /\ UNCHANGED <<agentVars, netVars, listening, backlog, serving, playSent,
                   fed, counters>>

\* Mutant of HandleUnit: PLAY is answered like any other method.
HandleUnitNoPlay ==
    /\ server = "handle"
    /\ c2s[serving] # <<>>
    /\ c2s' = [c2s EXCEPT ![serving] = Tail(@)]
    /\ s2c' = IF Head(c2s[serving]) # "rtp" /\ link[serving] = "open"
              THEN Put(s2c, serving, Reply) ELSE s2c
    /\ UNCHANGED <<agentVars, link, serverVars, counters>>

\* A request is answered; an RTP packet goes to the parser if PLAY was seen.
HandleUnit ==
    /\ server = "handle"
    /\ c2s[serving] # <<>>
    /\ c2s' = [c2s EXCEPT ![serving] = Tail(@)]
    /\ playSent' = (playSent \/ Head(c2s[serving]) = "PLAY")
    /\ fed' = (fed \/ (playSent /\ Head(c2s[serving]) = "rtp"))
    /\ s2c' = IF Head(c2s[serving]) # "rtp" /\ link[serving] = "open"
              THEN Put(s2c, serving, Reply) ELSE s2c
    /\ UNCHANGED <<agentVars, link, listening, backlog, server, serving,
                   session, counters>>

\* recv returns nothing, or fails: handle returns.
HandleEnd ==
    /\ server = "handle"
    /\ c2s[serving] = <<>>
    /\ link[serving] \in {"closed", "broken"}
    /\ server' = "ended"
    /\ UNCHANGED <<agentVars, netVars, listening, backlog, serving, playSent,
                   session, fed, counters>>

\* The finally clause: a later session is not withdrawn.
WithdrawSession ==
    /\ server = "ended"
    /\ session' = IF session = serving THEN None ELSE session
    /\ serving' = None
    /\ server' = "accept"
    /\ UNCHANGED <<agentVars, netVars, listening, backlog, playSent, fed, counters>>

\* accept fails: the listening socket is closed, its connections are reset.
AcceptFails ==
    /\ server = "accept"
    /\ listening
    /\ breaks < MaxBreaks
    /\ breaks' = breaks + 1
    /\ listening' = FALSE
    /\ link' = [n \in 1..Opened |-> IF n \in Range(backlog) /\ link[n] = "open"
                                    THEN "broken" ELSE link[n]]
    /\ c2s' = [n \in 1..Opened |-> IF n \in Range(backlog) THEN <<>> ELSE c2s[n]]
    /\ backlog' = <<>>
    /\ UNCHANGED <<agentVars, s2c, server, serving, playSent, session, fed,
                   asks, splits>>

Relisten ==
    /\ ~listening
    /\ listening' = TRUE
    /\ UNCHANGED <<agentVars, netVars, backlog, server, serving, playSent,
                   session, fed, counters>>

\* on_keyframe_request in the event loop: "!K", if there is a session.
OnKeyframeRequest ==
    /\ fed
    /\ asks < MaxAsks
    /\ asks' = asks + 1
    /\ s2c' = IF session # None /\ link[session] = "open"
              THEN Put(s2c, session, <<"!K">>) ELSE s2c
    /\ UNCHANGED <<agentVars, link, c2s, serverVars, breaks, splits>>
-----------------------------------------------------------------------------
Handshake == Connect \/ ConnectRefused \/ RecvResp \/ RecvFails
Stream    == EncodeFrame \/ CheckForIncoming \/ SendRtp \/ SendFails
Session   == \/ Accept \/ PublishSession \/ HandleUnit \/ HandleEnd
             \/ WithdrawSession \/ Relisten

Next == Handshake \/ Stream \/ Session \/ Break \/ Restart \/ AcceptFails
        \/ OnKeyframeRequest

Spec == Init /\ [][Next]_vars

\* Both programs keep running, and the screen keeps changing: CaptureFrame
\* returns no frame otherwise, and the loop goes no further.
FairSpec == Spec /\ WF_vars(Handshake) /\ WF_vars(Stream) /\ WF_vars(Session)
-----------------------------------------------------------------------------
(* Replies, though recognised only by "200 OK", stay paired with requests:  *)
(* at most one of them is under way, and none once the handshake is done.  *)
RequestsOn(n) == {i \in DOMAIN c2s[n] : c2s[n][i] # "rtp"}
RepliesOn(n)  == {i \in DOMAIN s2c[n] : s2c[n][i] = "200 OK"}
Underway(n)   == Cardinality(RequestsOn(n)) + Cardinality(RepliesOn(n))

\* main.cpp:113-131, webrtc_server.py:473-523: each request is answered once,
\* so the agent never runs ahead of the session in the handshake.
RepliesPaired ==
    \A n \in 1..Opened :
        link[n] = "open" =>
            Underway(n) = IF n = sock /\ ~handshakeDone THEN 1 ELSE 0

\* main.cpp:69, webrtc_server.py:417-520: when the agent believes in a
\* connection that stands, the server is handling that very connection, has seen
\* PLAY, and has published it: no packet is discarded, no request misdirected.
HandshakeAgreed ==
    handshakeDone /\ link[sock] = "open" =>
        server = "handle" /\ serving = sock /\ session = sock /\ playSent

\* webrtc_server.py:430-435, main.cpp:300-306: a request sent to an agent that
\* is streaming reaches its encoder, unless the connection is lost.
KeyframeForwarded ==
    (handshakeDone /\ "!K" \in Range(s2c[sock])) ~> (refresh \/ ~handshakeDone)

\* main.cpp:280-317, webrtc_server.py:567-592: whatever breaks, the agent comes
\* back to streaming on a connection the server is handling.
StreamsAgain == []<>(handshakeDone /\ serving = sock /\ link[sock] = "open")
=============================================================================
