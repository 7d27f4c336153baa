-------------------------------- MODULE Viewer --------------------------------
(***************************************************************************)
(* The page of webrtc_server.py (start() and its handlers) against /offer. *)
(*                                                                         *)
(* Each call of start() creates one RTCPeerConnection, so call n and peer  *)
(* n are one number.  Between the awaits of one call another may run; all  *)
(* of them use the global pc.  A promise of a closed peer never settles,   *)
(* and a closed peer fires no event, so a handler that reads pc reads the  *)
(* peer that changed.  An answer fits only the peer whose offer it answers. *)
(***************************************************************************)
EXTENDS Naturals, Sequences

CONSTANTS MaxLosses,  \* bound on losses of the path to a peer
          MaxOutages  \* bound on restarts of the server

ASSUME ViewerAssumption == MaxLosses \in Nat /\ MaxOutages \in Nat

VARIABLES
    pc,       \* the page's current peer, or None
    peers,    \* every peer: its signaling and ICE state, the offer that its
              \* remote description answers, and whether the server holds the
              \* other end
    calls,    \* the await each call of start() is at
    timers,   \* pending setTimeout(start, 2000)
    up,       \* whether the server runs
    losses, outages

vars == <<pc, peers, calls, timers, up, losses, outages>>

None == 0
NewPeer == [signaling |-> "new", ice |-> "new", answerTo |-> None,
            held |-> FALSE]
ClosedPeer == [NewPeer EXCEPT !.signaling = "closed", !.ice = "closed"]

\* Loading the page calls start(), as a timer would.
Init ==
    /\ pc = None /\ peers = <<>> /\ calls = <<>>
    /\ timers = 1
    /\ up = TRUE /\ losses = 0 /\ outages = 0

Open(p)    == peers[p].ice # "closed"
Fits(p)    == peers[p].answerTo = p
Reaches(p) == Fits(p) /\ peers[p].held
-----------------------------------------------------------------------------
(* start(), from one await to the next.  The certificate is there when a   *)
(* timer fires, so that await lets no other call in.                       *)

\* Mutant of Start: the old peer is forgotten without closing it.
StartOver ==
    /\ timers > 0
    /\ timers' = timers - 1
    /\ peers' = Append(peers, NewPeer)
    /\ calls' = Append(calls, "createOffer")
    /\ pc' = Len(peers')
    /\ UNCHANGED <<up, losses, outages>>

Start ==
    /\ timers > 0
    /\ timers' = timers - 1
    /\ peers' = Append([p \in 1..Len(peers) |->
                           IF p = pc THEN ClosedPeer ELSE peers[p]], NewPeer)
    /\ calls' = Append([n \in 1..Len(calls) |->
                           IF n = pc /\ calls[n] # "fetch" THEN "done"
                                                           ELSE calls[n]],
                       "createOffer")
    /\ pc' = Len(peers')
    /\ UNCHANGED <<up, losses, outages>>

OfferCreated(n) ==
    /\ calls[n] = "createOffer"
    /\ calls' = [calls EXCEPT ![n] = "setLocalDescription"]
    /\ UNCHANGED <<pc, peers, timers, up, losses, outages>>

LocalDescriptionSet(n) ==
    /\ calls[n] = "setLocalDescription"
    /\ peers' = [peers EXCEPT ![n].signaling = "have-local-offer"]
    /\ calls' = [calls EXCEPT ![n] = "fetch"]
    /\ UNCHANGED <<pc, timers, up, losses, outages>>

\* The answer goes to whatever pc is now; only a peer with an offer takes it.
Answered(n) ==
    /\ calls[n] = "fetch"
    /\ up
    /\ calls' = [calls EXCEPT ![n] = "done"]
    /\ peers' = IF peers[pc].signaling = "have-local-offer"
                THEN [peers EXCEPT ![pc] = [@ EXCEPT !.signaling = "stable",
                                                     !.ice = "checking",
                                                     !.answerTo = n,
                                                     !.held = TRUE]]
                ELSE peers
    /\ UNCHANGED <<pc, timers, up, losses, outages>>

\* fetch rejects, and with it start(); nothing calls it again.
FetchFails(n) ==
    /\ calls[n] = "fetch"
    /\ ~up
    /\ calls' = [calls EXCEPT ![n] = "failed"]
    /\ UNCHANGED <<pc, peers, timers, up, losses, outages>>
-----------------------------------------------------------------------------
(* ICE.  "disconnected" and "failed" each set a timer.  ICE gives up only  *)
(* after many seconds: what /offer was asked for a peer has come by then.  *)

IceConnected(p) ==
    /\ peers[p].ice \in {"checking", "disconnected"}
    /\ Reaches(p)
    /\ peers' = [peers EXCEPT ![p].ice = "connected"]
    /\ UNCHANGED <<pc, calls, timers, up, losses, outages>>

IceDisconnected(p) ==
    /\ peers[p].ice = "connected"
    /\ \/ ~peers[p].held /\ UNCHANGED losses
       \/ losses < MaxLosses /\ losses' = losses + 1
    /\ peers' = [peers EXCEPT ![p].ice = "disconnected"]
    /\ timers' = timers + 1
    /\ UNCHANGED <<pc, calls, up, outages>>

\* Mutant of IceFailed: only "disconnected" sets a timer.
IceFailedQuietly(p) ==
    /\ calls[p] # "fetch"
    /\ \/ peers[p].ice = "checking" /\ ~Reaches(p)
       \/ peers[p].ice = "disconnected"
    /\ peers' = [peers EXCEPT ![p].ice = "failed"]
    /\ UNCHANGED <<pc, calls, timers, up, losses, outages>>

IceFailed(p) ==
    /\ calls[p] # "fetch"
    /\ \/ peers[p].ice = "checking" /\ ~Reaches(p)
       \/ peers[p].ice = "disconnected"
    /\ peers' = [peers EXCEPT ![p].ice = "failed"]
    /\ timers' = timers + 1
    /\ UNCHANGED <<pc, calls, up, losses, outages>>
-----------------------------------------------------------------------------
(* The server stops, and with it its ends of the peers; it comes back.     *)

Outage ==
    /\ up
    /\ outages < MaxOutages
    /\ outages' = outages + 1
    /\ up' = FALSE
    /\ peers' = [p \in 1..Len(peers) |-> [peers[p] EXCEPT !.held = FALSE]]
    /\ UNCHANGED <<pc, calls, timers, losses>>

Recovery ==
    /\ ~up
    /\ up' = TRUE
    /\ UNCHANGED <<pc, peers, calls, timers, losses, outages>>

Page ==
    \/ Start
    \/ \E n \in 1..Len(calls) : OfferCreated(n) \/ LocalDescriptionSet(n)
                                \/ Answered(n) \/ FetchFails(n)
Ice == \E p \in 1..Len(peers) :
           IceConnected(p) \/ IceDisconnected(p) \/ IceFailed(p)

Next == Page \/ Ice \/ Outage \/ Recovery

Spec == Init /\ [][Next]_vars

\* Promises settle, timers fire, ICE comes to a verdict, the server comes back.
FairSpec == Spec /\ WF_vars(Page) /\ WF_vars(Ice) /\ WF_vars(Recovery)
-----------------------------------------------------------------------------
Connected == pc # None /\ peers[pc].ice = "connected"

\* webrtc_server.py:123: however calls of start() overlap, the page holds one
\* open peer, the one its handlers and its calls refer to.
OneOpenPeer == \A p \in 1..Len(peers) : p # pc => ~Open(p)

\* webrtc_server.py:122-167: although overlapping calls may give the current
\* peer the answer to another's offer, the page ends up connected, or with a
\* peer whose own request was refused: nothing else leaves it without a timer.
StaysConnected == <>[](Connected \/ (pc # None /\ calls[pc] = "failed"))

\* README.md:108, "ICE restart": a break is repaired, also when the server was
\* away for a while.
RecoversFromOutage == <>[]Connected
=============================================================================
