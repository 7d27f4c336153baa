-------------------------------- MODULE Relay --------------------------------
(***************************************************************************)
(* The frames of the track, copied by aiortc's MediaRelay to the queue of  *)
(* each viewer, a DroppingQueue of webrtc_server.py.  Everything runs on   *)
(* the event loop: an action is what happens between two awaits.  A frame  *)
(* is its number in the order the relay got them.                          *)
(***************************************************************************)
EXTENDS Naturals, Sequences

CONSTANTS Viewers,     \* peer connections that may exist
          QueueMax,    \* RELAY_QUEUE_MAXLEN (3)
          MaxFrames    \* bound on the frames of a behaviour

ASSUME RelayAssumption == QueueMax \in Nat \ {0} /\ MaxFrames \in Nat

VARIABLES
    relayed,   \* frames the relay got so far
    deque,     \* _deque of each viewer
    event,     \* _event of each viewer
    viewer,    \* where each viewer's sender is in get
    got        \* the last frame each viewer got, or 0

relayVars == <<relayed, deque, event, viewer, got>>

RelayTypeOK ==
    /\ relayed \in Nat
    /\ deque \in [Viewers -> Seq(Nat)]
    /\ \A v \in Viewers : Len(deque[v]) <= QueueMax
    /\ event \in [Viewers -> BOOLEAN]
    /\ viewer \in [Viewers -> {"absent", "ready", "waiting"}]
    /\ got \in [Viewers -> Nat]

RelayInit ==
    /\ relayed = 0
    /\ deque = [v \in Viewers |-> <<>>]
    /\ event = [v \in Viewers |-> FALSE]
    /\ viewer = [v \in Viewers |-> "absent"]
    /\ got = [v \in Viewers |-> 0]

\* /offer subscribes a track and replaces its queue before anything runs.
Offer(v) ==
    /\ viewer[v] = "absent"
    /\ viewer' = [viewer EXCEPT ![v] = "ready"]
    /\ deque' = [deque EXCEPT ![v] = <<>>]
    /\ event' = [event EXCEPT ![v] = FALSE]
    /\ got' = [got EXCEPT ![v] = 0]
    /\ UNCHANGED relayed

\* connectionstatechange: the peer connection is closed, its track stopped.
Leave(v) ==
    /\ viewer[v] # "absent"
    /\ viewer' = [viewer EXCEPT ![v] = "absent"]
    /\ UNCHANGED <<relayed, deque, event, got>>

\* Mutant of PutNoWait: a full queue keeps what it has.
PutDropNewest(q, frame) == IF Len(q) < QueueMax THEN Append(q, frame) ELSE q

\* append of a deque with a maxlen.
PutNoWait(q, frame) ==
    IF Len(q) < QueueMax THEN Append(q, frame) ELSE Append(Tail(q), frame)

Subscribed == {v \in Viewers : viewer[v] # "absent"}

\* MediaRelay passes a frame to all subscribers without an await in between.
RelayFrame ==
    /\ relayed < MaxFrames
    /\ relayed' = relayed + 1
    /\ deque' = [v \in Viewers |-> IF v \in Subscribed
                                   THEN PutNoWait(deque[v], relayed')
                                   ELSE deque[v]]
    /\ event' = [v \in Viewers |-> v \in Subscribed \/ event[v]]
    /\ UNCHANGED <<viewer, got>>

\* Mutant of Get: the event is cleared after the wait, not before it.
GetClearsLate(v) ==
    /\ \/ viewer[v] = "ready"
       \/ viewer[v] = "waiting" /\ event[v]
    /\ event' = [event EXCEPT ![v] = FALSE]
    /\ \/ /\ viewer[v] = "ready"
          /\ viewer' = [viewer EXCEPT ![v] = "waiting"]
          /\ UNCHANGED <<deque, got>>
       \/ /\ viewer[v] = "waiting"
          /\ got' = [got EXCEPT ![v] = Head(deque[v])]
          /\ deque' = [deque EXCEPT ![v] = Tail(@)]
          /\ viewer' = [viewer EXCEPT ![v] = "ready"]
    /\ UNCHANGED relayed

\* get, from its call or from the end of its wait to its next await.
Get(v) ==
    /\ \/ viewer[v] = "ready"
       \/ viewer[v] = "waiting" /\ event[v]
    /\ \/ /\ deque[v] # <<>>
          /\ got' = [got EXCEPT ![v] = Head(deque[v])]
          /\ deque' = [deque EXCEPT ![v] = Tail(@)]
          /\ viewer' = [viewer EXCEPT ![v] = "ready"]
          /\ UNCHANGED event
       \/ /\ deque[v] = <<>>
          /\ event' = [event EXCEPT ![v] = FALSE]
          /\ viewer' = [viewer EXCEPT ![v] = "waiting"]
          /\ UNCHANGED <<deque, got>>
    /\ UNCHANGED relayed

RelayNext ==
    \/ RelayFrame
    \/ \E v \in Viewers : Offer(v) \/ Leave(v) \/ Get(v)

RelaySpec == RelayInit /\ [][RelayNext]_relayVars
-----------------------------------------------------------------------------
\* webrtc_server.py:58-65: a viewer, however slow, holds the last frames
\* relayed, without a gap, and has got none of them yet; so no frame it gets is
\* more than QueueMax - 1 frames old, and other viewers make no difference.
HoldsLatest ==
    \A v \in Subscribed :
        /\ \A i \in DOMAIN deque[v] :
               deque[v][i] = relayed - Len(deque[v]) + i
        /\ got[v] + Len(deque[v]) <= relayed

\* webrtc_server.py:66-71: no viewer waits while its queue holds a frame,
\* unless its event is about to wake it.
ViewerAwake ==
    \A v \in Viewers :
        viewer[v] = "waiting" /\ deque[v] # <<>> => event[v]

\* webrtc_server.py:63-71: every viewer that stays gets each relayed frame or a
\* later one.
EveryViewerServed ==
    \A v \in Viewers, n \in 1..MaxFrames :
        (viewer[v] # "absent" /\ deque[v] # <<>> /\ relayed >= n)
            ~> (got[v] >= n \/ viewer[v] = "absent")
=============================================================================
