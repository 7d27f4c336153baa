------------------------------- MODULE Delivery -------------------------------
(***************************************************************************)
(* From the track to the viewers: the task of the media relay calls recv,  *)
(* which paces the frame (Pacing), and copies what it returns to the queue *)
(* of every viewer (Relay), without an await in between.                   *)
(***************************************************************************)
EXTENDS Pacing, Relay

vars == <<pacingVars, relayVars>>

Init == PacingInit /\ RelayInit

\* One turn of the relay's loop.
RelayRecv ==
    /\ \E p \in Timestamps, t \in now..MaxTime : Recv(p, t)
    /\ RelayFrame

\* What viewers do, while recv sleeps or waits.
ViewerStep(v) == (Offer(v) \/ Leave(v) \/ Get(v)) /\ UNCHANGED pacingVars

Next == RelayRecv \/ \E v \in Viewers : ViewerStep(v)

Spec == Init /\ [][Next]_vars

\* The sender of a viewer that stays keeps asking for frames.
FairSpec ==
    Spec /\ \A v \in Viewers : WF_vars(Get(v) /\ UNCHANGED pacingVars)
=============================================================================
