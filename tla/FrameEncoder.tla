----------------------------- MODULE FrameEncoder -----------------------------
(***************************************************************************)
(* What x264 promises X264Encoder, its caller: calls of EncodeFrame return *)
(* one frame each, in order; a frame that lacks a slice is the last, for   *)
(* the call after it fails; every call returns, and Shutdown ends.         *)
(***************************************************************************)
EXTENDS Naturals

CONSTANT MaxFrames  \* bound on the frames of a behaviour

VARIABLES call,   \* "none", "begun", "closing" or "closed"
          frame,  \* the frame of the last call
          whole   \* whether the last frame returned has all its slices
vars == <<call, frame, whole>>

Init == call = "none" /\ frame = 0 /\ whole = TRUE

Begin ==
    /\ call = "none" /\ frame < MaxFrames
    /\ call' = "begun" /\ frame' = frame + 1
    /\ UNCHANGED whole

Return ==
    /\ call = "begun" /\ whole
    /\ call' = "none" /\ whole' \in BOOLEAN
    /\ UNCHANGED frame

\* The call fails, and the program leaves its loop.
Fail ==
    /\ call = "begun" /\ ~whole
    /\ call' = "closing"
    /\ UNCHANGED <<frame, whole>>

Close ==
    /\ call = "none"
    /\ call' = "closing"
    /\ UNCHANGED <<frame, whole>>

Closed ==
    /\ call = "closing"
    /\ call' = "closed"
    /\ UNCHANGED <<frame, whole>>

Next == Begin \/ Return \/ Fail \/ Close \/ Closed
Spec == Init /\ [][Next]_vars /\ WF_vars(Return \/ Fail) /\ WF_vars(Closed)
===============================================================================
