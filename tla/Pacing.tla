-------------------------------- MODULE Pacing --------------------------------
(***************************************************************************)
(* Frame pacing in H264StreamTrack.recv (webrtc_server.py:285-307): when a *)
(* frame that has been decoded is handed on.  Time and timestamps are      *)
(* counted in ticks of the 90 kHz clock; a timestamp has 32 bits.          *)
(***************************************************************************)
EXTENDS Integers

CONSTANTS TsSize,    \* 2^32
          Early,     \* a wait of up to 2 ms is not worth a sleep (180)
          MaxWait,   \* a longer wait restarts the schedule (1 s, 90000)
          MaxLag,    \* and so does a larger lag (0.5 s, 45000)
          MaxTime    \* bound on the time of a behaviour

ASSUME PacingAssumption ==
    /\ {TsSize, Early, MaxWait, MaxLag, MaxTime} \subseteq Nat
    /\ TsSize > 0
    /\ Early <= MaxWait

VARIABLES
    now,        \* time.monotonic() when recv last returned
    firstPts,   \* _first_pts, or NoPts
    firstTime,  \* _first_time
    pts,        \* the timestamp of the frame recv returned, or NoPts
    held        \* how long recv held it

pacingVars == <<now, firstPts, firstTime, pts, held>>

NoPts == -1
Timestamps == 0..(TsSize - 1)

PacingTypeOK ==
    /\ now \in Nat /\ firstTime \in 0..now
    /\ firstPts \in Timestamps \cup {NoPts}
    /\ pts \in Timestamps \cup {NoPts}
    /\ pts = NoPts <=> firstPts = NoPts
    /\ held \in Nat

PacingInit ==
    /\ now = 0 /\ firstTime = 0
    /\ firstPts = NoPts /\ pts = NoPts /\ held = 0

\* Mutant of Offset: a timestamp that wrapped lies before the first.
RawOffset(p, first) == p - first

\* pts_offset: ticks from the first timestamp to p, modulo 2^32.
Offset(p, first) == IF p < first THEN p - first + TsSize ELSE p - first

\* Mutant of Outcome: a late frame never restarts the schedule.
OutcomePatient(wait) == IF wait > MaxWait THEN "restart"
                        ELSE IF wait > Early THEN "sleep" ELSE "pass"

\* What recv does with a frame that is due in wait ticks.
Outcome(wait) ==
    IF wait > MaxWait \/ wait < -MaxLag THEN "restart"
    ELSE IF wait > Early THEN "sleep" ELSE "pass"

\* recv takes a frame with timestamp p at time t and returns it.
Recv(p, t) ==
    LET first == IF firstPts = NoPts THEN p ELSE firstPts
        start == IF firstPts = NoPts THEN t ELSE firstTime
        wait  == start + Offset(p, first) - t
        held2 == IF Outcome(wait) = "sleep" THEN wait ELSE 0
    IN  /\ now' = t + held2
        /\ firstPts' = IF Outcome(wait) = "restart" THEN p ELSE first
        /\ firstTime' = IF Outcome(wait) = "restart" THEN t ELSE start
        /\ held' = held2
        /\ pts' = p

PacingNext == \E p \in Timestamps, t \in now..MaxTime : Recv(p, t)

PacingSpec == PacingInit /\ [][PacingNext]_pacingVars
-----------------------------------------------------------------------------
\* Ticks of the stream from one timestamp to another.
Ticks(from, to) == (to - from) % TsSize

\* By how much the frame just returned was ahead of its schedule.
Ahead == firstTime + Ticks(firstPts, pts) - now

\* webrtc_server.py:296-305: a frame leaves at most Early before and MaxLag
\* after its time on the schedule it leaves behind.
OnSchedule == pts # NoPts => Ahead \in -MaxLag..Early

\* webrtc_server.py:290-292: a frame that comes as long after the last as its
\* timestamp says does not restart the schedule, though the timestamp wraps,
\* until the schedule itself is a whole cycle old.
SteadyKept ==
    [][pts # NoPts /\ now' - now = Ticks(pts, pts') /\ held' = 0
         /\ Ticks(firstPts, pts') >= Ticks(firstPts, pts)
         => UNCHANGED <<firstPts, firstTime>>]_pacingVars
=============================================================================
