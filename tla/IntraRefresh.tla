---------------------------- MODULE IntraRefresh ----------------------------
(***************************************************************************)
(* The periodic intra refresh of x264, which is how this program's stream  *)
(* starts and heals: X264Encoder makes only the first frame an IDR, and    *)
(* from then on a bar of intra blocks moves over the picture.  The picture *)
(* is its macroblock columns 0..width-1.  A decoder that gets some of the  *)
(* frames holds `clean' columns, counted from the left, that are sure to   *)
(* equal the encoder's whatever motion and texture the encoder met.        *)
(***************************************************************************)
EXTENDS Integers

CONSTANTS Widths,  \* widths a picture may have, in macroblocks
          Keyint   \* i_keyint_max: fps * 2, 30 frames in this program

ASSUME RefreshAssumption == Keyint \in Nat \ {0} /\ Widths \subseteq Nat \ {0, 1}

VARIABLES
    width,     \* i_mb_width
    gop,       \* "new" while m_frame_count is 0, "idr" until the first bar
    position,  \* f_pir_position of the last frame, times Keyint
    endCol,    \* its i_pir_end_col
    age,       \* its i_frames_since_pir
    queued,    \* b_queued_intra_refresh
    frame,     \* the frame encoded and not yet arrived or lost, or NoFrame
    clean,     \* columns of the decoder's picture that are sure to be right
    intact,    \* frames in a row the decoder got, none of them strayed
    asked      \* 1 + those of them since the first request, or 0

encoderVars == <<gop, position, endCol, age, queued>>
decoderVars == <<clean, intact, asked>>
refreshVars == <<width, encoderVars, frame, decoderVars>>

\* A frame: the columns from..to are the bar of intra blocks, needs is how many
\* columns of the reference the blocks left of it are predicted from.
Frames == [from : Nat, to : Nat, needs : Nat, strayed : BOOLEAN]
NoFrame == [from |-> 0, to |-> -1, needs |-> 0, strayed |-> FALSE]

Least(a, b) == IF a < b THEN a ELSE b
Cap == 2 * Keyint + 1  \* bound on the decoder's counters

\* increment, times Keyint: max((i_mb_width - 1) / i_keyint_max, 1).
Increment == IF width - 1 > Keyint THEN width - 1 ELSE Keyint

\* The column of a position: (int)(f_pir_position + 0.5).
Column(pos) == (2 * pos + Keyint) \div (2 * Keyint)

Complete == Keyint * width  \* the position of a bar that is done

\* Mutant of BarDone: a request restarts the bar wherever it is.
BarAnywhere == queued

\* A queued request may start the next bar: f_pir_position + 0.5 >= i_mb_width.
BarDone == queued /\ 2 * position + Keyint >= 2 * Complete

\* Mutants of Restarts: the period is a frame longer; only requests restart it.
RestartsLate == age + 1 > Keyint \/ BarDone
RestartsOnRequest == BarDone

\* The next P-frame starts a bar, and is a key frame with its own SPS and PPS.
Restarts == age + 1 >= Keyint \/ BarDone

\* Mutant of Needs: the blocks left of the bar may move anywhere.
NeedsAll(from, strayed) == IF from = 0 THEN 0 ELSE width

\* The columns that blocks left of a bar use.  Their vectors stop at the end of
\* the reference's bar, but for a block right of it (there is none while bars
\* join) and for a skipped block that strays: its vector is the predicted one,
\* which is clipped to the picture only.
Needs(from, strayed) == IF from = 0 THEN 0
                        ELSE IF from <= endCol /\ ~strayed THEN endCol + 1
                        ELSE width
-----------------------------------------------------------------------------
RefreshInit ==
    /\ width \in Widths
    /\ gop = "new" /\ position = 0 /\ endCol = 0 /\ age = 0 /\ queued = FALSE
    /\ frame = NoFrame
    /\ clean = 0 /\ intact = 0 /\ asked = 0

\* X264Encoder::EncodeFrame with m_frame_count = 0.  It sets no i_pir_end_col:
\* that of a new frame is 0.
EncodeIdr ==
    /\ gop = "new" /\ frame = NoFrame
    /\ gop' = "idr"
    /\ position' = Complete
    /\ age' = 0
    /\ queued' = FALSE
    /\ frame' = [from |-> 0, to |-> width - 1, needs |-> 0, strayed |-> FALSE]
    /\ UNCHANGED <<width, endCol, decoderVars>>

\* The frame of a bar that covers from..Column(next).
Bar(from, next, strayed) ==
    LET to == Least(Column(next), width - 1)
    IN  /\ position' = IF to = width - 1 THEN Complete ELSE next
        /\ endCol' = to
        /\ frame' = [from |-> from, to |-> to, needs |-> Needs(from, strayed),
                     strayed |-> strayed]

\* EncodeFrame for every later frame.  A skipped block can stray only where
\* there is a block to its left to take the vector of.
EncodeP(strayed) ==
    /\ gop # "new" /\ frame = NoFrame
    /\ IF Restarts
       THEN /\ age' = 0 /\ queued' = FALSE /\ gop' = "bars"
            /\ ~strayed
            /\ Bar(0, Increment, FALSE)
       ELSE /\ age' = age + 1
            /\ strayed => Column(position) >= 2
            /\ Bar(Column(position), position + Increment, strayed)
            /\ UNCHANGED <<queued, gop>>
    /\ UNCHANGED <<width, decoderVars>>

\* X264Encoder::RequestKeyframe, called between two frames.
Request ==
    /\ queued' = TRUE
    /\ asked' = IF asked = 0 THEN 1 ELSE asked
    /\ UNCHANGED <<width, gop, position, endCol, age, frame, clean, intact>>

\* The decoder gets the frame.
Arrive ==
    /\ frame # NoFrame
    /\ clean' = IF clean >= frame.needs
                THEN IF clean = width THEN width ELSE frame.to + 1
                ELSE 0
    /\ intact' = IF frame.strayed THEN 0 ELSE Least(intact + 1, Cap)
    /\ asked' = IF frame.strayed \/ asked = 0 THEN 0 ELSE Least(asked + 1, Cap)
    /\ frame' = NoFrame
    /\ UNCHANGED <<width, encoderVars>>

\* The frame is dropped or lost; what the decoder shows from here on may be
\* wrong anywhere.
Lose ==
    /\ frame # NoFrame
    /\ frame' = NoFrame
    /\ clean' = 0 /\ intact' = 0 /\ asked' = 0
    /\ UNCHANGED <<width, encoderVars>>

RefreshNext == \/ EncodeIdr
               \/ \E strayed \in BOOLEAN : EncodeP(strayed)
               \/ Request
               \/ Arrive
               \/ Lose

RefreshSpec == RefreshInit /\ [][RefreshNext]_refreshVars
-----------------------------------------------------------------------------
RefreshTypeOK ==
    /\ width \in Widths
    /\ gop \in {"new", "idr", "bars"}
    /\ position \in Nat /\ endCol \in 0..(width - 1) /\ age \in 0..(Keyint - 1)
    /\ queued \in BOOLEAN
    /\ frame \in Frames \cup {NoFrame}
    /\ clean \in 0..width /\ intact \in 0..Cap /\ asked \in 0..Cap

\* The recovery_frame_cnt of the recovery point SEI that a bar starts with.
TimeToRecovery == Least(width - 1, Keyint) - 1

\* What that SEI says is true: a decoder that joins where a bar starts and gets
\* the frames of it has the columns the bar has passed, and from the announced
\* frame on the whole picture, until it loses a frame or a block strays.
RecoveryPointTrue ==
    (gop = "bars" /\ frame = NoFrame /\ intact > age) =>
        clean >= (IF age >= TimeToRecovery THEN width ELSE endCol + 1)

\* A bar is never cut short: the next one starts when it has reached the right
\* side, however the requests fall.
BarNeverAborted ==
    [][(gop = "bars" /\ frame # frame' /\ frame' # NoFrame /\ frame'.from = 0)
       => position = Complete]_refreshVars

\* However frames were lost, a decoder that then gets a period and a bar of
\* frames is whole again, with no request: requests and the frames main drops
\* while it has no connection need no one to repeat them.  Only frames without
\* a strayed block are counted: each of those starts the count again, and what
\* it breaks stays broken while they recur.
RepairedByPeriod ==
    (frame = NoFrame /\ intact >= Keyint + TimeToRecovery) => clean = width

\* A request is answered by a bar of its own: within the rest of the bar it
\* finds under way and a whole one, the picture is whole.
RepairedOnRequest ==
    (frame = NoFrame /\ asked > 2 * TimeToRecovery + 2) => clean = width
=============================================================================
