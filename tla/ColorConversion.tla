-------------------------- MODULE ColorConversion --------------------------
(***************************************************************************)
(* bgra_to_i420 of encoder_x264.cpp: a picture of w x h pixels becomes a   *)
(* buffer with a plane of luma samples, one for every pixel, followed by   *)
(* two of chroma, one for every square of four pixels.  The arithmetic is  *)
(* that of C's int, which no value here leaves; >> rounds down.            *)
(***************************************************************************)
EXTENDS Integers

Component == 0..255  \* of a pixel

Clamp(x) == IF x < 0 THEN 0 ELSE IF x > 255 THEN 255 ELSE x

Luma(r, g, b) == Clamp((66 * r + 129 * g + 25 * b + 128) \div 256 + 16)
Blue(r, g, b) == Clamp((-38 * r - 74 * g + 112 * b + 128) \div 256 + 128)
Red(r, g, b)  == Clamp((112 * r - 94 * g - 18 * b + 128) \div 256 + 128)

\* What a chroma sample is computed from: the mean of four pixels.
Mean(a, b, c, d) == (a + b + c + d) \div 4
-----------------------------------------------------------------------------
\* Pixels are numbered by rows: their place in bgra, divided by four.  The luma
\* sample of a pixel has the pixel's number for its place in the buffer.

\* The place of a chroma sample of the second (0) or third (1) plane.
ChromaAt(w, h, plane, row, col) ==
    w * h + plane * (w \div 2) * (h \div 2) + row * (w \div 2) + col

\* The four pixels of a chroma sample.
Square(w, row, col) == {(2 * row + dy) * w + 2 * col + dx : dy, dx \in {0, 1}}

\* The length of m_yuv_buffer: y_size + uv_size * 2.
BufferSize(w, h) == w * h + 2 * (w \div 2) * (h \div 2)

Rows(h) == 0..(h \div 2 - 1)
Cols(w) == 0..(w \div 2 - 1)

\* Every sample of the buffer is written, by the loops over the luma plane or
\* by one step of those over the chroma planes, and nothing else; and every
\* pixel, but none outside the picture, takes part in the chroma planes.
Fills(w, h) ==
    LET pixels == 0..(w * h - 1)
        places(plane) == {ChromaAt(w, h, plane, row, col) :
                              row \in Rows(h), col \in Cols(w)}
    IN  /\ pixels \cup places(0) \cup places(1) = 0..(BufferSize(w, h) - 1)
        /\ places(0) \cap places(1) = {}
        /\ UNION {Square(w, row, col) : row \in Rows(h), col \in Cols(w)} = pixels

\* The samples are of studio range, so that no clamping ever cuts one off and
\* a player that expects this range shows neither crushed nor washed-out
\* tones; grey has no colour; four pixels' mean is a component again.
StudioRange(r, g, b) ==
    /\ Luma(r, g, b) \in 16..235
    /\ Blue(r, g, b) \in 16..240 /\ Red(r, g, b) \in 16..240
    /\ r = g /\ g = b => Blue(r, g, b) = 128 /\ Red(r, g, b) = 128
    /\ Mean(r, g, b, b) \in Component
=============================================================================
