----------------------------- MODULE MCSliceThreads -----------------------------
EXTENDS SliceThreads

\* No byte, a NAL unit that is its header alone, and up to three zeros and a 1
\* or a 3: what could be taken for a start code or for an escape.  The trailing
\* bits of a NAL unit keep its last byte from zero.
MCPayloads == {[i \in 1..n |-> IF i < n THEN 0 ELSE b] : n \in 0..4, b \in {1, 3}}
=============================================================================
