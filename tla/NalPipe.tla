------------------------------ MODULE NalPipe ------------------------------
(* What the path from the encoder to feed_nal promises: NAL units arrive   *)
(* whole, in the order they were given, none twice.  Some may be missing.  *)
EXTENDS Naturals, Sequences

VARIABLES given,     \* the number of NAL units given so far
          received   \* the NAL units that arrived, in order of arrival

Init == given = 0 /\ received = <<>>

Give ==
    /\ given' \in Nat /\ given' > given
    /\ UNCHANGED received

Receive ==
    /\ \E n \in 1..given :
         /\ received # <<>> => n > received[Len(received)]
         /\ received' = Append(received, n)
    /\ UNCHANGED given

Next == Give \/ Receive
Spec == Init /\ [][Next]_<<given, received>>
=============================================================================
