----------------------------- MODULE MCRtpPath -----------------------------
(* Model-checking instance of RtpPath: NAL units of one, two, three, five  *)
(* and six bytes, which make one, two or three packets, and more packets   *)
(* than there are sequence numbers.                                        *)
EXTENDS RtpPath

MCFrames == {<<6>>, <<1, 5>>, <<3, 2>>}
=============================================================================
