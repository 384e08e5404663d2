--------------------------- MODULE MCRtpReceiver ---------------------------
(* Two users talk and change sources, and their packets may be of two      *)
(* lengths.                                                                *)
EXTENDS RtpReceiver

CONSTANTS u1, u2, a, b

MCUsers == {u1, u2}
MCSsrcs == {a, b}
=============================================================================
