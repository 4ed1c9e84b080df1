--------------------------- MODULE MCProbeIngest ---------------------------
(* ProbeIngest with a POST of one reading.  All readings name channel 2,   *)
(* which has no probe yet; channel 1 has one.                              *)
EXTENDS ProbeIngest

CONSTANTS q1, h1, u1

MCPost == <<h1>>
MCChannelOf == [c \in Client |-> 2]

=============================================================================
