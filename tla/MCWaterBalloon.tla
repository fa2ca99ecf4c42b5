--------------------------- MODULE MCWaterBalloon ---------------------------
(* Instances of WaterBalloon for TLC: user a throws from s1; user b logs in  *)
(* on s2 and, as a second window or a reconnect, on s3.                      *)
EXTENDS WaterBalloon

CONSTANTS s1, s2, s3, a, b

TwoUsers == [s \in Sessions |-> IF s = s1 THEN a ELSE b]

=============================================================================
