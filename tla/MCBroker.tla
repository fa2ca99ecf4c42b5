------------------------------ MODULE MCBroker ------------------------------
(* Instances of Broker for TLC: user a may be logged in twice (雙開).       *)
EXTENDS Broker

CONSTANTS s1, s2, s3, a, b, w1

Pair  == {s1, s2}
Three == {s1, s2, s3}

TwoUsers == [s \in Sessions |-> IF s = s2 THEN b ELSE a]

=============================================================================
