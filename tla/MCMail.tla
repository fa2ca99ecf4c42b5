------------------------------- MODULE MCMail -------------------------------
(* Instances of Mail for TLC: two users, one session each.                   *)
EXTENDS Mail

CONSTANTS a, b, s1, s2

TwoUsers == [s \in Sessions |-> IF s = s2 THEN b ELSE a]

=============================================================================
