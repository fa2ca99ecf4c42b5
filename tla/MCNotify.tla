------------------------------ MODULE MCNotify ------------------------------
(* Instances of Notify for TLC.                                              *)
EXTENDS Notify

CONSTANTS c1, c2, w1, w2, t1, t2

=============================================================================
