------------------------- MODULE MCNotifySettings ---------------------------
(* Instances of NotifySettings for TLC: one user in two windows.             *)
EXTENDS NotifySettings, TLC

CONSTANTS w1, w2

Symmetry == Permutations(Windows)

=============================================================================
