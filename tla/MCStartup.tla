----------------------------- MODULE MCStartup ------------------------------
(* Instances of Startup for TLC: two files for the Welcome board, the first  *)
(* of them pinned, as in internal/seed/articles.                             *)
EXTENDS Startup

TwoFiles == <<[board |-> "Welcome", pinned |-> TRUE], [board |-> "Welcome", pinned |-> FALSE]>>

=============================================================================
