---------------------------- MODULE MCStreamHub ----------------------------
(* The stream hub with two players, which are alike.                       *)
EXTENDS StreamHub, TLC

Players == Permutations(Listeners)
============================================================================
