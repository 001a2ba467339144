------------------------------- MODULE MCCore ------------------------------
(* Core with one or two rooms and a pool of two threads, which are alike.  *)
EXTENDS Core, TLC

Threads == Permutations(Workers)
============================================================================
