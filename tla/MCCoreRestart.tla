--------------------------- MODULE MCCoreRestart ---------------------------
(* Core with two rooms, a pool of two threads and a restart of the process;*)
(* the configuration gives the values.                                     *)
EXTENDS CoreRestart

============================================================================
