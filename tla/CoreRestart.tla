---------------------------- MODULE CoreRestart ----------------------------
(***************************************************************************)
(* Core in a process that ends and is started again by systemd in the      *)
(* middle of anything: a saved config, SIGTERM, a crash.  run() does not   *)
(* stop Sonos on its way out, so the new process finds the rooms as the old*)
(* one left them, grouped under a coordinator whose stream has just ended, *)
(* and remembers nothing of them.                                          *)
(***************************************************************************)
EXTENDS Core

CONSTANT MaxRestarts  (* bound *)

ASSUME RestartAssumption == MaxRestarts \in Nat

VARIABLE restarts  (* how often the process was started again *)

restartVars == <<vars, restarts>>

RestartInit == Init /\ restarts = 0

(* The threads of the pool die with the process (a clean exit waits for    *)
(* them), the machine, the tick loop and the controller are made anew and  *)
(* remember nothing of the session, and the players keep their groups and  *)
(* volumes and lose the stream.                                            *)
Restart ==
  /\ restarts < MaxRestarts /\ restarts' = restarts + 1
  /\ phase' = "IDLE" /\ sensingAge' = StartDebounce /\ graceAge' = EndOfSide
  /\ coordinator' = NoZone /\ members' = {}
  /\ snapshots' = [z \in Zones |-> NoVolume]
  /\ infos' = [z \in Zones |-> NoInfo]
  /\ job' = [w \in Workers |-> Idle]
  /\ raised' = {}
  /\ active' = FALSE
  /\ music' = FALSE
  /\ ticking' = TRUE
  /\ awaiting' = NoWorker
  /\ watchdogAge' = WatchdogEvery
  /\ sound' = [z \in Zones |-> IF sound[z] = "stream" THEN "stopped" ELSE sound[z]]
  /\ UNCHANGED <<volume, leader, acts>>

RestartNext ==
  \/ Next /\ UNCHANGED restarts
  \/ Restart

RestartSpec == RestartInit /\ [][RestartNext]_restartVars

(* systemd restarts at once; then Core is as fair as ever.                 *)
FairRestartSpec == RestartSpec /\ Fairness

============================================================================
