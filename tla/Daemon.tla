------------------------------- MODULE Daemon -------------------------------
(***************************************************************************)
(* The life of the process: main_async and run() of app.py under systemd's *)
(* Restart=always (units.py), the config file it starts from, the PUT that *)
(* saves a new one and ends the process (web.py, update_config), the setup *)
(* wizard that writes the same file (cli.py), and the capture supervisor   *)
(* with its thread (Capture), which the end of the process has to stop.    *)
(*                                                                         *)
(* The event loop, the threads of the pool, one player's connection, the   *)
(* sound cards and the wizard take turns.  save_config runs on the event   *)
(* loop: nothing else of the loop happens between its truncation and its   *)
(* write, but the process may die there and the write may fail.            *)
(***************************************************************************)
EXTENDS Config, Capture

CONSTANTS
  Bodies,        (* what people PUT to /api/config                         *)
  Household,     (* the zones the wizard may discover                      *)
  Installed,     (* the sound cards there were when it first ran           *)
  AwaitClients,  (* wait_closed() waits for open connections: Python 3.12  *)
  MaxEvents      (* bound: PUT requests, runs of the wizard, crashes       *)

(* What a body makes of the configuration, if it is accepted.              *)
Configs == {FromBody(body) : body \in Bodies} \ {Invalid, Fault}

(* None, scalars and strings are no mappings.                              *)
ASSUME DaemonAssumption ==
  /\ AwaitClients \in BOOLEAN /\ MaxEvents \in Nat
  /\ \A c \in Configs :
       /\ c \notin {Null} \cup NoMapping
       /\ \A s \in Sections : c[s] \notin {Null} \cup NoMapping

VARIABLES
  file,       (* the document in the config file                           *)
  stage,      (* how far the process is                                    *)
  cfg,        (* Core.cfg, Null when there is none                         *)
  shutdown,   (* Core.shutdown is set                                      *)
  saving,     (* the Config save_config is writing, or Null                *)
  calling,    (* a pool thread runs a Sonos call                           *)
  connected,  (* a player is connected to the raw server                   *)
  events,     (* PUT requests, runs of the wizard and crashes so far       *)
  promised,   (* history: the Config of the last PUT that was answered     *)
              (* "restarting", Null once another save superseded it        *)
  reported    (* history: the last save of the file was reported as good   *)

processVars == <<stage, cfg, shutdown, saving>>
workVars == <<calling, connected>>
historyVars == <<promised, reported>>
vars == <<file, processVars, captureVars, workVars, events, historyVars>>

Stages == {"down", "loading", "opening", "serving", "closing", "cleaning", "draining"}

(* _pick_zones: the zones and the coordinator that were typed, none if none*)
(* are found.                                                              *)
PickZones ==
  {<<{}, Unset>>} \cup {<<zones, zone>> : zones \in SUBSET Household \ {{}}, zone \in Household}

(* The Config the wizard makes of its answers.                             *)
Answers(device, zones, coordinator) ==
  [device |-> device,
   sonos |-> [vinyl_zones |-> zones, preferred_coordinator |-> coordinator]]

SetupConfig(device, zones, coordinator) == Built(Answers(device, zones, coordinator))

(* The identities the wizard may write.                                    *)
Identities ==
  PickCard(Installed) \cup [usb_id : UsbIds \cup {Unset}, card_name : Names \cup {Unset}]

(* No part of the answers, nor of the Config they make, is None or one of  *)
(* the outcomes.                                                           *)
Definite(answers) ==
  LET c == Built(answers) IN
  /\ \A s \in DOMAIN answers : answers[s] # Null
  /\ c \notin {Null, Invalid, Fault} \cup NoMapping
  /\ \A s \in Sections : c[s] \notin {Null} \cup NoMapping

(* None is no number and no list of zones either.                          *)
ASSUME WizardAssumption ==
  /\ Null \notin Int
  /\ \A device \in Identities, zones \in SUBSET Household, zone \in Household \cup {Unset} :
       zones # Null /\ Definite(Answers(device, zones, zone))

(* The service is enabled when the wizard has written a first file.        *)
Init ==
  /\ file \in {AsDict(SetupConfig(device, Household, zone)) :
                 device \in PickCard(Installed), zone \in Household}
  /\ stage = "down" /\ cfg = Null /\ shutdown = FALSE /\ saving = Null
  /\ CaptureInit
  /\ calling = FALSE /\ connected = FALSE
  /\ events = 0
  /\ promised = Null /\ reported = TRUE

----------------------------------------------------------------------------
(* What is lost when the process ends, however it does.                    *)
Gone ==
  /\ stage' = "down" /\ cfg' = Null /\ shutdown' = FALSE /\ saving' = Null
  /\ supervisor' = "resolving" /\ session' = "none" /\ source' = NoCard
  /\ stop' = FALSE /\ present' = FALSE /\ attempt' = 0 /\ wait' = 0
  /\ calling' = FALSE /\ connected' = FALSE
  /\ UNCHANGED attached

(* run() gets from one await to the next.                                  *)
Reaches(next) ==
  /\ stage' = next
  /\ UNCHANGED <<cfg, shutdown, saving, captureVars, workVars>>

(* The event loop is not inside save_config.                               *)
LoopFree == saving = Null

(* RestartSec has passed.                                                  *)
Exec ==
  /\ stage = "down"
  /\ Reaches("loading")
  /\ UNCHANGED <<file, events, historyVars>>

(* load_config, or an exception out of main_async.                         *)
Load ==
  /\ stage = "loading"
  /\ IF Loads(file)
     THEN /\ cfg' = LoadConfig(file) /\ stage' = "opening"
          /\ UNCHANGED <<shutdown, saving, captureVars, workVars>>
     ELSE Gone
  /\ UNCHANGED <<file, events, historyVars>>

(* from_config, both servers, and the three tasks.                         *)
Start ==
  /\ stage = "opening"
  /\ IF Boots(cfg) THEN Reaches("serving") ELSE Gone
  /\ UNCHANGED <<file, events, historyVars>>

(* The web server is up until runner.cleanup().                            *)
WebUp == stage \in {"serving", "closing"} /\ LoopFree

Event == events < MaxEvents /\ events' = events + 1

(* Mutation: what validation refuses is written all the same.              *)
PutUnchecked(body) ==
  /\ WebUp /\ Event
  /\ saving' = FromBody(body) /\ file' = Truncated /\ reported' = FALSE
  /\ UNCHANGED <<stage, cfg, shutdown, captureVars, workVars, promised>>

(* PUT /api/config: refused, or truncated to be written.                   *)
Put(body) ==
  LET new == FromBody(body) IN
  /\ WebUp /\ Event
  /\ IF new \in {Invalid, Fault}
     THEN UNCHANGED <<file, saving, reported>>
     ELSE saving' = new /\ file' = Truncated /\ reported' = FALSE
  /\ UNCHANGED <<stage, cfg, shutdown, captureVars, workVars, promised>>

(* Mutation: the process goes on with the Config it has.                   *)
SavedOnly ==
  /\ saving # Null
  /\ file' = AsDict(saving) /\ saving' = Null
  /\ promised' = saving /\ reported' = TRUE
  /\ UNCHANGED <<stage, cfg, shutdown, captureVars, workVars, events>>

(* The write, shutdown.set(), and the answer "restarting".                 *)
Saved ==
  /\ saving # Null
  /\ file' = AsDict(saving) /\ saving' = Null
  /\ shutdown' = TRUE
  /\ promised' = saving /\ reported' = TRUE
  /\ UNCHANGED <<stage, cfg, captureVars, workVars, events>>

(* The write fails (no space): answered 500, no shutdown.                  *)
SaveFails ==
  /\ saving # Null
  /\ saving' = Null
  /\ promised' = Null
  /\ UNCHANGED <<file, stage, cfg, shutdown, captureVars, workVars, events,
                 reported>>

(* run() goes on: the tasks are cancelled and gathered.                    *)
Cancel ==
  /\ stage = "serving" /\ LoopFree /\ shutdown
  /\ stage' = "closing"
  /\ Cancelled
  /\ UNCHANGED <<file, cfg, shutdown, saving, workVars, events, historyVars>>

(* raw.close()                                                             *)
RawClosed ==
  /\ stage = "closing" /\ LoopFree
  /\ ~(AwaitClients /\ connected)
  /\ Reaches("cleaning")
  /\ UNCHANGED <<file, events, historyVars>>

(* runner.cleanup(): waits for the handlers, with a time limit.            *)
SiteClosed ==
  /\ stage = "cleaning"
  /\ Reaches("draining")
  /\ UNCHANGED <<file, events, historyVars>>

(* asyncio.run joins the threads of the pool, and the process exits.       *)
Drained ==
  /\ stage = "draining"
  /\ session \in {"none", "refused", "ended"} /\ ~calling
  /\ Gone
  /\ UNCHANGED <<file, events, historyVars>>

EventLoop ==
  \/ Load \/ Start \/ Saved \/ SaveFails
  \/ Cancel \/ RawClosed \/ SiteClosed \/ Drained

(* The process dies without its finally clauses.                           *)
Crash ==
  /\ stage # "down"
  /\ Event
  /\ Gone
  /\ UNCHANGED <<file, historyVars>>

----------------------------------------------------------------------------
(* The supervisor's coroutine runs while the daemon serves, its thread for *)
(* as long as the process lives.                                           *)
Supervise ==
  /\ stage = "serving" /\ LoopFree
  /\ Resolve(cfg.device) \/ SessionOver \/ SessionFailed \/ Wake
  /\ UNCHANGED <<file, processVars, workVars, events, historyVars>>

SessionThread ==
  /\ Open \/ OpenFails \/ EndSession
  /\ UNCHANGED <<file, processVars, workVars, events, historyVars>>

Clock ==
  /\ wait > 0 /\ WaitPasses
  /\ UNCHANGED <<file, processVars, workVars, events, historyVars>>

Hotplug ==
  /\ Replug
  /\ UNCHANGED <<file, processVars, workVars, events, historyVars>>

(* The tick loop or a handler of the web server issues a call.             *)
CallStarts ==
  /\ WebUp /\ ~calling
  /\ calling' = TRUE
  /\ UNCHANGED <<file, processVars, captureVars, connected, events, historyVars>>

CallEnds ==
  /\ calling
  /\ calling' = FALSE
  /\ UNCHANGED <<file, processVars, captureVars, connected, events, historyVars>>

Connects ==
  /\ stage = "serving" /\ LoopFree /\ ~connected
  /\ connected' = TRUE
  /\ UNCHANGED <<file, processVars, captureVars, calling, events, historyVars>>

HangsUp ==
  /\ connected
  /\ connected' = FALSE
  /\ UNCHANGED <<file, processVars, captureVars, calling, events, historyVars>>

(* Mutation: the wizard always returns 0.                                  *)
SetupReturns0(device, zones, coordinator) ==
  /\ LoopFree /\ Event
  /\ file' = AsDict(SetupConfig(device, zones, coordinator))
  /\ reported' = TRUE /\ promised' = Null
  /\ UNCHANGED <<processVars, captureVars, workVars>>

(* `needledrop setup`, in a process of its own: the file is written in any *)
(* case, and 0 returned if zones were found and typed.                     *)
Setup(device, zones, coordinator) ==
  /\ LoopFree /\ Event
  /\ file' = AsDict(SetupConfig(device, zones, coordinator))
  /\ reported' = (zones # {}) /\ promised' = Null
  /\ UNCHANGED <<processVars, captureVars, workVars>>

Next ==
  \/ Exec \/ EventLoop \/ Crash
  \/ \E body \in Bodies : Put(body)
  \/ Supervise \/ SessionThread \/ Clock \/ Hotplug
  \/ CallStarts \/ CallEnds
  \/ Connects \/ HangsUp
  \/ \E device \in PickCard(attached), answer \in PickZones :
       Setup(device, answer[1], answer[2])

Spec == Init /\ [][Next]_vars

(* systemd restarts; the event loop goes on; time passes; a call returns   *)
(* (its requests have timeouts) and so does a session that has been told to*)
(* stop, because arecord delivers or ends.  Nobody has to save, connect,   *)
(* hang up or plug.                                                        *)
Fairness ==
  /\ WF_vars(Exec) /\ WF_vars(EventLoop) /\ WF_vars(Supervise)
  /\ WF_vars(SessionThread) /\ WF_vars(CallEnds) /\ WF_vars(Clock)

FairSpec == Spec /\ Fairness

----------------------------------------------------------------------------
DaemonTypeOK ==
  /\ CaptureTypeOK
  /\ stage \in Stages
  /\ (cfg = Null) <=> stage \in {"down", "loading"}
  /\ saving \in Configs \cup {Null}
  /\ promised \in Configs \cup {Null}
  /\ {shutdown, calling, connected, reported} \subseteq BOOLEAN
  /\ events \in 0 .. MaxEvents

(* "Persist a validated config, then exit for a clean systemd restart"     *)
(* (app.py, update_config).  A process that serves with no shutdown pending*)
(* runs the Config that was last answered with "restarting", whatever was  *)
(* saved, refused, lost or interrupted on the way.                         *)
RunsWhatWasSaved ==
  stage = "serving" /\ ~shutdown /\ promised # Null => cfg = promised

(* Who was told that the file is good (the answer of a PUT, the wizard's   *)
(* exit code 0) can rely on load_config accepting it.                      *)
ReportedGoodLoads == reported => Loads(file)

(* The identity in the config decides which adapter is heard, not the order*)
(* of the cards or their names, in every session of every process.         *)
ConfiguredCard == [][Rightly(cfg.device)]_vars

(* "then exit for a clean systemd restart" (app.py:132): a process that    *)
(* has answered "restarting" ends, whoever listens to it.                  *)
SavedExits == shutdown ~> stage = "down"

Bootable == Loads(file) /\ Boots(LoadConfig(file))

(* A daemon whose file is sound in the end comes back from every shutdown  *)
(* and crash for good: no thread of the pool and no step of run() keeps the*)
(* process from ending.  Only a player that never hangs up does.           *)
ComesBack ==
  []<>~connected /\ <>[]Bootable => <>[](stage = "serving")

(* ... and an adapter that stays while every other card is gone is then    *)
(* heard, whatever the back-off had come to and whatever other card the    *)
(* fallback had settled on, if arecord can be started from some time on.   *)
AdapterHeard ==
  /\ []<>~connected /\ <>[]Bootable
  /\ <>[](Cardinality(attached) = 1) /\ <>[](session # "refused")
  => <>[](session = "reading" /\ source \in attached)

============================================================================
