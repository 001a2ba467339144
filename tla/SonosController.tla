-------------------------- MODULE SonosController --------------------------
(***************************************************************************)
(* The Sonos orchestration of sonos.py, as it runs: app.py hands start(),  *)
(* stop(), watchdog_tick() and set_volume() to the event loop's default    *)
(* thread pool, and the controller has no lock.  Every worker thread runs  *)
(* one call at a time; the calls share the controller's four fields.       *)
(*                                                                         *)
(* One step is one SoCo network call with the local code after it, or one  *)
(* rebinding of a shared field.  A call in MayFail may raise, and then has *)
(* no effect on the players.  Reading a zone's player_name is a call too:  *)
(* SoCo asks the zone, and sonos.py reads it outside every try and in its  *)
(* handlers.  Loops over zones visit them in any order, whatever the order *)
(* of sonos.vinyl_zones is.                                                *)
(*                                                                         *)
(* The players are external: SoCo is modelled by how sonos.py uses it and  *)
(* by the FakeZone of its tests.                                           *)
(***************************************************************************)
EXTENDS Naturals, FiniteSets

CONSTANTS
  Zones,              (* SonosCfg.vinyl_zones                              *)
  NoZone,             (* None                                              *)
  Preferred,          (* SonosCfg.preferred_coordinator, NoZone when empty *)
  Volumes,            (* volume levels                                     *)
  NoVolume,           (* None                                              *)
  HomeVolume,         (* the level every zone has before needledrop starts *)
  MasterVolume,       (* SonosCfg.master_volume or NoVolume                *)
  DontInterruptBusy,  (* SonosCfg.dont_interrupt_busy                      *)
  PlayRetries,        (* PLAY_RETRIES                                      *)
  Workers,            (* threads of the pool: the calls in flight at once  *)
  MayFail,            (* the SoCo calls that may raise                     *)
  UserOps             (* what people do to the speakers by other means     *)

(* What may raise: the uses sonos.py makes of SoCo.                        *)
SoCoCalls == {"discover", "probe", "snapshot", "master", "unjoin_own", "play", "join",
              "halt", "unjoin", "restore", "transport", "volume", "name"}

ASSUME ControllerAssumption ==
  /\ NoZone \notin Zones
  /\ Preferred \in Zones \cup {NoZone}
  /\ NoVolume \notin Volumes
  /\ HomeVolume \in Volumes
  /\ MasterVolume \in Volumes \cup {NoVolume}
  /\ DontInterruptBusy \in BOOLEAN
  /\ PlayRetries \in Nat \ {0}
  /\ MayFail \subseteq SoCoCalls
  /\ UserOps \subseteq {"wander", "play_other"}

VARIABLES
  coordinator,  (* _coordinator                                            *)
  members,      (* _members                                                *)
  snapshots,    (* _snapshots, NoVolume where the dict has no key          *)
  infos,        (* _infos: what the dashboard shows of each zone           *)
  job,          (* worker -> the call it runs, with its local variables    *)
  raised,       (* the workers whose latest call ended in an exception     *)
  volume,       (* zone -> its volume                            (players) *)
  sound,        (* zone -> what its own transport plays          (players) *)
  leader        (* zone -> the coordinator of its group          (players) *)

fieldVars == <<coordinator, members, snapshots, infos>>
playerVars == <<volume, sound, leader>>
sonosVars == <<fieldVars, playerVars, job, raised>>

----------------------------------------------------------------------------
(* The players.  A zone that leads itself plays its own transport; a zone  *)
(* joined to another plays what the leader plays.                          *)
Sounds == {"stopped", "stream", "other"}

Heard(z) == sound[leader[z]]

LeadsItself(z) == z \in Zones /\ leader[z] = z

PlayersInit ==
  /\ volume = [z \in Zones |-> HomeVolume]
  /\ leader \in {l \in [Zones -> Zones] : \A z \in Zones : l[l[z]] = l[z]}
  /\ sound \in [Zones -> {"stopped", "other"}]
  /\ \A z \in Zones : leader[z] # z => sound[z] = "stopped"

(* Mutation: only the room's own transport is asked.                       *)
BusyAnswersAlone(z) == {DontInterruptBusy /\ sound[z] = "other"}

(* _is_busy: transport state and uri.  The uri a joined zone reports is the*)
(* group's link on some firmware and the leader's uri on other.            *)
BusyAnswers(z) ==
  IF ~DontInterruptBusy THEN {FALSE}
  ELSE IF leader[z] # z /\ Heard(z) = "stream" THEN BOOLEAN
  ELSE {Heard(z) = "other"}

Unjoined(z) ==
  /\ leader' = [leader EXCEPT ![z] = z]
  /\ sound' = [sound EXCEPT ![z] = IF leader[z] = z THEN @ ELSE "stopped"]

(* Whatever group z led goes along with it.                                *)
JoinedTo(z, c) ==
  /\ leader' = [x \in Zones |-> IF z \in {x, leader[x]} THEN leader[c] ELSE leader[x]]
  /\ sound' = [sound EXCEPT ![z] = IF leader[c] = z THEN @ ELSE "stopped"]

(* A player wanders off the stream, as the README's watchdog expects.      *)
Wander(z) ==
  /\ "wander" \in UserOps
  /\ sound[z] = "stream"
  /\ sound' = [sound EXCEPT ![z] = "stopped"]
  /\ UNCHANGED <<fieldVars, job, raised, volume, leader>>

(* Somebody starts something else on a room from a Sonos app.              *)
PlayOther(z) ==
  /\ "play_other" \in UserOps
  /\ leader[z] = z /\ sound[z] # "other"
  /\ sound' = [sound EXCEPT ![z] = "other"]
  /\ UNCHANGED <<fieldVars, job, raised, volume, leader>>

----------------------------------------------------------------------------
(* Worker threads.  A local variable goes back to its first value once it  *)
(* is not read any more.                                                   *)
Idle == [op |-> "none", pc |-> "idle", todo |-> {}, cand |-> {}, busy |-> {},
         zone |-> NoZone, target |-> NoZone, try |-> 0, live |-> FALSE,
         level |-> NoVolume]

IdleWorkers == {w \in Workers : job[w] = Idle}

(* run_in_executor: a free thread picks the call up.                       *)
Call(op, first) == [Idle EXCEPT !.op = op, !.pc = first]
StartCall == Call("start", "discover")
StopCall == Call("stop", "halt")
WatchdogCall == Call("watchdog", "check")
VolumeCall(z, v) == [Call("set_volume", "volume") EXCEPT !.zone = z, !.level = v]

Submit(w, call) ==
  /\ job[w] = Idle
  /\ job' = [job EXCEPT ![w] = call]
  /\ raised' = raised \ {w}

At(w, label) == job[w].pc = label

Becomes(w, j) == job' = [job EXCEPT ![w] = j]

Return(w) == Becomes(w, Idle)

(* The call ends in an exception that nothing in the controller catches.   *)
Raises(w) == Return(w) /\ raised' = raised \cup {w}

Goto(w, label) == Becomes(w, [job[w] EXCEPT !.pc = label])

Fails(call) == call \in MayFail

(* ZoneInfo without the name and the volume.                               *)
Info(grouped, skipped_busy, reachable) ==
  [grouped |-> grouped, skipped_busy |-> skipped_busy, reachable |-> reachable]
NoInfo == Info(FALSE, FALSE, FALSE)

(* _mark                                                                   *)
MarkGrouped(z) == infos' = [infos EXCEPT ![z].grouped = TRUE]
MarkUnreachable(z) == infos' = [infos EXCEPT ![z].reachable = FALSE]

(* Rebinding _members to a new list: a loop over the old list object no    *)
(* longer sees what is appended to _members.                               *)
Detached(j) == [j EXCEPT !.live = FALSE]

----------------------------------------------------------------------------
(* start()                                                                 *)

(* _find_zones: an exception or a zone that does not answer leaves None.   *)
Discover(w) ==
  /\ At(w, "discover")
  /\ \E found \in IF Fails("discover") THEN SUBSET Zones ELSE {Zones} :
       Becomes(w, [job[w] EXCEPT !.pc = "probe", !.todo = found])
  /\ UNCHANGED <<fieldVars, playerVars, raised>>

(* Volume, transport state and track of one zone.                          *)
Probe(w, z) ==
  /\ At(w, "probe") /\ z \in job[w].todo
  /\ \/ \E busy \in BusyAnswers(z) :
          Becomes(w, IF busy
                     THEN [job[w] EXCEPT !.todo = @ \ {z}, !.busy = @ \cup {z}]
                     ELSE [job[w] EXCEPT !.todo = @ \ {z}, !.cand = @ \cup {z}])
     \/ /\ Fails("probe")
        /\ Becomes(w, [job[w] EXCEPT !.todo = @ \ {z}])
  /\ UNCHANGED <<fieldVars, playerVars, raised>>

EndProbe(w) ==
  /\ At(w, "probe") /\ job[w].todo = {}
  /\ infos' = [z \in Zones |-> Info(FALSE, z \in job[w].busy,
                                    z \in job[w].cand \cup job[w].busy)]
  /\ IF job[w].cand = {} THEN Return(w)
     ELSE Becomes(w, [job[w] EXCEPT !.pc = "select", !.busy = {}])
  /\ UNCHANGED <<coordinator, members, snapshots, playerVars, raised>>

Coordinators(cand) == IF Preferred \in cand THEN {Preferred} ELSE cand

(* Choose the coordinator and throw the previous snapshots away.           *)
Select(w) ==
  /\ At(w, "select")
  /\ \E c \in Coordinators(job[w].cand) :
       Becomes(w, [job[w] EXCEPT !.pc = "snapshot", !.target = c, !.todo = job[w].cand])
  /\ snapshots' = [z \in Zones |-> NoVolume]
  /\ UNCHANGED <<coordinator, members, infos, playerVars, raised>>

(* Mutation: the snapshot is taken of the volume that was just set.        *)
SnapshotTooLate(w, z) ==
  /\ At(w, "snapshot") /\ z \in job[w].todo
  /\ snapshots' = [snapshots EXCEPT ![z] = MasterVolume]
  /\ Becomes(w, [job[w] EXCEPT !.todo = @ \ {z}, !.pc = "master", !.zone = z])
  /\ UNCHANGED <<coordinator, members, infos, playerVars, raised>>

(* Remember a zone's volume; the dict is re-read, so a start that began    *)
(* meanwhile receives the entry.                                           *)
Snapshot(w, z) ==
  /\ At(w, "snapshot") /\ z \in job[w].todo
  /\ \/ /\ snapshots' = [snapshots EXCEPT ![z] = volume[z]]
        /\ Becomes(w, IF MasterVolume = NoVolume
                      THEN [job[w] EXCEPT !.todo = @ \ {z}]
                      ELSE [job[w] EXCEPT !.todo = @ \ {z}, !.pc = "master", !.zone = z])
     \/ /\ Fails("snapshot")
        /\ Becomes(w, [job[w] EXCEPT !.todo = @ \ {z}])
        /\ UNCHANGED snapshots
  /\ UNCHANGED <<coordinator, members, infos, playerVars, raised>>

SetMaster(w) ==
  /\ At(w, "master")
  /\ \/ volume' = [volume EXCEPT ![job[w].zone] = MasterVolume]
     \/ Fails("master") /\ UNCHANGED volume
  /\ Becomes(w, [job[w] EXCEPT !.pc = "snapshot", !.zone = NoZone])
  /\ UNCHANGED <<fieldVars, sound, leader, raised>>

EndSnapshots(w) ==
  /\ At(w, "snapshot") /\ job[w].todo = {}
  /\ Goto(w, "group")
  /\ UNCHANGED <<fieldVars, playerVars, raised>>

(* player_name of every zone that was found.                               *)
NamesRaise(w) ==
  /\ Fails("name")
  /\ At(w, "discover")
  /\ Raises(w)
  /\ UNCHANGED <<fieldVars, playerVars>>

(* _play_with_retry, for start() and for watchdog_tick(): a joined zone    *)
(* leaves its group first, best effort, and settles.                       *)
LeaveGroup(w) ==
  LET z == job[w].target IN
  /\ At(w, "group")
  /\ \/ ~LeadsItself(z) /\ Goto(w, "ungroup")
     \/ /\ LeadsItself(z) \/ Fails("unjoin_own")
        /\ Becomes(w, [job[w] EXCEPT !.pc = "play", !.try = 1])
  /\ UNCHANGED <<fieldVars, playerVars, raised>>

Ungroup(w) ==
  /\ At(w, "ungroup")
  /\ \/ Unjoined(job[w].target)
     \/ Fails("unjoin_own") /\ UNCHANGED <<sound, leader>>
  /\ Becomes(w, [job[w] EXCEPT !.pc = "play", !.try = 1])
  /\ UNCHANGED <<fieldVars, volume, raised>>

(* The handlers log the name of the zone that has just failed.             *)
PlayNameRaises(w) ==
  /\ Fails("name")
  /\ \/ job[w].pc \in {"group", "ungroup"} /\ Fails("unjoin_own")
     \/ At(w, "play") /\ (~LeadsItself(job[w].target) \/ Fails("play"))
  /\ Raises(w)
  /\ UNCHANGED <<fieldVars, playerVars>>

(* play_uri raises on a zone that another one leads.                       *)
Play(w) ==
  LET z == job[w].target IN
  /\ At(w, "play")
  /\ LeadsItself(z)
  /\ sound' = [sound EXCEPT ![z] = "stream"]
  /\ IF job[w].op = "start"
     THEN Becomes(w, [job[w] EXCEPT !.pc = "adopt", !.try = 0])
     ELSE Return(w)
  /\ UNCHANGED <<fieldVars, volume, leader, raised>>

(* Mutation: the zone is ungrouped and tried again, without an end.        *)
PlayRaisesForever(w) ==
  /\ At(w, "play")
  /\ ~LeadsItself(job[w].target) \/ Fails("play")
  /\ Becomes(w, [job[w] EXCEPT !.pc = "group", !.try = 0])
  /\ UNCHANGED <<fieldVars, playerVars, raised>>

PlayRaises(w) ==
  LET z == job[w].target IN
  /\ At(w, "play")
  /\ ~LeadsItself(z) \/ Fails("play")
  /\ IF job[w].try < PlayRetries
     THEN /\ Becomes(w, [job[w] EXCEPT !.try = @ + 1])
          /\ UNCHANGED infos
     ELSE /\ Return(w)
          /\ IF job[w].op = "start" THEN MarkUnreachable(z) ELSE UNCHANGED infos
  /\ UNCHANGED <<coordinator, members, snapshots, playerVars, raised>>

(* The stream plays: the zone becomes the coordinator of a new session.    *)
Adopt(w) ==
  /\ At(w, "adopt")
  /\ coordinator' = job[w].target
  /\ Goto(w, "enlist")
  /\ UNCHANGED <<members, snapshots, infos, playerVars, raised>>

Enlist(w) ==
  /\ At(w, "enlist")
  /\ members' = {}
  /\ MarkGrouped(job[w].target)
  /\ job' = [x \in Workers |->
               IF x = w THEN [job[w] EXCEPT !.pc = "join", !.cand = {},
                                            !.todo = job[w].cand \ {job[w].target}]
               ELSE Detached(job[x])]
  /\ UNCHANGED <<coordinator, snapshots, playerVars, raised>>

Join(w, z) ==
  /\ At(w, "join") /\ z \in job[w].todo
  /\ \/ /\ JoinedTo(z, job[w].target)
        /\ Becomes(w, [job[w] EXCEPT !.pc = "append", !.todo = @ \ {z}, !.zone = z])
        /\ UNCHANGED infos
     \/ /\ Fails("join")
        /\ Becomes(w, [job[w] EXCEPT !.todo = @ \ {z}])
        /\ MarkUnreachable(z)
        /\ UNCHANGED <<sound, leader>>
  /\ UNCHANGED <<coordinator, members, snapshots, volume, raised>>

(* The list is appended to in place: a stop() that loops over it sees the  *)
(* new member too.                                                         *)
AppendMember(w) ==
  LET z == job[w].zone IN
  /\ At(w, "append")
  /\ members' = members \cup {z}
  /\ MarkGrouped(z)
  /\ job' = [x \in Workers |->
               IF x = w THEN [job[w] EXCEPT !.pc = "join", !.zone = NoZone]
               ELSE [job[x] EXCEPT !.todo = IF job[x].live THEN @ \cup {z} ELSE @]]
  /\ UNCHANGED <<coordinator, snapshots, playerVars, raised>>

EndStart(w) ==
  /\ At(w, "join") /\ job[w].todo = {}
  /\ Return(w)
  /\ UNCHANGED <<fieldVars, playerVars, raised>>

----------------------------------------------------------------------------
(* stop(): best effort, failures are logged and passed over.               *)

(* Mutation: the coordinator plays on.                                     *)
HaltNothing(w) ==
  /\ At(w, "halt")
  /\ Becomes(w, [job[w] EXCEPT !.pc = "unjoin", !.todo = members, !.live = TRUE])
  /\ UNCHANGED <<fieldVars, playerVars, raised>>

(* Mutation: the clean-up is given up when the coordinator cannot be       *)
(* stopped.                                                                *)
HaltGivesUp(w) ==
  /\ At(w, "halt")
  /\ \/ /\ LeadsItself(coordinator)
        /\ sound' = [sound EXCEPT ![coordinator] = "stopped"]
        /\ Becomes(w, [job[w] EXCEPT !.pc = "unjoin", !.todo = members, !.live = TRUE])
     \/ /\ ~LeadsItself(coordinator) \/ Fails("halt")
        /\ UNCHANGED sound
        /\ Return(w)
  /\ UNCHANGED <<fieldVars, volume, leader, raised>>

Halt(w) ==
  /\ At(w, "halt")
  /\ \/ /\ LeadsItself(coordinator)
        /\ sound' = [sound EXCEPT ![coordinator] = "stopped"]
     \/ /\ ~LeadsItself(coordinator) \/ Fails("halt")
        /\ UNCHANGED sound
  /\ Becomes(w, [job[w] EXCEPT !.pc = "unjoin", !.todo = members, !.live = TRUE])
  /\ UNCHANGED <<fieldVars, volume, leader, raised>>

Unjoin(w, z) ==
  /\ At(w, "unjoin") /\ z \in job[w].todo
  /\ \/ Unjoined(z)
     \/ Fails("unjoin") /\ UNCHANGED <<sound, leader>>
  /\ Becomes(w, [job[w] EXCEPT !.todo = @ \ {z}])
  /\ UNCHANGED <<fieldVars, volume, raised>>

(* The zones of the session: the coordinator and its members.              *)
Held == (members \cup {coordinator}) \ {NoZone}

(* Mutation: the coordinator's volume is forgotten.                        *)
CollectMembers(w) ==
  /\ At(w, "unjoin") /\ job[w].todo = {}
  /\ Becomes(w, [job[w] EXCEPT !.pc = "restore", !.todo = members, !.live = FALSE])
  /\ UNCHANGED <<fieldVars, playerVars, raised>>

(* A fresh list of the zones to restore.                                   *)
Collect(w) ==
  /\ At(w, "unjoin") /\ job[w].todo = {}
  /\ Becomes(w, [job[w] EXCEPT !.pc = "restore", !.todo = Held, !.live = FALSE])
  /\ UNCHANGED <<fieldVars, playerVars, raised>>

(* Mutation: a zone without a snapshot is restored too.                    *)
RestoreUnchecked(w, z) ==
  /\ At(w, "restore") /\ z \in job[w].todo
  /\ \/ volume' = [volume EXCEPT ![z] = snapshots[z]]
     \/ Fails("restore") /\ UNCHANGED volume
  /\ Becomes(w, [job[w] EXCEPT !.todo = @ \ {z}])
  /\ UNCHANGED <<fieldVars, sound, leader, raised>>

Restore(w, z) ==
  /\ At(w, "restore") /\ z \in job[w].todo
  /\ \/ /\ snapshots[z] # NoVolume
        /\ volume' = [volume EXCEPT ![z] = snapshots[z]]
     \/ /\ snapshots[z] = NoVolume \/ Fails("restore")
        /\ UNCHANGED volume
  /\ Becomes(w, [job[w] EXCEPT !.todo = @ \ {z}])
  /\ UNCHANGED <<fieldVars, sound, leader, raised>>

(* player_name in the handler of a failed unjoin, and for every zone whose *)
(* snapshot is looked up: an exception skips the rest of stop().           *)
StopNameRaises(w) ==
  /\ Fails("name")
  /\ job[w].todo # {}
  /\ At(w, "restore") \/ (At(w, "unjoin") /\ Fails("unjoin"))
  /\ Raises(w)
  /\ UNCHANGED <<fieldVars, playerVars>>

Clear(w) ==
  /\ At(w, "restore") /\ job[w].todo = {}
  /\ coordinator' = NoZone
  /\ Goto(w, "disband")
  /\ UNCHANGED <<members, snapshots, infos, playerVars, raised>>

(* Mutation: the members are kept.                                         *)
DisbandNobody(w) ==
  /\ At(w, "disband")
  /\ Return(w)
  /\ UNCHANGED <<fieldVars, playerVars, raised>>

Disband(w) ==
  /\ At(w, "disband")
  /\ members' = {}
  /\ job' = [x \in Workers |-> IF x = w THEN Idle ELSE Detached(job[x])]
  /\ UNCHANGED <<coordinator, snapshots, infos, playerVars, raised>>

----------------------------------------------------------------------------
(* watchdog_tick(music=True); without music the call returns at once.  The *)
(* coordinator field is read again at every use.                           *)

Check(w) ==
  /\ At(w, "check")
  /\ IF coordinator = NoZone THEN Return(w) ELSE Goto(w, "transport")
  /\ UNCHANGED <<fieldVars, playerVars, raised>>

(* Mutation: a stopped coordinator is left alone.                          *)
TransportDeaf(w) ==
  /\ At(w, "transport")
  /\ Return(w)
  /\ UNCHANGED <<fieldVars, playerVars, raised>>

Transport(w) ==
  /\ At(w, "transport")
  /\ \/ /\ coordinator # NoZone
        /\ IF Heard(coordinator) # "stopped" THEN Return(w) ELSE Goto(w, "reissue")
     \/ /\ coordinator = NoZone \/ Fails("transport")
        /\ Return(w)
  /\ UNCHANGED <<fieldVars, playerVars, raised>>

(* None has neither a group nor a player_name for the handler to log.      *)
Reissue(w) ==
  /\ At(w, "reissue")
  /\ IF coordinator = NoZone
     THEN Raises(w)
     ELSE /\ Becomes(w, [job[w] EXCEPT !.pc = "group", !.target = coordinator])
          /\ UNCHANGED raised
  /\ UNCHANGED <<fieldVars, playerVars>>

----------------------------------------------------------------------------
(* set_volume(): only on a zone of the running session.                    *)
SetVolume(w) ==
  /\ At(w, "volume")
  /\ \/ /\ job[w].zone \in Held
        /\ volume' = [volume EXCEPT ![job[w].zone] = job[w].level]
     \/ /\ job[w].zone \notin Held \/ Fails("volume")
        /\ UNCHANGED volume
  /\ Return(w)
  /\ UNCHANGED <<fieldVars, sound, leader, raised>>

(* player_name of the coordinator and of every member, until one matches.  *)
VolumeNameRaises(w) ==
  /\ Fails("name")
  /\ At(w, "volume") /\ Held # {}
  /\ Raises(w)
  /\ UNCHANGED <<fieldVars, playerVars>>

----------------------------------------------------------------------------
StartStep(w) ==
  \/ Discover(w) \/ EndProbe(w) \/ Select(w) \/ SetMaster(w) \/ EndSnapshots(w)
  \/ Adopt(w) \/ Enlist(w) \/ AppendMember(w) \/ EndStart(w)
  \/ \E z \in Zones : Probe(w, z) \/ Snapshot(w, z) \/ Join(w, z)

PlayStep(w) == LeaveGroup(w) \/ Ungroup(w) \/ Play(w) \/ PlayRaises(w)

StopStep(w) ==
  \/ Halt(w) \/ Collect(w) \/ Clear(w) \/ Disband(w)
  \/ \E z \in Zones : Unjoin(w, z) \/ Restore(w, z)

WatchdogStep(w) == Check(w) \/ Transport(w) \/ Reissue(w)

NameRaises(w) ==
  NamesRaise(w) \/ PlayNameRaises(w) \/ StopNameRaises(w) \/ VolumeNameRaises(w)

WorkerStep(w) ==
  \/ StartStep(w) \/ PlayStep(w) \/ StopStep(w) \/ WatchdogStep(w) \/ SetVolume(w)
  \/ NameRaises(w)

Players == \E z \in Zones : Wander(z) \/ PlayOther(z)

SonosInit ==
  /\ coordinator = NoZone
  /\ members = {}
  /\ snapshots = [z \in Zones |-> NoVolume]
  /\ infos = [z \in Zones |-> NoInfo]
  /\ job = [w \in Workers |-> Idle]
  /\ raised = {}
  /\ PlayersInit

----------------------------------------------------------------------------
JobRecords ==
  [op : {"none", "start", "stop", "watchdog", "set_volume"},
   pc : {"idle", "discover", "probe", "select", "snapshot", "master", "group",
         "ungroup", "play", "adopt", "enlist", "join", "append", "halt", "unjoin",
         "restore", "disband", "check", "transport", "reissue", "volume"},
   todo : SUBSET Zones, cand : SUBSET Zones, busy : SUBSET Zones,
   zone : Zones \cup {NoZone}, target : Zones \cup {NoZone},
   try : 0 .. PlayRetries, live : BOOLEAN, level : Volumes \cup {NoVolume}]

(* The local variables a call is about to use have been assigned.          *)
Ready(j) ==
  /\ j.pc \in {"snapshot", "master", "group", "ungroup", "play", "adopt", "enlist",
               "join", "append"} => j.target \in Zones
  /\ j.pc \in {"master", "append", "volume"} => j.zone \in Zones
  /\ j.pc = "volume" => j.level \in Volumes
  /\ j.pc = "master" => MasterVolume \in Volumes

FieldsOK ==
  /\ coordinator \in Zones \cup {NoZone}
  /\ members \subseteq Zones
  /\ snapshots \in [Zones -> Volumes \cup {NoVolume}]
  /\ infos \in [Zones -> [grouped : BOOLEAN, skipped_busy : BOOLEAN,
                          reachable : BOOLEAN]]

PlayersOK ==
  /\ volume \in [Zones -> Volumes]
  /\ sound \in [Zones -> Sounds]
  /\ leader \in [Zones -> Zones]

JobsOK == job \in [Workers -> JobRecords] /\ \A w \in Workers : Ready(job[w])

SonosTypeOK == FieldsOK /\ PlayersOK /\ JobsOK /\ raised \subseteq Workers

============================================================================
