---------------------------- MODULE VolumeProofs ----------------------------
(***************************************************************************)
(* The volumes come back, and Core implements the playback session: proofs *)
(* for every household and number of threads, when people wait for their   *)
(* clicks and the calls that a session cannot do without succeed.          *)
(***************************************************************************)
EXTENDS RoomsProofs

(* sonos.py passes over a room whose volume it could not read or set back, *)
(* keeps the volumes it set when the stream cannot be started, and forgets *)
(* a room that could not be joined: these calls must succeed, and every    *)
(* room give its name.                                                     *)
VolumesAssumption ==
  /\ Overlapping = {}
  /\ MayFail \cap {"snapshot", "unjoin_own", "play", "join", "restore", "name"} = {}

Commanding(w) == Starting(w) \/ Stopping(w)

Moved == {z \in Zones : volume[z] # HomeVolume}

(* The rooms whose volume the call w runs has to answer for.               *)
Owed(w) ==
  {z \in Zones :
    \/ job[w].pc \in {"snapshot", "master"} /\ z \in job[w].cand \ job[w].todo
    \/ job[w].pc \in {"group", "ungroup", "play", "adopt", "enlist"} /\ z \in job[w].cand
    \/ job[w].pc \in Joining \cup {"halt", "unjoin"} /\ z \in Held
    \/ job[w].pc \in Joining \cup {"restore"} /\ z \in job[w].todo
    \/ job[w].pc = "append" /\ z = job[w].zone}

(* Only they have moved, and what they had before is remembered.           *)
Covered(S) == Moved \subseteq S /\ \A z \in S : snapshots[z] = HomeVolume

Candidates(j) ==
  /\ j.op = "start" /\ j.pc \in (Preparing \ {"select"}) \cup {"enlist"} => j.target \in j.cand
  /\ j.pc \in {"snapshot", "master"} => j.todo \subseteq j.cand
  /\ j.pc = "master" => j.zone \in j.cand \ j.todo

Volumed ==
  /\ \A w \in Workers : Commanding(w) => Covered(Owed(w))
  /\ (\A w \in Workers : ~Commanding(w)) => Covered(Held)
  /\ \A w \in Workers : Candidates(job[w])
  /\ \A w \in Workers : At(w, "master") => job[w].zone \notin Moved
  /\ \A w \in Workers : Starting(w) /\ At(w, "play") => LeadsItself(job[w].target)
  /\ \A w \in Workers : job[w].op = "set_volume" => \A x \in Workers : ~Commanding(x)

----------------------------------------------------------------------------
(* One start() or stop() at a time, and no volume call beside it.          *)
LEMMA CommandsAlone ==
  ASSUME Tame, Gathered, Volumed, NEW w \in Workers, Commanding(w)
  PROVE  \A x \in Workers \ {w} :
           /\ ~Commanding(x) /\ job[x].op # "set_volume"
           /\ job[x].pc \notin {"snapshot", "master"}
  BY DEF Tame, StopsAlone, Gathered, StartsAlone, Volumed, Commanding, Starting, Stopping,
         Relies, Lines, Probing, Preparing, Joining

(* It goes on, or returns.                                                 *)
LEMMA CommandVolumed ==
  ASSUME Tame, Gathered, Volumed, NEW w \in Workers, Commanding(w),
         \A x \in Workers \ {w} : job'[x].op = job[x].op /\ job'[x].pc = job[x].pc,
         job'[w].op \in {job[w].op, "none"},
         job'[w].op # "none" => Covered(Owed(w))',
         job'[w].op = "none" => Covered(Held)',
         Candidates(job'[w]),
         job'[w].pc = "master" => job'[w].zone \notin Moved',
         job'[w].pc = "play" => job'[w].target \in Zones
                                /\ leader'[job'[w].target] = job'[w].target
  PROVE  Volumed'
<1>1. \A x \in Workers \ {w} :
        /\ job'[x].op \notin {"start", "stop", "set_volume"}
        /\ job'[x].pc \notin {"snapshot", "master"}
  BY CommandsAlone DEF Commanding, Starting, Stopping
<1>2. job'[w].op # "set_volume"
  BY DEF Commanding, Starting, Stopping
<1>3. ASSUME NEW x \in Workers PROVE Candidates(job[x])'
  <2>1. Candidates(job'[x])
    BY <1>1 DEF Candidates
  <2> QED  BY <2>1 DEF Candidates
<1>4. \A x \in Workers : Commanding(x)' => Covered(Owed(x))'
  BY <1>1 DEF Commanding, Starting, Stopping
<1>5. (\A x \in Workers : ~Commanding(x)') => Covered(Held)'
  BY DEF Commanding, Starting, Stopping
<1>6. \A x \in Workers : At(x, "master")' => job'[x].zone \notin Moved'
  BY <1>1 DEF At
<1>7. \A x \in Workers : Starting(x)' /\ At(x, "play")' => LeadsItself(job[x].target)'
  BY <1>1 DEF At, Starting, LeadsItself
<1>8. \A x \in Workers : job'[x].op # "set_volume"
  BY <1>1, <1>2
<1> QED
  BY <1>3, <1>4, <1>5, <1>6, <1>7, <1>8 DEF Volumed

(* The steps of the other calls.                                           *)
LEMMA BesideVolumed ==
  ASSUME Gathered', Volumed, NEW w \in Workers, ~Commanding(w), OnlyMoves(w),
         UNCHANGED <<snapshots, leader>>,
         job'[w].op \in {job[w].op, "none", "watchdog"},
         \/ UNCHANGED volume
         \/ job[w].op = "set_volume" /\ Moved' \subseteq Moved \cup Held
  PROVE  Volumed'
<1>0. Held' = Held /\ \A x \in Workers \ {w} : job'[x] = job[x]
  BY DEF OnlyMoves, Held
<1>1. \A x \in Workers : Commanding(x)' <=> Commanding(x)
  BY <1>0 DEF Commanding, Starting, Stopping
<1>2. ASSUME NEW x \in Workers, Commanding(x) PROVE Covered(Owed(x))'
  <2>1. x # w /\ volume' = volume
    BY <1>2 DEF Volumed
  <2>2. job'[x] = job[x]
    BY <1>0, <2>1
  <2> QED
    BY <1>0, <1>2, <2>1, <2>2 DEF Volumed, Covered, Owed, Moved
<1>3. ASSUME \A x \in Workers : ~Commanding(x) PROVE Covered(Held)'
  BY <1>0, <1>3 DEF Volumed, Covered, Moved
<1>4. job'[w].op # "start" /\ job'[w].pc \notin {"snapshot", "master"}
  BY DEF Commanding, Starting, Gathered, Relies, Lines, Probing, Joining
<1>5. ASSUME NEW x \in Workers
      PROVE  /\ Candidates(job[x])'
             /\ At(x, "master")' => job'[x].zone \notin Moved'
             /\ Starting(x)' /\ At(x, "play")' => LeadsItself(job[x].target)'
  <2>1. CASE x = w
    BY <1>4, <2>1 DEF Candidates, At, Starting
  <2>2. CASE x # w
    <3>1. job'[x] = job[x]
      BY <1>0, <2>2
    <3>2. Candidates(job[x])'
      BY <3>1 DEF Volumed, Candidates
    <3>3. Starting(x)' /\ At(x, "play")' => LeadsItself(job[x].target)'
      BY <3>1 DEF Volumed, At, Starting, LeadsItself
    <3>4. ASSUME At(x, "master")' PROVE job'[x].zone \notin Moved'
      <4>1. Commanding(x) /\ At(x, "master")
        BY <3>1, <3>4 DEF At, Commanding, Gathered, Relies, Lines, Starting
      <4>2. volume' = volume
        BY <2>2, <4>1 DEF Volumed
      <4> QED  BY <3>1, <4>1, <4>2 DEF Volumed, Moved
    <3> QED  BY <3>2, <3>3, <3>4
  <2> QED  BY <2>1, <2>2
<1>6. ASSUME NEW x \in Workers, job'[x].op = "set_volume"
      PROVE  \A y \in Workers : ~Commanding(y)'
  <2>1. job[x].op = "set_volume"
    BY <1>0, <1>6
  <2> QED  BY <1>1, <2>1 DEF Volumed
<1> QED
  BY <1>1, <1>2, <1>3, <1>5, <1>6 DEF Volumed


(* start() remembers each volume before it changes it.                     *)
LEMMA StartVolumed ==
  ASSUME VolumesAssumption, SonosTypeOK, Tame, Gathered, Gathered', Volumed,
         NEW w \in Workers, StartStep(w)
  PROVE  Volumed'
<1>0. /\ FieldsOK /\ PlayersOK /\ JobsOK
      /\ job \in [Workers -> JobRecords] /\ job[w] \in JobRecords /\ Ready(job[w])
      /\ Relies(job[w]) /\ Lines(job[w]) /\ Candidates(job[w])
  BY DEF SonosTypeOK, JobsOK, Gathered, Volumed, Relies
<1> USE <1>0
<1>1. job[w].op = "start"
  BY DEF StartStep, Discover, EndProbe, Select, SetMaster, EndSnapshots, Adopt, Enlist,
         AppendMember, EndStart, Probe, Snapshot, Join, At, Lines, Places, Probing, Joining
<1>2. /\ Commanding(w) /\ Covered(Owed(w))
      /\ job[w].pc \notin Joining \cup {"enlist"} => Held = {}
  BY <1>1, NobodyEnds, ControllerAssumption
  DEF Commanding, Starting, Stopping, Volumed, Relies, Gathered, Fields, Held
<1>i. Idle.op = "none" /\ Idle.pc = "idle" /\ Candidates(Idle)
  BY DEF Idle, Candidates, Preparing
<1> USE DEF Becomes, Goto, Return, At, fieldVars, playerVars
<1>3. CASE Discover(w)
  <2>1. PICK found : job' = [job EXCEPT ![w] = [job[w] EXCEPT !.pc = "probe", !.todo = found]]
    BY <1>3 DEF Discover
  <2>2. /\ job'[w].op = "start" /\ job'[w].pc = "probe"
        /\ \A x \in Workers \ {w} : job'[x].op = job[x].op /\ job'[x].pc = job[x].pc
    BY <1>1, <2>1 DEF JobRecords
  <2>3. Covered(Owed(w))'
    BY <1>2, <1>3, <2>2 DEF Discover, Covered, Owed, Moved, Joining
  <2>4. Candidates(job'[w])
    BY <2>2 DEF Candidates, Preparing
  <2> QED  BY <1>1, <1>2, <2>2, <2>3, <2>4, CommandVolumed
<1>4. ASSUME NEW z \in Zones, Probe(w, z) PROVE Volumed'
  <2>1. PICK j : /\ job' = [job EXCEPT ![w] = j]
                 /\ j \in {[job[w] EXCEPT !.todo = @ \ {z}],
                           [job[w] EXCEPT !.todo = @ \ {z}, !.busy = @ \cup {z}],
                           [job[w] EXCEPT !.todo = @ \ {z}, !.cand = @ \cup {z}]}
    BY <1>4 DEF Probe
  <2>2. /\ job'[w].op = "start" /\ job'[w].pc = "probe" /\ job[w].pc = "probe"
        /\ \A x \in Workers \ {w} : job'[x].op = job[x].op /\ job'[x].pc = job[x].pc
    BY <1>1, <1>4, <2>1 DEF Probe, JobRecords
  <2>3. Covered(Owed(w))'
    BY <1>2, <1>4, <2>2 DEF Probe, Covered, Owed, Moved, Joining
  <2>4. Candidates(job'[w])
    BY <2>2 DEF Candidates, Preparing
  <2> QED  BY <1>1, <1>2, <2>2, <2>3, <2>4, CommandVolumed
<1>5. CASE EndProbe(w)
  <2>1. /\ job'[w] = Idle \/ job'[w] = [job[w] EXCEPT !.pc = "select", !.busy = {}]
        /\ \A x \in Workers \ {w} : job'[x] = job[x]
        /\ job[w].pc = "probe" /\ UNCHANGED <<volume, snapshots, coordinator, members>>
    BY <1>5 DEF EndProbe
  <2>2. \/ job'[w].op = "none" /\ job'[w].pc = "idle"
        \/ job'[w].op = "start" /\ job'[w].pc = "select"
    BY <1>1, <1>i, <2>1 DEF JobRecords
  <2>3. Moved = {} /\ Moved' = {} /\ Held' = {}
    BY <1>2, <2>1 DEF Covered, Owed, Joining, Held, Moved
  <2>4. Covered(Owed(w))' /\ Covered(Held)'
    BY <2>2, <2>3 DEF Covered, Owed, Joining
  <2>5. Candidates(job'[w])
    BY <2>2 DEF Candidates, Preparing
  <2> QED  BY <1>1, <1>2, <2>1, <2>2, <2>4, <2>5, CommandVolumed
<1>6. CASE Select(w)
  <2>1. PICK c : /\ c \in job[w].cand
                 /\ job' = [job EXCEPT ![w] = [job[w] EXCEPT !.pc = "snapshot", !.target = c,
                                                             !.todo = job[w].cand]]
    BY <1>6 DEF Select, Coordinators
  <2>2. /\ job'[w].op = "start" /\ job'[w].pc = "snapshot" /\ job[w].pc = "select"
        /\ job'[w].todo = job[w].cand /\ job'[w].cand = job[w].cand /\ job'[w].target = c
        /\ \A x \in Workers \ {w} : job'[x].op = job[x].op /\ job'[x].pc = job[x].pc
    BY <1>1, <1>6, <2>1 DEF Select, JobRecords
  <2>3. Covered(Owed(w))'
    BY <1>2, <1>6, <2>2 DEF Select, Covered, Owed, Moved, Joining
  <2>4. Candidates(job'[w])
    BY <2>1, <2>2 DEF Candidates
  <2> QED  BY <1>1, <1>2, <2>2, <2>3, <2>4, CommandVolumed
<1>7. ASSUME NEW z \in Zones, Snapshot(w, z) PROVE Volumed'
  <2>1. /\ job[w].pc = "snapshot" /\ z \in job[w].todo /\ z \in job[w].cand
        /\ snapshots' = [snapshots EXCEPT ![z] = volume[z]]
        /\ UNCHANGED <<volume, coordinator, members>>
        /\ \A x \in Workers \ {w} : job'[x] = job[x]
        /\ \/ job'[w] = [job[w] EXCEPT !.todo = @ \ {z}]
           \/ job'[w] = [job[w] EXCEPT !.todo = @ \ {z}, !.pc = "master", !.zone = z]
    BY <1>7 DEF Snapshot, Fails, VolumesAssumption, Candidates
  <2>2. /\ job'[w].op = "start" /\ job'[w].pc \in {"snapshot", "master"}
        /\ job'[w].todo = job[w].todo \ {z} /\ job'[w].cand = job[w].cand
        /\ job'[w].target = job[w].target
        /\ job'[w].pc = "master" => job'[w].zone = z
        /\ \A x \in Workers \ {w} : job'[x].op = job[x].op /\ job'[x].pc = job[x].pc
    BY <1>1, <2>1 DEF JobRecords
  <2>3. z \notin Moved /\ Moved' = Moved
    BY <1>2, <2>1 DEF Covered, Owed, Joining, Moved
  <2>4. Covered(Owed(w))'
    BY <1>2, <2>1, <2>2, <2>3 DEF Covered, Owed, Moved, Joining, FieldsOK
  <2>5. Candidates(job'[w])
    BY <2>1, <2>2, <1>1 DEF Candidates, Preparing
  <2> QED  BY <1>1, <1>2, <2>2, <2>3, <2>4, <2>5, CommandVolumed
<1>8. CASE SetMaster(w)
  <2>1. /\ job[w].pc = "master" /\ UNCHANGED <<snapshots, coordinator, members>>
        /\ volume' = [volume EXCEPT ![job[w].zone] = MasterVolume] \/ UNCHANGED volume
        /\ job' = [job EXCEPT ![w] = [job[w] EXCEPT !.pc = "snapshot", !.zone = NoZone]]
    BY <1>8 DEF SetMaster
  <2>2. /\ job'[w].op = "start" /\ job'[w].pc = "snapshot"
        /\ job'[w].todo = job[w].todo /\ job'[w].cand = job[w].cand
        /\ job'[w].target = job[w].target
        /\ \A x \in Workers \ {w} : job'[x].op = job[x].op /\ job'[x].pc = job[x].pc
    BY <1>1, <2>1 DEF JobRecords
  <2>3. Moved' \subseteq Moved \cup {job[w].zone}
    BY <2>1 DEF Moved, PlayersOK
  <2>4. Covered(Owed(w))'
    <3>1. Owed(w)' = Owed(w) /\ job[w].zone \in Owed(w)
      BY <2>1, <2>2 DEF Owed, Joining, Candidates, Ready
    <3> QED  BY <1>2, <2>1, <2>3, <3>1 DEF Covered
  <2>5. Candidates(job'[w])
    BY <1>1, <2>1, <2>2 DEF Candidates, Preparing
  <2> QED  BY <1>1, <1>2, <2>2, <2>4, <2>5, CommandVolumed
<1>9. CASE EndSnapshots(w)
  <2>1. /\ job[w].pc = "snapshot" /\ UNCHANGED <<snapshots, coordinator, members, volume>>
        /\ job[w].todo = {}
        /\ job' = [job EXCEPT ![w] = [job[w] EXCEPT !.pc = "group"]]
    BY <1>9 DEF EndSnapshots
  <2>2. /\ job'[w].op = "start" /\ job'[w].pc = "group"
        /\ job'[w].cand = job[w].cand /\ job'[w].target = job[w].target
        /\ \A x \in Workers \ {w} : job'[x].op = job[x].op /\ job'[x].pc = job[x].pc
    BY <1>1, <2>1 DEF JobRecords
  <2>3. Covered(Owed(w))'
    BY <1>2, <2>1, <2>2 DEF Covered, Owed, Moved, Joining
  <2>4. Candidates(job'[w])
    BY <1>1, <2>1, <2>2 DEF Candidates, Preparing
  <2> QED  BY <1>1, <1>2, <2>2, <2>3, <2>4, CommandVolumed
<1>10. CASE Adopt(w)
  <2>1. /\ job[w].pc = "adopt" /\ job[w].target \in job[w].cand
        /\ job'[w] = [job[w] EXCEPT !.pc = "enlist"]
        /\ \A x \in Workers \ {w} : job'[x] = job[x]
        /\ UNCHANGED <<snapshots, volume>>
    BY <1>1, <1>10 DEF Adopt, Candidates, Preparing
  <2>2. /\ job'[w].op = "start" /\ job'[w].pc = "enlist"
        /\ job'[w].cand = job[w].cand /\ job'[w].target = job[w].target
    BY <1>1, <2>1 DEF JobRecords
  <2>3. Owed(w)' = Owed(w)
    BY <2>1, <2>2 DEF Owed, Joining
  <2>4. Covered(Owed(w))'
    BY <1>2, <2>1, <2>3 DEF Covered, Moved
  <2>5. Candidates(job'[w])
    BY <2>1, <2>2 DEF Candidates, Preparing
  <2> QED  BY <1>1, <1>2, <2>1, <2>2, <2>4, <2>5, CommandVolumed
<1>14. CASE Enlist(w)
  <2>1. /\ job[w].pc = "enlist" /\ job[w].target \in job[w].cand /\ job[w].target \in Zones
        /\ coordinator' = coordinator /\ coordinator = job[w].target /\ members' = {}
        /\ UNCHANGED <<snapshots, volume>>
        /\ job'[w] = [job[w] EXCEPT !.pc = "join", !.cand = {},
                                    !.todo = job[w].cand \ {job[w].target}]
    BY <1>1, <1>14 DEF Enlist, Detached, Candidates, Preparing, Ready, Relies
  <2>2. /\ job'[w].op = "start" /\ job'[w].pc = "join"
        /\ job'[w].todo = job[w].cand \ {job[w].target}
    BY <1>1, <2>1 DEF JobRecords
  <2>3. ASSUME NEW x \in Workers \ {w}
        PROVE  job'[x].op = job[x].op /\ job'[x].pc = job[x].pc
    <3>1. job'[x] = [job[x] EXCEPT !.live = FALSE] /\ job[x] \in JobRecords
      BY <1>14, <2>3 DEF Enlist, Detached
    <3> QED  BY <3>1 DEF JobRecords
  <2>4. Held' = {job[w].target}
    BY <2>1, ControllerAssumption DEF Held
  <2>5. Owed(w)' = Owed(w)
    BY <2>1, <2>2, <2>4 DEF Owed, Joining
  <2>6. Covered(Owed(w))'
    BY <1>2, <2>1, <2>5 DEF Covered, Moved
  <2>7. Candidates(job'[w])
    BY <2>2 DEF Candidates, Preparing
  <2> QED  BY <1>1, <1>2, <2>2, <2>3, <2>6, <2>7, CommandVolumed
<1>11. ASSUME NEW z \in Zones, Join(w, z) PROVE Volumed'
  <2>1. /\ job[w].pc = "join" /\ z \in job[w].todo
        /\ UNCHANGED <<snapshots, volume, coordinator, members>>
        /\ job' = [job EXCEPT ![w] = [job[w] EXCEPT !.pc = "append", !.todo = @ \ {z},
                                                   !.zone = z]]
    BY <1>11 DEF Join, Fails, VolumesAssumption
  <2>2. /\ job'[w].op = "start" /\ job'[w].pc = "append"
        /\ job'[w].todo = job[w].todo \ {z} /\ job'[w].zone = z
        /\ \A x \in Workers \ {w} : job'[x].op = job[x].op /\ job'[x].pc = job[x].pc
    BY <1>1, <2>1 DEF JobRecords
  <2>3. Owed(w)' = Owed(w)
    BY <2>1, <2>2 DEF Owed, Joining, Held
  <2>4. Covered(Owed(w))'
    BY <1>2, <2>1, <2>3 DEF Covered, Moved
  <2>5. Candidates(job'[w])
    BY <2>2 DEF Candidates, Preparing
  <2> QED  BY <1>1, <1>2, <2>2, <2>4, <2>5, CommandVolumed
<1>12. CASE AppendMember(w)
  <2>1. /\ job[w].pc = "append" /\ job[w].zone \in Zones
        /\ UNCHANGED <<snapshots, volume, coordinator>>
        /\ members' = members \cup {job[w].zone}
        /\ job'[w] = [job[w] EXCEPT !.pc = "join", !.zone = NoZone]
    BY <1>12 DEF AppendMember, Ready
  <2>2. /\ job'[w].op = "start" /\ job'[w].pc = "join" /\ job'[w].todo = job[w].todo
    BY <1>1, <2>1 DEF JobRecords
  <2>3. ASSUME NEW x \in Workers \ {w}
        PROVE  job'[x].op = job[x].op /\ job'[x].pc = job[x].pc
    <3>1. /\ job'[x] = [job[x] EXCEPT !.todo = IF job[x].live THEN @ \cup {job[w].zone} ELSE @]
          /\ job[x] \in JobRecords
      BY <1>12, <2>3 DEF AppendMember
    <3> QED  BY <3>1 DEF JobRecords
  <2>4. Held' = Held \cup {job[w].zone}
    BY <2>1, ControllerAssumption DEF Held
  <2>5. Owed(w)' = Owed(w)
    BY <2>1, <2>2, <2>4 DEF Owed, Joining
  <2>6. Covered(Owed(w))'
    BY <1>2, <2>1, <2>5 DEF Covered, Moved
  <2>7. Candidates(job'[w])
    BY <2>2 DEF Candidates, Preparing
  <2> QED  BY <1>1, <1>2, <2>2, <2>3, <2>6, <2>7, CommandVolumed
<1>13. CASE EndStart(w)
  <2>1. /\ job[w].pc = "join" /\ job[w].todo = {} /\ job'[w] = Idle
        /\ \A x \in Workers \ {w} : job'[x] = job[x]
        /\ UNCHANGED <<snapshots, volume, coordinator, members>>
    BY <1>13 DEF EndStart
  <2>2. Owed(w) = Held /\ Held' = Held
    BY <2>1, ControllerAssumption DEF Owed, Joining, Held, FieldsOK
  <2>3. Covered(Held)'
    BY <1>2, <2>1, <2>2 DEF Covered, Moved
  <2> QED  BY <1>2, <1>i, <2>1, <2>3, CommandVolumed
<1> QED
  BY <1>3, <1>4, <1>5, <1>6, <1>7, <1>8, <1>9, <1>10, <1>11, <1>12, <1>13, <1>14
  DEF StartStep

(* _play_with_retry() changes no volume.                                   *)
LEMMA PlayVolumed ==
  ASSUME VolumesAssumption, SonosTypeOK, Tame, Gathered, Gathered', Volumed,
         NEW w \in Workers, PlayStep(w)
  PROVE  Volumed'
<1>0. /\ FieldsOK /\ PlayersOK /\ JobsOK
      /\ job \in [Workers -> JobRecords] /\ job[w] \in JobRecords /\ Ready(job[w])
      /\ Relies(job[w]) /\ Lines(job[w]) /\ Candidates(job[w])
  BY DEF SonosTypeOK, JobsOK, Gathered, Volumed, Relies
<1> USE <1>0
<1> USE DEF Becomes, Return, Goto, At, fieldVars, playerVars
<1>1. /\ job[w].pc \in {"group", "ungroup", "play"} /\ job[w].op \in {"start", "watchdog"}
      /\ job[w].target \in Zones
  BY DEF PlayStep, LeaveGroup, Ungroup, Play, PlayRaises, Lines, Ready
<1>2. /\ \A x \in Workers \ {w} : job'[x] = job[x]
      /\ UNCHANGED <<volume, snapshots, coordinator, members>>
  BY DEF PlayStep, LeaveGroup, Ungroup, Play, PlayRaises
<1>3. CASE job[w].op = "watchdog"
  <2>1. job[w].target = coordinator /\ LeadsItself(coordinator)
    BY <1>1, <1>3, WatchdogTarget
  <2>2. UNCHANGED leader
    BY <2>1 DEF PlayStep, LeaveGroup, Ungroup, Play, PlayRaises, Unjoined, LeadsItself, PlayersOK
  <2>3. job'[w].op \in {"watchdog", "none"}
    <3>1. \/ job'[w] = Idle
          \/ job'[w] = [job[w] EXCEPT !.pc = "ungroup"]
          \/ job'[w] = [job[w] EXCEPT !.pc = "play", !.try = 1]
          \/ job'[w] = [job[w] EXCEPT !.try = @ + 1]
      BY <1>3 DEF PlayStep, LeaveGroup, Ungroup, Play, PlayRaises
    <3>2. Idle.op = "none"
      BY DEF Idle
    <3> QED  BY <1>3, <3>1, <3>2 DEF JobRecords
  <2>4. ~Commanding(w)
    BY <1>3 DEF Commanding, Starting, Stopping
  <2> QED  BY <1>2, <1>3, <2>2, <2>3, <2>4, BesideVolumed DEF OnlyMoves
<1>4. CASE job[w].op = "start"
  <2>1. Commanding(w) /\ Covered(Owed(w))
    BY <1>4 DEF Commanding, Starting, Volumed
  <2>2. ~PlayRaises(w)
    BY <1>4 DEF PlayRaises, Volumed, Starting, Fails, VolumesAssumption
  <2> DEFINE z == job[w].target
  <2>3. \/ job'[w] = [job[w] EXCEPT !.pc = "ungroup"]
        \/ /\ job'[w] = [job[w] EXCEPT !.pc = "play", !.try = 1]
           /\ leader'[z] = z
        \/ job'[w] = [job[w] EXCEPT !.pc = "adopt", !.try = 0]
    <3>1. CASE LeaveGroup(w)
      BY <1>1, <3>1 DEF LeaveGroup, Fails, VolumesAssumption, LeadsItself
    <3>2. CASE Ungroup(w)
      BY <1>1, <3>2 DEF Ungroup, Fails, VolumesAssumption, Unjoined, PlayersOK
    <3>3. CASE Play(w)
      BY <1>4, <3>3 DEF Play
    <3> QED  BY <2>2, <3>1, <3>2, <3>3 DEF PlayStep
  <2>4. /\ job'[w].op = "start" /\ job'[w].pc \in {"ungroup", "play", "adopt"}
        /\ job'[w].pc = "play" => leader'[z] = z
        /\ job'[w].cand = job[w].cand /\ job'[w].target = z /\ z \in Zones
    BY <1>1, <1>4, <2>3 DEF JobRecords
  <2>5. Owed(w)' = Owed(w)
    BY <1>1, <2>4 DEF Owed, Joining
  <2>6. Covered(Owed(w))'
    BY <1>2, <2>1, <2>5 DEF Covered, Moved
  <2>7. Candidates(job'[w])
    BY <1>1, <1>4, <2>4 DEF Candidates, Preparing
  <2> QED  BY <1>2, <1>4, <2>1, <2>4, <2>6, <2>7, CommandVolumed
<1> QED  BY <1>1, <1>3, <1>4

(* stop() pays back room by room.                                          *)
LEMMA StopVolumed ==
  ASSUME VolumesAssumption, SonosTypeOK, Tame, Gathered, Gathered', Volumed,
         NEW w \in Workers, StopStep(w)
  PROVE  Volumed'
<1>0. /\ FieldsOK /\ PlayersOK /\ JobsOK
      /\ job \in [Workers -> JobRecords] /\ job[w] \in JobRecords
      /\ Lines(job[w])
  BY DEF SonosTypeOK, JobsOK, Gathered, Relies
<1> USE <1>0
<1> USE DEF Becomes, Return, Goto, At, fieldVars, playerVars
<1>1. job[w].op = "stop"
  BY DEF StopStep, Halt, Unjoin, Collect, Restore, Clear, Disband, Lines, Places
<1>2. Commanding(w) /\ Covered(Owed(w)) /\ Held \subseteq Zones
  BY <1>1 DEF Commanding, Stopping, Volumed, Held, FieldsOK
<1>3. CASE Halt(w) \/ \E z \in Zones : Unjoin(w, z)
  <2>1. /\ job[w].pc \in {"halt", "unjoin"}
        /\ \A x \in Workers \ {w} : job'[x] = job[x]
        /\ UNCHANGED <<volume, snapshots, coordinator, members>>
    BY <1>3 DEF Halt, Unjoin
  <2>2. job'[w].op = "stop" /\ job'[w].pc = "unjoin"
    <3>1. CASE Halt(w)
      <4>1. job'[w] = [job[w] EXCEPT !.pc = "unjoin", !.todo = members, !.live = TRUE]
        BY <3>1 DEF Halt
      <4> QED  BY <1>1, <4>1 DEF JobRecords
    <3>2. CASE \E z \in Zones : Unjoin(w, z)
      BY <1>1, <3>2 DEF Unjoin, JobRecords
    <3> QED  BY <1>3, <3>1, <3>2
  <2>3. Owed(w)' = Owed(w)
    BY <2>1, <2>2 DEF Owed, Joining, Held
  <2>4. Covered(Owed(w))'
    BY <1>2, <2>1, <2>3 DEF Covered, Moved
  <2>5. Candidates(job'[w])
    BY <2>2 DEF Candidates
  <2> QED  BY <1>1, <1>2, <2>1, <2>2, <2>4, <2>5, CommandVolumed
<1>4. CASE Collect(w)
  <2>1. /\ job[w].pc = "unjoin"
        /\ \A x \in Workers \ {w} : job'[x] = job[x]
        /\ UNCHANGED <<volume, snapshots, coordinator, members>>
        /\ job'[w] = [job[w] EXCEPT !.pc = "restore", !.todo = Held, !.live = FALSE]
    BY <1>4 DEF Collect
  <2>2. job'[w].op = "stop" /\ job'[w].pc = "restore" /\ job'[w].todo = Held
    BY <1>1, <2>1 DEF JobRecords
  <2>3. Owed(w)' = Owed(w)
    BY <2>1, <2>2 DEF Owed, Joining
  <2>4. Covered(Owed(w))'
    BY <1>2, <2>1, <2>3 DEF Covered, Moved
  <2>5. Candidates(job'[w])
    BY <2>2 DEF Candidates
  <2> QED  BY <1>1, <1>2, <2>1, <2>2, <2>4, <2>5, CommandVolumed
<1>5. ASSUME NEW z \in Zones, Restore(w, z) PROVE Volumed'
  <2>1. /\ job[w].pc = "restore" /\ z \in job[w].todo
        /\ \A x \in Workers \ {w} : job'[x] = job[x]
        /\ UNCHANGED <<snapshots, coordinator, members>>
        /\ job'[w] = [job[w] EXCEPT !.todo = @ \ {z}]
    BY <1>5 DEF Restore
  <2>2. job'[w].op = "stop" /\ job'[w].pc = "restore" /\ job'[w].todo = job[w].todo \ {z}
    BY <1>1, <2>1 DEF JobRecords
  <2>3. snapshots[z] = HomeVolume
    BY <1>2, <2>1 DEF Covered, Owed
  <2>4. volume' = [volume EXCEPT ![z] = HomeVolume]
    BY <1>5, <2>3, ControllerAssumption DEF Restore, Fails, VolumesAssumption
  <2>5. Moved' = Moved \ {z}
    BY <2>4 DEF Moved, PlayersOK
  <2>6. Owed(w) = job[w].todo /\ Owed(w)' = Owed(w) \ {z}
    BY <2>1, <2>2 DEF Owed, Joining, JobRecords
  <2>7. Covered(Owed(w))'
    BY <1>2, <2>1, <2>5, <2>6 DEF Covered
  <2>8. Candidates(job'[w])
    BY <2>2 DEF Candidates
  <2> QED  BY <1>1, <1>2, <2>1, <2>2, <2>7, <2>8, CommandVolumed
<1>6. CASE Clear(w)
  <2>1. /\ job[w].pc = "restore" /\ job[w].todo = {}
        /\ job'[w] = [job[w] EXCEPT !.pc = "disband"]
        /\ \A x \in Workers \ {w} : job'[x] = job[x]
        /\ UNCHANGED <<volume, snapshots>>
    BY <1>6 DEF Clear
  <2>2. job'[w].op = "stop" /\ job'[w].pc = "disband"
    BY <1>1, <2>1 DEF JobRecords
  <2>3. Owed(w)' = Owed(w)
    BY <2>1, <2>2 DEF Owed, Joining
  <2>4. Covered(Owed(w))'
    BY <1>2, <2>1, <2>3 DEF Covered, Moved
  <2>5. Candidates(job'[w])
    BY <2>2 DEF Candidates
  <2> QED  BY <1>1, <1>2, <2>1, <2>2, <2>4, <2>5, CommandVolumed
<1>7. CASE Disband(w)
  <2>1. /\ job[w].pc = "disband" /\ job'[w] = Idle
        /\ members' = {} /\ UNCHANGED <<coordinator, volume, snapshots>>
    BY <1>7 DEF Disband
  <2>2. ASSUME NEW x \in Workers \ {w}
        PROVE  job'[x].op = job[x].op /\ job'[x].pc = job[x].pc
    <3>1. job'[x] = [job[x] EXCEPT !.live = FALSE] /\ job[x] \in JobRecords
      BY <1>7, <2>2 DEF Disband, Detached
    <3> QED  BY <3>1 DEF JobRecords
  <2>3. job'[w].op = "none" /\ job'[w].pc = "idle" /\ Candidates(job'[w])
    BY <2>1 DEF Idle, Candidates, Preparing
  <2>4. coordinator = NoZone
    BY <1>1, <2>1 DEF Tame, StopsAlone, Gathered, Fields, Stopping
  <2>5. Moved' = {} /\ Held' = {}
    BY <1>2, <2>1, <2>4 DEF Covered, Owed, Joining, Held, Moved
  <2>6. Covered(Held)'
    BY <2>5 DEF Covered
  <2> QED  BY <1>2, <2>2, <2>3, <2>6, CommandVolumed
<1> QED
  BY <1>3, <1>4, <1>5, <1>6, <1>7 DEF StopStep

(* A watchdog changes no volume, and a volume call one of the session's.   *)
LEMMA WatchdogVolumed ==
  ASSUME SonosTypeOK, Gathered, Gathered', Volumed, NEW w \in Workers,
         WatchdogStep(w) \/ SetVolume(w)
  PROVE  Volumed'
<1>0. /\ FieldsOK /\ PlayersOK
      /\ job \in [Workers -> JobRecords] /\ job[w] \in JobRecords
      /\ Lines(job[w])
  BY DEF SonosTypeOK, JobsOK, Gathered, Relies
<1> USE <1>0
<1> USE DEF Becomes, Return, Goto, At, fieldVars, playerVars
<1>i. Idle.op = "none"
  BY DEF Idle
<1>1. /\ job[w].op \in {"watchdog", "set_volume"} /\ ~Commanding(w)
      /\ job[w].pc = "volume" => job[w].op = "set_volume"
      /\ OnlyMoves(w) /\ UNCHANGED <<snapshots, leader>>
  BY DEF WatchdogStep, Check, Transport, Reissue, Raises, SetVolume, Lines, Places, Commanding,
         Starting, Stopping, OnlyMoves
<1>2. job'[w].op \in {job[w].op, "none"}
  <2>1. \/ job'[w] = Idle
        \/ job'[w] = [job[w] EXCEPT !.pc = "transport"]
        \/ job'[w] = [job[w] EXCEPT !.pc = "reissue"]
        \/ job'[w] = [job[w] EXCEPT !.pc = "group", !.target = coordinator]
    BY DEF WatchdogStep, Check, Transport, Reissue, Raises, SetVolume
  <2> QED  BY <1>i, <2>1 DEF JobRecords
<1>3. CASE WatchdogStep(w)
  <2>1. UNCHANGED volume
    BY <1>3 DEF WatchdogStep, Check, Transport, Reissue, Raises
  <2> QED  BY <1>1, <1>2, <2>1, BesideVolumed
<1>4. CASE SetVolume(w)
  <2>1. job[w].op = "set_volume" /\ Moved' \subseteq Moved \cup Held
    BY <1>1, <1>4 DEF SetVolume, Moved, PlayersOK
  <2> QED  BY <1>1, <1>2, <2>1, BesideVolumed
<1> QED  BY <1>3, <1>4


(* A command and a click on a volume find every call done.                 *)
LEMMA IssuedVolumed ==
  ASSUME VolumesAssumption, SonosTypeOK, Gathered, Volumed, NEW w \in Workers, NEW call,
         call \in {StartCall, StopCall}
           \cup {VolumeCall(z, v) : z \in Zones, v \in Volumes},
         call = StartCall => ~active,
         Issue(w, call), UNCHANGED <<fieldVars, playerVars>>
  PROVE  Volumed'
<1>i. Idle.op = "none" /\ Idle.pc = "idle" /\ Candidates(Idle)
  BY DEF Idle, Candidates, Preparing
<1>1. /\ call.op \in {"start", "stop", "set_volume"} /\ Candidates(call)
      /\ call.op = "start" => call = StartCall /\ call.pc = "discover"
      /\ call.op = "stop" => call.pc = "halt"
      /\ call.pc # "master" /\ call.pc # "play"
  <2>1. CASE call \in {StartCall, StopCall}
    BY <2>1 DEF StartCall, StopCall, Call, Idle, Candidates, Preparing
  <2>2. CASE call \in {VolumeCall(z, v) : z \in Zones, v \in Volumes}
    <3>1. \A z \in Zones, v \in Volumes :
            VolumeCall(z, v).op = "set_volume" /\ VolumeCall(z, v).pc = "volume"
      BY DEF VolumeCall, Call, Idle
    <3> QED  BY <2>2, <3>1 DEF Candidates, Preparing
  <2> QED  BY <2>1, <2>2
<1>2. \A x \in Workers : job[x] = Idle
  BY DEF Issue, VolumesAssumption, Quiet, IdleWorkers
<1>3. /\ job'[w] = call /\ \A x \in Workers \ {w} : job'[x] = Idle
      /\ UNCHANGED <<volume, snapshots, coordinator, members>>
  BY <1>2 DEF Issue, Submit, fieldVars, playerVars, SonosTypeOK, JobsOK
<1>4. Covered(Held) /\ Held' = Held /\ Moved' = Moved
  BY <1>2, <1>3, <1>i DEF Volumed, Commanding, Starting, Stopping, Held, Moved
<1>5. Covered(Held)'
  BY <1>3, <1>4 DEF Covered
<1>6. call.op = "start" => Held = {}
  BY <1>1, <1>2, <1>i, ControllerAssumption DEF Gathered, Fields, Stopping, Held
<1>7. ASSUME NEW x \in Workers, Commanding(x)' PROVE Covered(Owed(x))'
  <2>1. x = w
    BY <1>3, <1>7, <1>i DEF Commanding, Starting, Stopping
  <2>2. Owed(w)' = Held
    <3>1. Held \subseteq Zones
      BY ControllerAssumption DEF Held, SonosTypeOK, FieldsOK
    <3>2. \/ call.op = "start" /\ call.pc = "discover"
          \/ call.op = "stop" /\ call.pc = "halt"
      BY <1>1, <1>3, <1>7, <2>1 DEF Commanding, Starting, Stopping
    <3> QED  BY <1>3, <1>4, <1>6, <3>1, <3>2 DEF Owed, Joining
  <2> QED  BY <1>3, <1>4, <2>1, <2>2 DEF Covered
<1>8. ASSUME NEW x \in Workers
      PROVE  /\ Candidates(job[x])'
             /\ ~At(x, "master")' /\ ~At(x, "play")'
             /\ job'[x].op = "set_volume" => \A y \in Workers : ~Commanding(y)'
  <2>1. Candidates(job'[x]) /\ job'[x].pc # "master" /\ job'[x].pc # "play"
    BY <1>1, <1>3, <1>i
  <2>2. Candidates(job[x])'
    BY <2>1 DEF Candidates
  <2>3. job'[x].op = "set_volume" => \A y \in Workers : ~Commanding(y)'
    BY <1>3, <1>i DEF Commanding, Starting, Stopping
  <2> QED  BY <2>1, <2>2, <2>3 DEF At
<1> QED
  BY <1>5, <1>7, <1>8 DEF Volumed

(* The invariant is inductive.                                             *)
LEMMA VolumedStep ==
  ASSUME VolumesAssumption, SonosTypeOK, Tame, Gathered, Gathered', Volumed, RoomStep
  PROVE  Volumed'
<1>1. ASSUME NEW w \in Workers, WorkerStep(w) PROVE Volumed'
  <2>1. ~NameRaises(w)
    BY NameRaisesEnds DEF VolumesAssumption
  <2> QED
    BY <1>1, <2>1, StartVolumed, PlayVolumed, StopVolumed, WatchdogVolumed DEF WorkerStep
<1>2. ASSUME NEW w \in Workers, NEW ph, Commanded(w, ph) PROVE Volumed'
  <2>1. PICK call : /\ call \in {StartCall, StopCall}
                    /\ call = StartCall <=> Starts(ph)
                    /\ Issue(w, call)
    BY <1>2 DEF Commanded, Command, Call, StartCall, StopCall, Idle
  <2> QED  BY <1>2, <2>1, IssuedVolumed DEF Commanded, Starts
<1>3. ASSUME NEW w \in Workers, Handed(w, WatchdogCall) PROVE Volumed'
  <2>1. /\ job[w] = Idle /\ job'[w] = WatchdogCall /\ OnlyMoves(w)
        /\ UNCHANGED <<snapshots, leader, volume>>
    BY <1>3 DEF Handed, Submit, OnlyMoves, fieldVars, playerVars, SonosTypeOK, JobsOK
  <2>2. job[w].op = "none" /\ job'[w].op = "watchdog" /\ ~Commanding(w)
    BY <2>1 DEF Idle, WatchdogCall, Call, Commanding, Starting, Stopping
  <2> QED  BY <2>1, <2>2, BesideVolumed
<1>4. ASSUME NEW w \in Workers, NEW z \in Zones, NEW v \in Volumes,
             Issue(w, VolumeCall(z, v)), Handed(w, VolumeCall(z, v))
      PROVE  Volumed'
  <2>1. VolumeCall(z, v) # StartCall
    BY DEF VolumeCall, StartCall, Call, Idle
  <2> QED  BY <1>4, <2>1, IssuedVolumed DEF Handed
<1>5. ASSUME UNCHANGED <<fieldVars, job, volume, leader>> PROVE Volumed'
  <2>1. Held' = Held /\ Moved' = Moved /\ \A w \in Workers : Owed(w)' = Owed(w)
    BY <1>5 DEF fieldVars, Held, Moved, Owed
  <2>2. /\ \A w \in Workers : Covered(Owed(w)) => Covered(Owed(w))'
        /\ Covered(Held) => Covered(Held)'
    BY <1>5, <2>1 DEF Covered, fieldVars
  <2>3. \A w \in Workers : Candidates(job[w])'
    BY <1>5 DEF Volumed, Candidates
  <2> QED
    BY <1>5, <2>1, <2>2, <2>3 DEF Volumed, Commanding, Starting, Stopping, At, LeadsItself
<1>6. CASE Players \/ UNCHANGED sonosVars
  BY <1>5, <1>6 DEF Players, Wander, PlayOther, sonosVars, playerVars
<1> QED
  BY <1>1, <1>2, <1>3, <1>4, <1>6 DEF RoomStep

(* Every volume is the household's to begin with.                          *)
LEMMA VolumedInit == Init => Volumed
<1> SUFFICES ASSUME Init PROVE Volumed
  OBVIOUS
<1>1. /\ \A w \in Workers : job[w] = Idle
      /\ Moved = {} /\ Held = {}
  BY DEF Init, SonosInit, PlayersInit, Moved, Held
<1>2. Idle.op = "none" /\ Idle.pc = "idle" /\ Candidates(Idle)
  BY DEF Idle, Candidates, Preparing
<1> QED
  BY <1>1, <1>2 DEF Volumed, Covered, Commanding, Starting, Stopping, At

(* README, master_volume: "the old volumes come back when it stops".  When *)
(* it is over every room has the volume it had before, a room whose volume *)
(* was set on the dashboard meanwhile too, for every household and however *)
(* sessions, clicks, watchdogs and the other failures follow one another.  *)
THEOREM VolumesAreRestored ==
  ASSUME VolumesAssumption
  PROVE  Spec => []VolumesComeBack
<1>0. QuietAssumption
  BY DEF VolumesAssumption, QuietAssumption
<1>1. Inv /\ Inv' /\ Tame /\ Gathered /\ Volumed /\ [Next]_vars
        => Tame' /\ Gathered' /\ Volumed'
  BY <1>0, StepTame, CoreStep, GatheredStep, VolumedStep
  DEF Inv, CoreTypeOK, QuietAssumption
<1>2. Gathered /\ Volumed => VolumesComeBack
  <2> SUFFICES ASSUME Gathered, Volumed, ~active, Quiet, NEW z \in Zones
               PROVE  volume[z] = HomeVolume
    BY DEF VolumesComeBack
  <2>1. \A w \in Workers : job[w].op = "none"
    BY DEF Quiet, IdleWorkers, Idle
  <2>2. Held = {}
    BY <2>1 DEF Gathered, Fields, Stopping, Held
  <2> QED
    BY <2>1, <2>2 DEF Volumed, Covered, Moved, Commanding, Starting, Stopping
<1> QED
  BY <1>1, <1>2, InitInv, StepInv, InitTame, GatheredInit, VolumedInit, PTL DEF Spec


----------------------------------------------------------------------------
(* Core implements the playback session.                                   *)
Audible == {z \in Zones : Heard(z) = "stream"}

SessionStep == [Session!Next]_Session!vars

(* While it starts, a session only takes rooms and volumes.                *)
LEMMA SessionGather ==
  ASSUME Stage = "starting", Stage' = "starting",
         \/ Audible \subseteq Audible' /\ Moved' = Moved
         \/ Moved \subseteq Moved' /\ Audible' = Audible
  PROVE  SessionStep
  BY DEF SessionStep, Session!Next, Session!Gather, Audible, Moved

(* While it lasts, it may take another room or one volume may move.        *)
LEMMA SessionTend ==
  ASSUME Stage = "on", Stage' = "on",
         \/ Audible \subseteq Audible' /\ Moved' = Moved
         \/ /\ \E z \in Zones : Moved' = Moved \cup {z} \/ Moved' = Moved \ {z}
            /\ Audible' = Audible
  PROVE  SessionStep
  BY DEF SessionStep, Session!Next, Session!Tend, Audible, Moved

(* While it stops, it only gives back.                                     *)
LEMMA SessionRelease ==
  ASSUME Stage = "stopping", Stage' = "stopping",
         Audible' \subseteq Audible, Moved' \subseteq Moved
  PROVE  SessionStep
  BY DEF SessionStep, Session!Next, Session!Release, Audible, Moved

(* A room may be lost at any time.                                         *)
LEMMA SessionLose ==
  ASSUME Stage' = Stage, Audible' \subseteq Audible, Moved' = Moved
  PROVE  SessionStep
  BY DEF SessionStep, Session!Next, Session!Lose, Audible, Moved

(* The commands and their ends.                                            *)
LEMMA SessionTurns ==
  ASSUME Audible' = Audible, Moved' = Moved,
         \/ Stage = "off" /\ Stage' = "starting"
         \/ Stage = "starting" /\ Stage' = "on"
         \/ Stage = "on" /\ Stage' = "stopping"
         \/ Stage = "stopping" /\ Stage' = "off" /\ Audible = {} /\ Moved = {}
  PROVE  SessionStep
  BY DEF SessionStep, Session!Next, Session!Begin, Session!Settle, Session!End,
         Session!Finish, Audible, Moved

(* The stage, while a command runs and while none does.                    *)
LEMMA Stages ==
  ASSUME Tame, Gathered
  PROVE  /\ \A w \in Workers : Starting(w) => Stage = "starting"
         /\ \A w \in Workers : Stopping(w) => Stage = "stopping"
         /\ (\A w \in Workers : ~Commanding(w)) => Stage = IF active THEN "on" ELSE "off"
  BY DEF Tame, StopsAlone, Stage, Running, Starting, Stopping, Commanding

(* The same after the step.                                                *)
LEMMA StagesNext ==
  ASSUME Tame', Gathered'
  PROVE  /\ \A w \in Workers : job'[w].op = "start" => Stage' = "starting"
         /\ \A w \in Workers : job'[w].op = "stop" => Stage' = "stopping"
         /\ (\A w \in Workers : job'[w].op \notin {"start", "stop"})
              => Stage' = IF active' THEN "on" ELSE "off"
  BY DEF Tame, StopsAlone, Stage, Running


(* Only commands, and their ends, move the stage.                          *)
LEMMA SameStage ==
  ASSUME \A x \in Workers : /\ job'[x].op = "start" <=> job[x].op = "start"
                            /\ job'[x].op = "stop" <=> job[x].op = "stop",
         UNCHANGED active
  PROVE  Stage' = Stage
  BY DEF Stage, Running

(* Only the coordinator's transport has the stream, and the zone's that is *)
(* about to be it.                                                         *)
LEMMA WhoStreams ==
  ASSUME Gathered, Streams, NEW w \in Workers, Starting(w)
  PROVE  \A z \in Zones : sound[z] = "stream" =>
           \/ z = coordinator /\ coordinator # NoZone
           \/ job[w].pc = "adopt" /\ z = job[w].target
<1>1. \A x \in Workers \ {w} : job[x].pc # "adopt"
  BY NobodyEnds DEF Gathered, Relies, Lines
<1> QED
  BY <1>1, ControllerAssumption DEF Streams, At

(* The steps of start().                                                   *)
LEMMA StartSession ==
  ASSUME VolumesAssumption, SonosTypeOK, Tame, Tame', Gathered, Gathered', Streams, Volumed,
         NEW w \in Workers, StartStep(w), UNCHANGED active
  PROVE  SessionStep
<1>0. /\ FieldsOK /\ PlayersOK /\ JobsOK
      /\ job \in [Workers -> JobRecords] /\ job[w] \in JobRecords /\ Ready(job[w])
      /\ Relies(job[w]) /\ Lines(job[w]) /\ Places(job[w])
  BY DEF SonosTypeOK, JobsOK, Gathered, Relies, Lines
<1> USE <1>0
<1>1. /\ job[w].op = "start" /\ Starting(w) /\ active /\ Stage = "starting"
  <2>1. job[w].op = "start"
    BY DEF StartStep, Discover, EndProbe, Select, SetMaster, EndSnapshots, Adopt, Enlist,
           AppendMember, EndStart, Probe, Snapshot, Join, At, Lines, Places, Probing, Joining
  <2> QED  BY <2>1, Stages DEF Starting, Relies
<1>2. /\ job'[w].op \in {"start", "none"}
      /\ \A x \in Workers \ {w} : job'[x].op \notin {"start", "stop"}
  BY <1>1, StartMoves, NobodyEnds DEF Moves
<1>3. CASE SetMaster(w)
  <2>1. job'[w] = [job[w] EXCEPT !.pc = "snapshot", !.zone = NoZone]
    BY <1>3 DEF SetMaster, Becomes
  <2>2. job'[w].op = "start"
    BY <1>1, <2>1 DEF JobRecords
  <2>3. Moved \subseteq Moved'
    BY <1>3 DEF SetMaster, Volumed, Moved, PlayersOK
  <2>4. Audible' = Audible
    BY <1>3 DEF SetMaster, Audible, Heard
  <2> QED  BY <1>1, <2>2, <2>3, <2>4, StagesNext, SessionGather
<1>4. ASSUME NEW z \in Zones, Join(w, z) PROVE SessionStep
  <2>1. /\ job[w].pc = "join" /\ job[w].target = coordinator /\ z # coordinator
        /\ coordinator \in Zones /\ UNCHANGED volume
        /\ JoinedTo(z, coordinator)
        /\ job'[w] = [job[w] EXCEPT !.pc = "append", !.todo = @ \ {z}, !.zone = z]
    BY <1>4 DEF Join, At, Becomes, Fails, VolumesAssumption, Relies, Joining, Ready
  <2>2. job'[w].op = "start"
    BY <1>1, <2>1 DEF JobRecords
  <2>3. leader[coordinator] = coordinator
    BY <1>1, <2>1, NobodyEnds, ControllerAssumption DEF Gathered, Together, Held
  <2>4. Audible \subseteq Audible'
    <3> SUFFICES ASSUME NEW x \in Zones, Heard(x) = "stream" PROVE Heard(x)' = "stream"
      BY DEF Audible
    <3>1. leader[x] = coordinator
      BY <1>1, <2>1, WhoStreams DEF Heard, PlayersOK
    <3>2. leader'[x] = coordinator /\ sound'[coordinator] = sound[coordinator]
      BY <2>1, <2>3, <3>1 DEF JoinedTo, PlayersOK
    <3> QED  BY <3>1, <3>2 DEF Heard
  <2>5. Moved' = Moved
    BY <2>1 DEF Moved
  <2> QED  BY <1>1, <2>2, <2>4, <2>5, StagesNext, SessionGather
<1>5. CASE UNCHANGED playerVars
  <2>1. Audible' = Audible /\ Moved' = Moved
    BY <1>5 DEF playerVars, Audible, Heard, Moved
  <2>2. CASE job'[w].op = "start"
    BY <1>1, <2>1, <2>2, StagesNext, SessionGather
  <2>3. CASE job'[w].op = "none"
    <3>1. Stage' = "on"
      BY <1>1, <1>2, <2>3, StagesNext
    <3> QED  BY <1>1, <2>1, <3>1, SessionTurns
  <2> QED  BY <1>2, <2>2, <2>3
<1> QED
  BY <1>3, <1>4, <1>5 DEF StartStep, Discover, Probe, EndProbe, Select, Snapshot,
                          EndSnapshots, Adopt, Enlist, AppendMember, EndStart

(* The steps of _play_with_retry(), for a start or a watchdog.             *)
LEMMA PlaySession ==
  ASSUME VolumesAssumption, SonosTypeOK, Tame, Tame', Gathered, Gathered', Streams, Volumed,
         NEW w \in Workers, PlayStep(w), UNCHANGED active
  PROVE  SessionStep
<1>0. /\ FieldsOK /\ PlayersOK /\ JobsOK
      /\ job \in [Workers -> JobRecords] /\ job[w] \in JobRecords /\ Ready(job[w])
      /\ Relies(job[w]) /\ Lines(job[w]) /\ Places(job[w])
  BY DEF SonosTypeOK, JobsOK, Gathered, Relies, Lines
<1> USE <1>0
<1>1. /\ job[w].pc \in {"group", "ungroup", "play"} /\ job[w].op \in {"start", "watchdog"}
      /\ job[w].target \in Zones /\ active /\ Moved' = Moved
  BY DEF PlayStep, LeaveGroup, Ungroup, Play, PlayRaises, At, Lines, Ready, Relies, playerVars, Moved
<1>2. /\ job'[w].op \in {job[w].op, "none"}
      /\ \A x \in Workers \ {w} : job'[x].op = job[x].op
  BY OtherMoves DEF Moves
<1>3. CASE job[w].op = "watchdog"
  <2>1. job[w].target = coordinator /\ LeadsItself(coordinator)
    BY <1>1, <1>3, WatchdogTarget
  <2>2. UNCHANGED leader
    BY <2>1 DEF PlayStep, LeaveGroup, Ungroup, Play, PlayRaises, Unjoined, LeadsItself, PlayersOK,
                playerVars
  <2>3. \A z \in Zones : sound'[z] = sound[z] \/ sound'[z] = "stream"
    BY <2>1 DEF PlayStep, LeaveGroup, Ungroup, Play, PlayRaises, Unjoined, LeadsItself, PlayersOK,
                playerVars
  <2>4. Audible \subseteq Audible'
    BY <2>2, <2>3 DEF Audible, Heard, PlayersOK
  <2>5. Stage' = Stage
    BY <1>2, <1>3, SameStage
  <2>6. Stage \in {"starting", "on"}
    BY <1>1 DEF Stage, Running, Tame, StopsAlone
  <2> QED  BY <1>1, <2>4, <2>5, <2>6, SessionGather, SessionTend
<1>4. CASE job[w].op = "start"
  <2>1. ~PlayRaises(w)
    BY <1>4 DEF PlayRaises, Volumed, Starting, At, Fails, VolumesAssumption
  <2>2. job'[w].op = "start"
    <3>1. \/ job'[w] = [job[w] EXCEPT !.pc = "ungroup"]
          \/ job'[w] = [job[w] EXCEPT !.pc = "play", !.try = 1]
          \/ job'[w] = [job[w] EXCEPT !.pc = "adopt", !.try = 0]
      BY <1>4, <2>1 DEF PlayStep, LeaveGroup, Ungroup, Play, Becomes, Goto
    <3> QED  BY <1>4, <3>1 DEF JobRecords
  <2>3. Audible = {}
    <3>1. coordinator = NoZone
      BY <1>1, <1>4 DEF Relies, Joining
    <3>2. \A z \in Zones : sound[z] # "stream"
      BY <1>1, <1>4, <3>1, WhoStreams DEF Starting
    <3> QED  BY <3>2 DEF Audible, Heard, PlayersOK
  <2>4. Stage = "starting" /\ Stage' = "starting"
    BY <1>4, <2>2, Stages, StagesNext DEF Starting
  <2> QED  BY <1>1, <2>3, <2>4, SessionGather
<1> QED  BY <1>1, <1>3, <1>4

(* The steps of stop().                                                    *)
LEMMA StopSession ==
  ASSUME VolumesAssumption, SonosTypeOK, SonosTypeOK', Tame, Tame', Gathered, Gathered',
         Streams, Volumed, NEW w \in Workers, StopStep(w), UNCHANGED active
  PROVE  SessionStep
<1>0. /\ FieldsOK /\ PlayersOK /\ JobsOK
      /\ job \in [Workers -> JobRecords] /\ job[w] \in JobRecords
      /\ Relies(job[w]) /\ Lines(job[w]) /\ Places(job[w]) /\ leader' \in [Zones -> Zones]
  BY DEF SonosTypeOK, JobsOK, Gathered, Relies, Lines, PlayersOK
<1> USE <1>0
<1>1. /\ job[w].op = "stop" /\ Stopping(w) /\ Stage = "stopping"
      /\ ~active /\ \A x \in Workers \ {w} : job[x].op \in {"none", "set_volume"}
  <2>1. job[w].op = "stop"
    BY DEF StopStep, Halt, Unjoin, Collect, Restore, Clear, Disband, At, Places
  <2> QED  BY <2>1, Stages DEF Stopping, Tame, StopsAlone
<1>2. /\ job'[w].op \in {"stop", "none"}
      /\ \A x \in Workers \ {w} : job'[x].op \in {"none", "set_volume"}
  BY <1>1, OtherMoves DEF Moves
<1>3. Covered(Owed(w))
  BY <1>1 DEF Volumed, Commanding
<1>4. job[w].pc \in Ending => Audible = {}
  BY DEF Streams, Audible, Heard, PlayersOK
<1>5. ASSUME Audible' \subseteq Audible, Moved' \subseteq Moved, job'[w].op = "stop"
      PROVE  SessionStep
  BY <1>1, <1>5, StagesNext, SessionRelease
<1> USE DEF At, Becomes, Return, Goto, fieldVars, playerVars
<1>6. CASE Halt(w)
  <2>1. job'[w] = [job[w] EXCEPT !.pc = "unjoin", !.todo = members, !.live = TRUE]
    BY <1>6 DEF Halt
  <2>2. job'[w].op = "stop"
    BY <1>1, <2>1 DEF JobRecords
  <2>3. Audible' \subseteq Audible /\ Moved' = Moved
    BY <1>6 DEF Halt, Audible, Heard, Moved, PlayersOK
  <2> QED  BY <1>5, <2>2, <2>3
<1>7. ASSUME NEW z \in Zones, Unjoin(w, z) PROVE SessionStep
  <2>1. job'[w] = [job[w] EXCEPT !.todo = @ \ {z}] /\ job[w].pc = "unjoin"
    BY <1>7 DEF Unjoin
  <2>2. job'[w].op = "stop"
    BY <1>1, <2>1 DEF JobRecords
  <2>3. \A x \in Zones : sound'[x] # "stream"
    BY <1>7, <2>1 DEF Unjoin, Unjoined, Streams, Ending, PlayersOK
  <2>4. Audible' = {} /\ Moved' = Moved
    BY <1>7, <2>3 DEF Unjoin, Audible, Heard, Moved
  <2> QED  BY <1>5, <2>2, <2>4
<1>8. CASE Collect(w)
  <2>1. job'[w] = [job[w] EXCEPT !.pc = "restore", !.todo = Held, !.live = FALSE]
    BY <1>8 DEF Collect
  <2>2. job'[w].op = "stop"
    BY <1>1, <2>1 DEF JobRecords
  <2>3. Audible' = Audible /\ Moved' = Moved
    BY <1>8 DEF Collect, Audible, Heard, Moved
  <2> QED  BY <1>5, <2>2, <2>3
<1>9. ASSUME NEW z \in Zones, Restore(w, z) PROVE SessionStep
  <2>1. job'[w] = [job[w] EXCEPT !.todo = @ \ {z}] /\ job[w].pc = "restore"
    BY <1>9 DEF Restore
  <2>2. job'[w].op = "stop"
    BY <1>1, <2>1 DEF JobRecords
  <2>3. snapshots[z] = HomeVolume
    BY <1>3, <1>9, <2>1 DEF Restore, Covered, Owed
  <2>4. Audible' = Audible /\ Moved' \subseteq Moved
    BY <1>9, <2>3 DEF Restore, Audible, Heard, Moved, PlayersOK
  <2> QED  BY <1>5, <2>2, <2>4
<1>11. CASE Clear(w)
  <2>1. job'[w] = [job[w] EXCEPT !.pc = "disband"]
    BY <1>11 DEF Clear
  <2>2. job'[w].op = "stop"
    BY <1>1, <2>1 DEF JobRecords
  <2>3. Audible' = Audible /\ Moved' = Moved
    BY <1>11 DEF Clear, Audible, Heard, Moved
  <2> QED  BY <1>5, <2>2, <2>3
<1>10. CASE Disband(w)
  <2>1. job[w].pc = "disband" /\ job'[w] = Idle
    BY <1>10 DEF Disband
  <2>2. Audible = {} /\ Moved = {} /\ Audible' = Audible /\ Moved' = Moved
    <3>1. Audible = {} /\ Moved = {}
      BY <1>3, <1>4, <2>1 DEF Covered, Owed, Joining, Ending
    <3> QED  BY <1>10, <3>1 DEF Disband, Audible, Heard, Moved
  <2>3. Stage' = "off"
    <3>1. job'[w].op = "none"
      BY <2>1 DEF Idle
    <3> QED  BY <1>1, <1>2, <3>1, StagesNext
  <2> QED  BY <1>1, <2>2, <2>3, SessionTurns
<1> QED
  BY <1>6, <1>7, <1>8, <1>9, <1>10, <1>11 DEF StopStep


(* The other steps of a watchdog, and a volume call.                       *)
LEMMA BesideSession ==
  ASSUME SonosTypeOK, Tame, Tame', Gathered, Gathered', Volumed, NEW w \in Workers,
         WatchdogStep(w) \/ SetVolume(w), UNCHANGED active
  PROVE  SessionStep
<1>0. /\ FieldsOK /\ PlayersOK /\ JobsOK
      /\ job \in [Workers -> JobRecords] /\ job[w] \in JobRecords
      /\ Lines(job[w]) /\ Places(job[w])
  BY DEF SonosTypeOK, JobsOK, Gathered, Relies, Lines
<1> USE <1>0
<1>1. /\ job[w].op \in {"watchdog", "set_volume"}
      /\ job[w].pc = "volume" => job[w].op = "set_volume"
  BY DEF WatchdogStep, Check, Transport, Reissue, Raises, SetVolume, At, Lines, Places
<1>2. Stage' = Stage
  <2>1. /\ job'[w].op \in {job[w].op, "none"}
        /\ \A x \in Workers \ {w} : job'[x].op = job[x].op
    BY OtherMoves DEF Moves
  <2> QED  BY <1>1, <2>1, SameStage
<1>3. Audible' = Audible
  BY DEF WatchdogStep, Check, Transport, Reissue, Raises, SetVolume, fieldVars, playerVars,
         Audible, Heard
<1>4. CASE UNCHANGED volume
  <2>1. Moved' = Moved
    BY <1>4 DEF Moved
  <2> QED  BY <1>2, <1>3, <2>1, SessionLose
<1>5. CASE SetVolume(w) /\ ~UNCHANGED volume
  <2>1. /\ job[w].op = "set_volume" /\ job[w].zone \in Held
        /\ volume' = [volume EXCEPT ![job[w].zone] = job[w].level]
    BY <1>1, <1>5 DEF SetVolume, At
  <2>2. \A x \in Workers : ~Commanding(x)
    BY <2>1 DEF Volumed
  <2>3. Stage = "on"
    BY <2>1, <2>2, Stages DEF Gathered, Fields, Held, Commanding
  <2>4. job[w].zone \in Zones
    BY <2>1 DEF Held, FieldsOK
  <2>5. Moved' = Moved \cup {job[w].zone} \/ Moved' = Moved \ {job[w].zone}
    BY <2>1, <2>4 DEF Moved, PlayersOK
  <2> QED  BY <1>2, <1>3, <2>3, <2>4, <2>5, SessionTend
<1> QED
  BY <1>4, <1>5 DEF WatchdogStep, Check, Transport, Reissue, Raises, playerVars

(* _apply begins or ends a session.                                        *)
LEMMA IssuedSession ==
  ASSUME VolumesAssumption, SonosTypeOK, Tame, Tame', Gathered, Gathered',
         NEW w \in Workers, NEW ph, Commanded(w, ph)
  PROVE  SessionStep
<1>1. PICK call : /\ call \in {StartCall, StopCall}
                  /\ call = StartCall <=> Starts(ph)
                  /\ Issue(w, call)
  BY DEF Commanded, Command, Call, StartCall, StopCall, Idle
<1>2. Audible' = Audible /\ Moved' = Moved
  BY DEF Commanded, playerVars, Audible, Heard, Moved
<1>3. \A x \in Workers : job[x].op = "none"
  BY <1>1 DEF Issue, VolumesAssumption, Quiet, IdleWorkers, Idle
<1>4. Stage = IF active THEN "on" ELSE "off"
  BY <1>3 DEF Stage, Running
<1>5. job'[w] = call
  BY <1>1 DEF Issue, Submit, SonosTypeOK, JobsOK
<1>6. CASE Starts(ph)
  <2>1. job'[w].op = "start"
    BY <1>1, <1>5, <1>6 DEF StartCall, Call, Idle
  <2>2. Stage = "off" /\ Stage' = "starting"
    BY <1>4, <1>6, <2>1, StagesNext DEF Starts
  <2> QED  BY <1>2, <2>2, SessionTurns
<1>7. CASE ~Starts(ph)
  <2>1. job'[w].op = "stop"
    BY <1>1, <1>5, <1>7 DEF StopCall, Call, Idle
  <2>2. active
    BY <1>7 DEF Commanded, Commands, Stops
  <2>3. Stage = "on" /\ Stage' = "stopping"
    BY <1>4, <2>1, <2>2, StagesNext
  <2> QED  BY <1>2, <2>3, SessionTurns
<1> QED  BY <1>6, <1>7

(* Every step of Core is a step of the session, or none.                   *)
LEMMA SessionSteps ==
  ASSUME VolumesAssumption, SonosTypeOK, SonosTypeOK', Tame, Tame', Gathered, Gathered',
         Streams, Volumed, RoomStep
  PROVE  SessionStep
<1>1. ASSUME NEW w \in Workers, WorkerStep(w), UNCHANGED active PROVE SessionStep
  <2>1. ~NameRaises(w)
    BY NameRaisesEnds DEF VolumesAssumption
  <2> QED
    BY <1>1, <2>1, StartSession, PlaySession, StopSession, BesideSession DEF WorkerStep
<1>2. ASSUME NEW w \in Workers, NEW call, call.op \in {"watchdog", "set_volume"},
             Handed(w, call), UNCHANGED active
      PROVE  SessionStep
  <2>1. /\ job[w] = Idle /\ job'[w] = call /\ \A x \in Workers \ {w} : job'[x] = job[x]
        /\ UNCHANGED <<volume, sound, leader>>
    BY <1>2 DEF Handed, Submit, playerVars, SonosTypeOK, JobsOK
  <2>2. job[w].op = "none"
    BY <2>1 DEF Idle
  <2>3. Stage' = Stage
    BY <1>2, <2>1, <2>2, SameStage
  <2>4. Audible' = Audible /\ Moved' = Moved
    BY <2>1 DEF Audible, Heard, Moved
  <2> QED  BY <2>3, <2>4, SessionLose
<1>3. /\ WatchdogCall.op = "watchdog"
      /\ \A z \in Zones, v \in Volumes : VolumeCall(z, v).op = "set_volume"
  BY DEF WatchdogCall, VolumeCall, Call, Idle
<1>4. CASE Players /\ UNCHANGED active
  <2>1. PICK z \in Zones : Wander(z) \/ PlayOther(z)
    BY <1>4 DEF Players
  <2>2. /\ UNCHANGED <<volume, leader, job, active>>
        /\ \A x \in Zones : sound'[x] = "stream" => sound[x] = "stream"
    BY <1>4, <2>1 DEF Wander, PlayOther, SonosTypeOK, PlayersOK
  <2>3. Audible' \subseteq Audible /\ Moved' = Moved
    BY <2>2 DEF Audible, Heard, Moved, SonosTypeOK, PlayersOK
  <2>4. Stage' = Stage
    BY <2>2, SameStage
  <2> QED  BY <2>3, <2>4, SessionLose
<1>5. CASE UNCHANGED <<sonosVars, active>>
  <2>1. UNCHANGED <<volume, sound, leader, job, active>>
    BY <1>5 DEF sonosVars, playerVars
  <2>2. Audible' = Audible /\ Moved' = Moved
    BY <2>1 DEF Audible, Heard, Moved
  <2>3. Stage' = Stage
    BY <2>1, SameStage
  <2> QED  BY <2>2, <2>3, SessionLose
<1> QED
  BY <1>1, <1>2, <1>3, <1>4, <1>5, IssuedSession DEF RoomStep

(* Core begins with the session off.                                       *)
LEMMA SessionInit == Init => Session!Init
<1> SUFFICES ASSUME Init PROVE Session!Init
  OBVIOUS
<1>1. (\A w \in Workers : job[w] = Idle) /\ ~active
  BY DEF Init, SonosInit
<1>2. Stage = "off"
  BY <1>1 DEF Stage, Running, Idle
<1>3. {z \in Zones : Heard(z) = "stream"} = {}
  BY DEF Init, SonosInit, PlayersInit, Heard
<1>4. {z \in Zones : volume[z] # HomeVolume} = {}
  BY DEF Init, SonosInit, PlayersInit
<1> QED
  BY <1>2, <1>3, <1>4 DEF Session!Init

(* Core implements the playback session: rooms gain the stream and volumes *)
(* move only between a start() and the stop() that ends it, an ending      *)
(* session only gives back, and what follows it is the household as it was;*)
(* for every household, any number of threads and any failures but of the  *)
(* calls that a session cannot do without.                                 *)
THEOREM CoreImplementsSession ==
  ASSUME VolumesAssumption, "halt" \notin MayFail
  PROVE  Spec => SessionBracket
<1>0. QuietAssumption
  BY DEF VolumesAssumption, QuietAssumption
<1>1. Inv /\ Inv' /\ Tame /\ Gathered /\ Streams /\ Volumed /\ [Next]_vars
        => Tame' /\ Gathered' /\ Streams' /\ Volumed'
  BY <1>0, StepTame, CoreStep, GatheredStep, StreamsStep, VolumedStep
  DEF Inv, CoreTypeOK, QuietAssumption
<1>2. Inv /\ Inv' /\ Tame /\ Tame' /\ Gathered /\ Gathered' /\ Streams /\ Volumed
        /\ [Next]_vars => [Session!Next]_Session!vars
  BY CoreStep, SessionSteps DEF Inv, CoreTypeOK, SessionStep
<1> QED
  BY <1>1, <1>2, InitInv, StepInv, InitTame, GatheredInit, StreamsInit, VolumedInit,
     SessionInit, PTL
  DEF Spec, SessionBracket, Session!Spec

=============================================================================
