---------------------------- MODULE CoreProofs -----------------------------
(***************************************************************************)
(* The control of needledrop, for every configuration, every number of     *)
(* rooms and threads, every failure and every interleaving: its types, the *)
(* flag that follows the phase, and where watchdogs are handed over.       *)
(***************************************************************************)
EXTENDS Core, TLAPS

(* The controller.  Every call keeps the fields, the players and its own   *)
(* local variables in their types, and never uses a local variable before  *)
(* it is assigned.                                                         *)
Job(j) == j \in JobRecords /\ Ready(j)

(* Every thread's call is a call with its local variables assigned.        *)
LEMMA JobAt == ASSUME JobsOK, NEW w \in Workers PROVE Job(job[w])
  BY DEF JobsOK, Job

(* One call that moves on leaves the others as they are.                   *)
LEMMA NextJob ==
  ASSUME JobsOK, NEW w \in Workers, NEW j, Job(j), job' = [job EXCEPT ![w] = j]
  PROVE  JobsOK'
  BY DEF JobsOK, Job, Ready

(* A thread without a call needs no local variables.                       *)
LEMMA IdleJob == Job(Idle)
  BY ControllerAssumption
  DEF Job, Idle, JobRecords, Ready

(* The calls as they are handed to the pool.                               *)
LEMMA FirstJobs ==
  /\ Job(StartCall) /\ Job(StopCall) /\ Job(WatchdogCall)
  /\ \A z \in Zones, v \in Volumes : Job(VolumeCall(z, v))
<1> USE IdleJob, ControllerAssumption
    DEF Job, Call, JobRecords, Ready
<1>1. Job(StartCall) BY DEF StartCall
<1>2. Job(StopCall) BY DEF StopCall
<1>3. Job(WatchdogCall) BY DEF WatchdogCall
<1>4. ASSUME NEW z \in Zones, NEW v \in Volumes PROVE Job(VolumeCall(z, v))
  BY DEF VolumeCall
<1> QED BY <1>1, <1>2, <1>3, <1>4

(* The controller begins in its types.                                     *)
LEMMA InitTypes == SonosInit => SonosTypeOK
<1> SUFFICES ASSUME SonosInit PROVE SonosTypeOK
  OBVIOUS
<1>1. JobsOK
  BY IdleJob DEF SonosInit, JobsOK, Job
<1>2. FieldsOK
  BY DEF SonosInit, FieldsOK, NoInfo, Info
<1>3. PlayersOK
  BY ControllerAssumption DEF SonosInit, PlayersInit, PlayersOK, Sounds
<1> QED BY <1>1, <1>2, <1>3 DEF SonosInit, SonosTypeOK

(* What the players do keeps their types.                                  *)
LEMMA UnjoinedTypes ==
  ASSUME PlayersOK, NEW z \in Zones, Unjoined(z), UNCHANGED volume
  PROVE  PlayersOK'
  BY DEF PlayersOK, Unjoined, Sounds

(* So does a zone that joins another.                                      *)
LEMMA JoinedTypes ==
  ASSUME PlayersOK, NEW z \in Zones, NEW c \in Zones, JoinedTo(z, c),
         UNCHANGED volume
  PROVE  PlayersOK'
  BY DEF PlayersOK, JoinedTo, Sounds

(* start(), line by line.                                                  *)
LEMMA StartTypes ==
  ASSUME SonosTypeOK, NEW w \in Workers, StartStep(w)
  PROVE  SonosTypeOK'
<1> USE ControllerAssumption
<1>0. FieldsOK /\ PlayersOK /\ JobsOK /\ raised \subseteq Workers /\ Job(job[w])
  BY JobAt DEF SonosTypeOK
<1> USE <1>0, ControllerAssumption
<1>1. CASE Discover(w)
  <2>1. PICK found \in SUBSET Zones :
          job' = [job EXCEPT ![w] = [job[w] EXCEPT !.pc = "probe", !.todo = found]]
    BY <1>1 DEF Discover, Becomes
  <2>2. Job([job[w] EXCEPT !.pc = "probe", !.todo = found])
    BY DEF Job, JobRecords, Ready
  <2>3. JobsOK'
    BY <2>1, <2>2, NextJob
  <2> QED
    BY <1>1, <2>3 DEF Discover, fieldVars, playerVars, SonosTypeOK, FieldsOK, PlayersOK
<1>2. ASSUME NEW z \in Zones, Probe(w, z) PROVE SonosTypeOK'
  <2>0. /\ Job([job[w] EXCEPT !.todo = @ \ {z}])
        /\ Job([job[w] EXCEPT !.todo = @ \ {z}, !.busy = @ \cup {z}])
        /\ Job([job[w] EXCEPT !.todo = @ \ {z}, !.cand = @ \cup {z}])
    BY DEF Job, JobRecords, Ready
  <2>1. PICK j : Job(j) /\ job' = [job EXCEPT ![w] = j]
    BY <1>2, <2>0 DEF Probe, Becomes
  <2>2. JobsOK'
    BY <2>1, NextJob
  <2> QED
    BY <1>2, <2>2 DEF Probe, At, Job, Ready, fieldVars, playerVars, SonosTypeOK, FieldsOK, PlayersOK
<1>3. CASE EndProbe(w)
  <2>0. Job([job[w] EXCEPT !.pc = "select", !.busy = {}])
    BY DEF Job, JobRecords, Ready
  <2>1. PICK j : Job(j) /\ job' = [job EXCEPT ![w] = j]
    BY <1>3, <2>0, IdleJob DEF EndProbe, Becomes, Return
  <2>2. JobsOK'
    BY <2>1, NextJob
  <2> QED
    BY <1>3, <2>2 DEF EndProbe, At, Job, Ready, fieldVars, playerVars, SonosTypeOK, FieldsOK, PlayersOK, Info
<1>4. CASE Select(w)
  <2>0. ASSUME NEW c \in Zones
        PROVE  Job([job[w] EXCEPT !.pc = "snapshot", !.target = c, !.todo = job[w].cand])
    BY DEF Job, JobRecords, Ready
  <2>c. job[w].cand \subseteq Zones
    BY DEF Job, JobRecords
  <2>1. PICK j : Job(j) /\ job' = [job EXCEPT ![w] = j]
    BY <1>4, <2>0, <2>c DEF Select, Becomes, Coordinators
  <2>2. JobsOK'
    BY <2>1, NextJob
  <2> QED
    BY <1>4, <2>2 DEF Select, At, Job, Ready, fieldVars, playerVars, SonosTypeOK, FieldsOK, PlayersOK
<1>5. ASSUME NEW z \in Zones, Snapshot(w, z) PROVE SonosTypeOK'
  <2>1. PICK j : Job(j) /\ job' = [job EXCEPT ![w] = j]
    BY <1>5 DEF Snapshot, Becomes, Job, JobRecords, Ready, At
  <2>2. JobsOK'
    BY <2>1, NextJob
  <2> QED
    BY <1>5, <2>2 DEF Snapshot, At, Job, Ready, fieldVars, playerVars, SonosTypeOK, FieldsOK, PlayersOK
<1>6. CASE SetMaster(w)
  <2>1. PICK j : Job(j) /\ job' = [job EXCEPT ![w] = j]
    BY <1>6 DEF SetMaster, Becomes, Job, JobRecords, Ready, At
  <2>2. JobsOK'
    BY <2>1, NextJob
  <2> QED
    BY <1>6, <2>2 DEF SetMaster, At, Job, Ready, fieldVars, playerVars, SonosTypeOK, FieldsOK, PlayersOK
<1>7. CASE EndSnapshots(w)
  <2>1. PICK j : Job(j) /\ job' = [job EXCEPT ![w] = j]
    BY <1>7 DEF EndSnapshots, Becomes, Job, JobRecords, Ready, At, Goto
  <2>2. JobsOK'
    BY <2>1, NextJob
  <2> QED
    BY <1>7, <2>2 DEF EndSnapshots, At, Job, Ready, fieldVars, playerVars, SonosTypeOK, FieldsOK, PlayersOK
<1>8. CASE Adopt(w)
  <2>0. job[w].target \in Zones
    BY <1>8 DEF Adopt, At, Job, Ready
  <2>1. Job([job[w] EXCEPT !.pc = "enlist"])
    BY <2>0 DEF Job, JobRecords, Ready
  <2>2. JobsOK'
    BY <1>8, <2>1, NextJob DEF Adopt, Goto, Becomes
  <2> QED
    BY <1>8, <2>0, <2>2 DEF Adopt, playerVars, SonosTypeOK, FieldsOK, PlayersOK
<1>12. CASE Enlist(w)
  <2>1. ASSUME NEW x \in Workers, x # w PROVE Job(job'[x])
    <3>1. job'[x] = [job[x] EXCEPT !.live = FALSE]
      BY <1>12, <2>1 DEF Enlist, Detached
    <3> QED BY <3>1, JobAt DEF Job, JobRecords, Ready
  <2>2. Job(job'[w])
    <3>1. job'[w] = [job[w] EXCEPT !.pc = "join", !.cand = {},
                                   !.todo = job[w].cand \ {job[w].target}]
      BY <1>12 DEF Enlist
    <3>2. job[w].target \in Zones
      BY <1>12 DEF Enlist, At, Job, Ready
    <3>3. Job([job[w] EXCEPT !.pc = "join", !.cand = {},
                             !.todo = job[w].cand \ {job[w].target}])
      BY <3>2 DEF Job, JobRecords, Ready
    <3> QED BY <3>1, <3>3
  <2>3. JobsOK'
    BY <1>12, <2>1, <2>2 DEF Enlist, JobsOK, Job
  <2> QED
    BY <1>12, <2>3 DEF Enlist, At, Job, Ready, MarkGrouped, fieldVars, playerVars, SonosTypeOK, FieldsOK, PlayersOK
<1>9. CASE AppendMember(w)
  <2>0. ASSUME NEW x \in Workers
        PROVE  Job(job'[x])
    BY <1>9, JobAt DEF AppendMember, At, Job, JobRecords, Ready
  <2>1. JobsOK'
    BY <1>9, <2>0 DEF AppendMember, JobsOK, Job
  <2> QED
    BY <1>9, <2>1 DEF AppendMember, At, Job, Ready, MarkGrouped, fieldVars, playerVars, SonosTypeOK, FieldsOK, PlayersOK
<1>10. CASE EndStart(w)
  <2>1. PICK j : Job(j) /\ job' = [job EXCEPT ![w] = j]
    BY <1>10, IdleJob DEF EndStart, Becomes, Job, JobRecords, Ready, At, Return
  <2>2. JobsOK'
    BY <2>1, NextJob
  <2> QED
    BY <1>10, <2>2 DEF EndStart, At, Job, Ready, fieldVars, playerVars, SonosTypeOK, FieldsOK, PlayersOK
<1>11. ASSUME NEW z \in Zones, Join(w, z) PROVE SonosTypeOK'
  <2>1. PICK j : Job(j) /\ job' = [job EXCEPT ![w] = j]
    BY <1>11 DEF Join, Becomes, Job, JobRecords, Ready, At
  <2>2. JobsOK'
    BY <2>1, NextJob
  <2>3. PlayersOK'
    BY <1>11, JoinedTypes DEF Join, At, Job, Ready, PlayersOK
  <2>4. FieldsOK'
    BY <1>11 DEF Join, MarkUnreachable, FieldsOK
  <2> QED
    BY <1>11, <2>2, <2>3, <2>4 DEF Join, SonosTypeOK
<1> QED
  BY <1>1, <1>2, <1>3, <1>4, <1>5, <1>6, <1>7, <1>8, <1>9, <1>10, <1>11, <1>12
  DEF StartStep

(* _play_with_retry(), line by line.                                       *)
LEMMA PlayTypes ==
  ASSUME SonosTypeOK, NEW w \in Workers, PlayStep(w)
  PROVE  SonosTypeOK'
<1>0. FieldsOK /\ PlayersOK /\ JobsOK /\ raised \subseteq Workers /\ Job(job[w])
  BY JobAt DEF SonosTypeOK
<1> USE <1>0, ControllerAssumption
<1>0a. ASSUME job[w].pc \in {"group", "ungroup"}
       PROVE  /\ job[w].target \in Zones
              /\ Job([job[w] EXCEPT !.pc = "play", !.try = 1])
              /\ Job([job[w] EXCEPT !.pc = "ungroup"])
  <2>1. job[w].target \in Zones /\ 1 \in 0 .. PlayRetries
    BY <1>0a DEF Job, Ready
  <2> QED  BY <2>1 DEF Job, JobRecords, Ready
<1>1. CASE LeaveGroup(w)
  <2>1. PICK j : Job(j) /\ job' = [job EXCEPT ![w] = j]
    BY <1>1, <1>0a DEF LeaveGroup, At, Becomes, Goto
  <2>2. JobsOK'
    BY <2>1, NextJob
  <2> QED
    BY <1>1, <2>2 DEF LeaveGroup, fieldVars, playerVars, SonosTypeOK, FieldsOK, PlayersOK
<1>4. CASE Ungroup(w)
  <2>1. JobsOK'
    BY <1>4, <1>0a, NextJob DEF Ungroup, At, Becomes
  <2>2. PlayersOK'
    BY <1>4, <1>0a, UnjoinedTypes DEF Ungroup, At, PlayersOK
  <2> QED
    BY <1>4, <2>1, <2>2 DEF Ungroup, fieldVars, SonosTypeOK, FieldsOK
<1>2. CASE Play(w)
  <2>t. job[w].target \in Zones /\ 0 \in 0 .. PlayRetries
    BY <1>2 DEF Play, At, Job, Ready
  <2>0. Job([job[w] EXCEPT !.pc = "adopt", !.try = 0])
    BY <2>t DEF Job, JobRecords, Ready
  <2>1. PICK j : Job(j) /\ job' = [job EXCEPT ![w] = j]
    BY <1>2, <2>0, IdleJob DEF Play, Becomes, Return
  <2>2. JobsOK'
    BY <2>1, NextJob
  <2> QED
    BY <1>2, <2>2 DEF Play, At, Job, Ready, fieldVars, playerVars, SonosTypeOK, FieldsOK, PlayersOK, Sounds
<1>3. CASE PlayRaises(w)
  <2>0. job[w].try < PlayRetries => Job([job[w] EXCEPT !.try = @ + 1])
    BY DEF Job, JobRecords, Ready
  <2>1. PICK j : Job(j) /\ job' = [job EXCEPT ![w] = j]
    BY <1>3, <2>0, IdleJob DEF PlayRaises, Becomes, Return
  <2>2. JobsOK'
    BY <2>1, NextJob
  <2>3. CASE UNCHANGED infos
    BY <1>3, <2>2, <2>3 DEF PlayRaises, playerVars, SonosTypeOK, FieldsOK, PlayersOK
  <2>4. CASE MarkUnreachable(job[w].target)
    <3>1. infos' \in [Zones -> [grouped : BOOLEAN, skipped_busy : BOOLEAN,
                                reachable : BOOLEAN]]
      BY <2>4, <1>3 DEF MarkUnreachable, FieldsOK, PlayRaises, At, Job, Ready
    <3> QED
      BY <1>3, <2>2, <3>1 DEF PlayRaises, playerVars, SonosTypeOK, FieldsOK, PlayersOK
  <2> QED
    BY <1>3, <2>3, <2>4 DEF PlayRaises
<1> QED BY <1>1, <1>2, <1>3, <1>4 DEF PlayStep

(* stop(), line by line.                                                   *)
LEMMA StopTypes ==
  ASSUME SonosTypeOK, NEW w \in Workers, StopStep(w)
  PROVE  SonosTypeOK'
<1>0. FieldsOK /\ PlayersOK /\ JobsOK /\ raised \subseteq Workers /\ Job(job[w])
  BY JobAt DEF SonosTypeOK
<1> USE <1>0, ControllerAssumption
<1>1. CASE Halt(w)
  <2>1. PICK j : Job(j) /\ job' = [job EXCEPT ![w] = j]
    BY <1>1 DEF Halt, Becomes, Job, JobRecords, Ready, At, FieldsOK
  <2>2. JobsOK'
    BY <2>1, NextJob
  <2> QED
    BY <1>1, <2>2 DEF Halt, At, Job, Ready, fieldVars, playerVars, SonosTypeOK, FieldsOK, PlayersOK, LeadsItself, Sounds
<1>2. ASSUME NEW z \in Zones, Unjoin(w, z) PROVE SonosTypeOK'
  <2>1. PICK j : Job(j) /\ job' = [job EXCEPT ![w] = j]
    BY <1>2 DEF Unjoin, Becomes, Job, JobRecords, Ready, At
  <2>2. JobsOK'
    BY <2>1, NextJob
  <2> QED
    BY <1>2, <2>2, UnjoinedTypes DEF Unjoin, At, Job, Ready, fieldVars, playerVars, SonosTypeOK, FieldsOK, PlayersOK
<1>3. CASE Collect(w)
  <2>1. PICK j : Job(j) /\ job' = [job EXCEPT ![w] = j]
    BY <1>3 DEF Collect, Becomes, Job, JobRecords, Ready, At, Held, FieldsOK
  <2>2. JobsOK'
    BY <2>1, NextJob
  <2> QED
    BY <1>3, <2>2 DEF Collect, At, Job, Ready, fieldVars, playerVars, SonosTypeOK, FieldsOK, PlayersOK
<1>4. ASSUME NEW z \in Zones, Restore(w, z) PROVE SonosTypeOK'
  <2>1. PICK j : Job(j) /\ job' = [job EXCEPT ![w] = j]
    BY <1>4 DEF Restore, Becomes, Job, JobRecords, Ready, At
  <2>2. JobsOK'
    BY <2>1, NextJob
  <2> QED
    BY <1>4, <2>2 DEF Restore, At, Job, Ready, fieldVars, playerVars, SonosTypeOK, FieldsOK, PlayersOK
<1>5. CASE Clear(w)
  <2>1. Job([job[w] EXCEPT !.pc = "disband"])
    BY DEF Job, JobRecords, Ready
  <2>2. JobsOK'
    BY <1>5, <2>1, NextJob DEF Clear, Goto, Becomes
  <2> QED
    BY <1>5, <2>2 DEF Clear, playerVars, SonosTypeOK, FieldsOK, PlayersOK
<1>6. CASE Disband(w)
  <2>1. ASSUME NEW x \in Workers PROVE Job(job'[x])
    <3>1. Job(Detached(job[x]))
      BY JobAt DEF Detached, Job, JobRecords, Ready
    <3> QED BY <1>6, <3>1, IdleJob DEF Disband
  <2>2. JobsOK'
    BY <1>6, <2>1 DEF Disband, JobsOK, Job
  <2> QED
    BY <1>6, <2>2 DEF Disband, fieldVars, playerVars, SonosTypeOK, FieldsOK, PlayersOK
<1> QED BY <1>1, <1>2, <1>3, <1>4, <1>5, <1>6 DEF StopStep

(* watchdog_tick() and set_volume().                                       *)
LEMMA WatchdogTypes ==
  ASSUME SonosTypeOK, NEW w \in Workers, WatchdogStep(w)
  PROVE  SonosTypeOK'
<1>0. FieldsOK /\ PlayersOK /\ JobsOK /\ raised \subseteq Workers /\ Job(job[w])
  BY JobAt DEF SonosTypeOK
<1> USE <1>0, ControllerAssumption
<1>1. CASE Check(w)
  <2>1. PICK j : Job(j) /\ job' = [job EXCEPT ![w] = j]
    BY <1>1, IdleJob DEF Check, Becomes, Job, JobRecords, Ready, At, Return, Goto
  <2>2. JobsOK'
    BY <2>1, NextJob
  <2> QED
    BY <1>1, <2>2 DEF Check, At, Job, Ready, fieldVars, playerVars, SonosTypeOK, FieldsOK, PlayersOK
<1>2. CASE Transport(w)
  <2>1. PICK j : Job(j) /\ job' = [job EXCEPT ![w] = j]
    BY <1>2, IdleJob DEF Transport, Becomes, Job, JobRecords, Ready, At, Return, Goto
  <2>2. JobsOK'
    BY <2>1, NextJob
  <2> QED
    BY <1>2, <2>2 DEF Transport, At, Job, Ready, fieldVars, playerVars, SonosTypeOK, FieldsOK, PlayersOK
<1>3. CASE Reissue(w)
  <2>0. coordinator \in Zones
          => Job([job[w] EXCEPT !.pc = "group", !.target = coordinator])
    BY DEF Job, JobRecords, Ready
  <2>1. PICK j : Job(j) /\ job' = [job EXCEPT ![w] = j]
    BY <1>3, <2>0, IdleJob DEF Reissue, Raises, Becomes, Return, FieldsOK
  <2>2. JobsOK'
    BY <2>1, NextJob
  <2> QED
    BY <1>3, <2>2 DEF Reissue, Raises, At, Job, Ready, fieldVars, playerVars, SonosTypeOK, FieldsOK, PlayersOK
<1> QED BY <1>1, <1>2, <1>3 DEF WatchdogStep

(* A zone that does not give its name ends the call, and no more.          *)
LEMMA NameRaisesEnds ==
  ASSUME NEW w \in Workers, NameRaises(w)
  PROVE  /\ "name" \in MayFail
         /\ job' = [job EXCEPT ![w] = Idle]
         /\ raised' = raised \cup {w}
         /\ UNCHANGED <<fieldVars, playerVars>>
  BY DEF NameRaises, NamesRaise, PlayNameRaises, StopNameRaises, VolumeNameRaises,
         Raises, Return, Becomes, Fails

(* A step of any thread, whatever the others are doing.                    *)
LEMMA WorkerTypes ==
  ASSUME SonosTypeOK, NEW w \in Workers, WorkerStep(w)
  PROVE  SonosTypeOK'
<1>0. FieldsOK /\ PlayersOK /\ JobsOK /\ raised \subseteq Workers /\ Job(job[w])
  BY JobAt DEF SonosTypeOK
<1>1. CASE SetVolume(w)
  <2>1. PICK j : Job(j) /\ job' = [job EXCEPT ![w] = j]
    BY <1>1, IdleJob DEF SetVolume, Becomes, Return
  <2>2. JobsOK'
    BY <1>0, <2>1, NextJob
  <2>3. job[w].zone \in Zones /\ job[w].level \in Volumes
    BY <1>0, <1>1 DEF SetVolume, At, Job, Ready
  <2>4. PlayersOK'
    BY <1>0, <1>1, <2>3 DEF SetVolume, PlayersOK
  <2> QED
    BY <1>0, <1>1, <2>2, <2>4 DEF SetVolume, fieldVars, SonosTypeOK, FieldsOK
<1>2. CASE NameRaises(w)
  <2>1. JobsOK'
    BY <1>0, <1>2, NameRaisesEnds, IdleJob, NextJob
  <2> QED
    BY <1>0, <1>2, <2>1, NameRaisesEnds
    DEF fieldVars, playerVars, SonosTypeOK, FieldsOK, PlayersOK
<1> QED
  BY <1>1, <1>2, StartTypes, PlayTypes, StopTypes, WatchdogTypes DEF WorkerStep

(* What people and players do by themselves.                               *)
LEMMA PlayersTypes == SonosTypeOK /\ Players => SonosTypeOK'
  BY DEF Players, Wander, PlayOther, SonosTypeOK, FieldsOK, PlayersOK, JobsOK, Sounds,
     fieldVars

----------------------------------------------------------------------------
(* The event loop.                                                         *)
Inv == CoreTypeOK /\ HeldIffPlaying

(* The daemon begins in IDLE with the flag down.                           *)
LEMMA InitInv == Init => Inv
<1> SUFFICES ASSUME Init PROVE Inv
  OBVIOUS
<1>1. SonosTypeOK
  BY InitTypes DEF Init
<1>2. NeedleTypeOK
  BY DurationsAssumption DEF Init, NeedleInit, NeedleTypeOK, Phases
<1>3. HeldIffPlaying
  <2>1. phase \notin {"PLAYING", "GRACE"}  BY DEF Init, NeedleInit
  <2>2. ~active  BY DEF Init
  <2> QED  BY <2>1, <2>2 DEF HeldIffPlaying
<1>4. watchdogAge \in 0 .. WatchdogEvery /\ acts \in 0 .. MaxActs
  BY CoreAssumption DEF Init
<1> QED
  BY <1>1, <1>2, <1>3, <1>4 DEF Init, Inv, CoreTypeOK

(* The needle state machine's half of a step.                              *)
LEMMA UpdateTypes ==
  ASSUME NeedleTypeOK, NEW m \in BOOLEAN, Update(m)
  PROVE  NeedleTypeOK'
  BY DurationsAssumption
  DEF NeedleTypeOK, Phases, Update, Detected, Flickered, Sustained, WentQuiet,
      Returned, SideOver, NoTransition, needleVars

(* An update that commands nothing leaves the speakers held or free.       *)
LEMMA UpdateHeld ==
  ASSUME NEW m \in BOOLEAN, Update(m), HeldIffPlaying, active \in BOOLEAN,
         NeedleTypeOK, phase' = phase \/ ~Commands(phase'), UNCHANGED active
  PROVE  HeldIffPlaying'
  BY DEF HeldIffPlaying, NeedleTypeOK, Phases, Update, Detected, Flickered,
         Sustained, WentQuiet, Returned, SideOver, NoTransition, needleVars,
         Commands, Starts, Stops

(* A call handed to the pool keeps the types of its jobs.                  *)
LEMMA SubmitTypes ==
  ASSUME SonosTypeOK, NEW w \in Workers, NEW call, Job(call), Submit(w, call),
         UNCHANGED <<fieldVars, playerVars>>
  PROVE  SonosTypeOK'
<1>1. JobsOK'
  BY NextJob DEF Submit, SonosTypeOK
<1> QED
  BY <1>1 DEF Submit, SonosTypeOK, FieldsOK, PlayersOK, fieldVars, playerVars

(* A step that leaves the controller alone.                                *)
LEMMA UnchangedTypes ==
  ASSUME SonosTypeOK, UNCHANGED sonosVars
  PROVE  SonosTypeOK'
  BY DEF SonosTypeOK, FieldsOK, PlayersOK, JobsOK, sonosVars, fieldVars, playerVars

(* _apply hands over a start() or a stop().                                *)
LEMMA CommandTypes ==
  ASSUME SonosTypeOK, NEW w \in Workers, NEW ph, Command(w, ph),
         UNCHANGED <<fieldVars, playerVars>>
  PROVE  SonosTypeOK' /\ active' \in BOOLEAN
<1>1. PICK call : Job(call) /\ Submit(w, call)
  BY FirstJobs DEF Command, Issue
<1> QED
  BY <1>1, SubmitTypes DEF Command, Starts

(* A tick hands over a watchdog when it is due, and a worker is free.      *)
LEMMA WatchTypes ==
  ASSUME CoreTypeOK, NEW ph, Watch(ph), UNCHANGED <<fieldVars, playerVars>>
  PROVE  SonosTypeOK' /\ watchdogAge' \in 0 .. WatchdogEvery
<1>1. CASE UNCHANGED <<job, raised>>
  BY <1>1, UnchangedTypes, CoreAssumption DEF Watch, CoreTypeOK, sonosVars
<1>2. ASSUME NEW w \in Workers, Submit(w, WatchdogCall) PROVE SonosTypeOK'
  BY <1>2, FirstJobs, SubmitTypes DEF CoreTypeOK
<1>3. watchdogAge' \in 0 .. WatchdogEvery
  BY CoreAssumption DEF Watch, CoreTypeOK
<1> QED
  BY <1>1, <1>2, <1>3 DEF Watch, Free, IdleWorkers

(* The invariant is inductive: the flag moves with the phase.              *)
LEMMA StepInv == Inv /\ [Next]_vars => Inv'
<1> SUFFICES ASSUME Inv, [Next]_vars PROVE Inv'
  OBVIOUS
<1> USE DurationsAssumption, CoreAssumption
<1>0. /\ NeedleTypeOK /\ SonosTypeOK /\ HeldIffPlaying /\ CoreTypeOK
      /\ active \in BOOLEAN /\ music \in BOOLEAN /\ acts \in 0 .. MaxActs
      /\ ticking \in BOOLEAN /\ awaiting \in Workers \cup {NoWorker} /\ watchdogAge \in 0 .. WatchdogEvery
  BY DEF Inv, CoreTypeOK
<1> USE <1>0
<1>1. CASE Tick
  <2>1. NeedleTypeOK'  BY <1>1, UpdateTypes DEF Tick
  <2>2. SonosTypeOK' /\ watchdogAge' \in 0 .. WatchdogEvery
    BY <1>1, WatchTypes DEF Tick
  <2>3. HeldIffPlaying'  BY <1>1, UpdateHeld DEF Tick
  <2> QED  BY <1>1, <2>1, <2>2, <2>3 DEF Tick, Inv, CoreTypeOK
<1>2. ASSUME NEW w \in Workers, TickCommand(w) PROVE Inv'
  <2>1. NeedleTypeOK'  BY <1>2, UpdateTypes DEF TickCommand
  <2>2. SonosTypeOK' /\ active' \in BOOLEAN
    BY <1>2, CommandTypes DEF TickCommand
  <2>3. HeldIffPlaying'
    BY <1>2 DEF TickCommand, Command, Commands, Starts, Stops, HeldIffPlaying
  <2> QED  BY <1>2, <2>1, <2>2, <2>3 DEF TickCommand, Inv, CoreTypeOK
<1>3. CASE TickResume
  <2>1. SonosTypeOK' /\ watchdogAge' \in 0 .. WatchdogEvery
    BY <1>3, WatchTypes DEF TickResume
  <2> QED
    BY <1>3, <2>1 DEF TickResume, Inv, CoreTypeOK, NeedleTypeOK, HeldIffPlaying, needleVars
<1>14. CASE TickLoopEnds
  <2>1. SonosTypeOK'  BY <1>14, UnchangedTypes DEF TickLoopEnds
  <2> QED
    BY <1>14, <2>1 DEF TickLoopEnds, Inv, CoreTypeOK, NeedleTypeOK, HeldIffPlaying, needleVars
<1>4. ASSUME Click, phase' \in {"PLAYING", "IDLE"}, UNCHANGED <<sensingAge, graceAge>>
      PROVE  Inv'
  <2>1. CASE Commands(phase')
    <3>1. PICK w \in Workers : Command(w, phase')
      BY <1>4, <2>1 DEF Click
    <3>2. SonosTypeOK' /\ active' \in BOOLEAN
      BY <1>4, <3>1, CommandTypes DEF Click
    <3>3. HeldIffPlaying'
      BY <1>4, <2>1, <3>1 DEF Command, Commands, Starts, Stops, HeldIffPlaying
    <3> QED
      BY <1>4, <3>2, <3>3 DEF Click, Act, Inv, CoreTypeOK, NeedleTypeOK, Phases
  <2>2. CASE ~Commands(phase')
    <3>1. SonosTypeOK'
      BY <1>4, <2>2, UnchangedTypes DEF Click, sonosVars
    <3>2. HeldIffPlaying'
      BY <1>4, <2>2 DEF Click, Commands, Starts, Stops, HeldIffPlaying
    <3> QED
      BY <1>4, <2>2, <3>1, <3>2 DEF Click, Act, Inv, CoreTypeOK, NeedleTypeOK, Phases
  <2> QED  BY <2>1, <2>2
<1>5. CASE StartClicked
  BY <1>4, <1>5 DEF StartClicked, ManualStart
<1>6. CASE StopClicked
  BY <1>4, <1>6 DEF StopClicked, ManualStop
<1>7. CASE KeepClicked
  <2>1. SonosTypeOK'  BY <1>7, UnchangedTypes DEF KeepClicked
  <2> QED
    BY <1>7, <2>1 DEF KeepClicked, KeepPlaying, Act, Inv, CoreTypeOK, NeedleTypeOK,
         HeldIffPlaying
<1>8. ASSUME NEW w \in Workers, NEW z \in Zones, NEW v \in Volumes,
             VolumeClicked(w, z, v)
      PROVE  Inv'
  <2>1. SonosTypeOK'
    BY <1>8, FirstJobs, SubmitTypes DEF VolumeClicked, Issue
  <2> QED
    BY <1>8, <2>1 DEF VolumeClicked, Act, Inv, CoreTypeOK, NeedleTypeOK, needleVars,
         HeldIffPlaying
<1>9. CASE Clock
  <2>1. SonosTypeOK'  BY <1>9, UnchangedTypes DEF Clock
  <2> QED
    BY <1>9, <2>1 DEF Clock, Elapse, Later, Inv, CoreTypeOK, NeedleTypeOK,
         HeldIffPlaying
<1>10. CASE Listen
  <2>1. SonosTypeOK'  BY <1>10, UnchangedTypes DEF Listen
  <2> QED
    BY <1>10, <2>1 DEF Listen, needleVars, Inv, CoreTypeOK, NeedleTypeOK, HeldIffPlaying
<1>11. ASSUME NEW w \in Workers, Work(w) PROVE Inv'
  <2>1. SonosTypeOK'  BY <1>11, WorkerTypes DEF Work
  <2> QED
    BY <1>11, <2>1 DEF Work, needleVars, coreVars, Inv, CoreTypeOK, NeedleTypeOK,
         HeldIffPlaying
<1>12. CASE Others
  <2>1. SonosTypeOK'  BY <1>12, PlayersTypes DEF Others
  <2> QED
    BY <1>12, <2>1 DEF Others, Act, needleVars, Inv, CoreTypeOK, NeedleTypeOK,
         HeldIffPlaying
<1>13. CASE UNCHANGED vars
  <2>1. SonosTypeOK'  BY <1>13, UnchangedTypes DEF vars
  <2> QED
    BY <1>13, <2>1 DEF vars, coreVars, needleVars, Inv, CoreTypeOK, NeedleTypeOK,
         HeldIffPlaying
<1> QED
  BY <1>1, <1>2, <1>3, <1>5, <1>6, <1>7, <1>8, <1>9, <1>10, <1>11, <1>12, <1>13, <1>14
  DEF Next

(* No interleaving of the event loop and the pool leaves the types, and no *)
(* call uses a local variable that it has not assigned.                    *)
THEOREM TypesInvariant == Spec => []CoreTypeOK
<1>1. Inv => CoreTypeOK  BY DEF Inv
<1> QED  BY <1>1, InitInv, StepInv, PTL DEF Spec

(* Starts and stops alternate and the last one is the one the phase asks   *)
(* for, with any number of threads and calls in flight.                    *)
THEOREM HeldInvariant == Spec => []HeldIffPlaying
<1>1. Inv => HeldIffPlaying  BY DEF Inv
<1> QED  BY <1>1, InitInv, StepInv, PTL DEF Spec

----------------------------------------------------------------------------
(* The calls, line by line of their methods.                               *)

(* Each line of a call belongs to the method that has it.                  *)
Places(j) ==
  /\ j.pc \in {"halt", "unjoin", "restore", "disband"} => j.op = "stop"
  /\ j.pc \in {"check", "transport", "reissue"} => j.op = "watchdog"

(* What a thread's step may do to the rest: it keeps its own method or     *)
(* returns, it moves nobody else, only a stop() forgets the coordinator,   *)
(* and but for a name that cannot be had only a watchdog without a         *)
(* coordinator raises.                                                     *)
Moves(w) ==
  /\ \A x \in Workers \ {w} : job'[x].op = job[x].op /\ job'[x].pc = job[x].pc
  /\ job'[w].op \in {job[w].op, "none"}
  /\ Places(job[w]) => Places(job'[w])
  /\ job'[w].pc = "reissue" => coordinator' \in Zones
  /\ coordinator' = coordinator \/ coordinator' \in Zones \/ At(w, "restore")
  /\ raised' = raised \/ "name" \in MayFail \/ (At(w, "reissue") /\ coordinator = NoZone)

(* The steps that only move their own call.                                *)
LEMMA OwnMove ==
  ASSUME JobsOK, NEW w \in Workers, NEW j, job' = [job EXCEPT ![w] = j],
         j.op \in {job[w].op, "none"}, Places(job[w]) => Places(j),
         j.pc = "reissue" => coordinator \in Zones,
         UNCHANGED <<coordinator, raised>>
  PROVE  Moves(w)
  BY DEF JobsOK, Moves

(* start() stays on its own lines, and leaves the rest of the calls alone. *)
LEMMA StartMoves ==
  ASSUME SonosTypeOK, NEW w \in Workers, StartStep(w)
  PROVE  Moves(w)
<1>0. FieldsOK /\ JobsOK /\ job[w] \in JobRecords /\ Ready(job[w])
  BY DEF SonosTypeOK, JobsOK
<1> USE <1>0
<1> USE DEF JobRecords, Places, At, Becomes, Return, Goto, Idle, fieldVars
<1>1. CASE Discover(w)      BY <1>1, OwnMove DEF Discover
<1>2. ASSUME NEW z \in Zones, Probe(w, z) PROVE Moves(w)
  BY <1>2, OwnMove DEF Probe
<1>3. CASE EndProbe(w)      BY <1>3, OwnMove DEF EndProbe
<1>4. CASE Select(w)        BY <1>4, OwnMove DEF Select
<1>5. ASSUME NEW z \in Zones, Snapshot(w, z) PROVE Moves(w)
  BY <1>5, OwnMove DEF Snapshot
<1>6. CASE SetMaster(w)     BY <1>6, OwnMove DEF SetMaster
<1>7. CASE EndSnapshots(w)  BY <1>7, OwnMove DEF EndSnapshots
<1>8. CASE Adopt(w)
  BY <1>8 DEF Adopt, Moves, Ready
<1>12. CASE Enlist(w)
  BY <1>12 DEF Enlist, Detached, Moves, JobsOK
<1>9. ASSUME NEW z \in Zones, Join(w, z) PROVE Moves(w)
  BY <1>9, OwnMove DEF Join
<1>10. CASE AppendMember(w)
  BY <1>10 DEF AppendMember, Moves, JobsOK
<1>11. CASE EndStart(w)     BY <1>11, OwnMove DEF EndStart
<1> QED
  BY <1>1, <1>2, <1>3, <1>4, <1>5, <1>6, <1>7, <1>8, <1>9, <1>10, <1>11, <1>12
  DEF StartStep

(* So do the other methods; only stop() gives up the coordinator.          *)
LEMMA OtherMoves ==
  ASSUME SonosTypeOK, NEW w \in Workers,
         PlayStep(w) \/ StopStep(w) \/ WatchdogStep(w) \/ SetVolume(w)
  PROVE  Moves(w)
<1>0. FieldsOK /\ JobsOK /\ job[w] \in JobRecords /\ Ready(job[w])
  BY DEF SonosTypeOK, JobsOK
<1> USE <1>0, ControllerAssumption
<1> USE DEF JobRecords, Places, At, Becomes, Return, Goto, Idle, fieldVars
<1>1. CASE LeaveGroup(w)  BY <1>1, OwnMove DEF LeaveGroup
<1>13. CASE Ungroup(w)    BY <1>13, OwnMove DEF Ungroup
<1>2. CASE Play(w)        BY <1>2, OwnMove DEF Play
<1>3. CASE PlayRaises(w)  BY <1>3, OwnMove DEF PlayRaises
<1>4. CASE Halt(w)        BY <1>4, OwnMove DEF Halt
<1>5. ASSUME NEW z \in Zones, Unjoin(w, z) PROVE Moves(w)
  BY <1>5, OwnMove DEF Unjoin
<1>6. CASE Collect(w)     BY <1>6, OwnMove DEF Collect
<1>7. ASSUME NEW z \in Zones, Restore(w, z) PROVE Moves(w)
  BY <1>7, OwnMove DEF Restore
<1>8. CASE Clear(w)
  BY <1>8 DEF Clear, Moves
<1>14. CASE Disband(w)
  BY <1>14 DEF Disband, Detached, Moves, JobsOK
<1>9. CASE Check(w)       BY <1>9, OwnMove DEF Check
<1>10. CASE Transport(w)  BY <1>10, OwnMove DEF Transport, FieldsOK
<1>11. CASE Reissue(w)
  <2>1. CASE coordinator = NoZone
    BY <1>11, <2>1 DEF Reissue, Raises, Moves, JobsOK
  <2>2. CASE coordinator # NoZone
    <3>1. Places(job[w]) => Places([job[w] EXCEPT !.pc = "group", !.target = coordinator])
      BY <1>11
    <3> QED
      BY <1>11, <2>2, <3>1, OwnMove DEF Reissue
  <2> QED  BY <2>1, <2>2
<1>12. CASE SetVolume(w)  BY <1>12, OwnMove DEF SetVolume
<1> QED
  BY <1>1, <1>2, <1>3, <1>4, <1>5, <1>6, <1>7, <1>8, <1>9, <1>10, <1>11, <1>12, <1>13,
     <1>14
  DEF PlayStep, StopStep, WatchdogStep

(* Any step of a thread.                                                   *)
LEMMA WorkMoves ==
  ASSUME SonosTypeOK, NEW w \in Workers, WorkerStep(w)
  PROVE  Moves(w)
<1>1. CASE NameRaises(w)
  BY <1>1, NameRaisesEnds DEF Moves, Places, Idle, fieldVars, SonosTypeOK, JobsOK
<1> QED  BY <1>1, StartMoves, OtherMoves DEF WorkerStep

----------------------------------------------------------------------------
(* What the controller keeps to when a start() or stop() is only issued    *)
(* with no other call running, as long as clicks wait for their answers,   *)
(* and every zone gives its name when it is asked.                         *)
QuietAssumption ==
  Overlapping \cap {"start", "stop"} = {} /\ "name" \notin MayFail

(* While a stop() runs the session is over and nothing but volume calls    *)
(* runs beside it: no watchdog can see the coordinator go.                 *)
StopsAlone ==
  \A w \in Workers :
    job[w].op = "stop" =>
      ~active /\ \A x \in Workers \ {w} : job[x].op \in {"none", "set_volume"}

CoordinatorStays == \A w \in Workers : At(w, "reissue") => coordinator \in Zones

Tame ==
  /\ NeverRaises
  /\ \A w \in Workers : Places(job[w])
  /\ StopsAlone
  /\ CoordinatorStays

(* The step of a thread keeps the invariant.                               *)
LEMMA WorkTame ==
  ASSUME QuietAssumption, SonosTypeOK, Tame, NEW w \in Workers, WorkerStep(w),
         UNCHANGED active
  PROVE  Tame'
<1>1. Moves(w)
  BY WorkMoves
<1>2. NeverRaises'
  BY <1>1, ControllerAssumption DEF QuietAssumption, Moves, Tame, NeverRaises, CoordinatorStays
<1>3. \A x \in Workers : Places(job'[x])
  BY <1>1 DEF Moves, Tame, Places
<1>4. StopsAlone'
  BY <1>1 DEF Moves, Tame, StopsAlone
<1>5. CoordinatorStays'
  BY <1>1 DEF Moves, Tame, StopsAlone, CoordinatorStays, At, Places
<1> QED
  BY <1>2, <1>3, <1>4, <1>5 DEF Tame

(* The event loop hands a call to a free thread: a volume call at any      *)
(* time, a watchdog while the session is on.                               *)
LEMMA SubmitTame ==
  ASSUME SonosTypeOK, Tame, NEW w \in Workers, NEW j, Submit(w, j), Places(j),
         j.pc # "reissue", j.op \in {"set_volume", "watchdog"},
         j.op = "watchdog" => active,
         UNCHANGED <<coordinator, active>>
  PROVE  Tame'
<1>1. job' = [job EXCEPT ![w] = j] /\ job \in [Workers -> JobRecords]
  BY DEF Submit, SonosTypeOK, JobsOK
<1>2. NeverRaises'  BY DEF Tame, NeverRaises, Submit
<1>3. \A x \in Workers : Places(job'[x])
  BY <1>1 DEF Tame
<1>4. StopsAlone'
  BY <1>1 DEF Tame, StopsAlone
<1>5. CoordinatorStays'
  BY <1>1 DEF Tame, CoordinatorStays, At
<1> QED
  BY <1>2, <1>3, <1>4, <1>5 DEF Tame

(* A start() or a stop() is issued when no other call runs.                *)
LEMMA CommandTame ==
  ASSUME QuietAssumption, SonosTypeOK, Tame, NEW w \in Workers, NEW ph, Commands(ph),
         Command(w, ph), UNCHANGED coordinator
  PROVE  Tame'
<1>0. PICK call : /\ call \in {StartCall, StopCall}
                  /\ call = StopCall => ~Starts(ph)
                  /\ Issue(w, call)
  BY DEF Command, Call, StartCall, StopCall, Idle
<1>1. /\ Places(call) /\ call.pc # "reissue"
      /\ call.op \in {"start", "stop"}
      /\ call.op = "stop" => ~Starts(ph)
  BY <1>0 DEF Call, StartCall, StopCall, Idle, Places
<1>2. \A x \in Workers : job[x] = Idle
  <2>1. call.op \notin Overlapping
    BY <1>1 DEF QuietAssumption
  <2>2. Quiet
    BY <1>0, <2>1 DEF Issue
  <2> QED  BY <2>2 DEF Quiet, IdleWorkers
<1>3. job' = [job EXCEPT ![w] = call] /\ job \in [Workers -> JobRecords]
  BY <1>0 DEF Issue, Submit, SonosTypeOK, JobsOK
<1>4. Idle.op = "none" /\ Idle.pc = "idle"
  BY DEF Idle
<1>5. NeverRaises'  BY <1>0 DEF Tame, NeverRaises, Issue, Submit
<1>6. \A x \in Workers : Places(job'[x])
  BY <1>1, <1>3 DEF Tame
<1>7. StopsAlone'
  BY <1>1, <1>2, <1>3, <1>4 DEF StopsAlone, Command
<1>8. CoordinatorStays'
  BY <1>1, <1>2, <1>3, <1>4 DEF CoordinatorStays, At
<1> QED
  BY <1>5, <1>6, <1>7, <1>8 DEF Tame

(* A watchdog is handed over where the flag is set: no stop() runs there.  *)
LEMMA WatchTame ==
  ASSUME Inv, Tame, NEW ph, Watch(ph), ph = "PLAYING" => active,
         UNCHANGED <<coordinator, active>>
  PROVE  Tame'
<1>1. SonosTypeOK  BY DEF Inv, CoreTypeOK
<1>2. ASSUME NEW w \in Workers, Submit(w, WatchdogCall), ph = "PLAYING" PROVE Tame'
  <2>1. /\ Places(WatchdogCall) /\ WatchdogCall.pc # "reissue"
        /\ WatchdogCall.op = "watchdog"
    BY DEF WatchdogCall, Call, Idle, Places
  <2> QED  BY <1>1, <1>2, <2>1, SubmitTame
<1>3. CASE UNCHANGED <<job, raised>>
  BY <1>3 DEF Tame, NeverRaises, StopsAlone, CoordinatorStays, At
<1> QED
  BY <1>2, <1>3 DEF Watch, WatchdogDue, Free, IdleWorkers

(* Every step keeps it.                                                    *)
LEMMA StepTame ==
  ASSUME QuietAssumption, Inv, Inv', Tame, [Next]_vars
  PROVE  Tame'
<1>0. SonosTypeOK /\ HeldIffPlaying /\ HeldIffPlaying'
  BY DEF Inv, CoreTypeOK
<1> USE <1>0
<1>u. ASSUME UNCHANGED <<coordinator, job, raised, active>> PROVE Tame'
  BY <1>u DEF Tame, NeverRaises, StopsAlone, CoordinatorStays, At
<1>1. CASE Tick
  <2>1. phase' = "PLAYING" => active
    BY <1>1 DEF Tick, HeldIffPlaying
  <2> QED
    BY <1>1, <2>1, WatchTame DEF Tick, fieldVars
<1>2. ASSUME NEW w \in Workers, TickCommand(w) PROVE Tame'
  BY <1>2, CommandTame DEF TickCommand, fieldVars
<1>3. CASE TickResume
  <2>1. phase = "PLAYING" => active
    BY DEF HeldIffPlaying
  <2> QED
    BY <1>3, <2>1, WatchTame DEF TickResume, fieldVars
<1>13. CASE TickLoopEnds
  BY <1>13, <1>u DEF TickLoopEnds, sonosVars, fieldVars
<1>4. ASSUME Click PROVE Tame'
  <2>1. CASE Commands(phase')
    BY <1>4, <2>1, CommandTame DEF Click, fieldVars
  <2>2. CASE ~Commands(phase')
    BY <1>4, <2>2, <1>u DEF Click, fieldVars
  <2> QED  BY <2>1, <2>2
<1>5. CASE StartClicked \/ StopClicked
  BY <1>4, <1>5 DEF StartClicked, StopClicked
<1>6. CASE KeepClicked
  BY <1>6, <1>u DEF KeepClicked, sonosVars, fieldVars
<1>7. ASSUME NEW w \in Workers, NEW z \in Zones, NEW v \in Volumes,
             VolumeClicked(w, z, v)
      PROVE  Tame'
  <2>1. /\ Places(VolumeCall(z, v)) /\ VolumeCall(z, v).pc # "reissue"
        /\ VolumeCall(z, v).op = "set_volume"
    BY DEF VolumeCall, Call, Idle, Places
  <2> QED
    BY <1>7, <2>1, SubmitTame DEF VolumeClicked, Issue, fieldVars
<1>8. CASE Clock
  BY <1>8, <1>u DEF Clock, sonosVars, fieldVars
<1>9. CASE Listen
  BY <1>9, <1>u DEF Listen, sonosVars, fieldVars
<1>10. ASSUME NEW w \in Workers, Work(w) PROVE Tame'
  BY <1>10, WorkTame DEF Work, coreVars
<1>11. CASE Others
  BY <1>11, <1>u DEF Others, Players, Wander, PlayOther, fieldVars
<1>12. CASE UNCHANGED vars
  BY <1>12, <1>u DEF vars, coreVars, sonosVars, fieldVars
<1> QED
  BY <1>1, <1>2, <1>3, <1>5, <1>6, <1>7, <1>8, <1>9, <1>10, <1>11, <1>12, <1>13
  DEF Next

(* No call runs to begin with.                                             *)
LEMMA InitTame == Init => Tame
<1> SUFFICES ASSUME Init PROVE Tame
  OBVIOUS
<1>1. raised = {} /\ \A w \in Workers : job[w] = Idle
  BY DEF Init, SonosInit
<1>2. Idle.op = "none" /\ Idle.pc = "idle"
  BY DEF Idle
<1> QED
  BY <1>1, <1>2 DEF Tame, NeverRaises, Places, StopsAlone, CoordinatorStays, At

=============================================================================
