---------------------------- MODULE RoomsProofs ----------------------------
(***************************************************************************)
(* What needledrop does to the rooms, for every household, every number of *)
(* threads, every failure and every interleaving.                          *)
(***************************************************************************)
EXTENDS CoreProofs, CoreRestart

(* A step of the event loop is, for the rooms, the step of a thread, a call*)
(* that is handed to a thread, what people do to the players, or nothing.  *)
Handed(w, call) ==
  Submit(w, call) /\ UNCHANGED <<fieldVars, playerVars>>

Commanded(w, ph) ==
  Commands(ph) /\ Command(w, ph) /\ UNCHANGED <<fieldVars, playerVars>>

RoomStep ==
  \/ \E w \in Workers : WorkerStep(w) /\ UNCHANGED active
  \/ \E w \in Workers, ph \in Phases : Commanded(w, ph)
  \/ /\ active /\ phase' = "PLAYING"
     /\ \E w \in Workers : Handed(w, WatchdogCall)
     /\ UNCHANGED active
  \/ \E w \in Workers, z \in Zones, v \in Volumes :
       Issue(w, VolumeCall(z, v)) /\ Handed(w, VolumeCall(z, v)) /\ UNCHANGED active
  \/ Players /\ UNCHANGED active
  \/ UNCHANGED <<sonosVars, active>>

(* A tick that may be due for a watchdog.                                  *)
LEMMA WatchStep ==
  ASSUME NEW ph, Watch(ph), ph = "PLAYING" => active /\ phase' = "PLAYING",
         UNCHANGED <<fieldVars, playerVars, active>>
  PROVE  RoomStep
<1>1. ASSUME NEW w \in Free, Submit(w, WatchdogCall), ph = "PLAYING" PROVE RoomStep
  BY <1>1 DEF RoomStep, Handed, Free, IdleWorkers
<1>2. CASE UNCHANGED <<job, raised>>
  BY <1>2 DEF RoomStep, sonosVars
<1> QED  BY <1>1, <1>2 DEF Watch, WatchdogDue

(* Every step of Core is one of these.                                     *)
LEMMA CoreStep ==
  ASSUME Inv, Inv', [Next]_vars
  PROVE  RoomStep
<1>0. HeldIffPlaying /\ HeldIffPlaying' /\ phase' \in Phases
  BY DEF Inv, CoreTypeOK, NeedleTypeOK
<1>1. CASE Tick
  <2>1. phase' = "PLAYING" => active
    BY <1>0, <1>1 DEF Tick, HeldIffPlaying
  <2> QED  BY <1>1, <2>1, WatchStep DEF Tick
<1>2. ASSUME NEW w \in Workers, TickCommand(w) PROVE RoomStep
  BY <1>0, <1>2 DEF TickCommand, RoomStep, Commanded
<1>3. CASE TickResume
  <2>1. phase = "PLAYING" => active /\ phase' = "PLAYING"
    BY <1>0, <1>3 DEF TickResume, needleVars, HeldIffPlaying
  <2> QED  BY <1>3, <2>1, WatchStep DEF TickResume
<1>11. CASE TickLoopEnds
  BY <1>11 DEF TickLoopEnds, RoomStep
<1>4. ASSUME Click PROVE RoomStep
  <2>1. CASE Commands(phase')
    BY <1>0, <1>4, <2>1 DEF Click, RoomStep, Commanded
  <2>2. CASE ~Commands(phase')
    BY <1>4, <2>2 DEF Click, RoomStep, sonosVars
  <2> QED  BY <2>1, <2>2
<1>5. CASE StartClicked \/ StopClicked
  BY <1>4, <1>5 DEF StartClicked, StopClicked
<1>6. CASE KeepClicked \/ Clock \/ Listen
  BY <1>6 DEF KeepClicked, Clock, Listen, RoomStep
<1>7. ASSUME NEW w \in Workers, NEW z \in Zones, NEW v \in Volumes,
             VolumeClicked(w, z, v)
      PROVE  RoomStep
  BY <1>7 DEF VolumeClicked, Issue, RoomStep, Handed
<1>8. ASSUME NEW w \in Workers, Work(w) PROVE RoomStep
  BY <1>8 DEF Work, coreVars, RoomStep
<1>9. CASE Others
  BY <1>9 DEF Others, RoomStep
<1>10. CASE UNCHANGED vars
  BY <1>10 DEF vars, coreVars, RoomStep
<1> QED
  BY <1>1, <1>2, <1>3, <1>5, <1>6, <1>7, <1>8, <1>9, <1>10, <1>11 DEF Next

----------------------------------------------------------------------------
(* "Every ~10s in PLAYING: re-issue play" (sonos.py:177): no thread takes up*)
(* a watchdog outside PLAYING, or without a start() behind it, whatever    *)
(* calls overlap, fail or raise and whatever is clicked while the tick loop*)
(* awaits its command.                                                     *)
THEOREM WatchdogsInPlaying == Spec => WatchdogInPlaying
<1> DEFINE Taken(w) == job[w].op # "watchdog" /\ job'[w].op = "watchdog"
<1>1. Inv /\ Inv' /\ [Next]_vars =>
        [\A w \in Workers : job[w].op # "watchdog" /\ job'[w].op = "watchdog"
           => phase' = "PLAYING" /\ active']_vars
  <2> SUFFICES ASSUME Inv, Inv', [Next]_vars, NEW w \in Workers, Taken(w)
               PROVE  phase' = "PLAYING" /\ active'
    OBVIOUS
  <2>0. SonosTypeOK /\ job \in [Workers -> JobRecords]
    BY DEF Inv, CoreTypeOK, SonosTypeOK, JobsOK
  <2>1. RoomStep
    BY CoreStep
  <2>2. ASSUME NEW x \in Workers, WorkerStep(x) PROVE FALSE
    BY <2>0, <2>2, WorkMoves DEF Moves
  <2>3. ASSUME NEW x \in Workers, NEW call, Submit(x, call) PROVE call.op = "watchdog"
    BY <2>0, <2>3 DEF Submit
  <2>4. /\ StartCall.op = "start" /\ StopCall.op = "stop"
        /\ \A z \in Zones, v \in Volumes : VolumeCall(z, v).op = "set_volume"
    BY DEF StartCall, StopCall, VolumeCall, Call, Idle
  <2>5. ASSUME NEW x \in Workers, NEW ph, Command(x, ph) PROVE FALSE
    BY <2>3, <2>4, <2>5 DEF Command, Issue
  <2>6. CASE UNCHANGED job
    BY <2>6
  <2> QED
    BY <2>1, <2>2, <2>3, <2>4, <2>5, <2>6
    DEF RoomStep, Commanded, Handed, Players, Wander, PlayOther, sonosVars
<1> QED
  BY <1>1, InitInv, StepInv, PTL DEF Spec, WatchdogInPlaying

----------------------------------------------------------------------------
(* A group has a leader that plays for itself, and nobody else in it has   *)
(* anything on its own transport.                                          *)
Grouped ==
  \A z \in Zones :
    /\ leader[leader[z]] = leader[z]
    /\ leader[z] # z => sound[z] = "stopped"

(* What is busy stays busy, and nothing else becomes it.                   *)
SameBusy == \A z \in Zones : (Heard(z) = "other") <=> (Heard(z)' = "other")

(* A zone that leaves its group plays for itself, and nothing.             *)
LEMMA UnjoinedGroups ==
  ASSUME PlayersOK, Grouped, NEW z \in Zones, Unjoined(z)
  PROVE  Grouped' /\ (Heard(z) # "other" => SameBusy)
  BY DEF PlayersOK, Grouped, Unjoined, SameBusy, Heard, Sounds

(* A zone that joins another gives up what was on its own transport.       *)
LEMMA JoinedGroups ==
  ASSUME PlayersOK, Grouped, NEW z \in Zones, NEW c \in Zones, JoinedTo(z, c)
  PROVE  Grouped' /\ (Heard(z) # "other" /\ Heard(c) # "other" => SameBusy)
  BY DEF PlayersOK, Grouped, JoinedTo, SameBusy, Heard, Sounds

(* A leader's own transport is told to play or to stop.                    *)
LEMMA SoundGroups ==
  ASSUME PlayersOK, Grouped, NEW z \in Zones, leader[z] = z, NEW s \in Sounds,
         sound' = [sound EXCEPT ![z] = s], UNCHANGED leader
  PROVE  Grouped' /\ (Heard(z) # "other" /\ s # "other" => SameBusy)
  BY DEF PlayersOK, Grouped, SameBusy, Heard, Sounds

(* A step that leaves the players alone.                                   *)
LEMMA SameGroups ==
  ASSUME Grouped, UNCHANGED <<sound, leader>>
  PROVE  Grouped' /\ SameBusy
  BY DEF Grouped, SameBusy, Heard

(* The rooms that a call is about to stop, to group or to play on.         *)
Touches(j) ==
  j.cand \cup ({j.target} \ {NoZone})
    \cup (IF j.pc \in {"join", "append", "unjoin"} THEN j.todo ELSE {})
    \cup (IF j.pc = "append" THEN {j.zone} ELSE {})

(* None of them is busy, and neither is a room of the session.             *)
FreeRooms ==
  /\ \A z \in Held : Heard(z) # "other"
  /\ \A w \in Workers : \A z \in Touches(job[w]) : Heard(z) # "other"

(* A step that only moves the call of its own thread.                      *)
OnlyMoves(w) ==
  /\ \A x \in Workers \ {w} : job'[x] = job[x]
  /\ UNCHANGED <<coordinator, members>>

(* A call that goes on with rooms it had, or with rooms that are free.     *)
LEMMA FreeMove ==
  ASSUME SonosTypeOK, SonosTypeOK', FreeRooms, SameBusy, NEW w \in Workers, OnlyMoves(w),
         \A z \in Touches(job'[w]) : z \in Touches(job[w]) \cup Held \/ Heard(z) # "other"
  PROVE  FreeRooms'
<1>1. /\ \A x \in Workers : Touches(job[x]) \subseteq Zones /\ Touches(job'[x]) \subseteq Zones
      /\ Held \subseteq Zones /\ Held' = Held
  BY DEF SonosTypeOK, FieldsOK, JobsOK, JobRecords, Ready, Touches, Held, OnlyMoves
<1>2. ASSUME NEW x \in Workers, NEW z \in Touches(job'[x]) PROVE Heard(z)' # "other"
  BY <1>1, <1>2 DEF FreeRooms, SameBusy, OnlyMoves
<1> QED  BY <1>1, <1>2 DEF FreeRooms, SameBusy

(* A busy room answers that it is.                                         *)
LEMMA BusyAnswer ==
  ASSUME DontInterruptBusy = TRUE, NEW z \in Zones, NEW busy \in BusyAnswers(z),
         Heard(z) = "other"
  PROVE  busy
<1>1. BusyAnswers(z) = {TRUE}
  BY DEF BusyAnswers
<1>2. busy = TRUE
  BY <1>1
<1> QED  BY <1>2

(* start() only takes rooms that it has found free.                        *)
LEMMA StartFree ==
  ASSUME SonosTypeOK, Grouped, FreeRooms, DontInterruptBusy = TRUE,
         NEW w \in Workers, StartStep(w)
  PROVE  Grouped' /\ SameBusy /\ FreeRooms'
<1>0. /\ FieldsOK /\ PlayersOK /\ JobsOK /\ SonosTypeOK'
      /\ job \in [Workers -> JobRecords] /\ job[w] \in JobRecords /\ Ready(job[w])
  BY StartTypes DEF SonosTypeOK, JobsOK
<1> USE <1>0
<1>1. ASSUME UNCHANGED <<sound, leader>>, OnlyMoves(w),
             \A z \in Touches(job'[w]) : z \in Touches(job[w]) \cup Held \/ Heard(z) # "other"
      PROVE  Grouped' /\ SameBusy /\ FreeRooms'
  BY <1>1, SameGroups, FreeMove
<1> USE DEF JobRecords, Touches, At, Becomes, fieldVars, playerVars, OnlyMoves
<1>2. CASE Discover(w)
  BY <1>1, <1>2 DEF Discover
<1>3. ASSUME NEW z \in Zones, Probe(w, z) PROVE Grouped' /\ SameBusy /\ FreeRooms'
  <2>2. /\ job'[w].cand \subseteq job[w].cand \cup {z}
        /\ Heard(z) = "other" => job'[w].cand = job[w].cand
        /\ job'[w].target = job[w].target /\ job'[w].pc = "probe"
    <3>1. \/ job'[w] = [job[w] EXCEPT !.todo = @ \ {z}]
          \/ job'[w] = [job[w] EXCEPT !.todo = @ \ {z}, !.busy = @ \cup {z}]
          \/ /\ Heard(z) # "other"
             /\ job'[w] = [job[w] EXCEPT !.todo = @ \ {z}, !.cand = @ \cup {z}]
      <4>1. CASE job' = [job EXCEPT ![w] = [job[w] EXCEPT !.todo = @ \ {z}]]
        BY <4>1
      <4>2. ASSUME NEW busy \in BusyAnswers(z),
                   job' = [job EXCEPT ![w] =
                             IF busy
                             THEN [job[w] EXCEPT !.todo = @ \ {z}, !.busy = @ \cup {z}]
                             ELSE [job[w] EXCEPT !.todo = @ \ {z}, !.cand = @ \cup {z}]]
            PROVE  <3>1!1 \/ <3>1!2 \/ <3>1!3
        <5>1. busy \/ Heard(z) # "other"
          BY <4>2, BusyAnswer
        <5>2. CASE busy
          BY <4>2, <5>2
        <5>3. CASE ~busy
          BY <4>2, <5>1, <5>3
        <5> QED  BY <5>2, <5>3
      <4> QED  BY <1>3, <4>1, <4>2 DEF Probe
    <3>2. job[w].pc = "probe"
      BY <1>3 DEF Probe
    <3> QED  BY <3>1, <3>2
  <2>3. /\ Touches(job'[w]) \subseteq Touches(job[w]) \cup {z}
        /\ Heard(z) = "other" => Touches(job'[w]) \subseteq Touches(job[w])
    BY <2>2
  <2>4. OnlyMoves(w) /\ UNCHANGED <<sound, leader>>
    BY <1>3 DEF Probe
  <2> QED  BY <1>1, <2>3, <2>4
<1>4. CASE EndProbe(w)
  <2>1. job'[w] = Idle \/ job'[w] = [job[w] EXCEPT !.pc = "select", !.busy = {}]
    BY <1>4 DEF EndProbe, Return
  <2>2. Touches(job'[w]) \subseteq Touches(job[w])
    <3>1. Touches(Idle) = {}
      BY DEF Idle
    <3>2. Touches([job[w] EXCEPT !.pc = "select", !.busy = {}]) \subseteq Touches(job[w])
      OBVIOUS
    <3> QED  BY <2>1, <3>1, <3>2
  <2> QED  BY <1>1, <1>4, <2>2 DEF EndProbe, Return
<1>5. CASE Select(w)
  BY <1>1, <1>5 DEF Select, Coordinators
<1>6. ASSUME NEW z \in Zones, Snapshot(w, z) PROVE Grouped' /\ SameBusy /\ FreeRooms'
  <2>1. /\ job'[w].pc \in {"snapshot", "master"}
        /\ job'[w].cand = job[w].cand /\ job'[w].target = job[w].target
    <3>1. \/ job'[w] = [job[w] EXCEPT !.todo = @ \ {z}]
          \/ job'[w] = [job[w] EXCEPT !.todo = @ \ {z}, !.pc = "master", !.zone = z]
      BY <1>6 DEF Snapshot
    <3>2. job[w].pc = "snapshot"
      BY <1>6 DEF Snapshot
    <3> QED  BY <3>1, <3>2
  <2>2. Touches(job'[w]) \subseteq Touches(job[w])
    BY <2>1
  <2> QED  BY <1>1, <1>6, <2>2 DEF Snapshot
<1>7. CASE SetMaster(w)
  BY <1>1, <1>7 DEF SetMaster
<1>8. CASE EndSnapshots(w)
  BY <1>1, <1>8 DEF EndSnapshots, Goto
<1>9. CASE Adopt(w) \/ Enlist(w)
  <2>1. Grouped' /\ SameBusy
    BY <1>9, SameGroups DEF Adopt, Enlist
  <2>2. \A z \in Held' : z \in Held \cup Touches(job[w])
    BY <1>9 DEF Adopt, Enlist, Held, Ready
  <2>3. \A x \in Workers : Touches(job'[x]) \subseteq Touches(job[x])
    <3>1. CASE Adopt(w)
      BY <3>1 DEF Adopt, Goto
    <3>2. CASE Enlist(w)
      BY <3>2 DEF Enlist, Detached, JobsOK
    <3> QED  BY <1>9, <3>1, <3>2
  <2>4. Held \subseteq Zones /\ \A x \in Workers : Touches(job[x]) \subseteq Zones
    BY DEF JobsOK, Ready, Held, FieldsOK
  <2> QED  BY <2>1, <2>2, <2>3, <2>4 DEF FreeRooms, SameBusy
<1>10. ASSUME NEW z \in Zones, Join(w, z) PROVE Grouped' /\ SameBusy /\ FreeRooms'
  <2>1. z \in Touches(job[w]) /\ job[w].target \in Touches(job[w]) /\ job[w].target \in Zones
    BY <1>10, ControllerAssumption DEF Join, Ready
  <2>2. Grouped' /\ SameBusy
    BY <1>10, <2>1, JoinedGroups, SameGroups DEF Join, FreeRooms
  <2>3. /\ job'[w].pc \in {"join", "append"} /\ job'[w].todo \subseteq job[w].todo
        /\ job'[w].pc = "append" => job'[w].zone = z
        /\ job'[w].cand = job[w].cand /\ job'[w].target = job[w].target
    <3>1. \/ job'[w] = [job[w] EXCEPT !.todo = @ \ {z}]
          \/ job'[w] = [job[w] EXCEPT !.pc = "append", !.todo = @ \ {z}, !.zone = z]
      BY <1>10 DEF Join
    <3>2. job[w].pc = "join"
      BY <1>10 DEF Join
    <3>3. CASE job'[w] = [job[w] EXCEPT !.todo = @ \ {z}]
      BY <3>2, <3>3
    <3>4. CASE job'[w] = [job[w] EXCEPT !.pc = "append", !.todo = @ \ {z}, !.zone = z]
      BY <3>4
    <3> QED  BY <3>1, <3>3, <3>4
  <2>4. OnlyMoves(w)
    BY <1>10 DEF Join
  <2>5. Touches(job'[w]) \subseteq Touches(job[w])
    BY <1>10, <2>3 DEF Join
  <2> QED  BY <2>2, <2>4, <2>5, FreeMove
<1>11. CASE AppendMember(w)
  <2>1. Grouped' /\ SameBusy
    BY <1>11, SameGroups DEF AppendMember
  <2>2. Held' \subseteq Held \cup Touches(job[w]) /\ Held \subseteq Zones
    BY <1>11 DEF AppendMember, Held, FieldsOK
  <2>3. \A x \in Workers : Touches(job'[x]) \subseteq Touches(job[x]) \cup Touches(job[w])
    BY <1>11 DEF AppendMember, JobsOK
  <2>4. \A x \in Workers : Touches(job[x]) \subseteq Zones
    BY DEF JobsOK, Ready
  <2> QED  BY <2>1, <2>2, <2>3, <2>4 DEF FreeRooms, SameBusy
<1>12. CASE EndStart(w)
  BY <1>1, <1>12 DEF EndStart, Return, Idle
<1> QED
  BY <1>2, <1>3, <1>4, <1>5, <1>6, <1>7, <1>8, <1>9, <1>10, <1>11, <1>12 DEF StartStep

(* The rest of the calls only play on, stop and ungroup such rooms.        *)
LEMMA OtherFree ==
  ASSUME SonosTypeOK, Grouped, FreeRooms, NEW w \in Workers,
         PlayStep(w) \/ StopStep(w) \/ WatchdogStep(w) \/ SetVolume(w)
  PROVE  Grouped' /\ SameBusy /\ FreeRooms'
<1>0. /\ FieldsOK /\ PlayersOK /\ JobsOK /\ SonosTypeOK'
      /\ job \in [Workers -> JobRecords] /\ job[w] \in JobRecords /\ Ready(job[w])
  BY PlayTypes, StopTypes, WatchdogTypes, WorkerTypes DEF SonosTypeOK, JobsOK, WorkerStep
<1> USE <1>0
<1>1. ASSUME Grouped', SameBusy, OnlyMoves(w),
             \A z \in Touches(job'[w]) : z \in Touches(job[w]) \cup Held
      PROVE  Grouped' /\ SameBusy /\ FreeRooms'
  BY <1>1, FreeMove
<1>2. ASSUME UNCHANGED <<sound, leader>>, OnlyMoves(w),
             \A z \in Touches(job'[w]) : z \in Touches(job[w]) \cup Held
      PROVE  Grouped' /\ SameBusy /\ FreeRooms'
  BY <1>1, <1>2, SameGroups
<1>i. Touches(Idle) = {}
  BY DEF Touches, Idle
<1> USE DEF At, Becomes, Return, Goto, fieldVars, playerVars, OnlyMoves
<1>p. ASSUME job'[w] \in {[job[w] EXCEPT !.pc = "play", !.try = 1],
                          [job[w] EXCEPT !.pc = "ungroup"]}
      PROVE  Touches(job'[w]) \subseteq Touches(job[w])
  BY <1>p DEF Touches, JobRecords
<1>3. CASE LeaveGroup(w)
  <2>1. job'[w] \in {[job[w] EXCEPT !.pc = "play", !.try = 1],
                     [job[w] EXCEPT !.pc = "ungroup"]}
    BY <1>3 DEF LeaveGroup
  <2> QED  BY <1>2, <1>3, <1>p, <2>1 DEF LeaveGroup
<1>15. CASE Ungroup(w)
  <2>1. job[w].target \in Zones /\ job[w].target \in Touches(job[w])
    BY <1>15, ControllerAssumption DEF Ungroup, Ready, Touches
  <2>2. Grouped' /\ SameBusy
    BY <1>15, <2>1, UnjoinedGroups, SameGroups DEF Ungroup, FreeRooms
  <2>3. job'[w] = [job[w] EXCEPT !.pc = "play", !.try = 1]
    BY <1>15 DEF Ungroup
  <2> QED  BY <1>1, <1>15, <1>p, <2>2, <2>3 DEF Ungroup
<1>4. CASE Play(w)
  <2>1. job[w].target \in Zones /\ job[w].target \in Touches(job[w])
    BY <1>4, ControllerAssumption DEF Play, Ready, Touches
  <2>2. Grouped' /\ SameBusy
    BY <1>4, <2>1, SoundGroups DEF Play, FreeRooms, LeadsItself, Sounds
  <2>3. job'[w] = [job[w] EXCEPT !.pc = "adopt", !.try = 0] \/ job'[w] = Idle
    BY <1>4 DEF Play
  <2>4. Touches([job[w] EXCEPT !.pc = "adopt", !.try = 0]) \subseteq Touches(job[w])
    BY DEF Touches, JobRecords
  <2> QED  BY <1>1, <1>4, <1>i, <2>2, <2>3, <2>4 DEF Play
<1>5. CASE PlayRaises(w)
  <2>1. job'[w] = [job[w] EXCEPT !.try = @ + 1] \/ job'[w] = Idle
    BY <1>5 DEF PlayRaises
  <2>2. Touches([job[w] EXCEPT !.try = @ + 1]) \subseteq Touches(job[w])
    BY DEF Touches, JobRecords
  <2> QED  BY <1>2, <1>5, <1>i, <2>1, <2>2 DEF PlayRaises
<1>6. CASE Halt(w)
  <2>1. LeadsItself(coordinator) => coordinator \in Held
    BY ControllerAssumption DEF LeadsItself, Held
  <2>2. Grouped' /\ SameBusy
    BY <1>6, <2>1, SoundGroups, SameGroups DEF Halt, FreeRooms, LeadsItself, Sounds
  <2>3. job'[w] = [job[w] EXCEPT !.pc = "unjoin", !.todo = members, !.live = TRUE]
    BY <1>6 DEF Halt
  <2>4. members \subseteq Held
    BY ControllerAssumption DEF Held, FieldsOK
  <2>5. Touches(job'[w]) \subseteq Touches(job[w]) \cup Held
    BY <2>3, <2>4 DEF Touches, JobRecords
  <2> QED  BY <1>1, <1>6, <2>2, <2>5 DEF Halt
<1>7. ASSUME NEW z \in Zones, Unjoin(w, z) PROVE Grouped' /\ SameBusy /\ FreeRooms'
  <2>1. z \in Touches(job[w])
    BY <1>7 DEF Unjoin, Touches
  <2>2. Grouped' /\ SameBusy
    BY <1>7, <2>1, UnjoinedGroups, SameGroups DEF Unjoin, FreeRooms
  <2>3. job'[w] = [job[w] EXCEPT !.todo = @ \ {z}]
    BY <1>7 DEF Unjoin
  <2>4. Touches(job'[w]) \subseteq Touches(job[w])
    BY <2>3 DEF Touches, JobRecords
  <2> QED  BY <1>1, <1>7, <2>2, <2>4 DEF Unjoin
<1>8. CASE Collect(w)
  <2>1. job'[w] = [job[w] EXCEPT !.pc = "restore", !.todo = Held, !.live = FALSE]
    BY <1>8 DEF Collect
  <2>2. Touches(job'[w]) \subseteq Touches(job[w])
    BY <2>1 DEF Touches, JobRecords
  <2> QED  BY <1>2, <1>8, <2>2 DEF Collect
<1>9. ASSUME NEW z \in Zones, Restore(w, z) PROVE Grouped' /\ SameBusy /\ FreeRooms'
  <2>1. job'[w] = [job[w] EXCEPT !.todo = @ \ {z}]
    BY <1>9 DEF Restore
  <2>2. Touches(job'[w]) \subseteq Touches(job[w])
    BY <2>1 DEF Touches, JobRecords
  <2> QED  BY <1>2, <1>9, <2>2 DEF Restore
<1>10. CASE Clear(w) \/ Disband(w)
  <2>1. Grouped' /\ SameBusy
    BY <1>10, SameGroups DEF Clear, Disband
  <2>2. Held' \subseteq Held
    BY <1>10 DEF Clear, Disband, Held
  <2>3. ASSUME NEW x \in Workers PROVE Touches(job'[x]) \subseteq Touches(job[x])
    <3>1. Touches(Detached(job[x])) \subseteq Touches(job[x])
      BY DEF Touches, Detached, JobRecords, JobsOK
    <3>2. Touches([job[w] EXCEPT !.pc = "disband"]) \subseteq Touches(job[w])
      BY DEF Touches, JobRecords
    <3> QED  BY <1>10, <1>i, <3>1, <3>2 DEF Clear, Disband
  <2>4. Held \subseteq Zones /\ \A x \in Workers : Touches(job[x]) \subseteq Zones
    BY DEF JobsOK, Ready, Touches, JobRecords, Held, FieldsOK
  <2> QED  BY <2>1, <2>2, <2>3, <2>4 DEF FreeRooms, SameBusy
<1>11. CASE Check(w)
  <2>1. job'[w] = Idle \/ job'[w] = [job[w] EXCEPT !.pc = "transport"]
    BY <1>11 DEF Check
  <2>2. Touches([job[w] EXCEPT !.pc = "transport"]) \subseteq Touches(job[w])
    BY DEF Touches, JobRecords
  <2> QED  BY <1>2, <1>11, <1>i, <2>1, <2>2 DEF Check
<1>12. CASE Transport(w)
  <2>1. job'[w] = Idle \/ job'[w] = [job[w] EXCEPT !.pc = "reissue"]
    BY <1>12 DEF Transport
  <2>2. Touches([job[w] EXCEPT !.pc = "reissue"]) \subseteq Touches(job[w])
    BY DEF Touches, JobRecords
  <2> QED  BY <1>2, <1>12, <1>i, <2>1, <2>2 DEF Transport
<1>13. CASE Reissue(w)
  <2>1. \/ job'[w] = Idle
        \/ /\ job'[w] = [job[w] EXCEPT !.pc = "group", !.target = coordinator]
           /\ coordinator # NoZone
    BY <1>13 DEF Reissue, Raises
  <2>2. coordinator # NoZone => coordinator \in Held
    BY DEF Held
  <2>3. Touches(job'[w]) \subseteq Touches(job[w]) \cup Held
    <3>1. Touches([job[w] EXCEPT !.pc = "group", !.target = coordinator])
            \subseteq Touches(job[w]) \cup {coordinator}
      BY DEF Touches, JobRecords
    <3> QED  BY <1>i, <2>1, <2>2, <3>1
  <2> QED  BY <1>2, <1>13, <2>3 DEF Reissue, Raises
<1>14. CASE SetVolume(w)
  BY <1>2, <1>14, <1>i DEF SetVolume
<1> QED
  BY <1>3, <1>4, <1>5, <1>6, <1>7, <1>8, <1>9, <1>10, <1>11, <1>12, <1>13, <1>14, <1>15
  DEF PlayStep, StopStep, WatchdogStep

(* A room that drifts off the stream is not a busy one.                    *)
LEMMA PlayersFree ==
  ASSUME SonosTypeOK, Grouped, FreeRooms, "play_other" \notin UserOps, Players
  PROVE  Grouped' /\ SameBusy /\ FreeRooms'
<1>1. PICK z \in Zones : Wander(z)
  BY DEF Players, PlayOther
<1>2. leader[z] = z /\ Heard(z) # "other"
  BY <1>1 DEF Wander, Grouped, Heard
<1>3. Grouped' /\ SameBusy
  BY <1>1, <1>2, SoundGroups DEF Wander, SonosTypeOK, Sounds
<1>4. Held' = Held /\ job' = job /\ Held \subseteq Zones
  BY <1>1 DEF Wander, fieldVars, Held, SonosTypeOK, FieldsOK
<1>5. \A w \in Workers : Touches(job[w]) \subseteq Zones
  BY DEF SonosTypeOK, JobsOK, JobRecords, Ready, Touches
<1> QED  BY <1>3, <1>4, <1>5 DEF FreeRooms, SameBusy

(* A call that is handed over touches nothing yet.                         *)
LEMMA CallsTouch ==
  /\ Touches(StartCall) = {} /\ Touches(StopCall) = {} /\ Touches(WatchdogCall) = {}
  /\ \A z \in Zones, v \in Volumes : Touches(VolumeCall(z, v)) = {}
<1> USE DEF Call, Idle, Touches
<1>1. Touches(StartCall) = {} /\ Touches(StopCall) = {} /\ Touches(WatchdogCall) = {}
  BY DEF StartCall, StopCall, WatchdogCall
<1>2. \A z \in Zones, v \in Volumes : Touches(VolumeCall(z, v)) = {}
  BY DEF VolumeCall
<1> QED  BY <1>1, <1>2

(* Every step keeps busy rooms busy, and the calls off them.               *)
LEMMA FreeStep ==
  ASSUME SonosTypeOK, SonosTypeOK', Grouped, FreeRooms, RoomStep,
         DontInterruptBusy = TRUE, "play_other" \notin UserOps
  PROVE  Grouped' /\ SameBusy /\ FreeRooms'
<1>1. ASSUME NEW w \in Workers, WorkerStep(w) PROVE Grouped' /\ SameBusy /\ FreeRooms'
  <2>1. CASE NameRaises(w)
    <3>1. Grouped' /\ SameBusy
      BY <2>1, NameRaisesEnds, SameGroups DEF playerVars
    <3>2. OnlyMoves(w) /\ Touches(job'[w]) = {}
      BY <2>1, NameRaisesEnds
      DEF OnlyMoves, fieldVars, SonosTypeOK, JobsOK, Touches, Idle
    <3> QED  BY <3>1, <3>2, FreeMove
  <2> QED  BY <1>1, <2>1, StartFree, OtherFree DEF WorkerStep
<1>2. ASSUME NEW w \in Workers, NEW call, Touches(call) = {}, Handed(w, call)
      PROVE  Grouped' /\ SameBusy /\ FreeRooms'
  <2>1. Grouped' /\ SameBusy
    BY <1>2, SameGroups DEF Handed, playerVars
  <2>2. OnlyMoves(w) /\ Touches(job'[w]) = {}
    BY <1>2 DEF Handed, Submit, OnlyMoves, fieldVars, SonosTypeOK, JobsOK
  <2> QED  BY <2>1, <2>2, FreeMove
<1>3. ASSUME NEW w \in Workers, NEW ph, Commanded(w, ph)
      PROVE  Grouped' /\ SameBusy /\ FreeRooms'
  BY <1>2, <1>3, CallsTouch DEF Commanded, Command, Issue, Handed
<1>4. CASE Players
  BY <1>4, PlayersFree
<1>5. CASE UNCHANGED sonosVars
  BY <1>5, SameGroups DEF sonosVars, fieldVars, playerVars, FreeRooms, Held, Heard
<1> QED
  BY <1>1, <1>2, <1>3, <1>4, <1>5, CallsTouch DEF RoomStep

(* Neither a session nor a call has any room to begin with.                *)
LEMMA FreeInit == Init => Grouped /\ FreeRooms
<1> SUFFICES ASSUME Init PROVE Grouped /\ FreeRooms
  OBVIOUS
<1>1. Grouped
  BY DEF Init, SonosInit, PlayersInit, Grouped
<1>2. Held = {}
  BY DEF Init, SonosInit, Held
<1>3. \A w \in Workers : Touches(job[w]) = {}
  BY DEF Init, SonosInit, Touches, Idle
<1> QED  BY <1>1, <1>2, <1>3 DEF FreeRooms

(* README, dont_interrupt_busy: "Rooms already playing something else get  *)
(* skipped".  Whatever calls overlap and fail, what a room was playing when*)
(* needledrop came is never silenced or replaced.                          *)
THEOREM BusyIsLeftAlone ==
  ASSUME DontInterruptBusy = TRUE, "play_other" \notin UserOps
  PROVE  Spec => BusyLeftAlone
<1>1. Inv /\ Inv' /\ Grouped /\ FreeRooms /\ [Next]_vars
        => Grouped' /\ SameBusy /\ FreeRooms'
  BY CoreStep, FreeStep DEF Inv, CoreTypeOK
<1>2. SameBusy => [\A z \in Zones : Heard(z) = "other" => Heard(z)' = "other"]_vars
  BY DEF SameBusy
<1> QED
  BY <1>1, <1>2, InitInv, StepInv, FreeInit, PTL DEF Spec, BusyLeftAlone

----------------------------------------------------------------------------
(* The end of a process, and the next one, which remembers nothing.        *)
LEMMA RestartInv == Inv /\ Restart => Inv'
<1> SUFFICES ASSUME Inv, Restart PROVE Inv'
  OBVIOUS
<1> USE DurationsAssumption, CoreAssumption DEF Restart
<1>1. JobsOK'
  BY IdleJob DEF JobsOK, Job, Ready
<1>2. FieldsOK'
  BY DEF FieldsOK, NoInfo, Info
<1>3. PlayersOK'
  BY DEF Inv, CoreTypeOK, SonosTypeOK, PlayersOK, Sounds
<1>4. NeedleTypeOK' /\ HeldIffPlaying'
  BY DEF NeedleTypeOK, HeldIffPlaying, Phases
<1>5. watchdogAge' \in 0 .. WatchdogEvery /\ acts' \in 0 .. MaxActs
  BY DEF Inv, CoreTypeOK
<1> QED
  BY <1>1, <1>2, <1>3, <1>4, <1>5 DEF Inv, CoreTypeOK, SonosTypeOK

(* A step of the system is one of a process, or a process ends.            *)
LEMMA RestartOrStep == [RestartNext]_restartVars => [Next]_vars \/ Restart
  BY DEF RestartNext, restartVars

(* Types and the flag, in every process.                                   *)
LEMMA RestartStepInv == Inv /\ [RestartNext]_restartVars => Inv'
  BY RestartInv, RestartOrStep, StepInv

(* The dashboard's flag of a session, _sonos_active, follows the phase in  *)
(* every process that is started again, whatever the one before was doing, *)
(* and all the state keeps its types.                                      *)
THEOREM StateAcrossRestarts ==
  RestartSpec => []CoreTypeOK /\ []HeldIffPlaying
<1>1. RestartInit => Inv
  BY InitInv DEF RestartInit
<1>2. Inv => CoreTypeOK /\ HeldIffPlaying
  BY DEF Inv
<1> QED  BY <1>1, <1>2, RestartStepInv, PTL DEF RestartSpec

(* The groups stay as they are, and so does what other people hear.        *)
LEMMA RestartKeeps ==
  ASSUME Inv, Grouped, Restart
  PROVE  Grouped' /\ SameBusy /\ FreeRooms'
<1> USE DEF Restart
<1>1. Grouped' /\ SameBusy
  BY DEF Inv, CoreTypeOK, SonosTypeOK, PlayersOK, Grouped, SameBusy, Heard, Sounds
<1>2. Held' = {}
  BY DEF Held
<1>3. \A w \in Workers : Touches(job'[w]) = {}
  BY DEF Touches, Idle
<1> QED
  BY <1>1, <1>2, <1>3 DEF FreeRooms

(* Busy rooms are left alone as well when the process ends in the middle of*)
(* anything and the next one finds its predecessor's groups, any number of *)
(* times.                                                                  *)
THEOREM BusyAcrossRestarts ==
  ASSUME DontInterruptBusy = TRUE, "play_other" \notin UserOps
  PROVE  RestartSpec => BusyLeftAlone
<1> DEFINE RestartFree == Inv /\ Grouped /\ FreeRooms
<1>1. RestartInit => RestartFree
  BY InitInv, FreeInit DEF RestartInit
<1>2. RestartFree /\ [Next]_vars => RestartFree' /\ SameBusy
  BY StepInv, CoreStep, FreeStep DEF Inv, CoreTypeOK
<1>3. RestartFree /\ Restart => RestartFree' /\ SameBusy
  BY RestartInv, RestartKeeps
<1>4. RestartFree /\ [RestartNext]_restartVars
        => RestartFree' /\ [\A z \in Zones : Heard(z) = "other" => Heard(z)' = "other"]_vars
  BY <1>2, <1>3, RestartOrStep DEF SameBusy
<1> QED
  BY <1>1, <1>4, PTL DEF RestartSpec, BusyLeftAlone

----------------------------------------------------------------------------
(* What a session leaves behind, when each start() and stop() finds the    *)
(* earlier calls done.                                                     *)

(* The lines of start(), in the order in which they are reached ("enlist"  *)
(* lies between the last two), and those of stop() past its first.         *)
Probing == {"discover", "probe"}
Preparing == {"select", "snapshot", "master", "group", "ungroup", "play", "adopt"}
Joining == {"join", "append"}
Ending == {"unjoin", "restore", "disband"}

(* Each line belongs to the method that has it.                            *)
Lines(j) ==
  /\ Places(j)
  /\ j.pc \in Probing \cup {"select", "snapshot", "master", "adopt", "enlist"} \cup Joining
       => j.op = "start"
  /\ j.pc \in {"group", "ungroup", "play"} => j.op \in {"start", "watchdog"}
  /\ j.pc = "volume" => j.op = "set_volume"

(* What a call may rely on while it runs.                                  *)
NobodyGrouped == \A z \in Zones : ~infos[z].grouped

Relies(j) ==
  /\ Lines(j)
  /\ j.op \in {"start", "watchdog"} => active
  /\ j.op = "start" /\ j.pc \notin Joining \cup {"enlist"} => coordinator = NoZone
  /\ j.op = "start" /\ j.pc \in Preparing \cup {"enlist"} => NobodyGrouped
  /\ j.pc = "adopt" => leader[j.target] = j.target
  /\ j.pc = "enlist" => j.target = coordinator /\ members = {}
  /\ j.pc \in Joining => j.target = coordinator /\ coordinator \notin j.todo
  /\ j.pc = "append" => leader[j.zone] = coordinator /\ j.zone # coordinator
  /\ j.op = "watchdog" /\ j.pc \in {"group", "ungroup", "play"} => j.target = coordinator

Starting(w) == job[w].op = "start"
Stopping(w) == job[w].op = "stop"

(* A start() runs beside volume calls and watchdogs only.                  *)
StartsAlone ==
  \A w \in Workers : Starting(w) =>
    \A x \in Workers \ {w} : ~Starting(x) /\ ~Stopping(x)

(* The session's fields: without a coordinator there is no session, but    *)
(* for the members that a stop() is about to forget, and there is none     *)
(* unless it was started and not yet stopped.                              *)
Fields ==
  /\ coordinator = NoZone => members = {} \/ \E w \in Workers : Stopping(w)
  /\ coordinator \notin members
  /\ coordinator # NoZone =>
       active \/ \E w \in Workers : Stopping(w) /\ ~At(w, "disband")

(* The players: who is in the session follows its coordinator, until stop()*)
(* begins to ungroup; and so the dashboard says, once start() is past its  *)
(* probes.                                                                 *)
Together ==
  /\ (\A w \in Workers : job[w].pc \notin Ending) => \A z \in Held : leader[z] = coordinator
  /\ active /\ (\A w \in Workers : Starting(w) => job[w].pc \in Joining)
       => Held = {z \in Zones : infos[z].grouped}

Gathered ==
  /\ Grouped
  /\ \A w \in Workers : Relies(job[w])
  /\ StartsAlone
  /\ Fields
  /\ Together

(* The stream is on the coordinator's transport, or on that of the zone    *)
(* that is about to be it; a stop() that is past its first line has ended  *)
(* it.                                                                     *)
Streams ==
  /\ \A z \in Zones : sound[z] = "stream" =>
       z = coordinator \/ \E w \in Workers : At(w, "adopt") /\ job[w].target = z
  /\ \A w \in Workers : job[w].pc \in Ending => \A z \in Zones : sound[z] # "stream"

----------------------------------------------------------------------------
(* What a call relies on is nothing to the calls of other methods.         *)
LEMMA ReliesOnNothing ==
  ASSUME NEW j, Lines(j), j.op \in {"none", "set_volume", "stop"}
  PROVE  Relies(j) /\ Relies(j)'
  BY DEF Lines, Places, Relies, Probing, Preparing, Joining, Ending

(* A step that moves one call on, and neither the session nor the groups.  *)
Stays(w) ==
  /\ job'[w].op \in {job[w].op, "none", "watchdog", "set_volume"}
  /\ job[w].op # "stop" /\ job[w].pc \notin Ending
  /\ Starting(w) /\ job[w].pc \notin Joining => job'[w].op = "start" /\ job'[w].pc \notin Joining

SameGrouped == \A z \in Zones : infos'[z].grouped = infos[z].grouped

(* A step that moves neither the session nor the groups keeps the          *)
(* invariant.                                                              *)
LEMMA LocalKeeps ==
  ASSUME SonosTypeOK, SonosTypeOK', Gathered, Grouped', NEW w \in Workers, OnlyMoves(w),
         UNCHANGED <<leader, active>>, SameGrouped, Stays(w), Relies(job'[w])
  PROVE  Gathered'
<1>0. Held' = Held
  BY DEF Held, OnlyMoves
<1>1. \A x \in Workers \ {w} : job'[x] = job[x]
  BY DEF OnlyMoves
<1>3. ASSUME NEW x \in Workers PROVE Relies(job[x])'
  <2>1. Relies(job'[x])
    BY <1>1 DEF Gathered
  <2> QED
    BY <2>1 DEF Relies, Lines, Places, NobodyGrouped, SameGrouped, OnlyMoves
<1>4. StartsAlone'
  BY <1>1 DEF Gathered, StartsAlone, Starting, Stopping, Stays
<1>5. Fields'
  BY <1>1 DEF Gathered, Fields, Stopping, Stays, OnlyMoves, At
<1>6. Together'
  <2>1. ASSUME \A x \in Workers : job'[x].pc \notin Ending
        PROVE  \A x \in Workers : job[x].pc \notin Ending
    BY <1>1, <2>1 DEF Stays
  <2>2. ASSUME \A x \in Workers : job'[x].op = "start" => job'[x].pc \in Joining
        PROVE  \A x \in Workers : Starting(x) => job[x].pc \in Joining
    BY <1>1, <2>2 DEF Starting, Stays
  <2>3. {z \in Zones : infos'[z].grouped} = {z \in Zones : infos[z].grouped}
    BY DEF SameGrouped
  <2> QED
    BY <1>0, <2>1, <2>2, <2>3 DEF Gathered, Together, Starting, OnlyMoves
<1> QED
  BY <1>3, <1>4, <1>5, <1>6 DEF Gathered

(* While a start() runs nobody is being ungrouped.                         *)
LEMMA NobodyEnds ==
  ASSUME Gathered, NEW w \in Workers, Starting(w)
  PROVE  /\ \A x \in Workers : job[x].pc \notin Ending
         /\ \A x \in Workers \ {w} : job[x].op \notin {"start", "stop"}
  BY DEF Gathered, StartsAlone, Starting, Stopping, Relies, Lines, Places, Ending

(* start() forms the group, room by room.                                  *)
LEMMA StartGathers ==
  ASSUME SonosTypeOK, Gathered, NEW w \in Workers, StartStep(w), UNCHANGED active
  PROVE  Gathered'
<1>0. /\ FieldsOK /\ PlayersOK /\ JobsOK /\ SonosTypeOK' /\ JobsOK'
      /\ job \in [Workers -> JobRecords] /\ job[w] \in JobRecords /\ Ready(job[w])
      /\ Relies(job[w]) /\ Lines(job[w]) /\ Grouped
  BY StartTypes DEF SonosTypeOK, JobsOK, Gathered, Relies
<1> USE <1>0
<1>1. Starting(w)
  BY DEF StartStep, Discover, EndProbe, Select, SetMaster, EndSnapshots, Adopt, Enlist,
         AppendMember, EndStart, Probe, Snapshot, Join, At, Lines, Places, Starting,
         Probing, Joining
<1>2. /\ active
      /\ \A x \in Workers : job[x].pc \notin Ending
      /\ \A x \in Workers \ {w} : job[x].op \notin {"start", "stop"}
      /\ job[w].pc \notin Joining \cup {"enlist"} =>
           coordinator = NoZone /\ members = {} /\ Held = {}
  BY <1>1, NobodyEnds DEF Starting, Stopping, Relies, Gathered, Fields, Held
<1>3. ASSUME UNCHANGED <<sound, leader>>, OnlyMoves(w), SameGrouped, Stays(w),
             Relies(job'[w])
      PROVE  Gathered'
  BY <1>3, SameGroups, LocalKeeps
<1>i. Relies(Idle)
  BY DEF Relies, Lines, Places, Idle, Probing, Preparing, Joining
<1> USE DEF Becomes, fieldVars, playerVars, OnlyMoves
<1>4. ASSUME UNCHANGED <<sound, leader>>, OnlyMoves(w), SameGrouped,
             job[w].pc \notin Joining \cup {"enlist"},
             job'[w].op = "start", job'[w].pc \in Probing \cup Preparing,
             job'[w].pc \in Preparing => NobodyGrouped, job'[w].pc # "adopt"
      PROVE  Gathered'
  <2>1. Stays(w)
    BY <1>1, <1>2, <1>4 DEF Stays, Starting, Probing, Preparing, Joining, Ending
  <2>2. Relies(job'[w])
    BY <1>2, <1>4 DEF Relies, Lines, Places, Probing, Preparing, Joining
  <2> QED  BY <1>3, <1>4, <2>1, <2>2
<1>5. CASE Discover(w)
  <2>1. job'[w].op = "start" /\ job'[w].pc = "probe" /\ job[w].pc = "discover"
    BY <1>1, <1>5 DEF Discover, At, Starting, JobRecords
  <2> QED
    BY <1>4, <1>5, <2>1 DEF Discover, Probing, Preparing, Joining, SameGrouped
<1>6. ASSUME NEW z \in Zones, Probe(w, z) PROVE Gathered'
  <2>1. PICK j : /\ job' = [job EXCEPT ![w] = j]
                 /\ j \in {[job[w] EXCEPT !.todo = @ \ {z}],
                           [job[w] EXCEPT !.todo = @ \ {z}, !.busy = @ \cup {z}],
                           [job[w] EXCEPT !.todo = @ \ {z}, !.cand = @ \cup {z}]}
    BY <1>6 DEF Probe
  <2>2. j.op = "start" /\ j.pc = "probe" /\ job[w].pc = "probe"
    BY <1>1, <1>6, <2>1 DEF Probe, At, Starting, JobRecords
  <2> QED
    BY <1>4, <1>6, <2>1, <2>2 DEF Probe, Probing, Preparing, Joining, SameGrouped
<1>7. CASE EndProbe(w)
  <2>1. job[w].pc = "probe" /\ NobodyGrouped'
    BY <1>7 DEF EndProbe, At, NobodyGrouped, Info
  <2>2. /\ OnlyMoves(w) /\ UNCHANGED <<sound, leader, active>>
        /\ job'[w] = Idle \/ job'[w] = [job[w] EXCEPT !.pc = "select", !.busy = {}]
    BY <1>7 DEF EndProbe, Return
  <2>3. /\ job'[w].op \in {"none", "start"}
        /\ job'[w].op = "start" => job'[w].pc = "select"
        /\ job'[w].op = "none" => job'[w].pc = "idle"
    <3>1. Idle.op = "none" /\ Idle.pc = "idle"
      BY DEF Idle
    <3>2. /\ [job[w] EXCEPT !.pc = "select", !.busy = {}].op = "start"
          /\ [job[w] EXCEPT !.pc = "select", !.busy = {}].pc = "select"
      BY <1>1 DEF Starting, JobRecords
    <3> QED  BY <2>2, <3>1, <3>2
  <2>4. Held' = {}
    BY <1>2, <2>1, <2>2 DEF Held, Joining
  <2>5. Relies(job[w])'
    BY <1>2, <2>1, <2>2, <2>3
    DEF Relies, Lines, Places, Probing, Preparing, Joining
  <2>6. ASSUME NEW x \in Workers \ {w} PROVE Relies(job[x])'
    <3>1. Relies(job[x]) /\ job'[x] = job[x]
      BY <2>2 DEF Gathered
    <3>2. job[x].op # "start"
      BY <1>2
    <3> QED  BY <2>2, <3>1, <3>2 DEF Relies, Lines, Places
  <2>7. StartsAlone' /\ Fields' /\ Together'
    BY <1>2, <2>1, <2>2, <2>3, <2>4
    DEF Gathered, StartsAlone, Fields, Together, Starting, Stopping, NobodyGrouped, Joining
  <2> QED  BY <2>2, <2>5, <2>6, <2>7, SameGroups DEF Gathered
<1>8. CASE Select(w)
  <2>1. job'[w].op = "start" /\ job'[w].pc = "snapshot" /\ job[w].pc = "select"
    BY <1>1, <1>8 DEF Select, At, Starting, JobRecords
  <2> QED
    BY <1>1, <1>4, <1>8, <2>1
    DEF Select, Probing, Preparing, Joining, SameGrouped, Relies, Starting
<1>9. ASSUME NEW z \in Zones, Snapshot(w, z) PROVE Gathered'
  <2>1. PICK j : /\ job' = [job EXCEPT ![w] = j]
                 /\ j \in {[job[w] EXCEPT !.todo = @ \ {z}],
                           [job[w] EXCEPT !.todo = @ \ {z}, !.pc = "master", !.zone = z]}
    BY <1>9 DEF Snapshot
  <2>2. j.op = "start" /\ j.pc \in {"snapshot", "master"} /\ job[w].pc = "snapshot"
    BY <1>1, <1>9, <2>1 DEF Snapshot, At, Starting, JobRecords
  <2> QED
    BY <1>1, <1>4, <1>9, <2>1, <2>2
    DEF Snapshot, Probing, Preparing, Joining, SameGrouped, Relies, Starting
<1>10. CASE SetMaster(w) \/ EndSnapshots(w)
  <2>1. /\ job'[w].op = "start" /\ job'[w].pc \in {"snapshot", "group"}
        /\ job[w].pc \in {"master", "snapshot"}
    <3>1. PICK j \in {[job[w] EXCEPT !.pc = "snapshot", !.zone = NoZone],
                      [job[w] EXCEPT !.pc = "group"]} :
            job'[w] = j /\ job[w].pc \in {"master", "snapshot"}
      BY <1>10 DEF SetMaster, EndSnapshots, Goto, At
    <3>2. j.op = "start" /\ j.pc \in {"snapshot", "group"}
      BY <1>1, <3>1 DEF Starting, JobRecords
    <3> QED  BY <3>1, <3>2
  <2> QED
    BY <1>1, <1>4, <1>10, <2>1
    DEF SetMaster, EndSnapshots, Goto, Probing, Preparing, Joining, SameGrouped, Relies,
        Starting
<1>11. CASE Adopt(w)
  <2>1. /\ job[w].pc = "adopt" /\ job[w].target \in Zones
        /\ leader[job[w].target] = job[w].target /\ NobodyGrouped /\ coordinator = NoZone
        /\ coordinator' = job[w].target /\ members = {} /\ coordinator' # NoZone
        /\ UNCHANGED <<sound, leader, active, members, infos>>
    BY <1>1, <1>2, <1>11, ControllerAssumption
    DEF Adopt, At, Ready, Relies, Starting, Preparing, Joining
  <2>2. Held' = {coordinator'} /\ NobodyGrouped'
    BY <2>1 DEF Held, NobodyGrouped
  <2>3. /\ job'[w].op = "start" /\ job'[w].pc = "enlist" /\ job'[w].target = coordinator'
        /\ \A x \in Workers \ {w} : job'[x] = job[x]
    BY <1>1, <1>11, <2>1 DEF Adopt, Goto, Starting, JobRecords
  <2>4. Relies(job[w])'
    BY <1>2, <2>1, <2>2, <2>3
    DEF Relies, Lines, Places, Probing, Preparing, Joining
  <2>5. ASSUME NEW x \in Workers \ {w} PROVE Relies(job[x])'
    <3>1. Relies(job[x]) /\ Ready(job[x]) /\ job'[x] = job[x] /\ job[x].op # "start"
      BY <1>2, <2>3 DEF Gathered, JobsOK
    <3> QED  BY <2>1, <3>1, ControllerAssumption DEF Relies, Lines, Places, Ready, Joining
  <2>6. StartsAlone' /\ Fields' /\ Together'
    BY <1>2, <2>1, <2>2, <2>3
    DEF StartsAlone, Fields, Together, Starting, Stopping, Joining
  <2> QED  BY <2>1, <2>4, <2>5, <2>6, SameGroups DEF Gathered
<1>15. CASE Enlist(w)
  <2>1. /\ job[w].pc = "enlist" /\ job[w].target = coordinator /\ NobodyGrouped
        /\ coordinator \in Zones /\ coordinator # NoZone /\ members' = {}
        /\ UNCHANGED <<sound, leader, active, coordinator>>
    BY <1>1, <1>15, ControllerAssumption DEF Enlist, At, Ready, Relies, Starting
  <2>2. Held' = {coordinator} /\ leader[coordinator] = coordinator
    BY <1>2, <2>1 DEF Held, Gathered, Together
  <2>3. {z \in Zones : infos'[z].grouped} = {coordinator}
    BY <1>15, <2>1 DEF Enlist, MarkGrouped, NobodyGrouped, FieldsOK
  <2>4. /\ job'[w].op = "start" /\ job'[w].pc = "join" /\ job'[w].target = coordinator
        /\ job'[w].todo = job[w].cand \ {coordinator}
    <3>1. job'[w] = [job[w] EXCEPT !.pc = "join", !.cand = {},
                                   !.todo = job[w].cand \ {job[w].target}]
      BY <1>15 DEF Enlist
    <3> QED  BY <1>1, <2>1, <3>1 DEF Starting, JobRecords
  <2>5. Relies(job[w])'
    BY <1>2, <2>1, <2>4
    DEF Relies, Lines, Places, Probing, Preparing, Joining
  <2>6. ASSUME NEW x \in Workers \ {w}
        PROVE  /\ job'[x].op = job[x].op /\ job'[x].pc = job[x].pc
               /\ job'[x].target = job[x].target /\ Relies(job[x])
               /\ job[x].op \notin {"start", "stop"}
    <3>1. job'[x] = [job[x] EXCEPT !.live = FALSE] /\ job[x] \in JobRecords
      BY <1>15, <2>6 DEF Enlist, Detached
    <3> QED  BY <1>2, <2>6, <3>1 DEF JobRecords, Gathered
  <2>7. ASSUME NEW x \in Workers \ {w} PROVE Relies(job[x])'
    BY <2>1, <2>6 DEF Relies, Lines, Places, Joining
  <2>8. StartsAlone' /\ Fields' /\ Together'
    BY <1>2, <2>1, <2>2, <2>3, <2>4, <2>6
    DEF StartsAlone, Fields, Together, Starting, Stopping
  <2> QED  BY <2>1, <2>5, <2>7, <2>8, SameGroups DEF Gathered
<1>12. ASSUME NEW z \in Zones, Join(w, z) PROVE Gathered'
  <2>1. /\ job[w].pc = "join" /\ job[w].target = coordinator /\ z # coordinator
        /\ coordinator \in Zones /\ coordinator \in Held /\ leader[coordinator] = coordinator
    <3>1. /\ job[w].pc = "join" /\ job[w].target = coordinator /\ z # coordinator
          /\ coordinator \in Zones
      BY <1>12 DEF Join, At, Ready, Relies, Joining
    <3> QED  BY <1>2, <3>1, ControllerAssumption DEF Held, Gathered, Together
  <2>2. OnlyMoves(w) /\ UNCHANGED active /\ SameGrouped
    BY <1>12 DEF Join, MarkUnreachable, SameGrouped, FieldsOK
  <2>3. CASE UNCHANGED <<sound, leader>> /\ job' = [job EXCEPT ![w] = [job[w] EXCEPT !.todo = @ \ {z}]]
    <3>1. /\ job'[w].op = "start" /\ job'[w].pc = "join" /\ job'[w].target = coordinator
          /\ job'[w].todo = job[w].todo \ {z}
      BY <1>1, <2>1, <2>3 DEF Starting, JobRecords
    <3>2. Stays(w)
      BY <1>1, <2>1, <3>1 DEF Stays, Starting, Joining, Ending
    <3>3. Relies(job'[w])
      BY <1>1, <2>1, <3>1 DEF Relies, Lines, Places, Probing, Preparing, Joining, Starting
    <3> QED  BY <1>3, <2>2, <2>3, <3>2, <3>3
  <2>4. CASE /\ JoinedTo(z, coordinator)
             /\ Becomes(w, [job[w] EXCEPT !.pc = "append", !.todo = @ \ {z}, !.zone = z])
    <3>1. /\ job'[w].op = "start" /\ job'[w].pc = "append" /\ job'[w].target = coordinator
          /\ job'[w].todo = job[w].todo \ {z} /\ job'[w].zone = z
      <4>1. job'[w] = [job[w] EXCEPT !.pc = "append", !.todo = job[w].todo \ {z}, !.zone = z]
        BY <2>4
      <4> QED  BY <1>1, <2>1, <4>1 DEF Starting, JobRecords
    <3>2. /\ leader'[z] = coordinator
          /\ \A x \in Zones : leader[x] = coordinator => leader'[x] = coordinator
          /\ Grouped' /\ Held' = Held /\ Held \subseteq Zones
      BY <2>1, <2>2, <2>4, JoinedGroups DEF JoinedTo, PlayersOK, Held, FieldsOK
    <3>3. Relies(job[w])'
      BY <1>2, <2>1, <2>2, <3>1, <3>2
      DEF Relies, Lines, Places, Probing, Preparing, Joining
    <3>4. ASSUME NEW x \in Workers \ {w} PROVE Relies(job[x])'
      <4>1. Relies(job[x]) /\ job'[x] = job[x] /\ job[x].op # "start"
        BY <1>2, <2>2 DEF Gathered
      <4> QED  BY <2>2, <4>1 DEF Relies, Lines, Places, Joining
    <3>5. StartsAlone'
      BY <1>2, <2>2, <3>1 DEF StartsAlone, Starting, Stopping
    <3>7. Fields'
      BY <1>2, <2>1, <2>2, ControllerAssumption DEF Gathered, Fields
    <3>6. Together'
      <4>1. \A x \in Workers : Starting(x) => job[x].pc \in Joining
        BY <1>2, <2>1 DEF Starting, Joining
      <4>2. {x \in Zones : infos'[x].grouped} = {x \in Zones : infos[x].grouped}
        BY <2>2 DEF SameGrouped
      <4> QED  BY <1>2, <2>2, <3>2, <4>1, <4>2 DEF Gathered, Together
    <3> QED  BY <3>2, <3>3, <3>4, <3>5, <3>6, <3>7 DEF Gathered
  <2> QED
    BY <1>12, <2>1, <2>3, <2>4 DEF Join
<1>13. CASE AppendMember(w)
  <2>1. /\ job[w].pc = "append" /\ job[w].zone \in Zones /\ job[w].zone # coordinator
        /\ leader[job[w].zone] = coordinator /\ coordinator \in Zones
        /\ job[w].target = coordinator /\ coordinator \notin job[w].todo
        /\ members' = members \cup {job[w].zone}
        /\ UNCHANGED <<sound, leader, active, coordinator>>
    BY <1>13 DEF AppendMember, At, Ready, Relies, Joining
  <2>2. Held' = Held \cup {job[w].zone}
    BY <2>1, ControllerAssumption DEF Held
  <2>3. {z \in Zones : infos'[z].grouped} = {z \in Zones : infos[z].grouped} \cup {job[w].zone}
    BY <1>13, <2>1 DEF AppendMember, MarkGrouped, FieldsOK
  <2>4. /\ job'[w].op = "start" /\ job'[w].pc = "join" /\ job'[w].target = coordinator
        /\ job'[w].todo = job[w].todo
    <3>1. job'[w] = [job[w] EXCEPT !.pc = "join", !.zone = NoZone]
      BY <1>13 DEF AppendMember
    <3> QED  BY <1>1, <2>1, <3>1 DEF Starting, JobRecords
  <2>5. Relies(job[w])'
    BY <1>2, <2>1, <2>4
    DEF Relies, Lines, Places, Probing, Preparing, Joining
  <2>6. ASSUME NEW x \in Workers \ {w}
        PROVE  /\ job'[x].op = job[x].op /\ job'[x].pc = job[x].pc
               /\ job'[x].target = job[x].target /\ Relies(job[x]) /\ Ready(job[x])
               /\ job[x].op \notin {"start", "stop"}
    <3>1. /\ job'[x] = [job[x] EXCEPT !.todo = IF job[x].live THEN @ \cup {job[w].zone} ELSE @]
          /\ job[x] \in JobRecords
      BY <1>13, <2>6 DEF AppendMember
    <3> QED  BY <1>2, <2>6, <3>1 DEF JobRecords, Gathered, JobsOK
  <2>7. ASSUME NEW x \in Workers \ {w} PROVE Relies(job[x])'
    BY <2>1, <2>6, ControllerAssumption DEF Relies, Lines, Places, Ready, Joining
  <2>8. StartsAlone' /\ Fields'
    BY <1>2, <2>1, <2>4, <2>6, ControllerAssumption
    DEF Gathered, StartsAlone, Fields, Starting, Stopping
  <2>9. Together'
    <3>1. \A x \in Workers : Starting(x) => job[x].pc \in Joining
      BY <1>2, <2>1 DEF Starting, Joining
    <3> QED  BY <1>2, <2>1, <2>2, <2>3, <3>1 DEF Gathered, Together
  <2> QED  BY <2>1, <2>5, <2>7, <2>8, <2>9, SameGroups DEF Gathered
<1>14. CASE EndStart(w)
  <2>1. job[w].pc = "join" /\ job'[w] = Idle
    BY <1>14 DEF EndStart, Return, At
  <2>2. Stays(w)
    BY <1>1, <1>2, <2>1 DEF Stays, Starting, Joining, Idle
  <2> QED  BY <1>3, <1>14, <1>i, <2>1, <2>2 DEF EndStart, Return, SameGrouped
<1> QED
  BY <1>5, <1>6, <1>7, <1>8, <1>9, <1>10, <1>11, <1>12, <1>13, <1>14, <1>15
  DEF StartStep

(* A watchdog has no one to ungroup: the coordinator it plays on leads.    *)
LEMMA WatchdogTarget ==
  ASSUME SonosTypeOK, Tame, Gathered, NEW w \in Workers,
         job[w].op = "watchdog", job[w].pc \in {"group", "ungroup", "play"}
  PROVE  job[w].target = coordinator /\ coordinator \in Zones /\ LeadsItself(coordinator)
<1>1. job[w].target = coordinator /\ coordinator \in Zones /\ active
  BY DEF Gathered, Relies, SonosTypeOK, JobsOK, Ready
<1>2. \A x \in Workers : job[x].pc \notin Ending
  BY <1>1 DEF Tame, StopsAlone, Places, Ending
<1> QED
  BY <1>1, <1>2, ControllerAssumption DEF Gathered, Together, Held, LeadsItself

(* The rest of the calls: nobody is grouped or ungrouped but by a start(), *)
(* which has no session yet, and by a stop(), which ends it.               *)
LEMMA PlayGathers ==
  ASSUME SonosTypeOK, Tame, Gathered, NEW w \in Workers, PlayStep(w), UNCHANGED active
  PROVE  Gathered'
<1>0. /\ FieldsOK /\ PlayersOK /\ JobsOK /\ SonosTypeOK'
      /\ job \in [Workers -> JobRecords] /\ job[w] \in JobRecords /\ Ready(job[w])
      /\ Relies(job[w]) /\ Lines(job[w]) /\ Grouped
  BY PlayTypes DEF SonosTypeOK, JobsOK, Gathered, Relies
<1> USE <1>0
<1> USE DEF Becomes, fieldVars, playerVars, OnlyMoves
<1>i. Relies(Idle) /\ Idle.op = "none" /\ Idle.pc = "idle"
  BY DEF Relies, Lines, Places, Idle, Probing, Preparing, Joining
<1>1. /\ job[w].pc \in {"group", "ungroup", "play"} /\ job[w].op \in {"start", "watchdog"}
      /\ active /\ job[w].target \in Zones /\ job[w].target # NoZone
  BY ControllerAssumption
  DEF PlayStep, LeaveGroup, Ungroup, Play, PlayRaises, At, Lines, Relies, Ready
<1>2. /\ OnlyMoves(w) /\ UNCHANGED volume /\ SameGrouped
      /\ \/ job'[w] = Idle
         \/ job'[w] = [job[w] EXCEPT !.pc = "ungroup"]
         \/ job'[w] = [job[w] EXCEPT !.pc = "play", !.try = 1]
         \/ job[w].op = "start" /\ job'[w] = [job[w] EXCEPT !.pc = "adopt", !.try = 0]
         \/ job[w].pc = "play" /\ job'[w] = [job[w] EXCEPT !.try = @ + 1]
  BY DEF PlayStep, LeaveGroup, Ungroup, Play, PlayRaises, Return, Goto, At, SameGrouped,
         MarkUnreachable, FieldsOK
<1>3. \/ job'[w] = Idle
      \/ /\ job'[w].op = job[w].op /\ job'[w].target = job[w].target
         /\ \/ job'[w].pc \in {"ungroup", "play"}
            \/ job[w].op = "start" /\ job'[w].pc = "adopt"
  BY <1>2 DEF JobRecords
<1>4. CASE job[w].op = "watchdog"
  <2>1. /\ job[w].target = coordinator /\ coordinator \in Zones
        /\ leader[coordinator] = coordinator
    BY <1>1, <1>4, WatchdogTarget DEF LeadsItself
  <2>2. UNCHANGED leader
    BY <2>1 DEF PlayStep, LeaveGroup, Ungroup, Play, PlayRaises, Unjoined, PlayersOK
  <2>3. Grouped'
    <3>1. CASE LeaveGroup(w) \/ Ungroup(w)
      BY <2>1, <3>1, UnjoinedGroups, SameGroups DEF LeaveGroup, Ungroup
    <3>2. CASE Play(w)
      BY <2>1, <3>2, SoundGroups DEF Play, Sounds
    <3>3. CASE PlayRaises(w)
      BY <3>3, SameGroups DEF PlayRaises
    <3> QED  BY <3>1, <3>2, <3>3 DEF PlayStep
  <2>4. Stays(w)
    BY <1>1, <1>3, <1>4, <1>i DEF Stays, Starting, Ending
  <2>5. Relies(job'[w])
    BY <1>1, <1>3, <1>4, <1>i, <2>1
    DEF Relies, Lines, Places, Probing, Preparing, Joining
  <2> QED  BY <1>2, <2>2, <2>3, <2>4, <2>5, LocalKeeps
<1>5. CASE job[w].op = "start"
  <2>1. /\ \A x \in Workers : job[x].pc \notin Ending
        /\ \A x \in Workers \ {w} : job[x].op \notin {"start", "stop"}
        /\ coordinator = NoZone /\ Held = {} /\ NobodyGrouped
    BY <1>1, <1>5, NobodyEnds
    DEF Starting, Stopping, Relies, Gathered, Fields, Held, Joining, Preparing
  <2>2. Held' = {} /\ NobodyGrouped'
    BY <1>2, <2>1 DEF Held, NobodyGrouped, SameGrouped
  <2>3. Grouped'
    <3>1. CASE LeaveGroup(w) \/ Ungroup(w)
      BY <1>1, <3>1, UnjoinedGroups, SameGroups DEF LeaveGroup, Ungroup
    <3>2. CASE Play(w)
      BY <1>1, <3>2, SoundGroups DEF Play, Sounds, LeadsItself
    <3>3. CASE PlayRaises(w)
      BY <3>3, SameGroups DEF PlayRaises
    <3> QED  BY <3>1, <3>2, <3>3 DEF PlayStep
  <2>4. job'[w].pc = "adopt" => leader'[job'[w].target] = job'[w].target
    <3>1. job'[w].pc # "adopt" \/ Play(w)
      BY <1>1, <1>i
      DEF PlayStep, LeaveGroup, Ungroup, PlayRaises, Return, Goto, At, JobRecords
    <3>2. CASE Play(w)
      BY <1>3, <1>i, <3>2 DEF Play, LeadsItself
    <3> QED  BY <3>1, <3>2
  <2>5. Relies(job[w])'
    BY <1>1, <1>2, <1>3, <1>i, <2>1, <2>2, <2>4
    DEF Relies, Lines, Places, Probing, Preparing, Joining
  <2>6. ASSUME NEW x \in Workers \ {w} PROVE Relies(job[x])'
    <3>1. Relies(job[x]) /\ job'[x] = job[x] /\ job[x].op # "start"
      BY <1>2, <2>1 DEF Gathered
    <3> QED  BY <1>2, <3>1 DEF Relies, Lines, Places, Joining
  <2>7. StartsAlone' /\ Fields'
    BY <1>2, <1>3, <1>5, <1>i, <2>1
    DEF Gathered, StartsAlone, Fields, Starting, Stopping
  <2>8. Together'
    BY <2>2 DEF Together, NobodyGrouped
  <2> QED  BY <2>3, <2>5, <2>6, <2>7, <2>8 DEF Gathered
<1> QED  BY <1>1, <1>4, <1>5


(* stop() takes it apart, room by room.                                    *)
LEMMA StopGathers ==
  ASSUME SonosTypeOK, Tame, Gathered, NEW w \in Workers, StopStep(w), UNCHANGED active
  PROVE  Gathered'
<1>0. /\ FieldsOK /\ PlayersOK /\ JobsOK /\ SonosTypeOK'
      /\ job \in [Workers -> JobRecords] /\ job[w] \in JobRecords /\ Ready(job[w])
      /\ Relies(job[w]) /\ Lines(job[w]) /\ Grouped
  BY StopTypes DEF SonosTypeOK, JobsOK, Gathered, Relies
<1> USE <1>0
<1> USE DEF Becomes, fieldVars, playerVars, OnlyMoves
<1>i. Idle.op = "none" /\ Idle.pc = "idle" /\ Relies(Idle)
  BY DEF Idle, Relies, Lines, Places, Probing, Preparing, Joining
<1>1. /\ job[w].op = "stop" /\ ~active
      /\ \A x \in Workers \ {w} : job[x].op \in {"none", "set_volume"}
      /\ \A x \in Workers : Lines(job[x])
  BY DEF StopStep, Halt, Unjoin, Collect, Restore, Clear, Disband, At, Lines, Places, Tame,
         StopsAlone, Gathered, Relies
<1>2. ASSUME \A x \in Workers \ {w} : job'[x] = job[x], Grouped', UNCHANGED <<members, infos>>,
             job'[w].op = "stop", job'[w].pc \in Ending,
             \/ UNCHANGED coordinator /\ job'[w].pc # "disband"
             \/ coordinator' = NoZone,
             leader' = leader \/ job[w].pc \in Ending
      PROVE  Gathered'
  <2>1. \A x \in Workers : Lines(job'[x]) /\ job'[x].op \in {"none", "set_volume", "stop"}
    BY <1>1, <1>2 DEF Lines, Places, Ending, Joining, Probing
  <2>2. \A x \in Workers : Relies(job'[x]) /\ Relies(job[x])'
    BY <2>1 DEF Relies, Lines, Places, Probing, Preparing, Joining, Ending
  <2>3. StartsAlone' /\ Fields'
    BY <1>1, <1>2, <2>1, ControllerAssumption
    DEF Gathered, StartsAlone, Fields, Starting, Stopping, At, FieldsOK
  <2>4. Together'
    BY <1>1, <1>2 DEF Together
  <2> QED  BY <1>2, <2>2, <2>3, <2>4 DEF Gathered
<1>3. CASE Halt(w)
  <2>1. Grouped'
    BY <1>3, SoundGroups, SameGroups DEF Halt, LeadsItself, Sounds
  <2>2. job'[w].op = "stop" /\ job'[w].pc = "unjoin"
    BY <1>1, <1>3 DEF Halt, JobRecords
  <2> QED  BY <1>2, <1>3, <2>1, <2>2 DEF Halt, Ending
<1>4. ASSUME NEW z \in Zones, Unjoin(w, z) PROVE Gathered'
  <2>1. Grouped'
    BY <1>4, UnjoinedGroups, SameGroups DEF Unjoin
  <2>2. job'[w].op = "stop" /\ job'[w].pc = "unjoin" /\ job[w].pc = "unjoin"
    BY <1>1, <1>4 DEF Unjoin, At, JobRecords
  <2> QED  BY <1>2, <1>4, <2>1, <2>2 DEF Unjoin, Ending
<1>5. CASE Collect(w)
  <2>1. job'[w].op = "stop" /\ job'[w].pc = "restore"
    <3>1. job'[w] = [job[w] EXCEPT !.pc = "restore", !.todo = Held, !.live = FALSE]
      BY <1>5 DEF Collect
    <3> QED  BY <1>1, <3>1 DEF JobRecords
  <2> QED  BY <1>2, <1>5, <2>1, SameGroups DEF Collect, Ending
<1>6. ASSUME NEW z \in Zones, Restore(w, z) PROVE Gathered'
  <2>1. job'[w].op = "stop" /\ job'[w].pc = "restore"
    BY <1>1, <1>6 DEF Restore, At, JobRecords
  <2> QED  BY <1>2, <1>6, <2>1, SameGroups DEF Restore, Ending
<1>8. CASE Clear(w)
  <2>1. job'[w].op = "stop" /\ job'[w].pc = "disband"
    BY <1>1, <1>8 DEF Clear, Goto, JobRecords
  <2> QED  BY <1>2, <1>8, <2>1, SameGroups DEF Clear, Goto, Ending
<1>7. CASE Disband(w)
  <2>1. ASSUME NEW x \in Workers
        PROVE  job'[x].op \in {"none", "set_volume"} /\ Lines(job'[x])
    <3>1. CASE x = w
      BY <1>7, <1>i, <3>1 DEF Disband, Relies
    <3>2. CASE x # w
      <4>1. job'[x] = [job[x] EXCEPT !.live = FALSE] /\ job[x] \in JobRecords
        BY <1>7, <3>2 DEF Disband, Detached
      <4>2. job'[x].op = job[x].op /\ job'[x].pc = job[x].pc
        BY <4>1 DEF JobRecords
      <4> QED  BY <1>1, <3>2, <4>2 DEF Lines, Places
    <3> QED  BY <3>1, <3>2
  <2>2. \A x \in Workers : Relies(job[x])'
    BY <2>1 DEF Relies, Lines, Places, Probing, Preparing, Joining
  <2>3. /\ coordinator' = NoZone /\ members' = {} /\ Held' = {}
        /\ UNCHANGED <<sound, leader, infos>>
    BY <1>1, <1>7 DEF Disband, Held, At, Gathered, Fields, Stopping
  <2>4. StartsAlone' /\ Fields'
    BY <2>1, <2>3 DEF StartsAlone, Fields, Starting, Stopping
  <2>5. Together'
    BY <1>1, <2>3 DEF Together
  <2> QED  BY <2>2, <2>3, <2>4, <2>5, SameGroups DEF Gathered
<1> QED  BY <1>3, <1>4, <1>5, <1>6, <1>7, <1>8 DEF StopStep

(* A watchdog or a volume call leaves the group as it is.                  *)
LEMMA WatchdogGathers ==
  ASSUME SonosTypeOK, Tame, Gathered, NEW w \in Workers,
         WatchdogStep(w) \/ SetVolume(w), UNCHANGED active
  PROVE  Gathered'
<1>0. /\ FieldsOK /\ PlayersOK /\ JobsOK /\ SonosTypeOK'
      /\ job \in [Workers -> JobRecords] /\ job[w] \in JobRecords /\ Ready(job[w])
      /\ Relies(job[w]) /\ Lines(job[w]) /\ Grouped
  BY WatchdogTypes, WorkerTypes DEF SonosTypeOK, JobsOK, Gathered, Relies, WorkerStep
<1> USE <1>0
<1> USE DEF Becomes, Goto, Return, At, fieldVars, playerVars, OnlyMoves
<1>i. Idle.op = "none" /\ Idle.pc = "idle" /\ Relies(Idle)
  BY DEF Idle, Relies, Lines, Places, Probing, Preparing, Joining
<1>1. job[w].op \in {"watchdog", "set_volume"} /\ job[w].pc \notin Ending
  BY DEF WatchdogStep, Check, Transport, Reissue, SetVolume, Lines, Places, Ending
<1>2. ASSUME UNCHANGED <<sound, leader, infos>>, OnlyMoves(w),
             job'[w] # Idle => /\ job'[w].op = "watchdog" /\ job[w].op = "watchdog"
                               /\ job'[w].pc \in {"transport", "reissue", "group"}
                               /\ job'[w].pc = "group" => job'[w].target = coordinator
      PROVE  Gathered'
  <2>1. Stays(w)
    BY <1>1, <1>2, <1>i DEF Stays, Starting
  <2>2. Relies(job'[w])
    BY <1>2, <1>i DEF Relies, Lines, Places, Probing, Preparing, Joining
  <2> QED  BY <1>2, <2>1, <2>2, SameGroups, LocalKeeps DEF SameGrouped
<1>3. CASE Check(w) \/ Transport(w)
  <2>1. /\ job[w].op = "watchdog"
        /\ \/ job'[w] = Idle
           \/ job'[w] = [job[w] EXCEPT !.pc = "transport"]
           \/ job'[w] = [job[w] EXCEPT !.pc = "reissue"]
    BY <1>3 DEF Check, Transport, Lines, Places
  <2>2. job'[w] # Idle => job'[w].op = "watchdog" /\ job'[w].pc \in {"transport", "reissue"}
    BY <2>1 DEF JobRecords
  <2>3. OnlyMoves(w) /\ UNCHANGED <<sound, leader, infos>>
    BY <1>3 DEF Check, Transport
  <2> QED  BY <1>2, <2>1, <2>2, <2>3
<1>4. CASE Reissue(w)
  <2>1. /\ job[w].op = "watchdog"
        /\ \/ job'[w] = Idle
           \/ job'[w] = [job[w] EXCEPT !.pc = "group", !.target = coordinator]
    BY <1>4 DEF Reissue, Raises, Lines, Places
  <2>2. job'[w] # Idle =>
          job'[w].op = "watchdog" /\ job'[w].pc = "group" /\ job'[w].target = coordinator
    BY <2>1 DEF JobRecords
  <2> QED  BY <1>2, <1>4, <2>1, <2>2 DEF Reissue, Raises
<1>5. CASE SetVolume(w)
  BY <1>2, <1>5 DEF SetVolume
<1> QED  BY <1>3, <1>4, <1>5 DEF WatchdogStep


(* A call is handed to a thread.                                           *)
LEMMA HandedGathers ==
  ASSUME SonosTypeOK, SonosTypeOK', Gathered, NEW w \in Workers, NEW call,
         call.op \in {"watchdog", "set_volume"}, call.pc \in {"check", "volume"}, Lines(call),
         call.op = "watchdog" => active,
         Handed(w, call), UNCHANGED active
  PROVE  Gathered'
<1>1. /\ job[w] = Idle /\ job'[w] = call /\ OnlyMoves(w)
      /\ UNCHANGED <<sound, leader, infos>>
  BY DEF Handed, Submit, OnlyMoves, fieldVars, playerVars, SonosTypeOK, JobsOK
<1>2. Stays(w)
  BY <1>1 DEF Stays, Starting, Ending, Idle
<1>3. Relies(job'[w])
  BY <1>1 DEF Relies, Joining, Preparing
<1> QED
  BY <1>1, <1>2, <1>3, SameGroups, LocalKeeps DEF Gathered, SameGrouped

(* A start() or stop() begins where the earlier calls are done.            *)
LEMMA CommandGathers ==
  ASSUME QuietAssumption, SonosTypeOK, SonosTypeOK', Gathered, NEW w \in Workers, NEW ph,
         Commanded(w, ph)
  PROVE  Gathered'
<1>i. Idle.op = "none" /\ Idle.pc = "idle"
  BY DEF Idle
<1>0. PICK call : /\ call \in {StartCall, StopCall}
                  /\ call = StartCall <=> Starts(ph)
                  /\ Issue(w, call)
                  /\ active' = Starts(ph)
  BY DEF Commanded, Command, Call, StartCall, StopCall, Idle
<1>1. /\ call.op \in {"start", "stop"} /\ Lines(call)
      /\ call.op = "start" => call.pc = "discover"
      /\ call.op = "stop" => call.pc = "halt"
      /\ call.op = "start" <=> Starts(ph)
  BY <1>0 DEF Call, StartCall, StopCall, Idle, Places, Lines, Probing, Joining
<1>2. \A x \in Workers : job[x] = Idle
  <2>1. call.op \notin Overlapping
    BY <1>1 DEF QuietAssumption
  <2> QED  BY <1>0, <2>1 DEF Issue, Quiet, IdleWorkers
<1>3. /\ job'[w] = call /\ OnlyMoves(w)
      /\ \A x \in Workers \ {w} : job'[x] = Idle
      /\ UNCHANGED <<sound, leader, infos, coordinator, members>>
  BY <1>0, <1>2
  DEF Commanded, Issue, Submit, OnlyMoves, fieldVars, playerVars, SonosTypeOK, JobsOK
<1>4. call.op = "start" => ~active /\ coordinator = NoZone
  BY <1>0, <1>1, <1>2, <1>i DEF Starts, Gathered, Fields, Stopping
<1>5. call.op = "stop" => active /\ ~active'
  BY <1>0, <1>1 DEF Commanded, Commands, Stops
<1>6. ASSUME NEW x \in Workers PROVE Relies(job[x])'
  BY <1>0, <1>1, <1>3, <1>4, <1>i
  DEF Relies, Lines, Places, Probing, Preparing, Joining
<1>7. StartsAlone' /\ Fields'
  BY <1>0, <1>1, <1>2, <1>3, <1>4, <1>5, <1>i
  DEF StartsAlone, Fields, Starting, Stopping, Gathered, At
<1>8. Together'
  <2>1. (\A x \in Workers : job[x].pc \notin Ending) /\ Held' = Held
    BY <1>2, <1>3, <1>i DEF Ending, Held
  <2>2. active' => Starting(w)' /\ job'[w].pc \notin Joining
    BY <1>0, <1>1, <1>3 DEF Starting, Joining
  <2> QED  BY <1>3, <2>1, <2>2 DEF Gathered, Together
<1> QED
  BY <1>3, <1>6, <1>7, <1>8, SameGroups DEF Gathered

(* A step that leaves the session and the groups alone.                    *)
LEMMA SameGathers ==
  ASSUME Gathered, Grouped', UNCHANGED <<fieldVars, job, leader, active>>
  PROVE  Gathered'
<1> USE DEF fieldVars
<1>1. ASSUME NEW w \in Workers PROVE Relies(job[w])'
  BY DEF Gathered, Relies, Lines, Places, NobodyGrouped
<1>2. StartsAlone' /\ Fields' /\ Together'
  BY DEF Gathered, StartsAlone, Fields, Together, Starting, Stopping, Held, At
<1> QED  BY <1>1, <1>2 DEF Gathered

(* The invariant is inductive.                                             *)
LEMMA GatheredStep ==
  ASSUME QuietAssumption, SonosTypeOK, SonosTypeOK', Tame, Gathered, RoomStep
  PROVE  Gathered'
<1>1. ASSUME NEW w \in Workers, WorkerStep(w), UNCHANGED active PROVE Gathered'
  <2>1. ~NameRaises(w)
    BY NameRaisesEnds DEF QuietAssumption
  <2> QED
    BY <1>1, <2>1, StartGathers, PlayGathers, StopGathers, WatchdogGathers DEF WorkerStep
<1>2. ASSUME NEW w \in Workers, active, Handed(w, WatchdogCall), UNCHANGED active
      PROVE  Gathered'
  <2>1. WatchdogCall.op = "watchdog" /\ WatchdogCall.pc = "check" /\ Lines(WatchdogCall)
    BY DEF WatchdogCall, Call, Idle, Lines, Places, Probing, Joining
  <2> QED  BY <1>2, <2>1, HandedGathers
<1>3. ASSUME NEW w \in Workers, NEW z \in Zones, NEW v \in Volumes,
             Handed(w, VolumeCall(z, v)), UNCHANGED active
      PROVE  Gathered'
  <2>1. /\ VolumeCall(z, v).op = "set_volume" /\ VolumeCall(z, v).pc = "volume"
        /\ Lines(VolumeCall(z, v))
    BY DEF VolumeCall, Call, Idle, Lines, Places, Probing, Joining
  <2> QED  BY <1>3, <2>1, HandedGathers
<1>4. CASE Players /\ UNCHANGED active
  <2>1. PICK z \in Zones : Wander(z) \/ PlayOther(z)
    BY <1>4 DEF Players
  <2>2. leader[z] = z
    BY <2>1 DEF Wander, PlayOther, Gathered, Grouped
  <2>3. Grouped'
    BY <2>1, <2>2, SoundGroups DEF Wander, PlayOther, Gathered, SonosTypeOK, Sounds
  <2> QED  BY <1>4, <2>1, <2>3, SameGathers DEF Wander, PlayOther
<1>5. CASE UNCHANGED <<sonosVars, active>>
  BY <1>5, SameGroups, SameGathers DEF sonosVars, playerVars, Gathered
<1> QED
  BY <1>1, <1>2, <1>3, <1>4, <1>5, CommandGathers DEF RoomStep

(* There is no session to begin with.                                      *)
LEMMA GatheredInit == Init => Gathered
<1> SUFFICES ASSUME Init PROVE Gathered
  OBVIOUS
<1>i. Idle.op = "none" /\ Idle.pc = "idle" /\ Relies(Idle)
  BY DEF Idle, Relies, Lines, Places, Probing, Preparing, Joining
<1>1. /\ coordinator = NoZone /\ members = {} /\ ~active /\ Held = {}
      /\ \A w \in Workers : job[w] = Idle
  BY DEF Init, SonosInit, Held
<1>2. StartsAlone /\ Fields /\ Together
  BY <1>1, <1>i DEF StartsAlone, Fields, Together, Starting, Stopping
<1> QED  BY <1>1, <1>2, <1>i, FreeInit DEF Gathered

(* Once no call runs, there is nothing of Gathered left but the group.     *)
LEMMA GatheredGroup == Gathered => OneGroup
<1> SUFFICES ASSUME Gathered, Quiet PROVE OneGroup!2
  BY DEF OneGroup
<1>1. \A w \in Workers : job[w].op = "none" /\ job[w].pc = "idle"
  BY DEF Quiet, IdleWorkers, Idle
<1> QED
  BY <1>1 DEF Gathered, Together, Fields, Starting, Stopping, Ending, Held

(* The fields describe the players between any two calls: one group of the *)
(* coordinator and its members, the zones that the dashboard calls grouped,*)
(* and none at all without a session; whatever fails and whatever people do*)
(* to the speakers, for every household, when each start() and stop() finds*)
(* the earlier calls done.                                                 *)
THEOREM SessionIsOneGroup ==
  ASSUME QuietAssumption
  PROVE  Spec => []OneGroup
<1>1. Inv /\ Inv' /\ Tame /\ Gathered /\ [Next]_vars => Tame' /\ Gathered'
  BY StepTame, CoreStep, GatheredStep DEF Inv, CoreTypeOK, QuietAssumption
<1> QED
  BY <1>1, GatheredGroup, InitInv, StepInv, InitTame, GatheredInit, PTL DEF Spec


----------------------------------------------------------------------------
(* The stream, from the play_uri of a start() to the stop() of its zone.   *)
LEMMA StreamsKept ==
  ASSUME Streams, NEW w \in Workers,
         \A z \in Zones : sound'[z] = "stream" => sound[z] = "stream",
         UNCHANGED coordinator,
         \A x \in Workers \ {w} : job'[x].pc = job[x].pc /\ job'[x].target = job[x].target,
         job[w].pc # "adopt",
         job'[w].pc \in Ending => job[w].pc \in Ending
  PROVE  Streams'
  BY DEF Streams, At

(* start() streams on its coordinator-to-be only.                          *)
LEMMA StartStreams ==
  ASSUME SonosTypeOK, Gathered, Streams, NEW w \in Workers, StartStep(w)
  PROVE  Streams'
<1>0. /\ FieldsOK /\ PlayersOK /\ JobsOK
      /\ job \in [Workers -> JobRecords] /\ job[w] \in JobRecords
  BY DEF SonosTypeOK, JobsOK
<1> USE <1>0
<1>1. Starting(w)
  BY DEF StartStep, Discover, EndProbe, Select, SetMaster, EndSnapshots, Adopt, Enlist,
         AppendMember, EndStart, Probe, Snapshot, Join, At, Gathered, Relies, Lines, Places,
         Starting, Probing, Joining
<1>2. /\ \A x \in Workers : job[x].pc \notin Ending
      /\ \A x \in Workers \ {w} : job[x].op \notin {"start", "stop"} /\ job[x].pc # "adopt"
  BY <1>1, NobodyEnds DEF Gathered, Relies, Lines
<1> USE DEF Becomes, Goto, Return, At, fieldVars, playerVars
<1>3. CASE Adopt(w)
  <2>1. /\ coordinator = NoZone /\ coordinator' = job[w].target /\ UNCHANGED sound
        /\ job[w].pc = "adopt"
    BY <1>1, <1>3 DEF Adopt, Gathered, Relies, Starting, Joining
  <2>2. \A x \in Workers : job'[x].pc \notin Ending
    BY <1>2, <1>3 DEF Adopt, JobRecords, Ending
  <2> QED  BY <1>2, <2>1, <2>2, ControllerAssumption DEF Streams
<1>4. CASE AppendMember(w)
  <2>1. ASSUME NEW x \in Workers \ {w}
        PROVE  job'[x].pc = job[x].pc /\ job'[x].target = job[x].target
    <3>1. /\ job'[x] = [job[x] EXCEPT !.todo = IF job[x].live THEN @ \cup {job[w].zone} ELSE @]
          /\ job[x] \in JobRecords
      BY <1>4, <2>1 DEF AppendMember
    <3> QED  BY <3>1 DEF JobRecords
  <2>2. job'[w].pc = "join" /\ job[w].pc = "append"
    BY <1>4 DEF AppendMember, JobRecords
  <2> QED  BY <1>4, <2>1, <2>2, StreamsKept DEF AppendMember, Ending
<1>6. CASE Enlist(w)
  <2>1. ASSUME NEW x \in Workers \ {w}
        PROVE  job'[x].pc = job[x].pc /\ job'[x].target = job[x].target
    <3>1. job'[x] = [job[x] EXCEPT !.live = FALSE] /\ job[x] \in JobRecords
      BY <1>6, <2>1 DEF Enlist, Detached
    <3> QED  BY <3>1 DEF JobRecords
  <2>2. job'[w].pc = "join" /\ job[w].pc = "enlist"
    BY <1>6 DEF Enlist, JobRecords
  <2> QED  BY <1>6, <2>1, <2>2, StreamsKept DEF Enlist, Ending
<1>5. CASE ~Adopt(w) /\ ~Enlist(w) /\ ~AppendMember(w)
  <2>1. /\ UNCHANGED coordinator /\ \A x \in Workers \ {w} : job'[x] = job[x]
        /\ job[w].pc # "adopt"
    BY <1>5 DEF StartStep, Discover, EndProbe, Select, SetMaster, EndSnapshots,
                EndStart, Probe, Snapshot, Join
  <2>2. \A z \in Zones : sound'[z] = "stream" => sound[z] = "stream"
    BY <1>5 DEF StartStep, Discover, EndProbe, Select, SetMaster, EndSnapshots,
                EndStart, Probe, Snapshot, Join, JoinedTo, PlayersOK
  <2>3. job'[w].pc \notin Ending
    <3>1. Idle.pc = "idle"
      BY DEF Idle
    <3>2. CASE \E z \in Zones : Probe(w, z)
      <4>1. PICK z, j :
              /\ job' = [job EXCEPT ![w] = j]
              /\ j \in {[job[w] EXCEPT !.todo = @ \ {z}],
                        [job[w] EXCEPT !.todo = @ \ {z}, !.busy = @ \cup {z}],
                        [job[w] EXCEPT !.todo = @ \ {z}, !.cand = @ \cup {z}]}
        BY <3>2 DEF Probe
      <4> QED  BY <1>2, <4>1 DEF JobRecords
    <3>3. CASE \E z \in Zones : Snapshot(w, z) \/ Join(w, z)
      <4>1. PICK z, j :
              /\ job' = [job EXCEPT ![w] = j]
              /\ j \in {[job[w] EXCEPT !.todo = @ \ {z}],
                        [job[w] EXCEPT !.todo = @ \ {z}, !.pc = "master", !.zone = z],
                        [job[w] EXCEPT !.todo = @ \ {z}, !.pc = "append", !.zone = z]}
        BY <3>3 DEF Snapshot, Join
      <4> QED  BY <1>2, <4>1 DEF JobRecords, Ending
    <3>4. CASE EndProbe(w)
      <4>1. job'[w] = Idle \/ job'[w] = [job[w] EXCEPT !.pc = "select", !.busy = {}]
        BY <3>4 DEF EndProbe
      <4> QED  BY <3>1, <4>1 DEF JobRecords, Ending
    <3>5. CASE Discover(w) \/ Select(w)
      <4>1. PICK c, found :
              \/ job' = [job EXCEPT ![w] = [job[w] EXCEPT !.pc = "probe", !.todo = found]]
              \/ job' = [job EXCEPT ![w] = [job[w] EXCEPT !.pc = "snapshot", !.target = c,
                                                         !.todo = found]]
        BY <3>5 DEF Discover, Select
      <4> QED  BY <4>1 DEF JobRecords, Ending
    <3>6. CASE SetMaster(w) \/ EndSnapshots(w) \/ EndStart(w)
      <4>1. PICK j : /\ job' = [job EXCEPT ![w] = j]
                     /\ j \in {[job[w] EXCEPT !.pc = "snapshot", !.zone = NoZone],
                               [job[w] EXCEPT !.pc = "group"], Idle}
        BY <3>6 DEF SetMaster, EndSnapshots, EndStart
      <4>2. job'[w] = j
        BY <1>2, <4>1 DEF JobRecords
      <4> QED  BY <1>2, <3>1, <4>1, <4>2 DEF JobRecords, Ending
    <3> QED
      BY <1>5, <3>2, <3>3, <3>4, <3>5, <3>6 DEF StartStep
  <2> QED  BY <2>1, <2>2, <2>3, StreamsKept
<1> QED  BY <1>3, <1>4, <1>5, <1>6

(* The other methods end the stream, or put it where it was.               *)
LEMMA OtherStreams ==
  ASSUME SonosTypeOK, Tame, Gathered, Streams, "halt" \notin MayFail, NEW w \in Workers,
         PlayStep(w) \/ StopStep(w) \/ WatchdogStep(w) \/ SetVolume(w)
  PROVE  Streams'
<1>0. /\ FieldsOK /\ PlayersOK /\ JobsOK
      /\ job \in [Workers -> JobRecords] /\ job[w] \in JobRecords /\ Ready(job[w])
      /\ Relies(job[w]) /\ Lines(job[w])
  BY DEF SonosTypeOK, JobsOK, Gathered, Relies
<1> USE <1>0
<1>i. Idle.pc = "idle"
  BY DEF Idle
<1> USE DEF Becomes, Goto, Return, At, fieldVars, playerVars
<1>1. CASE Play(w)
  <2>1. /\ job[w].pc = "play" /\ job[w].op \in {"start", "watchdog"} /\ active
        /\ job[w].op = "watchdog" => job[w].target = coordinator
        /\ \A x \in Workers : job[x].pc \notin Ending
    BY <1>1 DEF Play, Lines, Relies, Tame, StopsAlone, Places, Ending
  <2>2. /\ job[w].op = "watchdog" => job'[w] = Idle
        /\ job[w].op = "start" => job'[w] = [job[w] EXCEPT !.pc = "adopt", !.try = 0]
        /\ \A x \in Workers \ {w} : job'[x] = job[x]
        /\ sound' = [sound EXCEPT ![job[w].target] = "stream"]
        /\ UNCHANGED coordinator
    BY <1>1, <2>1 DEF Play
  <2>3. /\ job'[w].pc \notin Ending
        /\ job[w].op = "start" => job'[w].pc = "adopt" /\ job'[w].target = job[w].target
    BY <1>i, <2>1, <2>2 DEF JobRecords, Ending
  <2>4. ASSUME NEW z \in Zones, sound'[z] = "stream"
        PROVE  z = coordinator \/ \E x \in Workers : job'[x].pc = "adopt" /\ job'[x].target = z
    <3>1. CASE z = job[w].target
      BY <2>1, <2>3, <3>1
    <3>2. CASE z # job[w].target
      <4>1. sound[z] = "stream"
        BY <2>2, <2>4, <3>2 DEF PlayersOK
      <4>2. z = coordinator \/ \E x \in Workers \ {w} : job[x].pc = "adopt" /\ job[x].target = z
        BY <2>1, <4>1 DEF Streams
      <4> QED  BY <2>2, <4>2
    <3> QED  BY <3>1, <3>2
  <2>5. \A x \in Workers : job'[x].pc \notin Ending
    BY <2>1, <2>2, <2>3
  <2> QED  BY <2>2, <2>4, <2>5 DEF Streams
<1>2. CASE Halt(w)
  <2>1. /\ job[w].op = "stop" /\ job[w].pc = "halt"
        /\ \A x \in Workers : job[x].pc \notin Ending \cup {"adopt"}
    BY <1>2 DEF Halt, Lines, Places, Tame, StopsAlone, Ending, Gathered, Relies
  <2>2. coordinator \in Zones => LeadsItself(coordinator)
    BY <2>1, ControllerAssumption DEF LeadsItself, Gathered, Together, Held
  <2>3. \A z \in Zones : sound'[z] # "stream"
    BY <1>2, <2>1, <2>2, ControllerAssumption
    DEF Halt, Fails, Streams, PlayersOK, FieldsOK, LeadsItself
  <2>4. UNCHANGED coordinator
    BY <1>2 DEF Halt
  <2> QED  BY <2>3 DEF Streams
<1>3. CASE Clear(w) \/ Disband(w)
  <2>1. \A z \in Zones : sound'[z] # "stream"
    BY <1>3 DEF Clear, Disband, Streams, Ending
  <2> QED  BY <2>1 DEF Streams
<1>4. CASE ~Play(w) /\ ~Halt(w) /\ ~Clear(w) /\ ~Disband(w)
  <2>1. /\ UNCHANGED coordinator /\ \A x \in Workers \ {w} : job'[x] = job[x]
        /\ job[w].pc # "adopt"
    BY <1>4 DEF PlayStep, StopStep, WatchdogStep, LeaveGroup, Ungroup, PlayRaises, Unjoin, Collect,
                Restore, Check, Transport, Reissue, Raises, SetVolume
  <2>2. \A z \in Zones : sound'[z] = "stream" => sound[z] = "stream"
    BY <1>4 DEF PlayStep, StopStep, WatchdogStep, LeaveGroup, Ungroup, PlayRaises, Unjoin, Collect,
                Restore, Check, Transport, Reissue, Raises, SetVolume, Unjoined, PlayersOK
  <2>3. job'[w].pc \in Ending => job[w].pc \in Ending
    <3>1. CASE Collect(w) \/ \E z \in Zones : Unjoin(w, z) \/ Restore(w, z)
      BY <3>1 DEF Collect, Unjoin, Restore, Ending
    <3>2. CASE LeaveGroup(w) \/ Ungroup(w) \/ PlayRaises(w)
      <4>1. \/ job'[w] = Idle
            \/ job'[w] = [job[w] EXCEPT !.pc = "ungroup"]
            \/ job'[w] = [job[w] EXCEPT !.pc = "play", !.try = 1]
            \/ job'[w] = [job[w] EXCEPT !.try = @ + 1]
        BY <3>2 DEF LeaveGroup, Ungroup, PlayRaises
      <4>2. job'[w].pc \in {"idle", "ungroup", "play", job[w].pc}
        BY <1>i, <4>1 DEF JobRecords
      <4> QED  BY <4>2 DEF Ending
    <3>3. CASE WatchdogStep(w) \/ SetVolume(w)
      <4>1. \/ job'[w] = Idle
            \/ job'[w] = [job[w] EXCEPT !.pc = "transport"]
            \/ job'[w] = [job[w] EXCEPT !.pc = "reissue"]
            \/ job'[w] = [job[w] EXCEPT !.pc = "group", !.target = coordinator]
        BY <3>3 DEF WatchdogStep, Check, Transport, Reissue, Raises, SetVolume
      <4>2. job'[w].pc \in {"idle", "transport", "reissue", "group"}
        BY <1>i, <4>1 DEF JobRecords
      <4> QED  BY <4>2 DEF Ending
    <3> QED  BY <1>4, <3>1, <3>2, <3>3 DEF PlayStep, StopStep
  <2> QED  BY <2>1, <2>2, <2>3, StreamsKept
<1> QED  BY <1>1, <1>2, <1>3, <1>4


(* The invariant is inductive if stop() can stop the coordinator.          *)
LEMMA StreamsStep ==
  ASSUME QuietAssumption, "halt" \notin MayFail,
         SonosTypeOK, Tame, Gathered, Streams, RoomStep
  PROVE  Streams'
<1>1. ASSUME NEW w \in Workers, WorkerStep(w) PROVE Streams'
  <2>1. ~NameRaises(w)
    BY NameRaisesEnds DEF QuietAssumption
  <2> QED  BY <1>1, <2>1, StartStreams, OtherStreams DEF WorkerStep
<1>2. ASSUME NEW w \in Workers, NEW call, call.pc \in {"discover", "halt", "check", "volume"},
             Handed(w, call)
      PROVE  Streams'
  <2>1. /\ job[w] = Idle /\ job' = [job EXCEPT ![w] = call]
        /\ UNCHANGED <<sound, coordinator>>
    BY <1>2 DEF Handed, Submit, fieldVars, playerVars
  <2>2. job[w].pc = "idle" /\ job'[w] = call /\ \A x \in Workers \ {w} : job'[x] = job[x]
    BY <2>1 DEF Idle, SonosTypeOK, JobsOK
  <2> QED  BY <1>2, <2>1, <2>2, StreamsKept DEF Ending
<1>3. /\ StartCall.pc = "discover" /\ StopCall.pc = "halt" /\ WatchdogCall.pc = "check"
      /\ \A z \in Zones, v \in Volumes : VolumeCall(z, v).pc = "volume"
  BY DEF StartCall, StopCall, WatchdogCall, VolumeCall, Call, Idle
<1>4. ASSUME NEW w \in Workers, NEW ph, Commanded(w, ph) PROVE Streams'
  BY <1>2, <1>3, <1>4 DEF Commanded, Command, Issue, Handed
<1>5. CASE Players
  BY <1>5 DEF Players, Wander, PlayOther, Streams, At, fieldVars, SonosTypeOK, PlayersOK
<1>6. CASE UNCHANGED sonosVars
  BY <1>6 DEF sonosVars, fieldVars, playerVars, Streams, At
<1> QED
  BY <1>1, <1>2, <1>3, <1>4, <1>5, <1>6 DEF RoomStep

(* Nothing streams to begin with.                                          *)
LEMMA StreamsInit == Init => Streams
<1> SUFFICES ASSUME Init PROVE Streams
  OBVIOUS
<1>1. /\ \A w \in Workers : job[w] = Idle
      /\ \A z \in Zones : sound[z] # "stream"
  BY DEF Init, SonosInit, PlayersInit
<1> QED  BY <1>1 DEF Streams, Idle, Ending

(* Without a session and a call, the stream has no room to be in.          *)
LEMMA StreamsStopped == Inv /\ Gathered /\ Streams => StoppedWhenIdle
<1> SUFFICES ASSUME Inv, Gathered, Streams, ~active, Quiet, NEW z \in Zones
             PROVE  Heard(z) # "stream"
  BY DEF StoppedWhenIdle
<1>1. \A w \in Workers : job[w].op = "none" /\ job[w].pc = "idle"
  BY DEF Quiet, IdleWorkers, Idle
<1>2. coordinator = NoZone
  BY <1>1 DEF Gathered, Fields, Stopping
<1>3. leader[z] \in Zones
  BY DEF Inv, CoreTypeOK, SonosTypeOK, PlayersOK
<1> QED
  BY <1>1, <1>2, <1>3, ControllerAssumption DEF Streams, At, Heard

(* README, IDLE: "Sonos is left alone".  Once a session is over and its    *)
(* calls have returned, no room plays the stream: neither the coordinator  *)
(* nor a room that failed to be ungrouped, nor one that a failed start()   *)
(* left behind, for every household and whatever else fails than the stop  *)
(* of the coordinator itself.                                              *)
THEOREM SpeakersLeftAlone ==
  ASSUME QuietAssumption, "halt" \notin MayFail
  PROVE  Spec => []StoppedWhenIdle
<1>1. Inv /\ Inv' /\ Tame /\ Gathered /\ Streams /\ [Next]_vars
        => Tame' /\ Gathered' /\ Streams'
  BY StepTame, CoreStep, GatheredStep, StreamsStep DEF Inv, CoreTypeOK, QuietAssumption
<1> QED
  BY <1>1, StreamsStopped, InitInv, StepInv, InitTame, GatheredInit, StreamsInit, PTL DEF Spec

----------------------------------------------------------------------------
(* The session across restarts.  The new process has no call running and   *)
(* no session, and nothing the old one left in the rooms contradicts that. *)
LEMMA RestartGathers ==
  ASSUME Inv, Grouped, Restart
  PROVE  Tame' /\ Gathered' /\ Streams'
<1>1. /\ coordinator' = NoZone /\ members' = {} /\ ~active' /\ raised' = {} /\ Held' = {}
      /\ \A w \in Workers : job'[w] = Idle
      /\ \A z \in Zones : sound'[z] # "stream"
  BY DEF Restart, Held, Inv, CoreTypeOK, SonosTypeOK, PlayersOK
<1>2. Tame'
  BY <1>1 DEF Tame, NeverRaises, Places, StopsAlone, CoordinatorStays, At, Idle
<1>3. Relies(Idle)'
  BY DEF Relies, Lines, Places, Idle, Probing, Preparing, Joining
<1>4. StartsAlone' /\ Fields' /\ Together'
  BY <1>1 DEF StartsAlone, Fields, Together, Starting, Stopping, Idle
<1>5. Streams'
  BY <1>1 DEF Streams, Idle, Ending
<1>6. Gathered'
  BY <1>1, <1>3, <1>4, RestartKeeps DEF Gathered
<1> QED  BY <1>2, <1>5, <1>6

(* Between calls the fields describe the players in every process: the     *)
(* session of the new one is the one group it takes it for, although the   *)
(* old one's groups are still there, because play() takes the coordinator  *)
(* out of whatever group it finds it in.                                   *)
THEOREM GroupAcrossRestarts ==
  ASSUME QuietAssumption
  PROVE  RestartSpec => []OneGroup
<1> DEFINE GroupInv == Inv /\ Tame /\ Gathered
<1>1. RestartInit => GroupInv
  BY InitInv, InitTame, GatheredInit DEF RestartInit
<1>2. GroupInv /\ [Next]_vars => GroupInv'
  BY StepInv, StepTame, CoreStep, GatheredStep DEF Inv, CoreTypeOK, QuietAssumption
<1>3. GroupInv /\ Restart => GroupInv'
  BY RestartInv, RestartGathers DEF Gathered
<1>4. GroupInv /\ [RestartNext]_restartVars => GroupInv'
  BY <1>2, <1>3, RestartOrStep
<1>5. GroupInv => OneGroup
  BY GatheredGroup
<1> QED  BY <1>1, <1>4, <1>5, PTL DEF RestartSpec

(* README, IDLE: "Sonos is left alone", by the process that follows one    *)
(* that ended while it played as well: the stream ended with its server.   *)
THEOREM SpeakersAcrossRestarts ==
  ASSUME QuietAssumption, "halt" \notin MayFail
  PROVE  RestartSpec => []StoppedWhenIdle
<1> DEFINE SpeakerInv == Inv /\ Tame /\ Gathered /\ Streams
<1>1. RestartInit => SpeakerInv
  BY InitInv, InitTame, GatheredInit, StreamsInit DEF RestartInit
<1>2. SpeakerInv /\ [Next]_vars => SpeakerInv'
  BY StepInv, StepTame, CoreStep, GatheredStep, StreamsStep
  DEF Inv, CoreTypeOK, QuietAssumption
<1>3. SpeakerInv /\ Restart => SpeakerInv'
  BY RestartInv, RestartGathers DEF Gathered
<1>4. SpeakerInv /\ [RestartNext]_restartVars => SpeakerInv'
  BY <1>2, <1>3, RestartOrStep
<1> QED  BY <1>1, <1>4, StreamsStopped, PTL DEF RestartSpec

=============================================================================
