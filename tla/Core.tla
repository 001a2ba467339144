------------------------------- MODULE Core --------------------------------
(***************************************************************************)
(* app.py: the Core object on its event loop.  It owns the needle state    *)
(* machine (NeedleMachine) and hands the Sonos calls to a thread pool      *)
(* (SonosController).                                                      *)
(*                                                                         *)
(* The event loop runs one coroutine between two awaits, so one step of    *)
(* this module is what a coroutine does from one await to the next.  The   *)
(* tick loop awaits the start() or stop() it has issued, and calls         *)
(* update() again only when that call has returned; the handlers of        *)
(* web.py and the pool's threads go on meanwhile.  A call that raises ends *)
(* the coroutine that awaits it: a handler answers 500, the tick loop's    *)
(* task is over.                                                           *)
(***************************************************************************)
EXTENDS NeedleMachine, SonosController

CONSTANTS
  WatchdogEvery,  (* WATCHDOG_EVERY_S, in clock units                      *)
  NoWorker,       (* the tick loop awaits no call                          *)
  Overlapping,    (* the calls that may be issued while another one runs   *)
  MaxActs         (* bound: what people do, on the dashboard or elsewhere  *)

ASSUME CoreAssumption ==
  /\ WatchdogEvery \in Nat
  /\ NoWorker \notin Workers
  /\ Overlapping \subseteq {"start", "stop", "set_volume"}
  /\ MaxActs \in Nat

VARIABLES
  active,       (* _sonos_active                                           *)
  music,        (* detector.music                                          *)
  ticking,      (* the task of _tick_loop runs                             *)
  awaiting,     (* the worker whose call the tick loop awaits              *)
  watchdogAge,  (* now() - _last_watchdog, saturated at WatchdogEvery      *)
  acts          (* what people have done so far                            *)

coreVars == <<active, music, ticking, awaiting, watchdogAge, acts>>
vars == <<needleVars, sonosVars, coreVars>>

(* _last_watchdog = 0.0: the first watchdog is due at once.                *)
Init ==
  /\ NeedleInit
  /\ SonosInit
  /\ active = FALSE
  /\ music = FALSE
  /\ ticking = TRUE
  /\ awaiting = NoWorker
  /\ watchdogAge = WatchdogEvery
  /\ acts = 0

----------------------------------------------------------------------------
(* _apply: what an event that leads to phase ph commands.                  *)
Starts(ph) == ph = "PLAYING" /\ ~active
Stops(ph) == ph = "IDLE" /\ active
Commands(ph) == Starts(ph) \/ Stops(ph)

(* A worker the tick loop still awaits has not handed its result over.     *)
Free == IdleWorkers \ {awaiting}

(* A call that is not in Overlapping finds the earlier ones done: people   *)
(* wait for the answer of a click, and the grace window outlasts a call.   *)
Quiet == IdleWorkers = Workers

Issue(w, call) ==
  /\ call.op \in Overlapping \/ Quiet
  /\ w \in Free
  /\ Submit(w, call)

(* Mutation: _sonos_active is not updated.                                 *)
CommandUnrecorded(w, ph) ==
  /\ Issue(w, IF Starts(ph) THEN StartCall ELSE StopCall)
  /\ UNCHANGED active

Command(w, ph) ==
  /\ Issue(w, IF Starts(ph) THEN StartCall ELSE StopCall)
  /\ active' = Starts(ph)

(* The rest of a tick: the watchdog, fired and forgotten.                  *)
WatchdogDue(ph) == ph = "PLAYING" /\ watchdogAge = WatchdogEvery

Watch(ph) ==
  IF WatchdogDue(ph)
  THEN /\ watchdogAge' = 0
       /\ IF music THEN \E w \in Free : Submit(w, WatchdogCall)
          ELSE UNCHANGED <<job, raised>>
  ELSE UNCHANGED <<watchdogAge, job, raised>>

(* One tick of _tick_loop whose update() commands nothing.                 *)
Tick ==
  /\ ticking /\ awaiting = NoWorker
  /\ Update(music)
  /\ phase' = phase \/ ~Commands(phase')
  /\ Watch(phase')
  /\ UNCHANGED <<fieldVars, playerVars, active, music, ticking, awaiting, acts>>

(* A tick that issues a command, and suspends.                             *)
TickCommand(w) ==
  /\ ticking /\ awaiting = NoWorker
  /\ Update(music)
  /\ phase' # phase /\ Commands(phase')
  /\ Command(w, phase')
  /\ awaiting' = w
  /\ UNCHANGED <<fieldVars, playerVars, music, ticking, watchdogAge, acts>>

Answered == awaiting \in IdleWorkers

(* Mutation: the phase is not read again; the command led to PLAYING.      *)
TickResumeStale ==
  /\ Answered /\ awaiting \notin raised
  /\ awaiting' = NoWorker
  /\ Watch("PLAYING")
  /\ UNCHANGED <<needleVars, fieldVars, playerVars, active, music, ticking, acts>>

(* The command has returned: the tick reads the phase again and goes on.   *)
TickResume ==
  /\ Answered /\ awaiting \notin raised
  /\ awaiting' = NoWorker
  /\ Watch(phase)
  /\ UNCHANGED <<needleVars, fieldVars, playerVars, active, music, ticking, acts>>

(* The command has raised, and with it the task, which nobody looks at     *)
(* before the shutdown.                                                    *)
TickLoopEnds ==
  /\ Answered /\ awaiting \in raised
  /\ awaiting' = NoWorker
  /\ ticking' = FALSE
  /\ UNCHANGED <<needleVars, sonosVars, active, music, watchdogAge, acts>>

----------------------------------------------------------------------------
(* The handlers of web.py.  Each runs on its own and awaits its own call.  *)
Act == acts < MaxActs /\ acts' = acts + 1

Click ==
  /\ Act
  /\ IF Commands(phase')
     THEN \E w \in Workers : Command(w, phase')
     ELSE UNCHANGED <<active, job, raised>>
  /\ UNCHANGED <<fieldVars, playerVars, music, ticking, awaiting, watchdogAge>>

StartClicked == ManualStart /\ Click
StopClicked == ManualStop /\ Click

KeepClicked ==
  /\ Act
  /\ KeepPlaying
  /\ UNCHANGED <<sonosVars, active, music, ticking, awaiting, watchdogAge>>

VolumeClicked(w, z, v) ==
  /\ Act
  /\ Issue(w, VolumeCall(z, v))
  /\ UNCHANGED <<needleVars, fieldVars, playerVars>>
  /\ UNCHANGED <<active, music, ticking, awaiting, watchdogAge>>

----------------------------------------------------------------------------
(* The world around: time, the record, the players and the pool's threads. *)
Clock ==
  /\ Elapse
  /\ watchdogAge' = Later(watchdogAge, WatchdogEvery)
  /\ UNCHANGED <<sonosVars, active, music, ticking, awaiting, acts>>

(* detector.music flips.                                                   *)
Listen ==
  /\ music' = ~music
  /\ UNCHANGED <<needleVars, sonosVars, active, ticking, awaiting, watchdogAge, acts>>

Work(w) == WorkerStep(w) /\ UNCHANGED <<needleVars, coreVars>>

Others ==
  /\ Act
  /\ Players
  /\ UNCHANGED <<needleVars, active, music, ticking, awaiting, watchdogAge>>

Next ==
  \/ Tick
  \/ \E w \in Workers : TickCommand(w)
  \/ TickResume
  \/ TickLoopEnds
  \/ StartClicked
  \/ StopClicked
  \/ KeepClicked
  \/ \E w \in Workers, z \in Zones, v \in Volumes : VolumeClicked(w, z, v)
  \/ Clock
  \/ Listen
  \/ \E w \in Workers : Work(w)
  \/ Others

Spec == Init /\ [][Next]_vars

(* The event loop reaches the tick loop again and again, time passes, and  *)
(* every thread of the pool runs: SoCo's requests have timeouts.           *)
Ticking == Tick \/ TickResume \/ TickLoopEnds \/ \E w \in Workers : TickCommand(w)

Fairness ==
  /\ WF_vars(Ticking)
  /\ WF_vars(Clock)
  /\ \A w \in Workers : WF_vars(Work(w))

FairSpec == Spec /\ Fairness

----------------------------------------------------------------------------
Running(op) == \E w \in Workers : job[w].op = op

CoreTypeOK ==
  /\ NeedleTypeOK
  /\ SonosTypeOK
  /\ active \in BOOLEAN
  /\ music \in BOOLEAN
  /\ ticking \in BOOLEAN
  /\ awaiting \in Workers \cup {NoWorker}
  /\ watchdogAge \in 0 .. WatchdogEvery
  /\ acts \in 0 .. MaxActs

(* _sonos_active says that the last command was a start, and update() and  *)
(* the handlers move the phase while earlier commands still run: whatever  *)
(* the interleaving, a start is always followed by its stop, because the   *)
(* flag holds exactly in the two phases that keep the speakers.            *)
HeldIffPlaying == active <=> phase \in {"PLAYING", "GRACE"}

(* README, IDLE: "Sonos is left alone".  Once the last call has returned   *)
(* no room plays the stream outside PLAYING and GRACE.                     *)
StoppedWhenIdle ==
  ~active /\ Quiet => \A z \in Zones : Heard(z) # "stream"

(* README, master_volume: "the old volumes come back when it stops", those *)
(* that were set on the dashboard meanwhile included.                      *)
VolumesComeBack ==
  ~active /\ Quiet => \A z \in Zones : volume[z] = HomeVolume

(* "Rooms already playing something else get skipped" (README,             *)
(* dont_interrupt_busy): what a room was playing before needledrop came is *)
(* never silenced or replaced, by any interleaving of the calls.           *)
BusyLeftAlone ==
  [][\A z \in Zones : Heard(z) = "other" => Heard(z)' = "other"]_vars

(* Between calls the controller's fields describe the players: one group   *)
(* of the coordinator and its members, the zones the dashboard calls       *)
(* grouped, and no group at all without a session.                         *)
OneGroup ==
  Quiet => /\ \A z \in Held : leader[z] = coordinator
           /\ coordinator \notin members
           /\ active => Held = {z \in Zones : infos[z].grouped}
           /\ ~active => Held = {}

(* No call of the controller raises: "All per-zone SoCo calls are wrapped: *)
(* failures are logged and the zone marked unreachable - they never raise  *)
(* out of the controller" (sonos.py:11).                                   *)
NeverRaises == raised = {}

(* "Every ~10s in PLAYING: re-issue play" (sonos.py:177): a watchdog is    *)
(* handed over only in PLAYING, with the session of that phase wanted,     *)
(* although clicks move the phase while the tick loop awaits its command.  *)
WatchdogInPlaying ==
  [][\A w \in Workers : job[w].op # "watchdog" /\ job'[w].op = "watchdog"
       => phase' = "PLAYING" /\ active']_vars

(* And what it re-issues is part of playback: once a stop() is under way   *)
(* and no start() is, no room takes up the stream.                         *)
WatchdogStaysQuiet ==
  [][~active /\ ~Running("start")
       => \A z \in Zones : sound'[z] = "stream" => sound[z] = "stream"]_vars

(* The tick loop, and with it detection and the keepalive, is suspended    *)
(* during a command, but every command returns.                            *)
TickReturns == awaiting # NoWorker ~> awaiting = NoWorker

(* When the record ends the speakers are let go, whatever was clicked      *)
(* before: silence for ever leads to IDLE for ever, with no call running,  *)
(* as long as the tick loop is there.                                      *)
SideEnds == <>[](~music /\ ticking) => <>[](phase = "IDLE" /\ Quiet)

(* README, GRACE: "The side went quiet.  It streams silence for a grace    *)
(* window ... before stopping Sonos": silence for ever leads to IDLE.      *)
SilenceEndsTheSide == <>[]~music => <>[](phase = "IDLE")

(* PLAYING means that rooms play (README, PLAYING: "Rooms are grouped under*)
(* one coordinator and playing the stream").                               *)
PlayingIsHeard ==
  <>[](phase = "PLAYING" /\ music) => <>(\E z \in Zones : Heard(z) # "stopped")

(* Music for ever leads to playback for ever, in every room that was not   *)
(* taken by something else: a stop clicked in between starts again after   *)
(* the debounce, and the watchdog brings a wandered player back.           *)
RecordPlays ==
  <>[]music => <>[](phase = "PLAYING" /\ \A z \in Zones : Heard(z) # "stopped")

----------------------------------------------------------------------------
(* The playback session that the commands, the calls and the players make  *)
(* up: it starts and stops while the calls run.                            *)
Stage ==
  IF Running("start") THEN "starting"
  ELSE IF Running("stop") THEN "stopping"
  ELSE IF active THEN "on" ELSE "off"

Session == INSTANCE PlaybackSession WITH
  stage   <- Stage,
  audible <- {z \in Zones : Heard(z) = "stream"},
  changed <- {z \in Zones : volume[z] # HomeVolume}

(* Core implements the playback session: whatever the needle, the clicks,  *)
(* the watchdog and the failures, all that happens to the rooms is         *)
(* bracketed by a start() and the stop() that undoes it.                   *)
SessionBracket == Session!Spec

============================================================================
