------------------------------ MODULE Pipeline ------------------------------
(***************************************************************************)
(* The way of the sound: the capture supervisor with its reader thread     *)
(* (Capture), the detector (detect.py), the encoder loop and the tick   *)
(* loop's keepalive (app.py), around the needle state machine.             *)
(*                                                                         *)
(* The reader thread hands PCM to the event loop with call_soon_threadsafe,*)
(* and so does the end of its session: inbox is that queue.  A chunk counts*)
(* as one window of the detector.  Its content is whether it moves the     *)
(* smoothed level up or down.  The Sonos calls are left out: the tick loop *)
(* is suspended while its command runs, and a command is what moves the    *)
(* phase into or out of the phases that hold the speakers                  *)
(* (Core!HeldIffPlaying).                                                  *)
(***************************************************************************)
EXTENDS NeedleMachine, Capture

CONSTANTS
  Device,    (* AudioCfg.device                                            *)
  Loudest,   (* smoothed levels are 0 .. Loudest, the unit is arbitrary    *)
  MusicOn,   (* DetectCfg.music_on_db                                      *)
  MusicOff,  (* DetectCfg.music_off_db                                     *)
  PcmMax,    (* maxsize of _pcm_q                                          *)
  MaxClicks  (* bound: clicks on the dashboard                             *)

ASSUME PipelineAssumption ==
  /\ Loudest \in Nat /\ MusicOn \in 1 .. Loudest /\ MusicOff \in 0 .. MusicOn - 1
  /\ PcmMax \in Nat \ {0}
  /\ MaxClicks \in Nat

VARIABLES
  read,        (* the reader has read a chunk in this unit of time         *)
  inbox,       (* the callbacks the reader thread has scheduled            *)
  level,       (* LevelDetector._ema                                       *)
  music,       (* LevelDetector._music                                     *)
  pcmSeen,     (* _pcm_seen                                                *)
  pcmQueue,    (* the length of _pcm_q                                     *)
  encoder,     (* there is an encoder (lameenc could be loaded)            *)
  encoding,    (* the encoder thread has a chunk                           *)
  suspended,   (* the tick loop awaits the command it has issued           *)
  dryFor,      (* time since PCM was last ingested, saturated  (history)   *)
  clicks       (* clicks so far                                            *)

detectorVars == <<level, music>>
encodeVars == <<encoder, encoding>>
vars == <<needleVars, captureVars, read, inbox, detectorVars, pcmSeen, pcmQueue,
          encodeVars, suspended, dryFor, clicks>>

Sounds == {"up", "down"}

Init ==
  /\ NeedleInit
  /\ CaptureInit
  /\ read = FALSE
  /\ inbox = <<>>
  /\ level = 0
  /\ music = FALSE
  /\ pcmSeen = FALSE
  /\ pcmQueue = 0
  /\ encoder \in BOOLEAN
  /\ encoding = FALSE
  /\ suspended = FALSE
  /\ dryFor = StartDebounce
  /\ clicks = 0

----------------------------------------------------------------------------
(* CaptureSupervisor.  The end of a session is heard on the event loop     *)
(* behind the chunks that were read before it.                             *)
Coroutine ==
  /\ Resolve(Device) \/ Wake
  /\ UNCHANGED inbox

SessionHeard ==
  /\ inbox # <<>> /\ Head(inbox) = "ended"
  /\ SessionOver \/ SessionFailed
  /\ inbox' = Tail(inbox)

SessionThread ==
  \/ Open /\ UNCHANGED inbox
  \/ (EndSession \/ OpenFails) /\ inbox' = Append(inbox, "ended")

Supervise ==
  /\ Coroutine \/ SessionHeard \/ SessionThread
  /\ UNCHANGED <<needleVars, read, detectorVars, pcmSeen, pcmQueue, encodeVars,
                 suspended, dryFor, clicks>>

(* pump(): a chunk per unit of time, until the process ends.               *)
Read ==
  /\ session = "reading" /\ ~read
  /\ \E sound \in Sounds : inbox' = Append(inbox, sound)
  /\ read' = TRUE
  /\ UNCHANGED <<needleVars, captureVars, detectorVars, pcmSeen, pcmQueue, encodeVars,
                 suspended, dryFor, clicks>>

----------------------------------------------------------------------------
(* _ingest, for PCM of the capture and for the keepalive's silence.        *)

(* The average moves towards the window by an amount that depends on both; *)
(* between the thresholds music stays what it was.                         *)
Feed(sound) ==
  /\ level' \in IF sound = "up"
                THEN {l \in 0 .. Loudest : l > level \/ l = Loudest}
                ELSE {l \in 0 .. Loudest : l < level \/ l = 0}
  /\ music' = (level' >= MusicOn \/ (level' > MusicOff /\ music))

(* Mutation: no bound.                                                     *)
EnqueueAlways == pcmQueue' = pcmQueue + 1

(* A chunk that finds the queue full is dropped.                           *)
Enqueue == pcmQueue' = IF pcmQueue < PcmMax THEN pcmQueue + 1 ELSE pcmQueue

Ingest ==
  /\ inbox # <<>> /\ Head(inbox) \in Sounds
  /\ inbox' = Tail(inbox)
  /\ Feed(Head(inbox))
  /\ Enqueue
  /\ pcmSeen' = TRUE
  /\ dryFor' = 0
  /\ UNCHANGED <<needleVars, captureVars, read, encodeVars, suspended, clicks>>

(* _encode_loop.                                                           *)
TakePcm ==
  /\ ~encoding /\ pcmQueue > 0
  /\ pcmQueue' = pcmQueue - 1
  /\ encoding' = encoder
  /\ UNCHANGED <<needleVars, captureVars, read, inbox, detectorVars, pcmSeen, encoder,
                 suspended, dryFor, clicks>>

Publish ==
  /\ encoding
  /\ encoding' = FALSE
  /\ UNCHANGED <<needleVars, captureVars, read, inbox, detectorVars, pcmSeen, pcmQueue,
                 encoder, suspended, dryFor, clicks>>

----------------------------------------------------------------------------
(* _tick_loop.                                                             *)
Holding == {"PLAYING", "GRACE"}

(* Mutation: the keepalive is for the grace window.                        *)
KeepaliveInGrace(ph) ==
  /\ IF ph = "GRACE" /\ ~pcmSeen
     THEN Feed("down") /\ Enqueue
     ELSE UNCHANGED <<detectorVars, pcmQueue>>
  /\ pcmSeen' = FALSE

(* Mutation: _pcm_seen is not reset.                                       *)
SeenForEver(ph) ==
  /\ IF ph \in Holding /\ ~pcmSeen
     THEN Feed("down") /\ Enqueue
     ELSE UNCHANGED <<detectorVars, pcmQueue>>
  /\ UNCHANGED pcmSeen

Keepalive(ph) ==
  /\ IF ph \in Holding /\ ~pcmSeen
     THEN Feed("down") /\ Enqueue
     ELSE UNCHANGED <<detectorVars, pcmQueue>>
  /\ pcmSeen' = FALSE

Commands == (phase \in Holding) # (phase' \in Holding)

Tick ==
  /\ ~suspended
  /\ Update(music)
  /\ IF Commands
     THEN suspended' = TRUE /\ UNCHANGED <<detectorVars, pcmQueue, pcmSeen>>
     ELSE Keepalive(phase') /\ UNCHANGED suspended
  /\ UNCHANGED <<captureVars, read, inbox, encodeVars, dryFor, clicks>>

TickResume ==
  /\ suspended
  /\ suspended' = FALSE
  /\ Keepalive(phase)
  /\ UNCHANGED <<needleVars, captureVars, read, inbox, encodeVars, dryFor, clicks>>

(* The dashboard.                                                          *)
Click ==
  /\ clicks < MaxClicks
  /\ clicks' = clicks + 1
  /\ ManualStart \/ ManualStop \/ KeepPlaying
  /\ UNCHANGED <<captureVars, read, inbox, detectorVars, pcmSeen, pcmQueue, encodeVars,
                 suspended, dryFor>>

----------------------------------------------------------------------------
(* Capture is real time: a unit of it does not pass without its chunk, and *)
(* the event loop is quicker than that.                                    *)
Clock ==
  /\ session = "reading" => read
  /\ inbox = <<>>
  /\ Elapse
  /\ WaitPasses
  /\ read' = FALSE
  /\ dryFor' = Later(dryFor, StartDebounce)
  /\ UNCHANGED <<inbox, detectorVars, pcmSeen, pcmQueue, encodeVars, suspended, clicks>>

(* The adapter is pulled out or put back.                                  *)
Hotplug ==
  /\ Replug
  /\ UNCHANGED <<needleVars, read, inbox, detectorVars, pcmSeen, pcmQueue, encodeVars,
                 suspended, dryFor, clicks>>

Next ==
  \/ Supervise \/ Read
  \/ Ingest \/ TakePcm \/ Publish
  \/ Tick \/ TickResume
  \/ Click \/ Clock \/ Hotplug

Spec == Init /\ [][Next]_vars

(* The event loop and the threads go on, and time passes; nobody has to    *)
(* click, to plug or to unplug.                                            *)
Fairness ==
  /\ WF_vars(Supervise) /\ WF_vars(Read)
  /\ WF_vars(Ingest) /\ WF_vars(TakePcm) /\ WF_vars(Publish)
  /\ WF_vars(Tick) /\ WF_vars(TickResume)
  /\ WF_vars(Clock)

FairSpec == Spec /\ Fairness

----------------------------------------------------------------------------
PipelineTypeOK ==
  /\ NeedleTypeOK
  /\ CaptureTypeOK
  /\ read \in BOOLEAN
  /\ inbox \in Seq(Sounds \cup {"ended"})
  /\ level \in 0 .. Loudest
  /\ music \in BOOLEAN
  /\ pcmSeen \in BOOLEAN
  /\ pcmQueue \in 0 .. PcmMax
  /\ encoder \in BOOLEAN /\ encoding \in BOOLEAN
  /\ suspended \in BOOLEAN
  /\ dryFor \in 0 .. StartDebounce
  /\ clicks \in 0 .. MaxClicks

(* "Never stall listener sockets" (app.py:188): as long as the speakers are*)
(* held MP3 goes out again and again, with and without an adapter, through *)
(* any number of sessions, and while the tick loop waits for its commands. *)
StreamNeverStalls ==
  encoder /\ <>[](phase \in Holding) => []<><<Publish>>_vars

(* The adapter vanishes in the middle of a side: the detector is never fed *)
(* by the capture again, and still the side ends and the speakers are let  *)
(* go, because the keepalive's silence is fed to the detector too.         *)
LostDeviceEnds == <>[](attached = {}) => <>[](phase = "IDLE")

(* "Music must hold this long before playback starts" (README,             *)
(* start_debounce_s): playback does not start by itself when nothing was   *)
(* heard for the whole debounce.                                           *)
StartIsHeard ==
  [][phase = "SENSING" /\ phase' = "PLAYING" => dryFor < StartDebounce]_vars

============================================================================
