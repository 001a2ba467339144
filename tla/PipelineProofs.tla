-------------------------- MODULE PipelineProofs ---------------------------
(***************************************************************************)
(* The way of the sound, for any adapters, thresholds, levels, queue and   *)
(* back-off: the queue of the encoder stays within its bound and the level *)
(* and the callbacks are what the detector and the event loop expect.      *)
(***************************************************************************)
EXTENDS Pipeline, CaptureProofs

(* The parts of the type invariant that are not the supervisor's.          *)
SoundTypes ==
  /\ read \in BOOLEAN
  /\ inbox \in Seq(Sounds \cup {"ended"})
  /\ level \in 0 .. Loudest /\ music \in BOOLEAN
  /\ pcmSeen \in BOOLEAN /\ pcmQueue \in 0 .. PcmMax
  /\ encoder \in BOOLEAN /\ encoding \in BOOLEAN
  /\ suspended \in BOOLEAN
  /\ dryFor \in 0 .. StartDebounce
  /\ clicks \in 0 .. MaxClicks

(* A window of PCM, the capture's or the keepalive's, moves the level      *)
(* within its range.                                                       *)
LEMMA FeedTypes ==
  ASSUME SoundTypes, NEW sound, Feed(sound)
  PROVE  level' \in 0 .. Loudest /\ music' \in BOOLEAN
<1>1. level' \in 0 .. Loudest
  BY DEF Feed
<1>2. music' = (level' >= MusicOn \/ (level' > MusicOff /\ music))
  BY DEF Feed
<1> QED BY <1>1, <1>2 DEF SoundTypes

(* Neither producer of PCM fills the queue beyond its size.                *)
LEMMA EnqueueTypes ==
  ASSUME SoundTypes, Enqueue
  PROVE  pcmQueue' \in 0 .. PcmMax
BY PipelineAssumption DEF SoundTypes, Enqueue

(* The rest of a tick.                                                     *)
LEMMA KeepaliveTypes ==
  ASSUME SoundTypes, NEW ph, Keepalive(ph)
  PROVE  /\ level' \in 0 .. Loudest /\ music' \in BOOLEAN
         /\ pcmSeen' \in BOOLEAN /\ pcmQueue' \in 0 .. PcmMax
<1>1. pcmSeen' \in BOOLEAN
  BY DEF Keepalive
<1>2. CASE Feed("down") /\ Enqueue
  BY <1>1, <1>2, FeedTypes, EnqueueTypes
<1>3. CASE UNCHANGED <<detectorVars, pcmQueue>>
  BY <1>1, <1>3 DEF SoundTypes, detectorVars
<1> QED BY <1>2, <1>3 DEF Keepalive

(* The callbacks of the reader thread, first in, first out.                *)
LEMMA InboxTypes ==
  ASSUME SoundTypes, NEW callback \in Sounds \cup {"ended"}
  PROVE  /\ Append(inbox, callback) \in Seq(Sounds \cup {"ended"})
         /\ inbox # <<>> => Tail(inbox) \in Seq(Sounds \cup {"ended"})
BY DEF SoundTypes

(* The needle machine keeps its types whoever calls it.                    *)
LEMMA NeedleKept ==
  ASSUME NeedleTypeOK,
         \/ \E heard \in BOOLEAN : Update(heard)
         \/ ManualStart \/ ManualStop \/ KeepPlaying \/ Elapse
         \/ UNCHANGED needleVars
  PROVE  NeedleTypeOK'
<1> USE DurationsAssumption DEF NeedleTypeOK, Phases
<1>1. ASSUME NEW heard \in BOOLEAN, Update(heard)
      PROVE  NeedleTypeOK'
  BY <1>1
  DEF Update, Detected, Flickered, Sustained, WentQuiet, Returned, SideOver, NoTransition,
      needleVars
<1>2. CASE ManualStart \/ ManualStop \/ KeepPlaying
  BY <1>2 DEF ManualStart, ManualStop, KeepPlaying
<1>3. CASE Elapse
  BY <1>3 DEF Elapse, Later
<1>4. CASE UNCHANGED needleVars
  BY <1>4 DEF needleVars
<1> QED BY <1>1, <1>2, <1>3, <1>4

(* What a step is for the needle machine, and for the supervisor.          *)
LEMMA NeedleMoves ==
  ASSUME NeedleTypeOK, SoundTypes, [Next]_vars
  PROVE  NeedleTypeOK'
<1>1. CASE Tick
  BY <1>1, NeedleKept DEF Tick, SoundTypes
<1>2. CASE Click
  BY <1>2, NeedleKept DEF Click
<1>3. CASE Clock
  BY <1>3, NeedleKept DEF Clock
<1>4. CASE Supervise \/ Read \/ Ingest \/ TakePcm \/ Publish \/ TickResume \/ Hotplug
             \/ UNCHANGED vars
  BY <1>4, NeedleKept
  DEF Supervise, Read, Ingest, TakePcm, Publish, TickResume, Hotplug, vars
<1> QED BY <1>1, <1>2, <1>3, <1>4 DEF Next

(* For the supervisor, every step of the pipeline is one of its own.       *)
LEMMA CaptureMoves ==
  ASSUME [Next]_vars
  PROVE  CaptureStep(Device)
<1> USE DEF CaptureStep
<1>1. CASE Supervise
  BY <1>1 DEF Supervise, Coroutine, SessionHeard, SessionThread
<1>2. CASE Clock \/ Hotplug
  BY <1>2 DEF Clock, Hotplug
<1>3. CASE Read \/ Ingest \/ TakePcm \/ Publish \/ Tick \/ TickResume \/ Click \/ UNCHANGED vars
  BY <1>3 DEF Read, Ingest, TakePcm, Publish, Tick, TickResume, Click, vars
<1> QED BY <1>1, <1>2, <1>3 DEF Next

(* What a step is for the sound.                                           *)
LEMMA SoundMoves ==
  ASSUME SoundTypes, [Next]_vars
  PROVE  SoundTypes'
<1> USE DurationsAssumption, PipelineAssumption DEF SoundTypes, detectorVars, encodeVars
<1>1. CASE Supervise
  <2>1. inbox' \in Seq(Sounds \cup {"ended"})
    <3>1. CASE UNCHANGED inbox
      BY <3>1
    <3>2. CASE SessionHeard \/ inbox' = Append(inbox, "ended")
      BY <3>2, InboxTypes DEF SessionHeard
    <3> QED BY <1>1, <3>1, <3>2 DEF Supervise, Coroutine, SessionThread
  <2> QED BY <1>1, <2>1 DEF Supervise
<1>2. CASE Read
  BY <1>2, InboxTypes DEF Read
<1>3. CASE Ingest
  <2>1. inbox' \in Seq(Sounds \cup {"ended"})
    BY <1>3, InboxTypes DEF Ingest
  <2>2. level' \in 0 .. Loudest /\ music' \in BOOLEAN /\ pcmQueue' \in 0 .. PcmMax
    BY <1>3, FeedTypes, EnqueueTypes DEF Ingest
  <2> QED BY <1>3, <2>1, <2>2 DEF Ingest
<1>4. CASE TakePcm
  BY <1>4 DEF TakePcm
<1>5. CASE Publish
  BY <1>5 DEF Publish
<1>6. CASE Tick
  <2>1. CASE Commands
    BY <1>6, <2>1 DEF Tick
  <2>2. CASE ~Commands
    BY <1>6, <2>2, KeepaliveTypes DEF Tick
  <2> QED BY <2>1, <2>2
<1>7. CASE TickResume
  BY <1>7, KeepaliveTypes DEF TickResume
<1>8. CASE Click
  BY <1>8 DEF Click
<1>9. CASE Clock
  <2>1. Later(dryFor, StartDebounce) \in 0 .. StartDebounce
    BY DEF Later
  <2> QED BY <1>9, <2>1 DEF Clock
<1>10. CASE Hotplug \/ UNCHANGED vars
  BY <1>10 DEF Hotplug, vars
<1> QED
  BY <1>1, <1>2, <1>3, <1>4, <1>5, <1>6, <1>7, <1>8, <1>9, <1>10 DEF Next

(* For any adapters, levels and clicks the queue of the encoder is bounded *)
(* (app.py:61), whoever fills it, and the detector, the supervisor and the *)
(* needle machine stay in the states that their modules know.              *)
THEOREM PipelineTypes == Spec => []PipelineTypeOK
<1> DEFINE TypeInv == NeedleTypeOK /\ CaptureTypeOK /\ UsbCards /\ SoundTypes
<1>1. Init => TypeInv
  <2>1. Init => NeedleTypeOK
    BY DurationsAssumption DEF Init, NeedleInit, NeedleTypeOK, Phases
  <2>2. Init => SoundTypes
    <3>1. <<>> \in Seq(Sounds \cup {"ended"})
      OBVIOUS
    <3>2. 0 \in 0 .. Loudest /\ 0 \in 0 .. PcmMax /\ 0 \in 0 .. MaxClicks
          /\ StartDebounce \in 0 .. StartDebounce
      BY DurationsAssumption, PipelineAssumption
    <3> QED BY <3>1, <3>2 DEF Init, SoundTypes
  <2> QED BY <2>1, <2>2, NoCards, CaptureTypesInit DEF Init
<1>2. TypeInv /\ [Next]_vars => TypeInv'
  BY NeedleMoves, SoundMoves, CaptureMoves, CardsKept, CaptureTypesKept
<1>3. TypeInv => PipelineTypeOK
  BY DEF PipelineTypeOK, SoundTypes
<1> QED BY <1>1, <1>2, <1>3, PTL DEF Spec

============================================================================
