--------------------------- MODULE NeedleMachine ---------------------------
(***************************************************************************)
(* The needle state machine of state.py: IDLE / SENSING / PLAYING / GRACE. *)
(*                                                                         *)
(* StateMachine keeps two timestamps, _sensing_since and _grace_since, and *)
(* only ever compares now() minus a timestamp with a threshold.  The model *)
(* keeps the elapsed times themselves, saturated at their threshold, so    *)
(* that time can pass for ever in a finite state space.                    *)
(*                                                                         *)
(* The actions prime the variables of this module only: Core.tla conjoins  *)
(* them with what app.py does around each call.                            *)
(***************************************************************************)
EXTENDS Naturals

CONSTANTS
  StartDebounce,  (* DetectCfg.start_debounce_s, in clock units *)
  EndOfSide       (* DetectCfg.end_of_side_s, in clock units    *)

ASSUME DurationsAssumption == StartDebounce \in Nat /\ EndOfSide \in Nat

VARIABLES
  phase,       (* StateMachine._phase                                      *)
  sensingAge,  (* now() - _sensing_since, saturated at StartDebounce       *)
  graceAge     (* now() - _grace_since, saturated at EndOfSide             *)

needleVars == <<phase, sensingAge, graceAge>>

Phases == {"IDLE", "SENSING", "PLAYING", "GRACE"}

(* Both timestamps start at 0.0 on a monotonic clock: long ago.            *)
NeedleInit ==
  /\ phase = "IDLE"
  /\ sensingAge = StartDebounce
  /\ graceAge = EndOfSide

Later(age, limit) == IF age < limit THEN age + 1 ELSE age

(* One unit of time passes.                                                *)
Elapse ==
  /\ sensingAge' = Later(sensingAge, StartDebounce)
  /\ graceAge' = Later(graceAge, EndOfSide)
  /\ UNCHANGED phase

(* Mutation: _sensing_since keeps the time of an earlier run.              *)
DetectedStale(music) ==
  /\ phase = "IDLE" /\ music
  /\ phase' = "SENSING"
  /\ UNCHANGED <<sensingAge, graceAge>>

(* update(music), one disjunct per branch that changes the phase and a last*)
(* one for the calls that return None.                                     *)
Detected(music) ==
  /\ phase = "IDLE" /\ music
  /\ phase' = "SENSING" /\ sensingAge' = 0
  /\ UNCHANGED graceAge

Flickered(music) ==
  /\ phase = "SENSING" /\ ~music
  /\ phase' = "IDLE"
  /\ UNCHANGED <<sensingAge, graceAge>>

(* Mutation: no debounce.                                                  *)
SustainedAtOnce(music) ==
  /\ phase = "SENSING" /\ music
  /\ phase' = "PLAYING"
  /\ UNCHANGED <<sensingAge, graceAge>>

Sustained(music) ==
  /\ phase = "SENSING" /\ music /\ sensingAge >= StartDebounce
  /\ phase' = "PLAYING"
  /\ UNCHANGED <<sensingAge, graceAge>>

WentQuiet(music) ==
  /\ phase = "PLAYING" /\ ~music
  /\ phase' = "GRACE" /\ graceAge' = 0
  /\ UNCHANGED sensingAge

Returned(music) ==
  /\ phase = "GRACE" /\ music
  /\ phase' = "PLAYING"
  /\ UNCHANGED <<sensingAge, graceAge>>

SideOver(music) ==
  /\ phase = "GRACE" /\ ~music /\ graceAge >= EndOfSide
  /\ phase' = "IDLE"
  /\ UNCHANGED <<sensingAge, graceAge>>

(* Mutation: the window restarts at every quiet update.                    *)
NoTransitionRestarts(music) ==
  /\ \/ phase = "IDLE" /\ ~music
     \/ phase = "SENSING" /\ music /\ sensingAge < StartDebounce
     \/ phase = "PLAYING" /\ music
     \/ phase = "GRACE" /\ ~music /\ graceAge < EndOfSide
  /\ graceAge' = IF phase = "GRACE" THEN 0 ELSE graceAge
  /\ UNCHANGED <<phase, sensingAge>>

NoTransition(music) ==
  /\ \/ phase = "IDLE" /\ ~music
     \/ phase = "SENSING" /\ music /\ sensingAge < StartDebounce
     \/ phase = "PLAYING" /\ music
     \/ phase = "GRACE" /\ ~music /\ graceAge < EndOfSide
  /\ UNCHANGED needleVars

Update(music) ==
  \/ Detected(music)  \/ Flickered(music) \/ Sustained(music)
  \/ WentQuiet(music) \/ Returned(music)  \/ SideOver(music)
  \/ NoTransition(music)

ManualStart == phase' = "PLAYING" /\ UNCHANGED <<sensingAge, graceAge>>

ManualStop == phase' = "IDLE" /\ UNCHANGED <<sensingAge, graceAge>>

(* Mutation: keep_playing() is lost.                                       *)
KeepPlayingLost == UNCHANGED needleVars

(* keep_playing(): restart the end-of-side countdown, in GRACE only.       *)
KeepPlaying ==
  /\ graceAge' = IF phase = "GRACE" THEN 0 ELSE graceAge
  /\ UNCHANGED <<phase, sensingAge>>

NeedleTypeOK ==
  /\ phase \in Phases
  /\ sensingAge \in 0 .. StartDebounce
  /\ graceAge \in 0 .. EndOfSide

============================================================================
