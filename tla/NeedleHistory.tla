--------------------------- MODULE NeedleHistory ---------------------------
(***************************************************************************)
(* The needle state machine under any client, with history variables that  *)
(* record what the clients have told it.  The machine itself remembers two *)
(* timestamps; what its docstring and the README promise is about the      *)
(* music heard at every update in between.                                 *)
(***************************************************************************)
EXTENDS NeedleMachine, Integers

VARIABLES
  loudFor,   (* time since the first update of the current unbroken run of *)
             (* updates that saw music; Never when the last one did not    *)
  quietFor,  (* the same for updates that saw none                         *)
  keptFor,   (* time since the last keep_playing() call                    *)
  cause      (* the call that made the last step                           *)

historyVars == <<loudFor, quietFor, keptFor, cause>>
vars == <<needleVars, historyVars>>

(* History ages saturate here: past both thresholds nothing tells them     *)
(* apart.                                                                  *)
Horizon == StartDebounce + EndOfSide

Never == -1

Init ==
  /\ NeedleInit
  /\ loudFor = Never /\ quietFor = Never
  /\ keptFor = Horizon
  /\ cause = "none"

Aged(age) == IF age = Never THEN Never ELSE Later(age, Horizon)
Extended(age) == IF age = Never THEN 0 ELSE age

TimePasses ==
  /\ Elapse
  /\ loudFor' = Aged(loudFor)
  /\ quietFor' = Aged(quietFor)
  /\ keptFor' = Later(keptFor, Horizon)
  /\ cause' = "clock"

Observe(music) ==
  /\ Update(music)
  /\ loudFor' = IF music THEN Extended(loudFor) ELSE Never
  /\ quietFor' = IF music THEN Never ELSE Extended(quietFor)
  /\ cause' = "update"
  /\ UNCHANGED keptFor

StartClicked ==
  /\ ManualStart
  /\ cause' = "manual_start"
  /\ UNCHANGED <<loudFor, quietFor, keptFor>>

StopClicked ==
  /\ ManualStop
  /\ cause' = "manual_stop"
  /\ UNCHANGED <<loudFor, quietFor, keptFor>>

KeepClicked ==
  /\ KeepPlaying
  /\ keptFor' = 0
  /\ cause' = "keep_playing"
  /\ UNCHANGED <<loudFor, quietFor>>

Next ==
  \/ TimePasses
  \/ \E music \in BOOLEAN : Observe(music)
  \/ StartClicked
  \/ StopClicked
  \/ KeepClicked

Spec == Init /\ [][Next]_vars

----------------------------------------------------------------------------
(* What the timestamps stand for: in SENSING every update since            *)
(* _sensing_since saw music, in GRACE every update since _grace_since saw  *)
(* none and keep_playing() was not called since.  Nothing resets the       *)
(* timestamps when a phase is left, so a stale one must never be read.     *)
TimersHonest ==
  /\ phase = "SENSING" => sensingAge <= loudFor
  /\ phase = "GRACE" => graceAge <= quietFor /\ graceAge <= keptFor

(* Playback starts by itself only on music that held through the debounce: *)
(* an update that enters PLAYING from SENSING follows updates that all saw *)
(* music for at least start_debounce_s (state.py:57, README "SENSING").    *)
AutoStartSustained ==
  [][cause' = "update" /\ phase = "SENSING" /\ phase' = "PLAYING"
       => loudFor >= StartDebounce]_vars

(* A side ends by itself only after end_of_side_s of updates that all saw  *)
(* silence, and as long after the last keep_playing(): a click on "Keep    *)
(* playing" always buys a whole window (state.py:69 and 86).               *)
AutoStopEarned ==
  [][cause' = "update" /\ phase = "GRACE" /\ phase' = "IDLE"
       => quietFor >= EndOfSide /\ keptFor >= EndOfSide]_vars

============================================================================
