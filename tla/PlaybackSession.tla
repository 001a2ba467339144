-------------------------- MODULE PlaybackSession --------------------------
(***************************************************************************)
(* What needledrop promises the household, without threads, calls or a     *)
(* state machine: a playback session brackets everything it does to the    *)
(* rooms.  Rooms gain the stream, and volumes move, only between the begin *)
(* of a session and its end; an ending session only gives back; and when   *)
(* it is over no room plays the stream and every volume is what it was.    *)
(***************************************************************************)
CONSTANT Zones

VARIABLES
  stage,    (* "off", "starting", "on" or "stopping"                       *)
  audible,  (* the zones that play the stream                              *)
  changed   (* the zones whose volume is not the household's               *)

vars == <<stage, audible, changed>>

Init == stage = "off" /\ audible = {} /\ changed = {}

Begin == stage = "off" /\ stage' = "starting" /\ UNCHANGED <<audible, changed>>

(* A starting session takes rooms and moves volumes, and gives none back.  *)
Gather ==
  /\ stage = "starting"
  /\ \/ audible \subseteq audible' /\ audible' \subseteq Zones /\ UNCHANGED changed
     \/ changed \subseteq changed' /\ changed' \subseteq Zones /\ UNCHANGED audible
  /\ UNCHANGED stage

Settle == stage = "starting" /\ stage' = "on" /\ UNCHANGED <<audible, changed>>

(* A running session takes back what wandered off, and somebody may move   *)
(* the volume of one room at a time.                                       *)
Tend ==
  /\ stage = "on"
  /\ \/ audible \subseteq audible' /\ audible' \subseteq Zones /\ UNCHANGED changed
     \/ \E z \in Zones : changed' \in {changed \cup {z}, changed \ {z}} /\ UNCHANGED audible
  /\ UNCHANGED stage

End == stage = "on" /\ stage' = "stopping" /\ UNCHANGED <<audible, changed>>

Release ==
  /\ stage = "stopping"
  /\ audible' \subseteq audible /\ changed' \subseteq changed
  /\ UNCHANGED stage

Finish ==
  /\ stage = "stopping" /\ audible = {} /\ changed = {}
  /\ stage' = "off"
  /\ UNCHANGED <<audible, changed>>

(* Rooms leave by other means at any time.                                 *)
Lose == audible' \subseteq audible /\ UNCHANGED <<stage, changed>>

Next == Begin \/ Gather \/ Settle \/ Tend \/ End \/ Release \/ Finish \/ Lose

Spec == Init /\ [][Next]_vars

----------------------------------------------------------------------------
SessionTypeOK ==
  /\ stage \in {"off", "starting", "on", "stopping"}
  /\ audible \subseteq Zones
  /\ changed \subseteq Zones

(* Outside a session the rooms are the household's own.                    *)
HandsOff == stage = "off" => audible = {} /\ changed = {}

============================================================================
