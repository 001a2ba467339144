------------------------ MODULE NeedleHistoryProofs ------------------------
(* What the needle state machine promises for every debounce and every     *)
(* grace window, alone and under the dashboard.                            *)
EXTENDS Dashboard, TLAPS

(* The ages stay in their ranges, so that they can be compared.            *)
HistoryTypeOK ==
  /\ NeedleTypeOK
  /\ loudFor \in Never .. Horizon
  /\ quietFor \in Never .. Horizon
  /\ keptFor \in 0 .. Horizon
  /\ cause \in {"none", "clock", "update", "manual_start", "manual_stop",
                "keep_playing"}

Inv == HistoryTypeOK /\ TimersHonest

(* Both timers begin elapsed, with nothing seen yet.                       *)
LEMMA InitInv == Init => Inv
  BY DurationsAssumption
  DEF Init, NeedleInit, Inv, HistoryTypeOK, NeedleTypeOK, TimersHonest, Phases,
      Horizon, Never

(* The invariant is inductive.                                             *)
LEMMA StepInv == Inv /\ [Next]_vars => Inv'
<1> SUFFICES ASSUME Inv, [Next]_vars PROVE Inv'
  OBVIOUS
<1> USE DurationsAssumption
    DEF Inv, HistoryTypeOK, NeedleTypeOK, TimersHonest, Phases, Horizon, Never
<1>1. CASE TimePasses
  BY <1>1 DEF TimePasses, Elapse, Later, Aged
<1>2. ASSUME NEW m \in BOOLEAN, Observe(m) PROVE Inv'
  <2> USE <1>2 DEF Observe, Extended
  <2>1. CASE Detected(m)  BY <2>1 DEF Detected
  <2>2. CASE Flickered(m) BY <2>2 DEF Flickered
  <2>3. CASE Sustained(m) BY <2>3 DEF Sustained
  <2>4. CASE WentQuiet(m) BY <2>4 DEF WentQuiet
  <2>5. CASE Returned(m)  BY <2>5 DEF Returned
  <2>6. CASE SideOver(m)  BY <2>6 DEF SideOver
  <2>7. CASE NoTransition(m) BY <2>7 DEF NoTransition, needleVars
  <2> QED BY <2>1, <2>2, <2>3, <2>4, <2>5, <2>6, <2>7 DEF Update
<1>3. CASE StartClicked
  BY <1>3 DEF StartClicked, ManualStart
<1>4. CASE StopClicked
  BY <1>4 DEF StopClicked, ManualStop
<1>5. CASE KeepClicked
  BY <1>5 DEF KeepClicked, KeepPlaying
<1>6. CASE UNCHANGED vars
  BY <1>6 DEF vars, needleVars, historyVars
<1> QED BY <1>1, <1>2, <1>3, <1>4, <1>5, <1>6 DEF Next

(* It holds in every state the machine can reach.                          *)
LEMMA InvHolds == Spec => []Inv
  BY InitInv, StepInv, PTL DEF Spec

(* The timestamps of StateMachine mean what their names say, whatever the  *)
(* durations and the calls.                                                *)
THEOREM TimersInvariant == Spec => []TimersHonest
<1>1. Inv => TimersHonest  BY DEF Inv
<1> QED  BY <1>1, InvHolds, PTL

(* The machine never starts playback by itself on less than the debounce   *)
(* of unbroken music.                                                      *)
THEOREM StartIsSustained == Spec => AutoStartSustained
<1>1. Inv /\ [Next]_vars =>
        [cause' = "update" /\ phase = "SENSING" /\ phase' = "PLAYING"
           => loudFor >= StartDebounce]_vars
  <2> SUFFICES ASSUME Inv, [Next]_vars, cause' = "update",
                      phase = "SENSING", phase' = "PLAYING",
                      vars' # vars
               PROVE  loudFor >= StartDebounce
    OBVIOUS
  <2>1. PICK m \in BOOLEAN : Observe(m)
    BY DEF Next, TimePasses, StartClicked, StopClicked, KeepClicked
  <2>2. Sustained(m)
    BY <2>1 DEF Observe, Update, Detected, Flickered, Sustained, WentQuiet,
         Returned, SideOver, NoTransition, needleVars
  <2> QED
    BY <2>2, DurationsAssumption
    DEF Sustained, Inv, TimersHonest, HistoryTypeOK, NeedleTypeOK, Horizon, Never
<1> QED BY <1>1, InvHolds, PTL DEF Spec, AutoStartSustained

(* The machine never ends a side by itself before a whole window of        *)
(* silence has passed, and a whole window since "Keep playing".            *)
THEOREM StopIsEarned == Spec => AutoStopEarned
<1>1. Inv /\ [Next]_vars =>
        [cause' = "update" /\ phase = "GRACE" /\ phase' = "IDLE"
           => quietFor >= EndOfSide /\ keptFor >= EndOfSide]_vars
  <2> SUFFICES ASSUME Inv, [Next]_vars, cause' = "update",
                      phase = "GRACE", phase' = "IDLE",
                      vars' # vars
               PROVE  quietFor >= EndOfSide /\ keptFor >= EndOfSide
    OBVIOUS
  <2>1. PICK m \in BOOLEAN : Observe(m)
    BY DEF Next, TimePasses, StartClicked, StopClicked, KeepClicked
  <2>2. SideOver(m)
    BY <2>1 DEF Observe, Update, Detected, Flickered, Sustained, WentQuiet,
         Returned, SideOver, NoTransition, needleVars
  <2> QED
    BY <2>2, DurationsAssumption
    DEF SideOver, Inv, TimersHonest, HistoryTypeOK, NeedleTypeOK, Horizon, Never
<1> QED BY <1>1, InvHolds, PTL DEF Spec, AutoStopEarned

(* The dashboard takes the machine as it is: whatever its tabs, sockets and*)
(* polls do (web.py), the machine takes a step of its own or none.         *)
THEOREM DashboardKeepsNeedle == DashboardSpec => Spec
<1>1. DashboardInit => Init
  BY DEF DashboardInit
<1>2. [DashboardNext]_dashboardVars => [Next]_vars
  BY DEF DashboardNext, Needle, ZonesChange, SendLevel, SendState, Reconnect,
         Polled, Answered, AnswerLost, dashboardVars
<1> QED BY <1>1, <1>2, PTL DEF DashboardSpec, Spec

(* So the three hold with any tab open: looking at the status never disturbs*)
(* the timers or the transitions of StateMachine.                          *)
THEOREM NeedleUnderDashboard ==
  DashboardSpec => []TimersHonest /\ AutoStartSustained /\ AutoStopEarned
BY DashboardKeepsNeedle, TimersInvariant, StartIsSustained, StopIsEarned

============================================================================
