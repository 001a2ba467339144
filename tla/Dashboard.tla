----------------------------- MODULE Dashboard -----------------------------
(***************************************************************************)
(* What a tab of the dashboard shows: the websocket of web.py pushes the   *)
(* status when the phase has changed, and the page polls /api/status every *)
(* five seconds and after a click (static/index.html).  Either way the tab *)
(* replaces all it shows (applyStatus) by a snapshot that was taken a while*)
(* before it arrives, and the two ways overtake each other.                *)
(*                                                                         *)
(* Of the status the model keeps the phase and the zones.  The needle      *)
(* machine moves the phase under any caller (NeedleHistory); the zones are *)
(* changed by the threads of the controller, at any time.  Tabs are        *)
(* independent of each other: there is one.                                *)
(***************************************************************************)
EXTENDS NeedleHistory, Sequences

VARIABLES
  zones,    (* sonos.zones(), one of two values                            *)
  last,     (* last_phase of the sender of the tab's websocket             *)
  pushing,  (* the snapshot that sender has taken, while it sends, or <<>> *)
  answer,   (* the snapshot in an answer to /api/status on its way, or <<>>*)
  shown     (* the status the tab shows                                    *)

tabVars == <<zones, last, pushing, answer, shown>>
dashboardVars == <<vars, tabVars>>

snapshot == <<phase, zones>>

(* The page shows an idle machine until it hears of the real one.          *)
DashboardInit ==
  /\ Init
  /\ zones = FALSE
  /\ last = "none" /\ pushing = <<>>
  /\ answer = <<>>
  /\ shown = <<"IDLE", FALSE>>

Needle == Next /\ UNCHANGED tabVars

(* start(), or any _mark of a thread.                                      *)
ZonesChange ==
  /\ zones' = ~zones
  /\ UNCHANGED <<vars, last, pushing, answer, shown>>

----------------------------------------------------------------------------
(* The level goes out first, and the sender awaits.                        *)
SendLevel ==
  /\ pushing = <<>>
  /\ pushing' = snapshot
  /\ UNCHANGED <<vars, zones, last, answer, shown>>

(* Then the status, if the snapshot has a new phase.                       *)
SendState ==
  /\ pushing # <<>>
  /\ IF pushing[1] # last THEN last' = pushing[1] /\ shown' = pushing
                          ELSE UNCHANGED <<last, shown>>
  /\ pushing' = <<>>
  /\ UNCHANGED <<vars, zones, answer>>

(* The connection breaks: the sender is cancelled, what it was sending is  *)
(* lost, and the page connects again, to a sender of its own.              *)
Reconnect ==
  /\ last' = "none" /\ pushing' = <<>>
  /\ UNCHANGED <<vars, zones, answer, shown>>

(* Mutation: the page polls when it is loaded only.                        *)
PolledOnce ==
  /\ answer = <<>> /\ last = "none"
  /\ answer' = snapshot
  /\ UNCHANGED <<vars, zones, last, pushing, shown>>

(* api_status answers a poll.                                              *)
Polled ==
  /\ answer = <<>>
  /\ answer' = snapshot
  /\ UNCHANGED <<vars, zones, last, pushing, shown>>

Answered ==
  /\ answer # <<>>
  /\ shown' = answer
  /\ answer' = <<>>
  /\ UNCHANGED <<vars, zones, last, pushing>>

AnswerLost ==
  /\ answer # <<>>
  /\ answer' = <<>>
  /\ UNCHANGED <<vars, zones, last, pushing, shown>>

DashboardNext ==
  \/ Needle \/ ZonesChange
  \/ SendLevel \/ SendState \/ Reconnect
  \/ Polled \/ Answered \/ AnswerLost

(* The sender sends three times a second and the page polls every five     *)
(* seconds; however often the connection breaks and answers are lost, some *)
(* get through.                                                            *)
DashboardSpec ==
  /\ DashboardInit /\ [][DashboardNext]_dashboardVars
  /\ WF_dashboardVars(SendLevel) /\ WF_dashboardVars(SendState)
  /\ WF_dashboardVars(Polled) /\ SF_dashboardVars(Answered)

----------------------------------------------------------------------------
(* The dashboard tells the truth in the end: once the phase and the zones  *)
(* have settled, the tab shows them for good.  A push that was taken before*)
(* the last change may overwrite a newer answer, an answer a newer push,   *)
(* and the zones that start() finds out after PLAYING was pushed are never *)
(* pushed at all: only the next poll puts it right.                        *)
ShowsTheTruth ==
  <>[][UNCHANGED <<phase, zones>>]_dashboardVars => <>[](shown = snapshot)

============================================================================
