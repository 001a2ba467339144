------------------------------ MODULE Capture -------------------------------
(***************************************************************************)
(* CaptureSupervisor of capture.py with its default backend, arecord: the  *)
(* coroutine that resolves, awaits a session and backs off, the thread of  *)
(* the pool that runs the session, and the adapters that come and go.      *)
(*                                                                         *)
(* The actions prime the variables of this module only: Pipeline.tla and   *)
(* Daemon.tla conjoin them with what happens around.                       *)
(***************************************************************************)
EXTENDS Devices

CONSTANTS
  UsbIds,  (* the USB sound cards there are                                *)
  Names,   (* the names ALSA gives them                                    *)
  Backoff  (* backoff_s, in clock units                                    *)

ASSUME CaptureAssumption ==
  /\ Unset \notin UsbIds
  /\ Backoff \in Seq(Nat) /\ Backoff # <<>>

VARIABLES
  attached,    (* the cards that are there                                 *)
  supervisor,  (* where run() is                                           *)
  session,     (* where the thread of _session is                          *)
  source,      (* the card of the session                                  *)
  stop,        (* _stop is set                                             *)
  present,     (* device_present                                           *)
  attempt,     (* attempt, saturated at the end of the ladder              *)
  wait         (* what is left of the back-off                             *)

captureVars == <<attached, supervisor, session, source, stop, present, attempt, wait>>

CaptureInit ==
  /\ attached = {}
  /\ supervisor = "resolving"
  /\ session = "none"
  /\ source = NoCard
  /\ stop = FALSE
  /\ present = FALSE
  /\ attempt = 0
  /\ wait = 0

(* Mutation: the adapter is still shown.                                   *)
BacksOffShown(n) ==
  /\ wait' = Backoff[IF n < Len(Backoff) THEN n + 1 ELSE Len(Backoff)]
  /\ attempt' = IF n < Len(Backoff) THEN n + 1 ELSE n
  /\ supervisor' = "sleeping"
  /\ UNCHANGED present

(* The end of a round of run(), the n-th in a row without a session.       *)
BacksOff(n) ==
  /\ present' = FALSE
  /\ wait' = Backoff[IF n < Len(Backoff) THEN n + 1 ELSE Len(Backoff)]
  /\ attempt' = IF n < Len(Backoff) THEN n + 1 ELSE n
  /\ supervisor' = "sleeping"

(* Mutation: DeviceNotFound ends the supervisor.                           *)
ResolveOrEnd(device) ==
  /\ supervisor = "resolving"
  /\ \E listing \in Listings(attached) :
       LET card == ResolveCard(device, listing) IN
       IF card = NoCard
       THEN /\ supervisor' = "done"
            /\ UNCHANGED <<session, source, present, attempt, wait>>
       ELSE /\ supervisor' = "awaiting"
            /\ session' = "opening" /\ source' = card
            /\ UNCHANGED <<present, attempt, wait>>
  /\ UNCHANGED <<attached, stop>>

(* _default_resolve, and the session handed to the pool.                   *)
Resolve(device) ==
  /\ supervisor = "resolving"
  /\ \E listing \in Listings(attached) :
       LET card == ResolveCard(device, listing) IN
       IF card = NoCard
       THEN BacksOff(attempt) /\ UNCHANGED <<session, source>>
       ELSE /\ supervisor' = "awaiting"
            /\ session' = "opening" /\ source' = card
            /\ UNCHANGED <<present, attempt, wait>>
  /\ UNCHANGED <<attached, stop>>

(* The thread starts arecord on the card's name, whichever card has it now;*)
(* on a name that has gone it ends at once.                                *)
Open ==
  /\ session = "opening"
  /\ LET named == {card \in attached : card.name = source.name} IN
     IF named = {} THEN session' = "failing" /\ UNCHANGED source
                   ELSE session' = "reading" /\ source' \in named
  /\ present' = TRUE
  /\ UNCHANGED <<attached, supervisor, stop, attempt, wait>>

(* arecord cannot be started at all: open() raises in the thread.          *)
OpenFails ==
  /\ session = "opening"
  /\ session' = "refused"
  /\ UNCHANGED <<attached, supervisor, source, stop, present, attempt, wait>>

(* pump() returns: at the end of the data, or when it sees _stop.          *)
EndSession ==
  /\ session = "failing" \/ (session = "reading" /\ stop)
  /\ session' = "ended"
  /\ UNCHANGED <<attached, supervisor, source, stop, present, attempt, wait>>

(* run() goes on: the session ran, the ladder starts afresh.               *)
SessionOver ==
  /\ supervisor = "awaiting" /\ session = "ended"
  /\ BacksOff(0)
  /\ session' = "none" /\ source' = NoCard
  /\ UNCHANGED <<attached, stop>>

(* run() goes on after an exception of the session: the next rung.         *)
SessionFailed ==
  /\ supervisor = "awaiting" /\ session = "refused"
  /\ BacksOff(attempt)
  /\ session' = "none" /\ source' = NoCard
  /\ UNCHANGED <<attached, stop>>

Wake ==
  /\ supervisor = "sleeping" /\ wait = 0
  /\ supervisor' = "resolving"
  /\ UNCHANGED <<attached, session, source, stop, present, attempt, wait>>

WaitPasses ==
  /\ wait' = IF wait > 0 THEN wait - 1 ELSE 0
  /\ UNCHANGED <<attached, supervisor, session, source, stop, present, attempt>>

(* Mutation: the finally of run() is missing.                              *)
CancelledLeavingThread ==
  /\ supervisor' = "done"
  /\ UNCHANGED <<attached, session, source, stop, present, attempt, wait>>

(* The task is cancelled: its finally releases the thread.                 *)
Cancelled ==
  /\ supervisor' = "done"
  /\ stop' = TRUE
  /\ UNCHANGED <<attached, session, source, present, attempt, wait>>

(* A card is plugged in, or pulled out, which ends its arecord.            *)
Plug(usb_id, name) ==
  /\ \A card \in attached : usb_id # card.usb_id /\ name # card.name
  /\ attached' = attached \cup {Card(usb_id, name, TRUE)}
  /\ UNCHANGED <<supervisor, session, source, stop, present, attempt, wait>>

Unplug(card) ==
  /\ attached' = attached \ {card}
  /\ session' = IF session = "reading" /\ source = card THEN "failing" ELSE session
  /\ UNCHANGED <<supervisor, source, stop, present, attempt, wait>>

Replug ==
  \/ \E usb_id \in UsbIds, name \in Names : Plug(usb_id, name)
  \/ \E card \in attached : Unplug(card)

----------------------------------------------------------------------------
Adapters == [usb_id : UsbIds, name : Names, capture : {TRUE}]

CaptureTypeOK ==
  /\ attached \subseteq Adapters
  /\ supervisor \in {"resolving", "awaiting", "sleeping", "done"}
  /\ session \in {"none", "opening", "refused", "reading", "failing", "ended"}
  /\ source \in Adapters \cup {NoCard}
  /\ stop \in BOOLEAN /\ present \in BOOLEAN
  /\ attempt \in 0 .. Len(Backoff)
  /\ wait \in {0} \cup UNION {0 .. Backoff[i] : i \in DOMAIN Backoff}

(* What the dashboard says of the adapter: it is shown from the opening of *)
(* a session to the moment its end is heard, in no back-off, and by no     *)
(* thread that is left over from an earlier session.                       *)
PresentWhileReading ==
  supervisor # "done" =>
    (present <=> supervisor = "awaiting" /\ session \in {"reading", "failing", "ended"})

(* The identity in the config decides (devices.py, "usb_id first"): while  *)
(* that adapter is attached no session is opened on another card, in       *)
(* whatever order the cards are listed and whatever they are called.  The  *)
(* identity may have been written in capitals.                             *)
Rightly(device) ==
  session = "none" /\ session' = "opening"
    /\ (\E card \in attached : card.usb_id = Lower[device.usb_id])
  => source'.usb_id = Lower[device.usb_id]

============================================================================
