--------------------------- MODULE CaptureProofs ---------------------------
(***************************************************************************)
(* The capture supervisor and the cards, for any adapters, names, listing  *)
(* orders and back-off: what resolve_card returns, and what every step of  *)
(* the supervisor, its thread and the adapters keeps, in whichever module  *)
(* takes it.                                                               *)
(***************************************************************************)
EXTENDS Capture, TLAPS, FiniteSetTheorems, WellFoundedInduction

(* A set of indices has a least one: the intervals up to them are finite   *)
(* sets, which inclusion orders well.                                      *)
LEMMA Least ==
  ASSUME NEW T \in SUBSET Nat, T # {}
  PROVE  \E i \in T : \A j \in T : i <= j
<1> DEFINE intervals == {1 .. i : i \in T}
<1>1. \A i \in T : IsFiniteSet(1 .. i) /\ 1 .. i \in SUBSET Nat
  BY FS_Interval
<1>2. intervals \subseteq FiniteSubsetsOf(Nat) /\ intervals # {}
  <2>1. \A i \in T : 1 .. i \in FiniteSubsetsOf(Nat)
    BY <1>1, Zenon DEF FiniteSubsetsOf
  <2> QED BY <2>1
<1>3. PICK least \in intervals :
        \A other \in intervals : <<other, least>> \notin StrictSubsetOrdering(Nat)
  <2> HIDE DEF intervals
  <2> QED BY <1>2, FS_StrictSubsetOrderingWellFounded, WFMin
<1>4. PICK i \in T : least = 1 .. i
  OBVIOUS
<1>5. ASSUME NEW j \in T, j < i
      PROVE  FALSE
  <2>1. 1 .. j \subseteq 1 .. i /\ i \in 1 .. i /\ i \notin 1 .. j
    BY <1>5
  <2>2. <<1 .. j, 1 .. i>> \in StrictSubsetOrdering(Nat)
    BY <2>1 DEF StrictSubsetOrdering
  <2> QED BY <1>3, <1>4, <2>2
<1> QED BY <1>5

(* Listed cards are numbered.                                              *)
LEMMA ListedByIndex ==
  ASSUME NEW cards, IsFiniteSet(cards), NEW listing \in Listings(cards)
  PROVE  DOMAIN listing \subseteq Nat
<1>1. PICK n \in Nat : n = Cardinality(cards)
  BY FS_CardinalityType
<1> QED BY <1>1 DEF Listings

(* resolve_card (devices.py:73): as long as a card with the configured USB *)
(* id is listed, a card with that id is what it returns, whatever the other*)
(* cards are called and in whatever order they come.                       *)
LEMMA ResolvedById ==
  ASSUME NEW device, device.usb_id # Unset,
         NEW cards, IsFiniteSet(cards), NEW listing \in Listings(cards),
         NEW card \in cards, card.usb_id = Lower[device.usb_id]
  PROVE  ResolveCard(device, listing).usb_id = Lower[device.usb_id]
<1> DEFINE withId == {i \in DOMAIN listing :
                        device.usb_id # Unset /\ listing[i].usb_id = Lower[device.usb_id]}
<1>1. DOMAIN listing \subseteq Nat
  BY ListedByIndex
<1>2. withId # {}
  BY DEF Listings
<1>3. PICK i \in withId : \A j \in withId : i <= j
  <2> HIDE DEF withId
  <2>1. withId \in SUBSET Nat
    BY <1>1 DEF withId
  <2> QED BY <1>2, <2>1, Least
<1>4. ResolveCard(device, listing) = First(listing, withId)
  BY <1>2 DEF ResolveCard
<1>5. First(listing, withId).usb_id = Lower[device.usb_id]
  BY <1>3 DEF First
<1> QED BY <1>4, <1>5

(* A listing of attached cards resolves to one of them, or to none.        *)
LEMMA ResolvedIsListed ==
  ASSUME NEW device, NEW cards, IsFiniteSet(cards), NEW listing \in Listings(cards)
  PROVE  ResolveCard(device, listing) \in cards \cup {NoCard}
<1> DEFINE withId == {i \in DOMAIN listing :
                        device.usb_id # Unset /\ listing[i].usb_id = Lower[device.usb_id]}
           named == {i \in DOMAIN listing :
                       device.card_name # Unset /\ listing[i].name = device.card_name}
           candidates == {i \in DOMAIN listing : UsbCapture(listing[i])}
<1>1. ASSUME NEW places \in SUBSET DOMAIN listing, places # {}
      PROVE  First(listing, places) \in cards
  <2>1. places \in SUBSET Nat
    BY ListedByIndex
  <2>2. PICK i \in places : \A j \in places : i <= j
    BY <1>1, <2>1, Least
  <2>3. First(listing, places) \in {listing[j] : j \in places}
    BY <2>2 DEF First
  <2>4. \A j \in DOMAIN listing : listing[j] \in cards
    BY DEF Listings
  <2> QED BY <2>3, <2>4
<1>2. withId # {} => First(listing, withId) \in cards
  BY <1>1
<1>3. named # {} => First(listing, named) \in cards
  BY <1>1
<1>4. Cardinality(candidates) = 1 => First(listing, candidates) \in cards
  <2>1. candidates # {} => First(listing, candidates) \in cards
    BY <1>1
  <2>2. Cardinality({}) = 0
    BY FS_EmptySet
  <2> QED BY <2>1, <2>2
<1>5. ResolveCard(device, listing) =
        IF withId # {} THEN First(listing, withId)
        ELSE IF named # {} THEN First(listing, named)
        ELSE IF Cardinality(candidates) = 1 THEN First(listing, candidates) ELSE NoCard
  BY DEF ResolveCard
<1> HIDE DEF withId, named, candidates
<1> QED BY <1>2, <1>3, <1>4, <1>5

(* The parts of an adapter.                                                *)
LEMMA CardFields ==
  ASSUME NEW card \in Adapters
  PROVE  card.usb_id \in UsbIds /\ card.name \in Names
BY DEF Adapters

----------------------------------------------------------------------------
(* The steps that Capture leaves to who composes it.                       *)
CaptureStep(device) ==
  \/ Resolve(device) \/ Wake \/ SessionOver
  \/ SessionFailed
  \/ Open \/ OpenFails \/ EndSession
  \/ WaitPasses \/ Cancelled \/ Replug
  \/ UNCHANGED captureVars

(* The cards that are attached are finitely many, and on USB.              *)
UsbCards ==
  /\ attached \subseteq Adapters
  /\ IsFiniteSet(attached) /\ \A card \in attached : card.usb_id # Unset

(* There is no card to begin with.                                         *)
LEMMA NoCards == CaptureInit => UsbCards
BY FS_EmptySet DEF CaptureInit, UsbCards

(* Only the plugging of a card adds to the cards.                          *)
LEMMA CardsKept ==
  ASSUME UsbCards, NEW device, CaptureStep(device)
  PROVE  UsbCards'
<1>1. CASE UNCHANGED attached
  BY <1>1 DEF UsbCards
<1>2. CASE Replug
  <2>1. ASSUME NEW usb_id \in UsbIds, NEW name \in Names, Plug(usb_id, name)
        PROVE  UsbCards'
    <3>1. attached' = attached \cup {Card(usb_id, name, TRUE)}
      BY <2>1 DEF Plug
    <3>2. Card(usb_id, name, TRUE) \in Adapters
      BY DEF Adapters, Card
    <3>3. Card(usb_id, name, TRUE).usb_id # Unset
      BY CaptureAssumption DEF Card
    <3>4. IsFiniteSet(attached')
      BY <3>1, FS_AddElement DEF UsbCards
    <3> QED BY <3>1, <3>2, <3>3, <3>4 DEF UsbCards
  <2>2. ASSUME NEW card \in attached, Unplug(card)
        PROVE  UsbCards'
    BY <2>2, FS_RemoveElement DEF Unplug, UsbCards
  <2> QED BY <1>2, <2>1, <2>2 DEF Replug
<1> QED
  BY <1>1, <1>2
  DEF CaptureStep, Resolve, Wake, SessionOver, SessionFailed, Open, OpenFails, EndSession,
      WaitPasses, Cancelled, captureVars

(* A session is opened by the supervisor, on what the configured identity  *)
(* resolves to.                                                            *)
LEMMA OpensRightly ==
  ASSUME UsbCards, NEW device, CaptureStep(device)
  PROVE  Rightly(device)
<1> SUFFICES ASSUME session = "none", session' = "opening",
                    NEW card \in attached, card.usb_id = Lower[device.usb_id]
             PROVE  source'.usb_id = Lower[device.usb_id]
  BY DEF Rightly
<1>1. Resolve(device)
  BY DEF CaptureStep, SessionOver, SessionFailed, Wake, Open, OpenFails, EndSession,
         WaitPasses, Cancelled, Replug, Plug, Unplug, captureVars
<1>2. PICK listing \in Listings(attached) : source' = ResolveCard(device, listing)
  BY <1>1 DEF Resolve
<1>3. device.usb_id # Unset /\ IsFiniteSet(attached)
  BY LowerAssumption DEF UsbCards
<1> QED BY <1>2, <1>3, ResolvedById

----------------------------------------------------------------------------
(* A supervisor that is not awaiting a session has no thread left.         *)
ShownInv ==
  /\ supervisor \in {"resolving", "awaiting", "sleeping", "done"}
  /\ supervisor \in {"resolving", "sleeping"} => session = "none"
  /\ PresentWhileReading

(* It begins with none.                                                    *)
LEMMA ShownInit == CaptureInit => ShownInv
BY DEF CaptureInit, ShownInv, PresentWhileReading

(* device_present goes up and down with the session.                       *)
LEMMA ShownKept ==
  ASSUME ShownInv, NEW device, CaptureStep(device)
  PROVE  ShownInv'
<1> USE DEF ShownInv, PresentWhileReading
<1>1. CASE Resolve(device)
  BY <1>1 DEF Resolve, BacksOff
<1>2. CASE SessionOver \/ SessionFailed
  BY <1>2 DEF SessionOver, SessionFailed, BacksOff
<1>3. CASE Wake \/ Open \/ OpenFails \/ EndSession \/ Cancelled
  BY <1>3 DEF Wake, Open, OpenFails, EndSession, Cancelled
<1>4. CASE WaitPasses \/ Replug \/ UNCHANGED captureVars
  <2>1. UNCHANGED <<supervisor, present>>
        /\ (session' = session \/ (session = "reading" /\ session' = "failing"))
    BY <1>4 DEF WaitPasses, Replug, Plug, Unplug, captureVars
  <2> QED BY <2>1
<1> QED BY <1>1, <1>2, <1>3, <1>4 DEF CaptureStep

----------------------------------------------------------------------------
(* What is left of a back-off.                                             *)
Waits == {0} \cup UNION {0 .. Backoff[i] : i \in DOMAIN Backoff}

(* A rung of the ladder, and the next one, if there is any.                *)
LEMMA BacksOffTypes ==
  ASSUME NEW n \in 0 .. Len(Backoff), BacksOff(n)
  PROVE  /\ supervisor' = "sleeping" /\ present' = FALSE
         /\ attempt' \in 0 .. Len(Backoff) /\ wait' \in Waits
<1> DEFINE i == IF n < Len(Backoff) THEN n + 1 ELSE Len(Backoff)
<1>1. Len(Backoff) \in Nat \ {0} /\ DOMAIN Backoff = 1 .. Len(Backoff)
  BY CaptureAssumption
<1>2. i \in DOMAIN Backoff /\ Backoff[i] \in Nat
  BY <1>1, CaptureAssumption
<1>3. Backoff[i] \in 0 .. Backoff[i]
  BY <1>2
<1>4. Backoff[i] \in Waits
  BY <1>2, <1>3 DEF Waits
<1> QED BY <1>1, <1>4 DEF BacksOff

(* A wait that passes stays within its rung.                               *)
LEMMA WaitPassesTypes ==
  ASSUME wait \in Waits, WaitPasses
  PROVE  wait' \in Waits
<1>1. CASE wait = 0
  BY <1>1 DEF WaitPasses, Waits
<1>2. ASSUME NEW i \in DOMAIN Backoff, wait \in 0 .. Backoff[i], wait # 0
      PROVE  wait' \in Waits
  <2>1. Backoff[i] \in Nat
    BY CaptureAssumption
  <2>2. wait' \in 0 .. Backoff[i]
    BY <1>2, <2>1 DEF WaitPasses
  <2> QED BY <2>2 DEF Waits
<1> QED BY <1>1, <1>2 DEF Waits

(* The types of the supervisor, to begin with.                             *)
LEMMA CaptureTypesInit == CaptureInit => CaptureTypeOK
<1> SUFFICES ASSUME CaptureInit
             PROVE  CaptureTypeOK
  OBVIOUS
<1>1. attempt \in 0 .. Len(Backoff)
  <2>1. Len(Backoff) \in Nat
    BY CaptureAssumption
  <2> QED BY <2>1 DEF CaptureInit
<1>2. attached \subseteq Adapters
  BY DEF CaptureInit
<1>3. source \in Adapters \cup {NoCard}
  BY DEF CaptureInit
<1>4. wait \in {0} \cup UNION {0 .. Backoff[i] : i \in DOMAIN Backoff}
  BY DEF CaptureInit
<1>5. /\ supervisor = "resolving" /\ session = "none"
      /\ stop \in BOOLEAN /\ present \in BOOLEAN
  BY DEF CaptureInit
<1> QED BY <1>1, <1>2, <1>3, <1>4, <1>5 DEF CaptureTypeOK

(* Every step keeps them: a source is a card that was attached.            *)
LEMMA CaptureTypesKept ==
  ASSUME CaptureTypeOK, UsbCards, NEW device, CaptureStep(device)
  PROVE  CaptureTypeOK'
<1>1. attached' \subseteq Adapters
  BY CardsKept DEF UsbCards
<1>2. /\ attached \subseteq Adapters
      /\ supervisor \in {"resolving", "awaiting", "sleeping", "done"}
      /\ session \in {"none", "opening", "refused", "reading", "failing", "ended"}
      /\ source \in Adapters \cup {NoCard}
      /\ stop \in BOOLEAN /\ present \in BOOLEAN
      /\ attempt \in 0 .. Len(Backoff)
      /\ wait \in Waits
  BY DEF CaptureTypeOK, Waits
<1> DEFINE Rest ==
      /\ supervisor' \in {"resolving", "awaiting", "sleeping", "done"}
      /\ session' \in {"none", "opening", "refused", "reading", "failing", "ended"}
      /\ source' \in Adapters \cup {NoCard}
      /\ stop' \in BOOLEAN /\ present' \in BOOLEAN
      /\ attempt' \in 0 .. Len(Backoff)
      /\ wait' \in Waits
<1> SUFFICES Rest
  BY <1>1 DEF CaptureTypeOK, Waits
<1>3. ASSUME Resolve(device)
      PROVE  Rest
  <2>1. PICK listing \in Listings(attached) :
          LET card == ResolveCard(device, listing) IN
          IF card = NoCard
          THEN BacksOff(attempt) /\ UNCHANGED <<session, source>>
          ELSE /\ supervisor' = "awaiting"
               /\ session' = "opening" /\ source' = card
               /\ UNCHANGED <<present, attempt, wait>>
    BY <1>3 DEF Resolve
  <2>2. ResolveCard(device, listing) \in attached \cup {NoCard}
    BY ResolvedIsListed DEF UsbCards
  <2>3. stop' = stop
    BY <1>3 DEF Resolve
  <2>4. CASE ResolveCard(device, listing) = NoCard
    BY <1>2, <2>1, <2>3, <2>4, BacksOffTypes
  <2>5. CASE ResolveCard(device, listing) # NoCard
    BY <1>2, <2>1, <2>2, <2>3, <2>5
  <2> QED BY <2>4, <2>5
<1>4. ASSUME SessionOver
      PROVE  Rest
  <2>1. 0 \in 0 .. Len(Backoff)
    BY CaptureAssumption
  <2>2. BacksOff(0) /\ session' = "none" /\ source' = NoCard /\ stop' = stop
    BY <1>4 DEF SessionOver
  <2>3. /\ supervisor' = "sleeping" /\ present' = FALSE
        /\ attempt' \in 0 .. Len(Backoff) /\ wait' \in Waits
    BY <2>1, <2>2, BacksOffTypes
  <2> QED BY <1>2, <2>2, <2>3
<1>5. ASSUME SessionFailed
      PROVE  Rest
  <2>1. BacksOff(attempt) /\ session' = "none" /\ source' = NoCard /\ stop' = stop
    BY <1>5 DEF SessionFailed
  <2>2. /\ supervisor' = "sleeping" /\ present' = FALSE
        /\ attempt' \in 0 .. Len(Backoff) /\ wait' \in Waits
    BY <1>2, <2>1, BacksOffTypes
  <2> QED BY <1>2, <2>1, <2>2
<1>6. CASE Open
  BY <1>2, <1>6 DEF Open
<1>7. CASE Wake \/ OpenFails \/ EndSession \/ Cancelled
  BY <1>2, <1>7 DEF Wake, OpenFails, EndSession, Cancelled
<1>8. CASE WaitPasses
  BY <1>2, <1>8, WaitPassesTypes DEF WaitPasses
<1>9. CASE Replug
  BY <1>2, <1>9 DEF Replug, Plug, Unplug
<1>10. CASE UNCHANGED captureVars
  BY <1>2, <1>10 DEF captureVars
<1> HIDE DEF Rest
<1> QED BY <1>3, <1>4, <1>5, <1>6, <1>7, <1>8, <1>9, <1>10 DEF CaptureStep

============================================================================
