------------------------------ MODULE Devices -------------------------------
(***************************************************************************)
(* devices.py: which sound card a configured identity means, and how the   *)
(* wizard (cli.py) chooses that identity.                                  *)
(*                                                                         *)
(* A card is what list_cards finds out about it; the USB id of one that is *)
(* not on USB is Unset.  ALSA gives the attached cards distinct names, but *)
(* which of two cards of a kind is "CODEC" and which "CODEC_1" is decided  *)
(* anew whenever they are enumerated, and so is their index.               *)
(***************************************************************************)
EXTENDS Naturals, Sequences, FiniteSets

CONSTANT Lower  (* lower() of an identity somebody may have written; those *)
                (* of the cards are in lower case                          *)

(* A text field with nothing in it.                                        *)
Unset == ""

ASSUME LowerAssumption == Lower[Unset] = Unset

Card(usb_id, name, capture) == [usb_id |-> usb_id, name |-> name, capture |-> capture]
NoCard == Card(Unset, Unset, FALSE)

(* list_cards: sorted by directory name, that is by an index that reboots  *)
(* and replugging reshuffle.  Any order.                                   *)
Listings(cards) ==
  {l \in [1 .. Cardinality(cards) -> cards] : \A card \in cards : \E i \in DOMAIN l : l[i] = card}

(* The first of the cards at the given places.                             *)
First(cards, places) == cards[CHOOSE i \in places : \A j \in places : i <= j]

UsbCapture(card) == card.usb_id # Unset /\ card.capture

(* Mutation: the name is looked at first.                                  *)
ResolveCardByName(device, cards) ==
  LET withId == {i \in DOMAIN cards :
                    device.usb_id # Unset /\ cards[i].usb_id = Lower[device.usb_id]}
      named == {i \in DOMAIN cards :
                   device.card_name # Unset /\ cards[i].name = device.card_name}
      candidates == {i \in DOMAIN cards : UsbCapture(cards[i])}
  IN IF named # {} THEN First(cards, named)
     ELSE IF withId # {} THEN First(cards, withId)
     ELSE IF Cardinality(candidates) = 1 THEN First(cards, candidates) ELSE NoCard

(* resolve_card: by USB id, by name, the only USB capture card, or         *)
(* DeviceNotFound.                                                         *)
ResolveCard(device, cards) ==
  LET withId == {i \in DOMAIN cards :
                    device.usb_id # Unset /\ cards[i].usb_id = Lower[device.usb_id]}
      named == {i \in DOMAIN cards :
                   device.card_name # Unset /\ cards[i].name = device.card_name}
      candidates == {i \in DOMAIN cards : UsbCapture(cards[i])}
  IN IF withId # {} THEN First(cards, withId)
     ELSE IF named # {} THEN First(cards, named)
     ELSE IF Cardinality(candidates) = 1 THEN First(cards, candidates) ELSE NoCard

(* _pick_card: a USB capture card, the first or the one that was typed, or *)
(* no identity at all.                                                     *)
PickCard(cards) ==
  IF \E card \in cards : UsbCapture(card)
  THEN {[usb_id |-> card.usb_id, card_name |-> card.name] :
          card \in {c \in cards : UsbCapture(c)}}
  ELSE {[usb_id |-> Unset, card_name |-> Unset]}

============================================================================
