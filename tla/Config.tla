------------------------------- MODULE Config -------------------------------
(***************************************************************************)
(* config.py: from a document (the YAML file, or the body of a PUT) to a   *)
(* Config, and back.                                                       *)
(*                                                                         *)
(* A document is a function from the sections it has to what it says of    *)
(* them: a function from fields to values, Null (a blank section), or one  *)
(* of NoMapping.  A document that is no mapping is one of those itself.    *)
(* audio.device, which _build reads by recursion, is listed as a section.  *)
(* Null is also the value of a blank field: a field of a hand-written file *)
(* with nothing behind its colon, and what the dashboard sends for a       *)
(* numeric field that was cleared (JSON has no NaN).                       *)
(***************************************************************************)
EXTENDS Integers

CONSTANTS
  Null,     (* None                                                        *)
  Scalar,   (* a value that is no mapping and that cannot be iterated over,*)
            (* or has nothing in it                                        *)
  Text,     (* a string, or a list: iterated over, it names no section     *)
  Invalid,  (* the outcome ConfigError                                     *)
  Fault     (* the outcome of any other exception                          *)

VALID_BITRATES == {128, 192, 256, 320}
Ports == 1024 .. 65535

(* The dataclasses and their defaults.                                     *)
Defaults ==
  [device |-> [usb_id |-> "", card_name |-> ""],
   audio  |-> [sample_rate |-> 44100],
   detect |-> [highpass_hz |-> 40, music_on_db |-> -45, music_off_db |-> -55,
               start_debounce_s |-> 2, end_of_side_s |-> 240],
   stream |-> [port |-> 8341, bitrate |-> 320],
   sonos  |-> [vinyl_zones |-> {}, preferred_coordinator |-> "",
               dont_interrupt_busy |-> TRUE, master_volume |-> Null]]

Sections == DOMAIN Defaults

NoMapping == {Scalar, Text}

Empty == [s \in {} |-> Null]

(* What the document says of a section: nothing where it is missing or     *)
(* blank.                                                                  *)
Given(doc, s) ==
  IF s \in DOMAIN doc THEN IF doc[s] = Null THEN Empty ELSE doc[s] ELSE Empty

(* No unknown section, no section that is no mapping, no unknown field.    *)
WellFormed(doc) ==
  /\ DOMAIN doc \subseteq Sections
  /\ \A s \in DOMAIN doc :
       /\ doc[s] \notin NoMapping
       /\ DOMAIN Given(doc, s) \subseteq DOMAIN Defaults[s]

(* _build, for every section: merged over the defaults.                    *)
Built(doc) ==
  [s \in Sections |->
     [f \in DOMAIN Defaults[s] |->
        IF f \in DOMAIN Given(doc, s) THEN Given(doc, s)[f] ELSE Defaults[s][f]]]

(* The comparisons of _validate take numbers only.                         *)
Comparable(cfg) ==
  Null \notin {cfg.detect.music_on_db, cfg.detect.music_off_db, cfg.stream.port}

(* _validate.  The other fields are not looked at.                         *)
Valid(cfg) ==
  /\ cfg.detect.music_on_db > cfg.detect.music_off_db
  /\ cfg.stream.bitrate \in VALID_BITRATES
  /\ cfg.stream.port \in Ports
  /\ cfg.sonos.vinyl_zones \notin {Null, {}}
  /\ cfg.audio.sample_rate = 44100

(* config_from_dict on a mapping: the Config, or how it fails.             *)
FromDict(doc) ==
  IF ~WellFormed(doc) THEN Invalid
  ELSE IF ~Comparable(Built(doc)) THEN Fault
  ELSE IF Valid(Built(doc)) THEN Built(doc) ELSE Invalid

(* The body of a PUT is handed over unchecked, a file is checked first.    *)
FromBody(doc) ==
  IF doc = Scalar THEN Fault ELSE IF doc = Text THEN Invalid ELSE FromDict(doc)
LoadConfig(doc) == IF doc \in NoMapping THEN Invalid ELSE FromDict(doc)

Loads(doc) == LoadConfig(doc) \notin {Invalid, Fault}

(* asdict: a document with every section and every field.                  *)
AsDict(cfg) == [s \in Sections |-> cfg[s]]

(* The file after an interrupted save: write_text has truncated it.        *)
Truncated == Empty

(* What the constructors of from_config and run() then make of a Config    *)
(* that is valid: the filter needs its frequency, and the audio port is    *)
(* the next one.                                                           *)
StreamPort(cfg) == cfg.stream.port + 1
Boots(cfg) == cfg.detect.highpass_hz # Null /\ StreamPort(cfg) \in 1 .. 65535

============================================================================
