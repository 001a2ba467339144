--------------------------- MODULE DaemonProofs ----------------------------
(***************************************************************************)
(* What a PUT promises is what the next process runs, and the identity in  *)
(* the configuration decides which adapter is heard: proofs for any bodies,*)
(* household, adapters, number of events and order of steps.               *)
(***************************************************************************)
EXTENDS Daemon, CaptureProofs

(* A Config that was accepted is well formed, valid, and built from every  *)
(* field of every section.                                                 *)
LEMMA Accepted ==
  ASSUME NEW c \in Configs
  PROVE  \E body \in Bodies :
           c = Built(body) /\ Comparable(c) /\ Valid(c)
BY DEF Configs, FromBody, FromDict

(* A Config with every field of every section, none of the sections blank  *)
(* or no mapping.                                                          *)
Complete(c) ==
  /\ c \notin NoMapping
  /\ DOMAIN c = Sections /\ c = [s \in Sections |-> c[s]]
  /\ \A s \in Sections :
       /\ c[s] \notin {Null} \cup NoMapping
       /\ DOMAIN c[s] = DOMAIN Defaults[s]
       /\ c[s] = [f \in DOMAIN Defaults[s] |-> c[s][f]]

(* config.py: what asdict writes of a complete Config, load_config reads as*)
(* the same Config again, if it is valid: no default creeps in.            *)
LEMMA CompleteLoads ==
  ASSUME NEW c, Complete(c), Comparable(c)
  PROVE  LoadConfig(AsDict(c)) = IF Valid(c) THEN c ELSE Invalid
<1>1. AsDict(c) = c
  BY DEF AsDict, Complete
<1>2. ASSUME NEW s \in Sections
      PROVE  Given(c, s) = c[s] /\ c[s] \notin NoMapping
  BY DEF Given, Complete
<1>3. WellFormed(c)
  BY <1>2 DEF WellFormed, Complete
<1>4. Built(c) = c
  <2>1. ASSUME NEW s \in Sections
        PROVE  [f \in DOMAIN Defaults[s] |->
                  IF f \in DOMAIN Given(c, s) THEN Given(c, s)[f] ELSE Defaults[s][f]]
               = c[s]
    BY <1>2 DEF Complete
  <2> QED BY <2>1 DEF Built, Complete
<1>5. c \notin NoMapping
  BY DEF Complete
<1> QED BY <1>1, <1>3, <1>4, <1>5 DEF LoadConfig, FromDict

(* load_config reads what save_config wrote of an accepted Config as that  *)
(* Config.                                                                 *)
LEMMA RoundTrip ==
  ASSUME NEW c \in Configs
  PROVE  LoadConfig(AsDict(c)) = c
<1>1. PICK body \in Bodies : c = Built(body) /\ Comparable(c) /\ Valid(c)
  BY Accepted
<1>2. c \notin NoMapping /\ \A s \in Sections : c[s] \notin {Null} \cup NoMapping
  BY DaemonAssumption
<1>3. DOMAIN c = Sections /\ c = [s \in Sections |-> c[s]]
  BY <1>1 DEF Built
<1>4. ASSUME NEW s \in Sections
      PROVE  c[s] = [f \in DOMAIN Defaults[s] |-> c[s][f]] /\ DOMAIN c[s] = DOMAIN Defaults[s]
  BY <1>1 DEF Built
<1>5. Complete(c)
  BY <1>2, <1>3, <1>4 DEF Complete
<1> QED BY <1>1, <1>5, CompleteLoads

(* The sections and the fields that a complete Config has.                 *)
LEMMA SectionNames == Sections = {"device", "audio", "detect", "stream", "sonos"}
BY SMT DEF Sections, Defaults

(* The defaults pass every comparison of _validate but that of the zones.  *)
LEMMA DefaultNumbers ==
  /\ "sample_rate" \in DOMAIN Defaults["audio"] /\ Defaults["audio"]["sample_rate"] = 44100
  /\ "port" \in DOMAIN Defaults["stream"] /\ Defaults["stream"]["port"] = 8341
  /\ "bitrate" \in DOMAIN Defaults["stream"] /\ Defaults["stream"]["bitrate"] = 320
BY SMT DEF Defaults

(* The default thresholds are in the order _validate asks for.             *)
LEMMA DefaultThresholds ==
  /\ {"music_on_db", "music_off_db"} \subseteq DOMAIN Defaults["detect"]
  /\ Defaults["detect"]["music_on_db"] = -45
  /\ Defaults["detect"]["music_off_db"] = -55
BY SMT DEF Defaults

(* There is a default for the zones, to be merged over.                    *)
LEMMA DefaultZones == "vinyl_zones" \in DOMAIN Defaults["sonos"]
BY SMT DEF Defaults

(* What the wizard makes has its answers, and the defaults for the rest.   *)
LEMMA SetupFields ==
  ASSUME NEW device, NEW zones, NEW zone, Definite(Answers(device, zones, zone)),
         NEW c, c = SetupConfig(device, zones, zone)
  PROVE  /\ c["sonos"]["vinyl_zones"] = zones
         /\ \A s \in {"audio", "detect", "stream"} :
              \A f \in DOMAIN Defaults[s] : c[s][f] = Defaults[s][f]
<1> DEFINE answers == Answers(device, zones, zone)
<1>1. /\ DOMAIN answers = {"device", "sonos"}
      /\ answers["sonos"] = [vinyl_zones |-> zones, preferred_coordinator |-> zone]
  BY SMT DEF Answers
<1>2. \A s \in DOMAIN answers : answers[s] # Null
  BY DEF Definite
<1>3. Given(answers, "sonos") = answers["sonos"]
  BY <1>1, <1>2 DEF Given
<1>4. \A s \in {"audio", "detect", "stream"} : Given(answers, s) = Empty
  BY <1>1 DEF Given
<1>5. c = Built(answers)
  BY DEF SetupConfig
<1> HIDE DEF answers
<1>6. c["sonos"]["vinyl_zones"] = zones
  <2>1. "vinyl_zones" \in DOMAIN Defaults["sonos"]
    BY DefaultZones
  <2>2. "vinyl_zones" \in DOMAIN Given(answers, "sonos")
        /\ Given(answers, "sonos")["vinyl_zones"] = zones
    BY <1>1, <1>3
  <2> QED BY <1>5, <2>1, <2>2, SectionNames DEF Built
<1>7. ASSUME NEW s \in {"audio", "detect", "stream"}, NEW f \in DOMAIN Defaults[s]
      PROVE  c[s][f] = Defaults[s][f]
  <2>1. s \in Sections /\ f \notin DOMAIN Given(answers, s)
    BY <1>4, SectionNames DEF Empty
  <2> QED BY <1>5, <2>1 DEF Built
<1> QED BY <1>6, <1>7

(* A Config with the default numbers is valid if it has zones.             *)
LEMMA ValidIf ==
  ASSUME NEW c, c["audio"]["sample_rate"] = 44100,
         c["stream"]["port"] = 8341, c["stream"]["bitrate"] = 320,
         c["detect"]["music_on_db"] = -45, c["detect"]["music_off_db"] = -55,
         c["sonos"]["vinyl_zones"] \notin {Null, {}}
  PROVE  Valid(c)
<1>1. c["detect"]["music_on_db"] > c["detect"]["music_off_db"]
  OBVIOUS
<1>2. 8341 \in Ports
  BY SMT DEF Ports
<1>3. c["stream"]["bitrate"] \in VALID_BITRATES
  BY DEF VALID_BITRATES
<1> QED BY <1>1, <1>2, <1>3 DEF Valid

(* What the wizard makes is complete, and valid if there are zones.        *)
LEMMA SetupMakes ==
  ASSUME NEW device, NEW zones, NEW zone, Definite(Answers(device, zones, zone)),
         zones # Null, NEW c, c = SetupConfig(device, zones, zone)
  PROVE  /\ c \notin {Null, Invalid, Fault}
         /\ Complete(c) /\ Comparable(c)
         /\ zones # {} => Valid(c)
<1>1. /\ c \notin {Null, Invalid, Fault} \cup NoMapping
      /\ \A s \in Sections : c[s] \notin {Null} \cup NoMapping
  BY DEF Definite, SetupConfig
<1>2. DOMAIN c = Sections /\ c = [s \in Sections |-> c[s]]
  BY DEF SetupConfig, Built
<1>3. ASSUME NEW s \in Sections
      PROVE  c[s] = [f \in DOMAIN Defaults[s] |-> c[s][f]] /\ DOMAIN c[s] = DOMAIN Defaults[s]
  BY DEF SetupConfig, Built
<1>4. Complete(c)
  BY <1>1, <1>2, <1>3 DEF Complete
<1>5. /\ c["sonos"]["vinyl_zones"] = zones
      /\ \A s \in {"audio", "detect", "stream"} :
           \A f \in DOMAIN Defaults[s] : c[s][f] = Defaults[s][f]
  BY SetupFields
<1>6. /\ c["audio"]["sample_rate"] = 44100
      /\ c["stream"]["port"] = 8341 /\ c["stream"]["bitrate"] = 320
  BY <1>5, DefaultNumbers
<1>7. c["detect"]["music_on_db"] = -45 /\ c["detect"]["music_off_db"] = -55
  BY <1>5, DefaultThresholds
<1>8. Comparable(c)
  <2>1. Null \notin Int
    BY WizardAssumption
  <2>2. -45 \in Int /\ -55 \in Int /\ 8341 \in Int
    OBVIOUS
  <2> QED BY <1>6, <1>7, <2>1, <2>2 DEF Comparable
<1>9. zones # {} => Valid(c)
  BY <1>5, <1>6, <1>7, ValidIf
<1> QED BY <1>1, <1>4, <1>8, <1>9

(* An interrupted save leaves a file that is refused: its defaults name no *)
(* zone.                                                                   *)
LEMMA TruncatedRefused == ~Loads(Truncated)
<1>1. "sonos" \in Sections /\ "vinyl_zones" \in DOMAIN Defaults.sonos
  BY DEF Sections, Defaults
<1>2. Defaults.sonos.vinyl_zones = {}
  <2> DEFINE sonos == [vinyl_zones |-> {}, preferred_coordinator |-> "",
                       dont_interrupt_busy |-> TRUE, master_volume |-> Null]
  <2>1. Defaults.sonos = sonos
    BY DEF Defaults
  <2>2. sonos.vinyl_zones = {}
    OBVIOUS
  <2> QED BY <2>1, <2>2, Zenon
<1>3. Given(Empty, "sonos") = Empty
  BY DEF Given, Empty
<1>4. Built(Empty).sonos.vinyl_zones = {}
  BY <1>1, <1>2, <1>3 DEF Built, Empty
<1>5. ~Valid(Built(Empty))
  BY <1>4 DEF Valid
<1> QED BY <1>5 DEF Loads, LoadConfig, FromDict, Truncated

(* The Configs that the wizard makes of what it finds and is told.         *)
Wizards ==
  {SetupConfig(device, zones, zone) : device \in Identities, zones \in SUBSET Household,
                                      zone \in Household \cup {Unset}}

(* What the wizard writes loads as what it meant, or is refused.           *)
LEMMA WizardLoads ==
  ASSUME NEW c \in Wizards
  PROVE  c # Null /\ LoadConfig(AsDict(c)) \in {c, Invalid}
<1>1. PICK device \in Identities, zones \in SUBSET Household, zone \in Household \cup {Unset} :
        c = SetupConfig(device, zones, zone)
  BY DEF Wizards
<1>2. Definite(Answers(device, zones, zone)) /\ zones # Null
  BY WizardAssumption
<1>3. c # Null /\ Complete(c) /\ Comparable(c)
  BY <1>1, <1>2, SetupMakes
<1> QED BY <1>3, CompleteLoads

(* If there are zones, load_config accepts it.                             *)
LEMMA SetupLoads ==
  ASSUME NEW device \in Identities, NEW zones \in SUBSET Household, zones # {},
         NEW zone \in Household \cup {Unset}
  PROVE  Loads(AsDict(SetupConfig(device, zones, zone)))
<1> DEFINE c == SetupConfig(device, zones, zone)
<1>1. Definite(Answers(device, zones, zone)) /\ zones # Null
  BY WizardAssumption
<1>2. c \notin {Invalid, Fault} /\ Complete(c) /\ Comparable(c) /\ Valid(c)
  BY <1>1, SetupMakes
<1> HIDE DEF c
<1> QED BY <1>2, CompleteLoads DEF Loads, c

----------------------------------------------------------------------------
(* The inductive invariant.  A crash in the middle of a save leaves an     *)
(* older promise with a truncated file, which no process survives to serve *)
(* from; that is why the invariant speaks of the file, and of every stage  *)
(* that a Config is held in.                                               *)
OwedToTheFile ==
  /\ saving = Null /\ promised # Null => file \in {AsDict(promised), Truncated}
  /\ saving # Null => file = Truncated

OwedByTheProcess ==
  promised # Null /\ ~shutdown /\ stage \notin {"down", "loading"} => cfg = promised

PromiseInv ==
  /\ saving \in Configs \cup {Null}
  /\ promised \in Configs \cup {Null}
  /\ OwedToTheFile
  /\ OwedByTheProcess

(* Nothing is promised to begin with.                                      *)
LEMMA PromiseInit == Init => PromiseInv
BY DEF Init, PromiseInv, OwedToTheFile, OwedByTheProcess

(* A process that ends owes only what the file says.                       *)
LEMMA GoneKeeps ==
  ASSUME PromiseInv, Gone, UNCHANGED <<file, promised>>
  PROVE  PromiseInv'
BY DEF PromiseInv, OwedToTheFile, OwedByTheProcess, Gone

(* ... and neither does one that moves on with the Config it has.          *)
LEMMA OnwardKeeps ==
  ASSUME PromiseInv, UNCHANGED <<file, cfg, shutdown, saving, promised>>,
         stage \in {"down", "loading"} => stage' \in {"down", "loading"}
  PROVE  PromiseInv'
BY DEF PromiseInv, OwedToTheFile, OwedByTheProcess

(* A process that loads the file runs what the file says.                  *)
LEMMA LoadKeeps ==
  ASSUME PromiseInv, Load
  PROVE  PromiseInv'
<1>1. CASE ~Loads(file)
  BY <1>1, GoneKeeps DEF Load, historyVars
<1>2. CASE Loads(file)
  <2>1. cfg' = LoadConfig(file) /\ UNCHANGED <<file, shutdown, saving, promised>>
    BY <1>2 DEF Load, historyVars
  <2>2. ASSUME promised # Null
        PROVE  cfg' = promised
    <3>1. saving = Null
      BY <1>2, TruncatedRefused DEF PromiseInv, OwedToTheFile
    <3>2. file = AsDict(promised) /\ promised \in Configs
      BY <1>2, <2>2, <3>1, TruncatedRefused DEF PromiseInv, OwedToTheFile
    <3> QED BY <2>1, <3>2, RoundTrip
  <2> QED BY <2>1, <2>2 DEF PromiseInv, OwedToTheFile, OwedByTheProcess
<1> QED BY <1>1, <1>2

(* A PUT is refused, or begins to save what it promises.                   *)
LEMMA PutKeeps ==
  ASSUME PromiseInv, NEW body \in Bodies, Put(body)
  PROVE  PromiseInv'
<1>1. CASE FromBody(body) \in {Invalid, Fault}
  <2>1. UNCHANGED <<file, cfg, shutdown, saving, promised, stage>>
    BY <1>1 DEF Put
  <2> QED BY <2>1, OnwardKeeps
<1>2. CASE FromBody(body) \notin {Invalid, Fault}
  <2>1. /\ saving' = FromBody(body) /\ file' = Truncated
        /\ UNCHANGED <<stage, cfg, shutdown, promised>>
    BY <1>2 DEF Put
  <2>2. saving' \in Configs
    BY <1>2, <2>1 DEF Configs
  <2>3. saving' # Null
    BY <2>2, DaemonAssumption
  <2> QED BY <2>1, <2>2, <2>3 DEF PromiseInv, OwedToTheFile, OwedByTheProcess
<1> QED BY <1>1, <1>2

(* The invariant is inductive.                                             *)
LEMMA PromiseStep == PromiseInv /\ [Next]_vars => PromiseInv'
<1> SUFFICES ASSUME PromiseInv, [Next]_vars
             PROVE  PromiseInv'
  OBVIOUS
<1>1. CASE Exec
  BY <1>1, OnwardKeeps DEF Exec, Reaches, historyVars
<1>2. CASE Load
  BY <1>2, LoadKeeps
<1>3. CASE Start
  <2>1. CASE Boots(cfg)
    BY <1>3, <2>1, OnwardKeeps DEF Start, Reaches, historyVars
  <2>2. CASE ~Boots(cfg)
    BY <1>3, <2>2, GoneKeeps DEF Start, historyVars
  <2> QED BY <2>1, <2>2
<1>4. CASE Saved
  BY <1>4 DEF Saved, PromiseInv, OwedToTheFile, OwedByTheProcess
<1>5. CASE SaveFails
  BY <1>5 DEF SaveFails, PromiseInv, OwedToTheFile, OwedByTheProcess
<1>6. CASE Cancel
  BY <1>6, OnwardKeeps DEF Cancel, historyVars
<1>7. CASE RawClosed \/ SiteClosed
  BY <1>7, OnwardKeeps DEF RawClosed, SiteClosed, Reaches, historyVars
<1>8. CASE Drained \/ Crash
  BY <1>8, GoneKeeps DEF Drained, Crash, historyVars
<1>9. ASSUME NEW body \in Bodies, Put(body)
      PROVE  PromiseInv'
  BY <1>9, PutKeeps
<1>10. CASE Supervise \/ SessionThread \/ Clock \/ Hotplug
  BY <1>10, OnwardKeeps DEF Supervise, SessionThread, Clock, Hotplug, processVars, historyVars
<1>11. CASE CallStarts \/ CallEnds \/ Connects \/ HangsUp
  BY <1>11, OnwardKeeps DEF CallStarts, CallEnds, Connects, HangsUp, processVars, historyVars
<1>12. ASSUME NEW device, NEW zones, NEW coordinator, Setup(device, zones, coordinator)
       PROVE  PromiseInv'
  BY <1>12 DEF Setup, LoopFree, processVars, PromiseInv, OwedToTheFile, OwedByTheProcess
<1>13. CASE UNCHANGED vars
  BY <1>13, OnwardKeeps DEF vars, processVars, historyVars
<1> QED BY <1>1, <1>2, <1>3, <1>4, <1>5, <1>6, <1>7, <1>8, <1>9, <1>10, <1>11, <1>12,
           <1>13 DEF Next, EventLoop

(* update_config (app.py:131): a process that serves runs the Config that  *)
(* was last answered with "restarting", for any number of saves, refusals, *)
(* failed writes, runs of the wizard and crashes, in any order.            *)
THEOREM SavedIsRun == Spec => []RunsWhatWasSaved
<1>1. PromiseInv => RunsWhatWasSaved
  BY DEF PromiseInv, OwedByTheProcess, RunsWhatWasSaved
<1> QED BY <1>1, PromiseInit, PromiseStep, PTL DEF Spec

----------------------------------------------------------------------------
(* For the supervisor, every step of the daemon is one of its own, or the  *)
(* end of the process.                                                     *)
LEMMA CaptureMoves ==
  ASSUME [Next]_vars
  PROVE  CaptureStep(cfg.device) \/ Gone
<1> USE DEF CaptureStep
<1>1. CASE EventLoop
  <2>1. Load \/ Start \/ Drained => UNCHANGED captureVars \/ Gone
    BY DEF Load, Start, Drained, Reaches
  <2>2. Saved \/ SaveFails \/ RawClosed \/ SiteClosed => UNCHANGED captureVars
    BY DEF Saved, SaveFails, RawClosed, SiteClosed, Reaches
  <2>3. Cancel => Cancelled
    BY DEF Cancel
  <2> QED BY <1>1, <2>1, <2>2, <2>3 DEF EventLoop
<1>2. CASE Supervise \/ SessionThread \/ Clock \/ Hotplug
  BY <1>2 DEF Supervise, SessionThread, Clock, Hotplug
<1>3. CASE Exec \/ Crash \/ CallStarts \/ CallEnds \/ Connects \/ HangsUp \/ UNCHANGED vars
  BY <1>3 DEF Exec, Crash, Reaches, CallStarts, CallEnds, Connects, HangsUp, vars
<1>4. ASSUME NEW body \in Bodies, Put(body)
      PROVE  UNCHANGED captureVars
  BY <1>4 DEF Put
<1>5. ASSUME NEW device, NEW zones, NEW coordinator, Setup(device, zones, coordinator)
      PROVE  UNCHANGED captureVars
  BY <1>5 DEF Setup
<1> QED BY <1>1, <1>2, <1>3, <1>4, <1>5 DEF Next

(* No process takes a card with it.                                        *)
LEMMA CardsStep == UsbCards /\ [Next]_vars => UsbCards'
BY CaptureMoves, CardsKept DEF Gone, UsbCards

----------------------------------------------------------------------------
(* What the wizard finds is one of the identities there are, and what it   *)
(* is told a set of zones and one of them.                                 *)
LEMMA WizardFinds ==
  ASSUME attached \subseteq Adapters, NEW device \in PickCard(attached)
  PROVE  device \in Identities
<1>1. CASE \E card \in attached : UsbCapture(card)
  <2>1. PICK card \in attached : device = [usb_id |-> card.usb_id, card_name |-> card.name]
    BY <1>1 DEF PickCard
  <2>2. card.usb_id \in UsbIds /\ card.name \in Names
    BY CardFields
  <2> QED BY <2>1, <2>2 DEF Identities
<1>2. CASE ~\E card \in attached : UsbCapture(card)
  BY <1>2 DEF PickCard, Identities
<1> QED BY <1>1, <1>2

(* The wizard's zones are the household's, its coordinator one of them or  *)
(* none.                                                                   *)
LEMMA WizardIsTold ==
  ASSUME NEW answer \in PickZones
  PROVE  answer[1] \in SUBSET Household /\ answer[2] \in Household \cup {Unset}
BY DEF PickZones

(* What is reported as good was written whole, from a Config that was      *)
(* accepted or from answers with zones; nothing but a save writes it.      *)
ReportedInv == PromiseInv /\ UsbCards /\ ReportedGoodLoads

(* The first file has zones.                                               *)
LEMMA ReportedInit == Init => ReportedInv
<1> SUFFICES ASSUME Init
             PROVE  ReportedInv
  OBVIOUS
<1>1. UsbCards
  BY NoCards DEF Init
<1>2. PICK device \in PickCard(Installed), zone \in Household :
        file = AsDict(SetupConfig(device, Household, zone))
  BY DEF Init
<1>3. device \in Identities /\ Household \in SUBSET Household /\ Household # {}
  BY DEF Identities
<1>4. Loads(file)
  BY <1>2, <1>3, SetupLoads
<1> QED BY <1>1, <1>4, PromiseInit DEF ReportedInv, ReportedGoodLoads

(* The invariant is inductive.                                             *)
LEMMA ReportedStep == ReportedInv /\ [Next]_vars => ReportedInv'
<1> SUFFICES ASSUME ReportedInv, [Next]_vars
             PROVE  ReportedInv'
  OBVIOUS
<1> USE DEF ReportedInv
<1>1. PromiseInv' /\ UsbCards'
  BY PromiseStep, CardsStep
<1>2. ReportedGoodLoads'
  <2>1. CASE UNCHANGED <<file, reported>>
    BY <2>1 DEF ReportedGoodLoads
  <2>2. CASE EventLoop
    <3>1. CASE Saved
      <4>1. saving \in Configs /\ file' = AsDict(saving)
        BY <3>1 DEF Saved, PromiseInv
      <4>2. LoadConfig(file') = saving /\ saving \notin {Invalid, Fault}
        BY <4>1, RoundTrip DEF Configs
      <4> QED BY <4>2 DEF ReportedGoodLoads, Loads
    <3>2. ~Saved => UNCHANGED <<file, reported>>
      BY <2>2 DEF EventLoop, Load, Start, SaveFails, Cancel, RawClosed, SiteClosed,
                  Drained, historyVars
    <3> QED BY <2>1, <3>1, <3>2
  <2>3. ASSUME NEW body \in Bodies, Put(body)
        PROVE  ReportedGoodLoads'
    <3>1. UNCHANGED <<file, reported>> \/ reported' = FALSE
      BY <2>3 DEF Put
    <3> QED BY <2>1, <3>1 DEF ReportedGoodLoads
  <2>4. ASSUME NEW device \in PickCard(attached), NEW answer \in PickZones,
               Setup(device, answer[1], answer[2])
        PROVE  ReportedGoodLoads'
    <3>1. device \in Identities /\ answer[1] \in SUBSET Household
          /\ answer[2] \in Household \cup {Unset}
      BY WizardFinds, WizardIsTold DEF UsbCards
    <3>2. /\ file' = AsDict(SetupConfig(device, answer[1], answer[2]))
          /\ reported' = (answer[1] # {})
      BY <2>4 DEF Setup
    <3> QED BY <3>1, <3>2, SetupLoads DEF ReportedGoodLoads
  <2>5. CASE Supervise \/ SessionThread \/ Clock \/ Hotplug \/ CallStarts \/ CallEnds
               \/ Connects \/ HangsUp \/ Exec \/ Crash \/ UNCHANGED vars
    BY <2>1, <2>5 DEF Supervise, SessionThread, Clock, Hotplug, CallStarts, CallEnds,
         Connects, HangsUp, Exec, Crash, historyVars, vars
  <2> QED BY <2>2, <2>3, <2>4, <2>5 DEF Next
<1> QED BY <1>1, <1>2

(* update_config (app.py:131) and the wizard (cli.py): whoever was told    *)
(* that the file is good can rely on load_config accepting it, for any     *)
(* bodies and answers, and any refusals, failed writes and crashes before  *)
(* and after.                                                              *)
THEOREM ReportedIsGood == Spec => []ReportedGoodLoads
<1>1. ReportedInv => ReportedGoodLoads
  BY DEF ReportedInv
<1> QED BY <1>1, ReportedInit, ReportedStep, PTL DEF Spec

----------------------------------------------------------------------------
(* The identity decides (devices.py, "usb_id first"): in every session of  *)
(* every process, for any adapters, in whatever order and under whatever   *)
(* names they are listed, and whatever was saved, plugged and unplugged.   *)
THEOREM IdentityDecides == Spec => ConfiguredCard
<1>1. Init => UsbCards
  BY NoCards DEF Init
<1>2. UsbCards /\ [Next]_vars => UsbCards'
  BY CardsStep
<1>3. UsbCards /\ [Next]_vars => Rightly(cfg.device)
  BY CaptureMoves, OpensRightly DEF Gone, Rightly
<1> QED BY <1>1, <1>2, <1>3, PTL DEF Spec, ConfiguredCard

----------------------------------------------------------------------------
(* device_present (capture.py:117): for any adapters, back-off and life of *)
(* the process, the dashboard shows the adapter exactly while a session of *)
(* the supervisor's has it open, and never one left over from before.      *)
THEOREM AdapterShown == Spec => []PresentWhileReading
<1>1. Init => ShownInv
  BY ShownInit DEF Init
<1>2. ShownInv /\ [Next]_vars => ShownInv'
  <2>1. ShownInv /\ Gone => ShownInv'
    BY DEF ShownInv, PresentWhileReading, Gone
  <2> QED BY <2>1, CaptureMoves, ShownKept
<1>3. ShownInv => PresentWhileReading
  BY DEF ShownInv
<1> QED BY <1>1, <1>2, <1>3, PTL DEF Spec

----------------------------------------------------------------------------
(* The stages, the Configs in memory, in the file and on the way there.    *)
TypeInv ==
  /\ DaemonTypeOK /\ PromiseInv /\ UsbCards
  /\ file \in {AsDict(c) : c \in Configs \cup Wizards} \cup {Truncated}

(* The file is what save_config made of a Config, or truncated.            *)
LEMMA WrittenStep ==
  ASSUME TypeInv, [Next]_vars
  PROVE  file' \in {AsDict(c) : c \in Configs \cup Wizards} \cup {Truncated}
<1> USE DEF TypeInv
<1>1. CASE UNCHANGED file
  BY <1>1
<1>2. CASE EventLoop
  <2>1. CASE Saved
    BY <2>1 DEF Saved, PromiseInv
  <2>2. ~Saved => UNCHANGED file
    BY <1>2 DEF EventLoop, Load, Start, SaveFails, Cancel, RawClosed, SiteClosed, Drained
  <2> QED BY <1>1, <2>1, <2>2
<1>3. ASSUME NEW body \in Bodies, Put(body)
      PROVE  UNCHANGED file \/ file' = Truncated
  BY <1>3 DEF Put
<1>4. ASSUME NEW device \in PickCard(attached), NEW answer \in PickZones,
             Setup(device, answer[1], answer[2])
      PROVE  file' \in {AsDict(c) : c \in Wizards}
  <2>1. device \in Identities /\ answer[1] \in SUBSET Household
        /\ answer[2] \in Household \cup {Unset}
    BY WizardFinds, WizardIsTold DEF DaemonTypeOK, CaptureTypeOK
  <2>2. SetupConfig(device, answer[1], answer[2]) \in Wizards
    BY <2>1 DEF Wizards
  <2> QED BY <1>4, <2>2 DEF Setup
<1>5. CASE Supervise \/ SessionThread \/ Clock \/ Hotplug \/ CallStarts \/ CallEnds
             \/ Connects \/ HangsUp \/ Exec \/ Crash \/ UNCHANGED vars
  BY <1>1, <1>5 DEF Supervise, SessionThread, Clock, Hotplug, CallStarts, CallEnds,
       Connects, HangsUp, Exec, Crash, vars
<1> QED BY <1>1, <1>2, <1>3, <1>4, <1>5 DEF Next

(* What a process has loaded is a Config.                                  *)
LEMMA LoadedIsConfig ==
  ASSUME TypeInv, Loads(file)
  PROVE  LoadConfig(file) # Null
<1>1. PICK c \in Configs \cup Wizards : file = AsDict(c)
  BY TruncatedRefused DEF TypeInv
<1>2. CASE c \in Configs
  BY <1>1, <1>2, RoundTrip, DaemonAssumption
<1>3. CASE c \in Wizards
  BY <1>1, <1>3, WizardLoads DEF Loads
<1> QED BY <1>1, <1>2, <1>3

(* The process has a Config from the moment it is loaded to its end.       *)
ProcessTypes ==
  /\ stage \in Stages
  /\ (cfg = Null) <=> stage \in {"down", "loading"}
  /\ {shutdown, calling, connected, reported} \subseteq BOOLEAN
  /\ events \in 0 .. MaxEvents

(* A process has a Config exactly from load_config to its end.             *)
LEMMA ProcessTypesStep ==
  ASSUME TypeInv, [Next]_vars
  PROVE  ProcessTypes'
<1>1. ProcessTypes
  BY DEF TypeInv, DaemonTypeOK, ProcessTypes
<1> USE DEF ProcessTypes, Stages
<1>2. CASE UNCHANGED <<stage, cfg, shutdown, calling, connected, reported, events>>
  BY <1>1, <1>2
<1>3. Event => events' \in 0 .. MaxEvents
  BY <1>1, DaemonAssumption DEF Event
<1>4. CASE Gone /\ UNCHANGED reported /\ events' \in 0 .. MaxEvents
  BY <1>1, <1>4 DEF Gone
<1>5. CASE EventLoop
  <2>1. CASE Load
    <3>1. CASE Loads(file)
      BY <1>1, <2>1, <3>1, LoadedIsConfig DEF Load, historyVars, workVars
    <3>2. CASE ~Loads(file)
      BY <1>1, <1>4, <2>1, <3>2 DEF Load, historyVars
    <3> QED BY <3>1, <3>2
  <2>2. CASE Start
    <3>1. CASE Boots(cfg)
      BY <1>1, <2>2, <3>1 DEF Start, Reaches, historyVars, workVars
    <3>2. CASE ~Boots(cfg)
      BY <1>1, <1>4, <2>2, <3>2 DEF Start, historyVars
    <3> QED BY <3>1, <3>2
  <2>3. CASE Saved
    BY <1>1, <2>3 DEF Saved, workVars
  <2>4. CASE SaveFails
    BY <1>1, <2>4 DEF SaveFails, workVars
  <2>5. CASE Cancel
    BY <1>1, <2>5 DEF Cancel, workVars, historyVars
  <2>6. CASE RawClosed \/ SiteClosed
    BY <1>1, <2>6 DEF RawClosed, SiteClosed, Reaches, workVars, historyVars
  <2>7. CASE Drained
    BY <1>1, <1>4, <2>7 DEF Drained, historyVars
  <2> QED BY <1>5, <2>1, <2>2, <2>3, <2>4, <2>5, <2>6, <2>7 DEF EventLoop
<1>6. CASE Exec
  BY <1>1, <1>6 DEF Exec, Reaches, workVars, historyVars
<1>7. CASE Crash
  BY <1>3, <1>4, <1>7 DEF Crash, historyVars
<1>8. ASSUME NEW body \in Bodies, Put(body)
      PROVE  ProcessTypes'
  BY <1>1, <1>3, <1>8 DEF Put, workVars
<1>9. CASE Supervise \/ SessionThread \/ Clock \/ Hotplug
  BY <1>2, <1>9 DEF Supervise, SessionThread, Clock, Hotplug, processVars, workVars,
       historyVars
<1>10. CASE CallStarts \/ CallEnds \/ Connects \/ HangsUp
  BY <1>1, <1>10 DEF CallStarts, CallEnds, Connects, HangsUp, processVars, historyVars
<1>11. ASSUME NEW device, NEW zones, NEW zone, Setup(device, zones, zone)
       PROVE  ProcessTypes'
  BY <1>1, <1>3, <1>11 DEF Setup, processVars, workVars
<1>12. CASE UNCHANGED vars
  BY <1>2, <1>12 DEF vars, processVars, workVars, historyVars
<1> QED BY <1>5, <1>6, <1>7, <1>8, <1>9, <1>10, <1>11, <1>12 DEF Next

(* The service is enabled with a file of the wizard's.                     *)
LEMMA TypeInit == Init => TypeInv
<1> SUFFICES ASSUME Init
             PROVE  TypeInv
  OBVIOUS
<1>1. PromiseInv /\ UsbCards
  BY PromiseInit, NoCards DEF Init
<1>2. CaptureTypeOK
  BY CaptureTypesInit DEF Init
<1>3. ProcessTypes
  <2>1. /\ stage = "down" /\ cfg = Null /\ events = 0
        /\ shutdown = FALSE /\ calling = FALSE /\ connected = FALSE /\ reported = TRUE
    BY DEF Init
  <2>2. MaxEvents \in Nat
    BY DaemonAssumption
  <2>3. {shutdown, calling, connected, reported} \subseteq BOOLEAN
    BY <2>1
  <2>4. events \in 0 .. MaxEvents
    BY <2>1, <2>2
  <2> QED BY <2>1, <2>3, <2>4 DEF ProcessTypes, Stages
<1>4. PICK device \in PickCard(Installed), zone \in Household :
        file = AsDict(SetupConfig(device, Household, zone))
  BY DEF Init
<1>5. SetupConfig(device, Household, zone) \in Wizards
  BY DEF Wizards, Identities
<1> QED BY <1>1, <1>2, <1>3, <1>4, <1>5 DEF TypeInv, DaemonTypeOK, ProcessTypes, PromiseInv

(* For any bodies, household, adapters, back-off and number of events, the *)
(* supervisor and the process stay in the states that app.py and capture.py*)
(* know, and a process has a Config exactly from load_config to its end.   *)
THEOREM DaemonTypes == Spec => []DaemonTypeOK
<1>1. TypeInv /\ [Next]_vars => TypeInv'
  <2> SUFFICES ASSUME TypeInv, [Next]_vars
               PROVE  TypeInv'
    OBVIOUS
  <2>1. UsbCards' /\ PromiseInv'
    BY CardsStep, PromiseStep DEF TypeInv
  <2>2. CaptureTypeOK'
    <3>1. CaptureTypeOK /\ UsbCards
      BY DEF TypeInv, DaemonTypeOK
    <3>2. CASE Gone
      <4>1. 0 \in 0 .. Len(Backoff)
        BY CaptureAssumption
      <4> QED BY <3>1, <3>2, <4>1 DEF Gone, CaptureTypeOK
    <3> QED BY <3>1, <3>2, CaptureMoves, CaptureTypesKept
  <2> QED BY <2>1, <2>2, ProcessTypesStep, WrittenStep
          DEF TypeInv, DaemonTypeOK, ProcessTypes, PromiseInv
<1>2. TypeInv => DaemonTypeOK
  BY DEF TypeInv
<1> QED BY <1>1, <1>2, TypeInit, PTL DEF Spec

============================================================================
