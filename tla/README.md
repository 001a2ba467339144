# needledrop: a verification project

needledrop listens to a turntable, decides whether a record is playing, and
plays it in the Sonos rooms of the house. It is one asyncio process: an event
loop, a reader thread on the sound card, and a pool of threads for everything
that blocks. This directory holds TLA+ models of it, the TLC configurations that
check them, and proofs checked by TLAPS. Paths are relative to the repository
(`src/needledrop/` is shortened to the file's name).

Contents: [the system](#the-system) - [the modules](#the-modules) -
[how the models correspond to the code](#how-the-models-correspond-to-the-code) -
[the runs](#the-runs) - [disagreements with the documentation](#disagreements-with-the-documentation) -
[fairness](#fairness) - [what is proved](#what-is-proved) -
[what is not modelled](#what-is-not-modelled) - [the plan](#the-plan).

## The system

| Component | State it keeps | Operations | Interacts with |
|---|---|---|---|
| Needle state machine (`state.py`) | phase, `_sensing_since`, `_grace_since` | `update`, `manual_start`, `manual_stop`, `keep_playing` | called by Core only |
| Core control (`app.py`, handlers of `web.py`) | `_sonos_active`, `_last_watchdog` | tick loop, `_apply`, the dashboard's commands, the watchdog | calls the state machine on the event loop, the controller in pool threads |
| Sonos controller (`sonos.py`) | `_coordinator`, `_members`, `_snapshots`, `_infos` | `start`, `stop`, `watchdog_tick`, `set_volume` | SoCo calls to the players; no lock, several threads at once |
| Capture supervisor (`capture.py`) | `device_present`, `xruns`, back-off attempt | `run`, `_session`, `pump` | reader thread, `call_soon_threadsafe` to Core |
| PCM pipeline (`app.py`, `encode.py`) | `_pcm_q`, `_pcm_seen` | `_on_pcm`, `_ingest`, `_encode_loop`, the tick's keepalive | detector, encoder thread, hub |
| Level detector (`detect.py`) | filter, pending window, average, `music` | `feed` | fed by the pipeline, read by the tick loop |
| Stream hub and raw server (`stream.py`) | per-listener queue and byte account, realign marks, preroll | `publish`, `attach`, `detach`, `consume`, `preroll_burst`, one handler per connection | the players' HTTP connections |
| Configuration, lifecycle (`config.py`, `app.py:run`) | the file, the shutdown event | load, validate, save, restart | systemd restarts the process |
| Device resolution (`devices.py`) | none | `list_cards`, `resolve_card` | sysfs; called by the supervisor before every session |
| Dashboard (`web.py`, `static/index.html`) | per socket: the last phase it sent; per page: the status it shows | REST, websocket, poll | reads Core's snapshot, saves the config |
| Ring buffer (`ringbuf.py`) | bytes under a lock | `write`, `read_all` | unused by the daemon |
| Wizard (`cli.py`, `units.py`) | none | setup dialogue, unit files | writes the config |

What is hard:

- **Overlapping calls.** The dashboard's handlers, the tick loop and the
  fire-and-forget watchdog hand calls to the pool that share the controller's
  four fields without a lock. A stop can overtake the start it should undo; a
  watchdog can find the coordinator gone between two lines.
- **Partial failure.** Every SoCo call may raise, and reading a zone's
  `player_name` is one of them. After each of them the group, the volumes and the
  fields still have to agree, and the tick loop has to go on.
- **Suspension.** The tick loop awaits its own command and reads the phase again
  afterwards, when handlers have moved it.
- **Time.** Two timestamps are never reset when a phase is left.
- **Slow and short-lived listeners.** A player may stop reading, or probe and go
  away while its handler awaits something.
- **An adapter that comes and goes**, with a detector that only changes when it
  is fed, among cards whose order and names are reshuffled.
- **Saving by dying.** A new configuration takes effect by ending the process:
  the file is overwritten in place, threads and connections have to let the
  process go, and systemd starts it again in rooms that the old one left grouped.
- **Two ways to the page.** Pushes and polls overtake each other.

What makes each component correct: the state machine starts on sustained music
and ends a side only after a whole quiet window; the flag `_sonos_active`
follows the phase; a session gives back everything it took; a busy room is not
disturbed; a record that plays is heard, and one that ends is let go; a listener
costs bounded memory and receives an aligned, ordered feed; the stream does not
stall while speakers are held; the adapter that is heard is the configured one;
a process runs the configuration it promised and comes back from every end; the
dashboard shows what settled. Each hazard is listed at
its line in `PROJECT.json`, with the properties that would catch it.

## The modules

| Module | Models | Extends / instantiates |
|---|---|---|
| `NeedleMachine` | `state.py`, one action per branch | |
| `NeedleHistory` | the state machine under any caller, with history variables | `NeedleMachine` |
| `SonosController` | `sonos.py` as steps of worker threads, the players (external) | |
| `Core` | `app.py` control: tick loop, commands, watchdog | `NeedleMachine`, `SonosController`; instantiates `PlaybackSession` |
| `PlaybackSession` | abstract: what needledrop promises the household | |
| `StreamHub` | `stream.py`: hub and connections | |
| `CoreRestart` | Core in a process that ends and is started again | `Core` |
| `Devices` | `resolve_card`, `list_cards`, the wizard's choice of a card, as operators | |
| `Capture` | `CaptureSupervisor`, its session thread, the cards that come and go; its actions leave the rest of the state to who composes it | `Devices` |
| `Pipeline` | the PCM path and keepalive of `app.py`, the hysteresis of `detect.py`, around the supervisor | `NeedleMachine`, `Capture` |
| `Config` | `config.py` as operators from documents to outcomes | |
| `Daemon` | `main_async`, `run()`, `update_config`, PUT, the wizard, systemd, around the supervisor | `Config`, `Capture` |
| `Dashboard` | the status socket of `web.py`, the poll and the page | `NeedleHistory` |
| `NeedleHistoryProofs`, `StreamHubProofs` | theorems about the machine, alone and under the dashboard, and about the hub | `Dashboard`; `StreamHub` |
| `CoreProofs` -> `RoomsProofs` -> `VolumeProofs` | theorems about Core and the controller: types and calls; rooms, groups and restarts; volumes and the refinement | each extends the one before; `Core`, `CoreRestart` |
| `CaptureProofs`, and on it `PipelineProofs` and `DaemonProofs` | lemmas about the supervisor; theorems about the two modules that compose it | `Capture`; `Pipeline`, `Daemon` |
| `MCCore`, `MCCoreRestart`, `MCDashboard`, `MCStreamHub`, `MCPipeline`, `MCDaemon` | instances for TLC | |

Definitions whose comment begins with *Mutation* are deliberate bugs. No
specification uses them; each is what one property was tried against.

## How the models correspond to the code

**Granularity.** On the event loop a coroutine runs undisturbed from one await to
the next, and that is one step. In the pool, one step is one SoCo call with the
local code after it, and every rebinding of a shared field is a step of its own
(`Adopt` and `Enlist`, `Clear` and `Disband`), as is a read of one between two
calls: the interpreter may switch threads there.

**NeedleMachine.** A timestamp is only ever compared as `now() - since >=
threshold`; the model keeps the difference, saturated at the threshold, so that
time can pass for ever in finitely many states. `Update` has a disjunct per
branch of `update()` and one for the calls that return None.

**SonosController.** `job[w]` is the call worker `w` runs, with its local
variables: `pc` names the next line, `todo` is what the current loop has left,
`cand` are `start()`'s candidates. `_members` is a list object: `append` changes
it in place, so a `stop()` that iterates over it sees the new member, while
`self._members = []` rebinds the field and leaves the old object to whoever
iterates (`live`). `MayFail` names the SoCo calls that may raise in an instance.
A failed call is passed over where the code wraps it. One call is wrapped nowhere:
`player_name` asks the zone on the network, and the code reads it outside every
`try` (`sonos.py:66`, `:167`, `:191`) and in the handlers that report the failure of
the same zone (`:83`, `:89`, `:163`). With `"name"` in `MayFail` such a read may end
the call (`NameRaises`); `raised` are the workers whose latest call ended so.
Loops over zones visit them in any order, because the configured order is
arbitrary. The players are modelled by what `sonos.py` relies on and
`tests/fakes.py` imitates: a zone leads itself or follows another, plays what
its leader plays, `play_uri` on a follower raises (`sonos.py:4`).

**Core.** `Tick` is a tick whose `update()` commands nothing; `TickCommand` and
`TickResume` are the two halves of one that does, and `TickLoopEnds` is the second
half when the command has raised: the task is over, `ticking` is false, and nothing
but clicks moves the phase from there on. A handler whose command raises answers 500
and is done. A click moves the phase and
issues its command in the same step, as `manual_start()` and `_apply` do before
their first await. `Overlapping` says which calls an instance may issue while
another one runs: with `{}` everybody waits for the answer of a click; the runs
that ask what overlap does say so in their configuration. The watchdog may
overlap with anything that is issued legally. `Workers` bounds the calls in
flight; a call that finds no worker waits, as in the pool's queue.

**PlaybackSession.** Four stages and two sets: the zones that play the stream,
and the zones whose volume is not the household's. `Core` instantiates it with
`stage` computed from the running calls and the flag, and the run `session`
checks that Core implements it: `SessionBracket`.

**StreamHub.** A chunk is its number; its size is what the bounds see, and
`cut` says whether the bytes before its first sync word were removed. Only the
first chunk of the encoder is sure to start with a sync word. Later chunks may
start anywhere, which is the worst case for the alignment, and up to `MaxUnsynced`
in a row hold no sync word at all. `consume()` throws such a chunk away while it
has to realign its listener and counts it nowhere; the history variable `discarded`
does. The preroll is sent from its first sync word on. The wait of a handler ends
when its client closes, and also when the client sends more than its request
(`Speak`), because both complete `reader.read(1024)`.

**CoreRestart.** One step ends the process and starts the next: everything in
memory is as at the beginning, the players keep groups and volumes and lose the
stream. It may happen between any two steps. A clean end waits for the pool's
threads and is the case where none is running; a crash is any other.

**Devices and Capture.** `Listings` are all the orders `list_cards` may return a
set of cards in. `attached` are the cards there are; no two have the same USB id
(two adapters of one kind cannot be told apart by the configuration either) or
the same name. An identity may be written in capitals in the configuration and is
compared in lower case (`Lower`). A session is resolved by identity and opened by name, as
`hw:CARD=name` is. `supervisor` is where the coroutine `run()` is, `session`
where its thread is: they meet at the end of a session only, and a cancelled
supervisor leaves its thread behind. An arecord that cannot be started
(`OpenFails`) ends the session before it reads anything, and the supervisor waits
for the next rung of its ladder (`SessionFailed`).

**Config and Daemon.** A document is a function from sections to what it says
of them; Null is a blank section or field, Text a string or a list with something
in it and Scalar any other value that is no mapping (`NoMapping`). As the body of a
PUT, the one names unknown sections and is refused, and the other cannot be iterated
over, which is an exception of another kind; `load` refuses both.
Fields that nothing checks or interprets keep any value. `stage` is where
`run()` and `main_async` are: each await of the shutdown is a stage of its own
(`closing`: `raw.close()`, `cleaning`: `runner.cleanup()`, `draining`: asyncio
joins its threads). `saving` makes the truncation and the write of `save_config`
two steps, with nothing else of the event loop in between but a crash or a failed
write. `calling` stands for all Sonos calls in the pool, `connected` for all the
players. `AwaitClients` is Python 3.12's `wait_closed()`, which waits for open
connections. `promised` and `reported` are history variables: what the last PUT
was told, and whether the last writer of the file was told that it is good. The
wizard is another process: it writes at any time, except in the middle of a save.

**Dashboard.** `pushing` is the snapshot the socket's sender has taken and not
yet sent, `answer` the one on its way in an answer to a poll (one at a time);
either replaces all that is shown. Of the status the model keeps the phase and
one bit for the zones, which change at any time.

**Pipeline.** `inbox` is the queue of callbacks the reader thread has scheduled;
the end of a session passes through it too, behind the last chunks. The
detector's average is a level that each window moves by an arbitrary amount
towards itself; `Feed` is the hysteresis. `Keepalive` is the rest of a tick. The
Sonos calls appear as the suspension of the tick loop: that a command is issued
exactly when the phase enters or leaves PLAYING and GRACE is `HeldIffPlaying` of
Core, which is proved. No command raises here: what a raising one does to the tick
loop is a matter of Core.

## The runs

All of them pass, except the ones of the next section.

| Run | Shows | Bounds |
|---|---|---|
| `session` | `SessionBracket`: Core refines the playback session; `VolumesComeBack` | 2 zones, 2 workers, 3 volumes, 2 acts of people; discovery, probes, transport queries and volume calls fail; rooms are taken by others |
| `failures` | `OneGroup`: between calls the fields describe one group and the players agree; `StoppedWhenIdle` | the same, no preferred coordinator; discovery, probes, reading and setting volumes, plays, joins and the coordinator's own unjoin fail |
| `overlap` | `HeldIffPlaying`, `BusyLeftAlone`, `WatchdogInPlaying`, `TickReturns`, `SideEnds`: with overlapping starts and stops whose own calls fail and raise, the flag follows the phase, busy rooms are safe, a watchdog is issued in PLAYING only, the tick loop does not hang, and silence for ever ends in IDLE with no call running as long as the tick loop is there; the types | 2 zones, 2 workers, 1 click, a window of 2, 1 try per play; plays, pauses, unjoins and names fail |
| `restart` | `RecordPlays`: music for ever is heard for ever in every room that nobody took, also after the process was restarted in the middle of anything; `BusyLeftAlone` and `OneGroup` across restarts | 2 restarts, 1 act; players wander, volume, pause, unjoin and restore fail |
| `dashboard` | `ShowsTheTruth`: what the page shows is what settled. `TimersHonest`: an elapsed timer never claims more than the updates have seen. `AutoStartSustained`, `AutoStopEarned`: automatic transitions are earned, through any flickers and clicks | debounce 1, window 1; reconnections and lost answers without bound |
| `stream_hub` | `BoundedBuffers`, `CleanFeed`, `GapsCounted`; `ProbesDetach`, `EverythingDelivered`; the types | 2 connections, reused for ever, 3 chunks of two sizes, one of them larger than the buffer; any chunk but the first may lack a sync word, not two in a row |
| `pipeline` | `StreamNeverStalls`, `LostDeviceEnds`; the types | 3 levels, a queue of 2, debounce and window of 2, 2 clicks; the adapter is plugged and unplugged, and arecord may not start, without bound |
| `daemon` | `RunsWhatWasSaved`, `ReportedGoodLoads`: promises about the file hold through saves, refusals, failed writes, crashes and the wizard. `ConfiguredCard`, `AdapterHeard`, `PresentWhileReading`: the configured adapter is heard and shown. `ComesBack`: no thread and no step of the shutdown keeps the process from starting again; the types | 2 events (PUT, wizard, crash), 10 bodies that reach every outcome of `config_from_dict`, one with the identity in capitals; 2 adapters under 2 names, plugged without bound; arecord may not start; a ladder of 1 and 2 |

Why the bounds are enough for what they show. Two zones are a coordinator and a
member, with either of them failing, busy or grouped beforehand by the
household; a second member is treated exactly as the first, one after the other.
Two workers are a call and the one that overlaps it. One unit of debounce,
window and watchdog period each makes "not yet" and "due" differ. Two acts are
a click and what somebody does about it, and the needle itself supplies any
number of starts and stops beyond that. Three chunks of sizes 1 and 3 with a
buffer of 2 reach a single drop, several drops by one publish, a chunk that is
thrown away after a drop and one that alone exceeds the bound. A drop after a
realigned write and a gap of two chunks in what a player hears take a fourth chunk:
`MCStreamHub_longer.cfg` has it and checks the four invariants there, which are also
proved for any number of chunks and listeners. Two events are a save
and what interrupts or follows it: a crash between truncation and write, a second
save during the shutdown, the wizard after a promise. A second restart meets the
rooms that a first one left half grouped.

Symmetry (the workers) is used only where nothing but invariants is checked, in
`failures` (and that of the players in `MCStreamHub_longer.cfg`). A
deadlock would be reported in every run; time always passes, so none can occur
in Core, Pipeline and Dashboard, in StreamHub connections come and go for ever,
and in Daemon adapters do. That a part of the system does not wait for ever is a
matter of the liveness properties.

## Disagreements with the documentation

Each is a run that TLC finds violated, with the shortest counterexample.

1. `stop_during_start` (`StoppedWhenIdle`). `stop()` looks at `_coordinator`
   and `_members`, and `start()` sets them only after its first `play_uri`. A stop
   clicked before that does nothing; the start then plays with the machine in
   IDLE. README.md:74: "Sonos is left alone".
2. `failed_join` (`VolumesComeBack`). The volume of every candidate is saved and
   changed, that of the coordinator and the joined zones restored. A zone whose
   `join` failed keeps the master volume. README.md:98: "the old volumes come
   back when it stops".
3. `dead_tick_loop` (`SilenceEndsTheSide`). `start()` reads the `player_name` of
   every zone it found outside its `try`; where a zone is gone by then, it raises,
   although `sonos.py:11` says that failures "never raise out of the controller".
   `_tick_loop` awaits it inside its endless loop and catches nothing, and nobody
   looks at the task before the shutdown: the machine stays in PLAYING, without
   `update()`, watchdog and keepalive. README.md:77: "It streams silence for a grace
   window ... before stopping Sonos, ungrouping, and putting the volumes back".
4. `unplugged_start` (`StartIsHeard`). An adapter that vanishes during the
   debounce leaves `detector.music` true, and nothing feeds the detector in IDLE
   and SENSING: playback starts and holds the rooms for a whole grace window.
   README.md:91: "Music must hold this long before playback starts".

More were met. For the first four there is a configuration beside the runs, which
TLC finds violated too:

- `MCCore_raising_name.cfg` (`NeverRaises`), the root of the third above. Besides
  `start()`, a name that cannot be read ends `stop()` in the middle (`sonos.py:167`),
  which says of itself "best effort, never raises" (`:153`): the other volumes are
  not restored and `_coordinator` is kept. It ends `set_volume` too (`:191`).
- `MCCore_stop_during_watchdog.cfg` (`WatchdogStaysQuiet`). A watchdog runs in a
  thread of its own and may settle and retry for many seconds. When `stop()` comes in
  between, it plays the stream on the stopped coordinator in IDLE, where no later
  call silences it. `sonos.py:177`: "Every ~10s in PLAYING". If it reads
  `_coordinator` again only after `stop()` has cleared it (`:187`), it raises from its
  own log line instead, in a call that nobody awaits.
- `MCCore_failed_start.cfg` (`PlayingIsHeard`). A start that finds no zone is not
  retried: the flag says active, the watchdog sees no coordinator and returns. The
  machine is in PLAYING for the whole side and every room is silent.
  README.md:76: "Rooms are grouped under one coordinator and playing the stream".
- `MCDaemon_lingering_player.cfg` (`SavedExits`). Python 3.12's `wait_closed()` waits
  for open connections (`stream.py:118`; `pyproject.toml` asks for 3.11 or newer), and
  the handler of a player that listens waits for chunks that no encoder makes any
  more. A PUT that was answered "restarting" takes effect when the player hangs up.
  `app.py:132`: "then exit for a clean systemd restart". With `AwaitClients = FALSE`
  the property holds.
- With `Overlapping = {"set_volume"}`, `VolumesComeBack` is violated: a dashboard
  volume is accepted after `stop()` has restored the zone and before it clears the
  session.
- `run()` does not stop Sonos. A configuration saved in the middle of a side
  leaves the rooms grouped at the master volume, and the next process takes that
  volume for the household's (README.md:98).
- `Valid` and `Boots` differ. Port 65535 is accepted though the audio port is the
  next one, and so is a null `highpass_hz`, which the page sends for a field that
  was cleared (`static/index.html:739`, NaN is null in JSON). The PUT is answered
  "restarting" and the daemon does not come up again, where `app.py:132` says
  "exit for a clean systemd restart". `ComesBack` leaves such files out by its
  premise `Bootable`. A null duration boots, and ends the tick loop at the first
  comparison with it.
- A PUT of some fields resets the others to their defaults: `config_from_dict`
  merges over the defaults, not over what runs.
- The file is truncated and written in place (`config.py:141`). A crash or a failed
  write in between leaves one that does not load, and the process that systemd starts
  ends at once; no document says otherwise, and `ComesBack` leaves it out by
  `Bootable`. What holds is that a torn file is never run (`TruncatedRefused`).
- The fallback of `resolve_card` to the only other USB capture card is kept for as
  long as that card stays, also when the configured adapter is back:
  `AdapterHeard` assumes that every other card is gone in the end.

## Fairness

- **Tick loop, handlers, pipeline**: weak fairness. asyncio runs its ready
  callbacks in order, so a coroutine that can go on does.
- **Workers**: weak fairness per worker. SoCo's requests carry timeouts and
  `time.sleep(5)` ends, so each step of a call comes to an end. No fairness
  says that a call succeeds: what may fail may fail every time.
- **Clock, reader thread**: weak fairness; time passes, and an adapter that is
  plugged in delivers.
- **People, players, adapter**: none. Nobody has to click, save, wander, plug or
  hang up. `RecordPlays`, `SideEnds`, `LostDeviceEnds` and `AdapterHeard` assume by
  their own premise that the record or the adapter settles; `SideEnds` also that the
  tick loop is there (see `dead_tick_loop`), and `AdapterHeard` that arecord can be
  started from some time on.
- **The process**: weak fairness for systemd's restart (`Restart=always`,
  `units.py:19`), for the steps of `main_async` and `run()`, for the supervisor and
  for a session that has been told to stop, because arecord delivers or ends.
  `ComesBack` assumes that the file is sound in the end and that players hang up
  again and again: with `AwaitClients`, one that never does keeps `raw.close()`
  waiting.
- **The dashboard**: weak fairness for the sender and the poll, which run on
  timers, and strong fairness for an answer to arrive: connections break any
  number of times, but not every answer is lost.
- **Listeners**: a client that stays reads what it is sent (`Drained`); one that
  does not is the safety properties' business.

## What is proved

Every invariant and every safety action property that a run checks is a theorem,
for every value of the constants that satisfies the modules' assumptions and the
conditions named below; so is the refinement of the playback session.

The assumptions are those of the modules, which TLC evaluates in every run.
`DurationsAssumption`, `ControllerAssumption`, `CoreAssumption`,
`RestartAssumption`, `CaptureAssumption`, `PipelineAssumption` and
`DaemonAssumption`: numbers are naturals, thresholds are in order, None is no zone,
None, strings and other scalars are no mappings, the configured volume is a volume,
a USB id is not empty. `LowerAssumption`: an identity that is not set stays so in lower case.
`HubAssumption`: chunks have a size, and there are finitely many connections at a
time. `SyncAssumption`: the preroll is longer than any run of chunks without a sync
word; a chunk is worth four MPEG frames and the preroll ten chunks. `WizardAssumption`: None is no number and no list of zones, and neither an
answer of the wizard nor the Config made of it is one of the outcomes that the
model gives a failed load. In Python these are objects of different types; in
TLA+, where nothing is said of a model value, it has to be assumed.

| Theorem | States | Beyond the modules' assumptions |
|---|---|---|
| `NeedleHistoryProofs!TimersInvariant`, `StartIsSustained`, `StopIsEarned` | `TimersHonest`, `AutoStartSustained`, `AutoStopEarned` | |
| `NeedleHistoryProofs!DashboardKeepsNeedle`, `NeedleUnderDashboard` | Dashboard implements NeedleHistory; the three across it | |
| `CoreProofs!TypesInvariant`, `HeldInvariant` | `CoreTypeOK`, `HeldIffPlaying` | |
| `RoomsProofs!WatchdogsInPlaying` | `WatchdogInPlaying` | |
| `RoomsProofs!BusyIsLeftAlone`, `BusyAcrossRestarts` | `BusyLeftAlone`, for Core and for CoreRestart | `DontInterruptBusy`; a room that joins or leaves its own music meanwhile (`play_other`) is not looked at |
| `RoomsProofs!StateAcrossRestarts` | `CoreTypeOK`, `HeldIffPlaying`, for CoreRestart | |
| `RoomsProofs!SessionIsOneGroup` | `OneGroup` | `QuietAssumption`: a start or stop is issued only when no other call runs (`Overlapping`), and zones give their names |
| `RoomsProofs!SpeakersLeftAlone` | `StoppedWhenIdle` | the same, and `stop()` of the coordinator does not fail |
| `RoomsProofs!GroupAcrossRestarts`, `SpeakersAcrossRestarts` | `OneGroup`, `StoppedWhenIdle`, for CoreRestart | as for Core |
| `VolumeProofs!VolumesAreRestored` | `VolumesComeBack` | `VolumesAssumption`: nothing overlaps; reading and restoring a volume, the last unjoin before the play, the play and the join succeed, and zones give their names |
| `VolumeProofs!CoreImplementsSession` | `SessionBracket` | the same, and `stop()` of the coordinator does not fail |
| `StreamHubProofs!FeedIsClean`, `BuffersAreBounded`, `GapsAreCounted`, `HubTypes` | `CleanFeed`, `BoundedBuffers`, `GapsCounted`, `HubTypeOK` | |
| `PipelineProofs!PipelineTypes` | `PipelineTypeOK` | |
| `DaemonProofs!SavedIsRun`, `ReportedIsGood`, `IdentityDecides`, `AdapterShown`, `RoundTrip`, `DaemonTypes` | `RunsWhatWasSaved`, `ReportedGoodLoads`, `ConfiguredCard`, `PresentWhileReading`, a lemma of its own, `DaemonTypeOK` | |

The conditions are not there for the provers: for each of them there is a
counterexample above. `stop_during_start` breaks `StoppedWhenIdle` when a stop
overlaps a start, and `MCCore_stop_during_watchdog.cfg` shows the same of a stop that
the tick loop issues while a watchdog of its own is still running, which nothing in
`app.py` prevents. `failed_join` breaks `VolumesComeBack` when a join fails, and a
name that cannot be read (`MCCore_raising_name.cfg`) leaves a `stop()` unfinished.
What needs no condition, raising names included, is what the code protects by
itself: the flag, the busy rooms, and when a watchdog is issued. The tick loop is
not among it, as `dead_tick_loop` shows.

How the proofs go:

- **`NeedleHistoryProofs`.** The inductive invariant is `HistoryTypeOK /\
  TimersHonest`: the second conjunct is what a transition needs to know about the
  timestamp it reads, and the first bounds the saturated ages. The two action
  properties follow from it, because `Sustained` and `SideOver` are the only
  branches that can make those transitions. A step of `Dashboard` is one of theirs or
  leaves the machine alone, so the three carry over.
- **`CoreProofs`.** First the controller's steps keep `SonosTypeOK`, whose conjunct
  `Ready` is the part with content: a call has assigned every local variable the
  line it is about to run uses. `HeldIffPlaying` is inductive only together with
  the types; its argument is that the flag changes in the same step as the phase,
  before the await (`UpdateHeld`, `Command`).
  What the later proofs need of the calls is `Tame`, which holds under
  `QuietAssumption`: each line belongs to the method that has it (`Places`), a stop
  runs with the session over and nothing but volume calls beside it (`StopsAlone`),
  and so a watchdog about to play has a coordinator (`CoordinatorStays`), because
  only `stop()` writes None.
- **`RoomsProofs`, calls and busy rooms.** `CoreStep` reduces a step of Core to one
  of six things it can be for the rooms (`RoomStep`), and everything after it is about
  those. `WatchdogInPlaying` is read off it: a watchdog is handed over by a tick that
  looks at the phase after its command has returned, and the flag agrees with the
  phase by `HeldIffPlaying`. For the busy rooms the invariant is `Grouped` (a leader leads itself,
  and who follows has nothing on its own transport) with `FreeRooms`: no room that
  a call is about to touch (`Touches`: candidates, targets, what is left of a loop)
  and no room of the session is busy. It is inductive under any overlap, because
  calls hand rooms to one another only through the session. A restart keeps it
  trivially, since the new process touches nothing, and that is why the groups the
  old one left behind cannot mislead it.
- **`RoomsProofs`, one group.** `Gathered` ties the players to the fields line by
  line: which lines have no coordinator yet or one without members (`enlist`), where
  the dashboard's flags are cleared, that the members outlive their coordinator only
  while a `stop()` is about to forget them (`disband`), that a start runs beside watchdogs and volume calls only, and that the
  session's zones follow the coordinator until a stop begins to ungroup. `Streams`
  adds where the stream may be: on the coordinator's transport, or on that of the
  zone a start is about to adopt, and nowhere once `stop()` is past its first call.
  Both invariants read the fields, the calls and the groups only, never whose
  groups they are: so the first state of a new process satisfies them whatever the
  old one left (`RestartGathers`), and the theorems hold across restarts.
- **`VolumeProofs`.** `Volumed`: every volume that is not the household's is owed by
  the running command (`Owed` says for each line which rooms it answers for) or,
  between commands, by the session, and the snapshot of an owed room is the
  household's volume. The refinement has one lemma per abstract action and one per
  method: what a step does to the audible rooms and to the moved volumes is an
  action of `PlaybackSession` or a stutter. `Finish`, the end of a session, needs
  `Streams` and `Volumed`: nothing is audible and nothing is moved there.
- **`StreamHubProofs`.** `HubInv` says of each listener that its queue is a run of
  consecutive chunks up to the newest (`Latest`), so its length says what is due
  next; that a mark to realign is set exactly when a gap is due (`InStep`); and that
  the byte account is the sum over the queue (`Accounted`). `BoundedBuffers` needs
  that `publish()` drops until the rest fits or is one chunk (`Overflow`), and
  `CleanFeed` that what was sent so far is `Playable` and the next piece is due
  (`PlayableOn`): a chunk that `consume()` throws away keeps the mark and the gap
  (`TakeKeeps`), and a preroll always holds a sync word to start from (`Synced`,
  `PrerollSynced`, `BurstOpens`).
  `GapsInv` adds that the chunks skipped so far, summed over all listeners, do not
  exceed `dropped + discarded`: `PublishCounts` for the one, `PumpCounts` for the other. `Bytes` is a recursive function and the sum over the listeners a
  fold; that they add up as they should is proved without induction principles,
  from the least index or least subset at which they would not (`LeastNumber`,
  `LeastSet`, which rest on the well-foundedness of inclusion on finite sets).
- **`CaptureProofs`.** What each of the supervisor's steps keeps, stated once for
  whoever composes it (`CaptureStep`): the types, `UsbCards`, and `ShownInv`, that a
  supervisor which awaits no session has no thread left. `ResolvedById` says of
  `resolve_card` that a listed card with the configured id is returned.
- **`PipelineProofs`.** The bound on the encoder's queue has two producers, the
  capture and the keepalive, and both go through `Enqueue`.
- **`DaemonProofs`.** `PromiseInv` follows a promise from the file to the process:
  while nothing is being saved, the file of a promise is what `asdict` made of it or
  truncated, and a process that has loaded and is not about to end runs it. It
  rests on `RoundTrip`, an accepted Config is loaded from its own dump unchanged,
  and on `TruncatedRefused`, the file that a crash leaves in the middle of a save
  is not loaded at all. `ReportedIsGood` adds the wizard: `SetupLoads`, the Config
  made of zones and defaults passes `_validate`, whatever card was found.

Only model-checked: liveness, which is out of the prover's reach (`TickReturns`,
`SideEnds`, `RecordPlays`, `ShowsTheTruth`, `ProbesDetach`, `EverythingDelivered`,
`StreamNeverStalls`, `LostDeviceEnds`, `ComesBack`, `AdapterHeard`).
`VolumesComeBack` and the refinement are stated within one process: a restart in
the middle of a session takes the session's volumes for the household's.

## What is not modelled

`calibrate()`, which samples the detector and changes nothing; the ring buffer,
which the daemon does not use; the `xruns` counter (it also counts sessions that
never opened, and nothing reads it but the status); the optional sounddevice
backend; how sysfs is read; YAML and JSON; the HTTP head; the floating-point
filter and the windowing of the PCM; the encoder's format; the texts of the
wizard, the unit and the udev rule, and the parsing of arguments; the page's
presentation; `scripts/spike_stream.py` (a prototype). What a null duration does
to the tick loop is described above and not modelled. An executor that
runs out of threads is not modelled either: Core's bound on calls in flight
makes a tick wait for a worker when its watchdog is due, where the code would
queue the call.

## The plan

Done: the needle machine, Core and the controller with the playback session,
restarts, the stream hub, the pipeline, the daemon's life with its configuration
and devices, the dashboard, and theorems for every safety property the runs check.
Next, in this order:

1. **Pipeline**: the encoder thread and the supervisor in one process.
   `PresentWhileReading` there follows from `CaptureProofs` and has no run yet.
2. **The pool**: watchdogs that block share its threads with the encoder and the
   capture session; no model has it.
