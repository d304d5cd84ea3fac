# A verification project for deej

deej turns the readings of a row of physical sliders into volumes: of
applications, of devices, of OBS inputs, of people in a Discord voice channel.
It is one Go process with some twenty goroutines that meet in a handful of
places: a generic connection manager, a settings store that everybody
subscribes to, and a mixer that session events, slider moves and settings
reloads enter from different goroutines. The modules here model those places,
TLC checks them on small instances, and TLAPS proves the safety promises of all
of them for every instance.

## The system

| component | state | operations | interacts by |
|---|---|---|---|
| connection manager (`internal/reconnect`) | stop channel, current connection and its error channel, failure count | Start, Stop, Reconnect, Current; the manager loop; a dial, a Watch, a late-close goroutine per generation | callbacks Dial, Watch, Close, OnUp, OnDown, Enabled |
| serial client (`internal/serial`) | the manager's, the slider count and values, `adopted` per connection | Start, Stop, dial, onUp, close, watch, the settings worker, `handleLine` | reload signals in; move events and connected / disconnected events out, both unbuffered |
| settings store (`internal/config`, `internal/atomicfile`) | the file, the snapshot, one mutex, the watcher with its debounce timer | Load, SaveUserSettings, SetActiveProfile, watch, reload | a one-place signal channel per consumer, which coalesces |
| mixer (`internal/mixer`) | sessions by key, the unmapped list, one mutex | slider moves, session added / removed, rebuild after a reload | calls from the finder's goroutines, move events, reload signals |
| PulseAudio finder (`internal/audio`, Linux) | sessions and masters in maps under one mutex, the worker's channel | dial, onUp, onDown, event callback, worker jobs, clearing, Release | on the connection manager; handler calls into the mixer |
| Windows finder (`internal/audio`, `internal/platform/win`) | device managers, tracked sessions, references to COM objects, debounce times, the worker's channel | COM worker from begin to clean-up, device, session and default-device callbacks | callbacks on threads of the system's; handler calls into the mixer |
| OBS client (`internal/integrations/obs`) | the manager's | volume requests, settings worker | on the connection manager |
| Discord client (`internal/integrations/discord`) | token, roster, pending and sent volumes, outstanding requests | link, unlink, refresh, RPC, flush, reconcile | on the connection manager; moves from the mixer, positions from the serial client |
| application and desktop (`internal/app`, `internal/desktop`) | windows, tray, workers | start, stop, event workers, hotkeys | everything above |
| settings window (`frontend`), firmware (`arduino`), platform helpers, icons, translations | - | presentation and I/O | bound calls; lines |

What is hard here is order. A connection is closed on four paths while another
may be coming up; settings are read before a dial that takes seconds, before a
lock, and by several workers that one reload wakes independently; signals
coalesce; an editor writes the file while the program does; a session may go
away in the middle of a slider move; queues that must not block drop what does
not fit; what a request changed is unknown after a timeout. `PROJECT.json` lists
each of these hazards at its line with the property that covers it, or why none
does.

## The modules

### Reconnector, ConnectionLifecycle, ReconnectorProofs

`Reconnector` is `reconnect.go`. `mgr` is the program counter of
`managerLoop`, with a value before every point where another goroutine can
matter; `gen` is its local connection. A member of `Conns` stands for a dial,
the connection it produced, the error channel of that generation (`buf`) and
its Watch goroutine (`watch`), so that "which generation does this refer to" is
a question of names. `Reconnect` is two steps (`ReconnectRead`,
`ReconnectSend`) since it sends after the unlock. An abandoned dial is left in
`orphans`, to `CloseLate`. `lifecycle` is the mutex held by a `Stop` that waits.

A generation is used again only when nothing refers to it, so the number of
dials is unbounded; two constants do bound the model. `MaxOrphans`: `Start` is
not called with that many abandoned dials outstanding. `MaxAttempt`: the
failure counter is not counted beyond it; the code uses it for the length of a
delay only, and delays are "some time passes" here. What is still sent to the
channel of a closed connection has no receiver and is not kept (`Garbage`).

`ConnectionLifecycle` is what the package promises: one connection up at a
time, only during a run, each retired and released before the run ends.
`Reconnector` implements it under the mapping `Status`.

### SerialClient, SerialClientProofs

`serial/client.go` on top of `Reconnector` (it EXTENDS that module and
conjoins). The settings worker of `setupOnConfigReload` is a caller of
`Reconnect` with a step for each of its reads; `connInfo` is the snapshot
embedded in a connection; `adopted` the flag that decides whether closing it
is announced. The store is seen from outside: `ChangeParams` replaces the
snapshot, `Notify` signals. `MaxNotifiers` bounds the reloads between these
two steps. `Options.Enabled` is nil for this client, so `enabled` stays true.
Whether ports are enumerated or opened is the success or failure of a dial.

### DiscordLink, DiscordLinkProofs

The authorisation of the Discord client (`auth.go`, and of `client.go` the
callbacks, the settings worker and `Start`) on top of `Reconnector`. `enabled`
is the answer of `Options.Enabled`: settings switched on and a token in memory.
`request` is the place of each Link, Unlink and dial; a dial reads the settings,
loads the token, checks it and perhaps exchanges it, stores the new one and
authenticates. A token is replaced in memory and on disk in two steps, under
`authLock`. `authGeneration` is compared for equality only, so a set
(`upToDate`) of the requests whose copy is still equal stands for it; the token
pointer changes exactly when it does, so the same set answers
`ensureFreshToken`'s comparison of pointers. `Exit` is an end or a crash of the
program anywhere, after which `LoadToken` starts it again. `wanted` and
`overtaken` are history variables, kept without regard to the generations: the
account of the last Link that nothing overtook, none once a token file was
removed; and the Links that began before that changed. So `LinkInv` has two
limits. An Unlink counts from the removal of its file: a program that ends
between auth.go:90 (memory) and auth.go:91 (disk), or whose removal fails, comes
up with the unlinked account at the next start, and the model reaches such
states. And a token that was replaced counts from the replacement of the file. One
change of the settings is signalled before the next (`unsignalled`).

### SliderEvents (proofs in SerialClientProofs)

The path of a reading: `watch` and `handleLine` (`protocol.go`), the noise
filter (`noise.go`), the reset by the settings worker. `ReadLine` takes the
settings, `HandleLine` is the section under `stateLock`, `DeliverMove` one send to
the mixer. The events of a line are in the set `queue` until then; the slider
with the smallest number goes first, as in the loop of `handleLine`. Readings
are a few of 0..1023 around the thresholds (`Raws`). There is one reader at a
time, which the code does not enforce: the manager does not wait for `Watch`
before it dials again. Two readers overlap only when the mixer takes longer over
one event than the delay before a redial. Malformed lines change nothing and are
left out.

`ReloadReemits` says that a reload makes every slider heard again, not with
which settings. A line that took its settings (protocol.go:64) before the
reload and takes the state lock after the reset (client.go:318) uses the reset
up: it is sent with the old `invert_sliders`, and a slider keeps it until it is
moved. The model reaches such states.

### ConfigStore, ConfigStoreProofs

The settings file (`disk`), the snapshot (`current`), the operation that holds
the mutex (`op`, `step`, `want`), the watcher, its pending event and timer, and
the consumers. A save is: write a temporary file, rename it over the file,
stat, read, replace the snapshot, notify, all under the mutex; a reload
notifies after the unlock and only if the settings changed. The editor (an
external part) writes any settings, odd ones and unparsable ones, removes and
restores the file at any moment; `Exit` is an end or a crash anywhere. Two
history variables: `missed` (a change nobody was watching for, or a reload
that could not open the file) and `promise` (what the program itself wrote).
Settings are a profile and a rest; a rest the normalisation repairs is `OddRest`.

### Mixer, MixerProofs

`mixer.go` and `targets.go`: the session map, the unmapped list, the lock, the
slider worker, the reload worker, and session events as atomic handlers that
wait for the lock, since their bodies run under it from beginning to end. The
slider worker and the reload worker read settings and hold the lock over
several steps, and are split there. The store's and the serial client's part is
what makes the reload race: each worker is woken by a channel of its own, and
the serial client sends every slider again (`owed`). Targets of a move are
taken in any order. OBS and Discord targets leave the mixer at once and are not
modelled, nor are the targets that follow the foreground window.

### PulseFinder, PulseFinderProofs

The Linux finder (`session_finder_linux.go`, `session_linux.go`) with the sound
server around it. `wire` is what a connection has yet to read, events and
replies in the order the server sent them; `reading` the event a read loop has
in its callback. `workChan` drops what does not fit. A job is a list of
requests (`asks`), each of them a step that looks the connection up, one in
which the server answers, one in which the read loop brings the reply, and the
steps under and outside of the mutex that follow from it: the lock protects
the maps (`held`) only, and reports to the handler (`mixed`) come after it.
`infos` is what the answer in hand names, taken smallest first. Two sessions
made of one stream and connection differ in their `copy`, a number.
`OnDown` and `ReleaseClears` take all of `held` at once and report one by one
(`clearing`). The connection manager is reduced to the order in which it calls
the finder; `Reconnector` has the whole of it.

Sink inputs, sinks and sources differ in names only and are streams of a kind;
the list of kinds is the order in which they are enumerated. Two history
variables bound what is promised: `missed` (a job was dropped) and `overtaken`
(the maps were cleared during a job, or while the handler knew other sessions
than the maps did, or an event of a closed connection was queued). Both are
limits of the code, which repairs neither. The second case of `overtaken`
needs three connections: a job reports its session late, after the maps were
cleared for the loss of its connection, and the next clearing does not know of
it. The run has two; the proof found it.

The server may have a default sink or source or none (`NoDevice`): the last one
may go at any time, and one may come. Without one the request of `refreshMaster`
fails (session_finder_linux.go:326-329, 351-354), the job ends, and the master
of the device that is gone stays in the maps and with the handler until there
is a default again. That is a limit of the code, which `FollowsServer` names:
for the masters that are `Gone` it says no more than that what is held belongs
to the present connection and is what the handler has. For every default device
there is, its master is held and no other.

`overtaken` also limits the contract of session_finder.go:8-12, that a session
is released only after the handler for its removed event returned
(`KnownIsOwned`: the handler has no session that was released). The worker puts
a session into the maps under the lock and reports it after the unlock. If
`onDown` clears the maps in between, the session is reported removed and
released first, then reported added: the mixer keeps a released session, since
no removal follows.

### WindowsFinder, WindowsFinderProofs

The Windows finder. `pc` is the one worker that owns COM; callbacks run
between any two of its steps and only queue jobs. `native` are the sessions of
the system; a session's id is its device and process, so several may share
one. `listening` and `registered` are the notifications of devices and of
sessions; `refs` counts references to a control that were taken (by
`onSessionCreated`, by `GetSession`) less those given back. `window` are the
flows whose 100 ms of debounce run.

Its limits are history variables too: `missed` (a job was dropped, and with it
a reference or a removal), `swallowed` (the default of a flow changed twice
within its debounce time: the second change is not looked at), `shadowed` (a
session was not tracked since its id was taken), `silent` (a session ended
before its events were registered and is not taken out until its device goes),
`mistaken` (the second notice of an end met a new session of the same id),
and `failed`. A call to the audio system may fail on every way that the code has
for it: a device is not activated or has no master session of its own, a
notification is not registered, some of the sessions of a device are not found,
a session does not answer, a default device has no master session. All of these
are logged and not tried again, so what they lose stays lost, and the promises
about what the finder follows exclude them. `WindowsInv` does not: references
balance, and what the handler has is alive, whatever fails. Calls that take
something back (unregistering, releasing) are assumed to succeed.

No job that is still queued when the finder is released keeps the clean-up from
being complete, unless one was dropped or a call failed. A failed call can: a
device goes and comes back while a session of its new time is announced, its
activation fails, the session is tracked all the same, and `cleanup`, which goes
through the managers, misses it.

`KnownIsAlive` says that the sessions the handler was given and not told to
forget are just those that are tracked, and that each has its control
referenced, without an exception. A removal is one step here, since callbacks
only queue jobs and no other goroutine takes part: in the code it gives the
reference to the control back (session_finder_windows.go:548), then reports the
removal (553), then releases the session's own interfaces (554). That the
handler is called before the last of these, as session_finder.go:8-12 asks, is
not checked.

`Once` bounds the model for TLC to one call that fails in a behaviour.
`Apart` bounds the model for TLC: with it, sessions and default devices change
in different behaviours, since they have the queue in common only. The theorems
depend on neither.

### DiscordVoice, DiscordVoiceProofs

`volume.go`, `roster.go` and what their callers see of `rpc.go`. Three
goroutines: the mixer's (`SetVolume`, `SetVolumeQueues`: the connection is
looked up before the lock), the flush loop (`flushPc`) and the event loop
(`loopPc`), with a step for every look at the connection, lock and request. A
request is answered, refused, lost with the connection, or times out and is
carried out then, later (`late`) or never. `upToDate` stands for the comparison
of `volumeGeneration` with flush's copy. Connections are numbered; `phase` is
what the reconnector has to do. Discord has a level per person, may forget it
while the person is away, and starts anew with a new connection or not.

`doubt` is the history variable: people whose level changed unknown to the
client, by a command carried out after its timeout or by being away unseen,
since the values were last invalidated. Someone was away unseen if the client
has them in its roster, or in an answer it holds, and no event in its queue says
that they left (`Believed`). People are renamed never, names are never digits
only, and of the two joining events `VOICE_STATE_UPDATE` is left out. The signal
to the settings window and the end of the loops are not modelled.

`SentIsSet` is the comment at `lastSent`, "what actually reached Discord":
outside of the time between a join and the invalidation that it causes, every
value recorded, or about to be recorded by a flush that nothing invalidated, is
Discord's level, for whoever the client can know of (`Followed`). `TakePending`
relies on it when it leaves a value out.

A limit of the code the model reaches: `resubscribeVoiceStates` unsubscribes the
old channel before it subscribes the new one, and when that fails
`subscribedChannel` still names the old one. A user who then returns to the old
channel is not subscribed to anything, and no reconcile sees a difference: until
they change the channel again, joins are found by the periodic reconcile only.
`RosterSettles` holds all the same, by that reconcile.

## The runs

| run | instance | what it shows |
|---|---|---|
| reconnector_safety | 2 generations, 2 callers, 1 orphan | all safety promises, the refinement, and liveness: Stop returns, an abandoned dial is closed, a lost connection is dropped and replaced. Two generations are the one torn down or closed late and the next; the theorems cover any number |
| serial | 2 generations, 2 settings, 1 reload under way | no change of settings is forgotten and a stale connection is renewed; events are true and alternate and end with Stop; Stop returns |
| config_safety | 2 profiles, 1 rest and an odd one, 1 consumer | signals, reloads, crashes, the editor; an edit takes effect and the consumer converges |
| slider_safety | 2 sliders, readings 0, 12, 24, 1023, levels default and high, inverted or not | the filter, the ends, resets; 12 lies between the thresholds of the ends and of the middle, and 0, 12, 24 are two steps that level high ignores one at a time but whose sum it must report |
| mixer_safety | 2 sessions of one key and 1 of another, 1 slider, 3 mappings | the unmapped list, removals, moves |
| pulse_finder | 1 stream index, 1 master with 2 devices or none, 2 connections, a queue of 1 | what the handler knows is what the server plays and its default device, save for an old master while there is none; one removal, and no session of the handler's is released; Release; the read loop never waits for the worker. An index is used again by a restarted server. A job under way, one in the queue, one the read loop holds and one on the wire already overlap in four places, and the queue overflows; two in the queue are left to the proofs, which hold for any length |
| windows_finder | 2 sessions of one id, 1 device that comes and goes and 1 that stays, 2 flows, a queue of 2, 1 call that fails | references and what the handler has, whatever fails; tracking, masters and clean-up as long as nothing does. Sessions and default devices change in different behaviours: they have the queue in common only |
| discord_link | 1 generation, 1 Link, 1 Unlink, 2 accounts, 2 settings that differ in the switch and the credentials | the account linked is the one wanted, whatever overlaps, and wherever the program ends once a Link has replaced the file or an Unlink removed it; no change of settings is forgotten. One generation suffices: the questions are about requests that overlap a dial, and overlapping generations are the business of the reconnector's run |
| discord_voice | 1 room and none, 1 other person, 2 positions, 2 connections, an event queue of 1, 2 changes from outside | no roster outlives its connection; what is recorded as sent is Discord's level; roster and levels settle. Two changes are a fault and what happens during its repair. The user's own level is a person who never leaves, and is left to the proof. With one room, events of another channel are those of the room the user has just left; two rooms are covered by the proof of `VoiceInv` only |
| config_switch, mixer_reload, discord_unlink | as above | the three disagreements below |

Several invariants, or several liveness properties, about one thing are checked
under one name, as conjunctions of named parts: `SerialInv` (types,
`StaleIsNoticed`), `EventsInv` (`EventsAlternate`, `EventsAreTrue`), `Progress`
(`StaleIsRenewed`, `ClientStops`), `Recovers` (`LostConnectionIsDropped`,
`KeepsDialing`), `ConfigInv` (types, `SavedSurvives`), `ChangesArrive`
(`HandEditTakesEffect`, `ConsumersConverge`), `PulseInv` (types, `OneRemover`, `KnownIsOwned`),
`WindowsInv` (types, `RefsAccounted`, `KnownIsAlive`), `VoiceInv` (types,
`RosterIsCleared`, `SentIsSet`), and `SliderInv`, `MixerInv`, `LinkInv` (types
and the invariant named in the definition).

Deadlock is checked, save in pulse_finder and windows_finder, whose systems end
with the finder, and discord_voice, which may use up its changes. Symmetry is
used in runs without liveness only, over values that are compared with each
other and nothing else.

Every property has a *slip*: a plausible wrong form of one action, kept beside
the right one and named `...Slip`, under which the property is violated. Slips
are not part of any specification.

Three runs find a disagreement between the code and what the repository says.

* `config_switch`: a profile switch rewrites the whole file from memory and
  takes back a hand edit of the last quarter of a second
  (`SwitchKeepsHandEdits`), where `settings_service.go` calls it a targeted
  write that cannot.
* `mixer_reload`: sliders sent again after a reload may be handled before the
  unmapped list was rebuilt (`BoundFollowsItsSlider`); a session that is now
  bound to one slider keeps the volume of the `deej.unmapped` slider.
* `discord_unlink`: an Unlink between the manager's second look at `Enabled`
  and the publication finds no error channel to ask, and `onUp` compares the
  settings only (`UnlinkDropsConnection`); the connection serves on without a
  token.

## Fairness

A goroutine that can go on does (weak fairness per goroutine). A `select`
whose stop case is ready again and again takes it eventually (strong fairness
of the stop cases), since Go picks among ready cases at random; a mutex hands
itself over to a waiter that starves (strong fairness of `BeginReload`); a
debounce timer that is armed again and again fires unless events never cease
(the run leaves the editor unfair, and `HandEditTakesEffect` speaks of an edit
that is not overtaken). In `PulseFinder` a request is answered, refused
or times out, and the read loops run; the keepalive, the other steps of the
worker, the manager and Release need no fairness there. In `DiscordVoice` each loop runs on and a
request ends, at the latest by its timeout; the event loop takes every ready
case in its turn (strong fairness of `Taking` and of `Tick`). `RosterSettles`
and `SlidersReach` ask for a connection that stays and for changes from outside
to cease, which the bound on them does. Nothing is assumed of a dial, which may
block for ever (a connection comes in `DiscordVoice` since its question starts
there), of the editor, of calls from outside, or of the end of the program.

## What is proved

Every theorem has the form "the specification implies a property of all its
behaviours" and is proved for every value of the constants that satisfies the
assumption named in the module that declares them. The assumptions say what the
constants are: sentinels are not members of the sets they stand beside, bounds
and capacities are numbers, functions on constants have the domains they are
applied to. None limits how many connections, requests, sessions, devices,
settings or sliders there are, and a named bound may have any value.

| module | theorem | property | from |
|---|---|---|---|
| ReconnectorProofs | TypeCorrect, AtMostOneLive, CloseAtMostOnce, CurrentIsLive, StopIsComplete, FailuresAreOwn, BackoffRestarts | the safety properties of the run | `IInv` |
| | Refinement | `ImplementsLifecycle` | `IInv` |
| SerialClientProofs | ClientIsAReconnector, ClientImplementsLifecycle | `Spec` of the reconnector, `ImplementsLifecycle` | - |
| | NoStaleConnectionIsMissed, ConsumersHearTheTruth, StoppedClientIsQuiet | `SerialInv`, `EventsInv`, `QuietAfterStop` | `ClientIInv` |
| | FilterComparesWithMixer, EndsReached, VolumeIsClose, ReloadIsHeard | `SliderInv`, `EndsAreReached`, `HeardIsClose`, `ReloadReemits` | `SliderIInv` |
| DiscordLinkProofs | OldRequestsUndoNothing, NoSettingIsMissed | `LinkInv`, `SettingsAreNoticed` | `LinkIInv` |
| | PromisesSurviveTokens | the reconnector's promises, of `LinkSpec` | `IInv` |
| ConfigStoreProofs | SavedSettingsSurvive, SignalsLoseNothing, ChangesAreLoaded, MissingFileIsNotReplaced | `ConfigInv`, `ConsumersCatchUp`, `FileIsLoaded`, `RunningConfigIsKept` | `IInv` |
| MixerProofs | UnmappedListIsExact, ReleasedIsOutOfReach, NoSessionIsMissed | `MixerInv`, `RemovedIsUnreachable`, `MoveReachesAll` | `MixerIInv` |
| PulseFinderProofs | SessionsLeaveOnce, HandlerFollowsServer, ReleaseIsFinal | `PulseInv`, `FollowsServer`, `ReleaseLeavesNothing` | `PulseIInv` |
| WindowsFinderProofs | ReferencesAreAccounted, FinderFollowsSystem, MasterFollows, CleanupIsComplete | `WindowsInv`, `FollowsSystem`, `MasterFollowsDefault`, `CleanupLeavesNothing` | `WindowsIInv` |
| DiscordVoiceProofs | RecordIsWhatReachedDiscord | `VoiceInv` | `VoiceIInv` |
| | NothingIsLostByLeavingOut | a value that a flush leaves out is Discord's level, an action property | `VoiceIInv` |

No property is inductive by itself: each speaks of what an outside observer
sees at rest, and the inductive invariant of its module says what is true in
the middle of an operation. `Invariance` (`ClientInvariance`,
`SliderInvariance`, `LinkInvariance`, `VoiceInvariance`) shows that the initial
states have it and that each action keeps it, one lemma
per part of it or per group of actions.

* **Reconnector.** `IInv` adds what each place of the manager owns: which states
  of `gen` go with which value of `mgr`, that a connection that is open belongs
  to the manager or to an orphan's goroutine, that orphans never are the
  manager's generation, that a Watch runs only for a generation that was
  published and a running Watch or a caller's snapshot keeps its generation from
  being used again, and that a stop channel that is closed belongs to a Stop
  that waits. The refinement is a case per action.
* **SerialClient.** Each step of the client is a step of its reconnector or none
  of it, so `IInv` is not proved again. `ClientIInv` adds when client,
  reconnector and worker run (`ClientInv`), whose error channel the worker holds
  (`SenderInv`), and that the consumers know of the manager's connection or of
  none (`AnnouncedInv`).
* **DiscordLink.** `Exit` is no step of the reconnector, but leaves it as it
  began, so `IInv` is kept all the same. `LinkIInv` adds what a request has read
  at each place (`PlacesInv`), who holds `authLock` in which half of a change
  (`HolderInv`), and the heart of the argument (`GenerationInv`): a request that
  may still store is of the account that is wanted.
* **ConfigStore.** `IInv` adds what the holder of the mutex may be about to do
  (`LockInv`), and states the two promises for the steps of a save and for the
  time before and after the watcher too (`PromiseKept`, `NoChangeLost`).
* **SliderEvents.** `ReaderInv`, `ValuesInv`, `HeardInv`, `OwedInv`: the saved
  values are those of the last line within the noise, and the mixer has each or
  its event is still to come. `UnmovedIsNear` says how far a reading is that the
  filter takes for noise: less than 5 steps from an end, where rounding gives
  that end (`NearAnEndIsTheEnd`).
* **Mixer.** `MapInv` (a session is in the list of its key, once, while it is
  there), `UnmappedInv` (in the middle of a rebuild the list is right about the
  sessions looked at, unless the settings changed again) and `MoveInv` (what a
  move has yet to reach is among its targets, its keys or the volumes it has yet
  to set). `RemoveFirst` is shown to remove one occurrence and nothing else.
* **PulseFinder.** `FollowsServer` speaks of a finder at rest; `PulseIInv` of
  everything that may be on its way. What plays is in the maps, or there is a
  job, an event on the wire, a request of the present job or an item of the
  answer in hand that will bring it (`StreamsInv`, and `MastersInv` for the
  defaults); what has ended and is in the maps has its removal coming
  (`HeldInv`); an answer that names something ended is followed by its removal
  (`InfosInv`); removals and requests of an old connection have the enumeration
  of the new one behind them (`OldRemovals`, `OldRequests`). `MixedInv` says
  that handler and maps differ in what the worker and a clearing have in hand.
  The order of events and answers on one connection is what makes it inductive.
* **WindowsFinder.** `DevicesInv`: the jobs about one device are alternately
  that it went and that it appeared, the last of them is right, and without any
  its manager is. With `CreatedInv` (the job of a session that lives comes after
  those of its device) this gives that what is tracked has a manager
  (`OwnerInv`), that what has ended is about to go (`EndedInv`), that what lives
  is tracked or about to be found (`FoundInv`), and the same for the masters
  (`MasterInv`). All of these hold as long as no job was dropped and no call to
  the system failed (`Hears`); the references are accounted for whatever fails.
  `RefsAccounted` counts the references a job, the worker and the
  tracked session hold; it needs the number of jobs about a session in a queue
  that grows at one end and shrinks at the other (`Appended`, `Popped`).
  `CleanupLeavesNothing` is a part of the invariant by itself.
* **DiscordVoice.** `PlacesInv` (what a loop holds at each place), `ConnInv` and
  `LossInv` (a loss that was dealt with left nothing) carry `RosterIsCleared`.
  `SentIsSet` speaks of the roster, so a reconcile could break it by bringing in
  someone whose record is old. It does not, since `Compare` invalidates before
  `Store` whenever a newcomer is in the answer: `SentInv` is `SentIsSet` for
  those of the roster and those of an answer about to be stored
  (`Known == Followed \cup Entering`). The rest is who may still record: a record
  that was invalidated is empty until the next flush begins (`StaleInv`), and a
  flush that nothing invalidated sent on the present connection (`RecordInv`), so
  that a connection which starts anew cannot make its record false.

Every inductive invariant was checked by TLC on the instance of its run before
it was proved. The proofs corrected the models in four places: the second case
of `overtaken`; an exception in `CleanupLeavesNothing` for device jobs left in
the queue, a case that never happens; `doubt`, which did not count someone whose
level is forgotten while they and the user are in different channels and whom
the client believes present; and an answer that a reconcile discards, which the
model kept in `read`.

Only model-checked:

* Liveness under fairness, which is out of the prover's reach: `StopReturns`,
  `AbandonedDialIsClosed`, `Recovers`, `Progress`, `ChangesArrive`,
  `WorkerIsAnswered`, `RosterSettles`, `SlidersReach`.
* The three disagreements, which are counterexamples.

## What is not modelled, and what is next

* The OBS client: the callbacks and the settings worker of the serial client on
  the same manager, less the events; its worker reads the connection before the
  settings, and its volume calls are one request to a library.
* Settings normalisation and mapping, beyond what `ConfigStore` says of it:
  rules on single strings and numbers, without state.
* Start and shutdown of the application, the desktop's event workers and their
  hop to the main thread: the rules of the main thread are the GUI library's.
  The hazard is listed at tray.go:300.
* Two readers of two serial connections at once; see SliderEvents.
* Presentation (window, tray, translations, notifications, icons), thin
  wrappers around the operating system, the firmware, the bytes of YAML, serial
  and RPC.

Next, in order: the composition of `PulseFinder` and `WindowsFinder` with
`Mixer`, whose promises to each other are stated on both sides
(`RemovedIsUnreachable`, `FollowsServer`); one abstract specification that both
finders implement, whose invariant they share already (`KnownIsOwned`,
`KnownIsAlive`); the OBS client; the shutdown.
