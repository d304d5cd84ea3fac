------------------------------ MODULE ConfigStore ------------------------------
(***************************************************************************)
(* The configuration store of internal/config: the settings file, the      *)
(* snapshot in force, the lock that serialises every load and save, the    *)
(* directory watcher with its debounce timer, and the coalescing reload    *)
(* signals of the consumers.  A text editor writes, breaks, removes and    *)
(* restores the file at any moment, and the program may end at any moment  *)
(* and be started again.                                                   *)
(*                                                                         *)
(* Settings are abstracted to the active profile and the rest.  OddRest is *)
(* a rest with values that normalize replaces by defaults.                 *)
(***************************************************************************)
EXTENDS Naturals, FiniteSets

CONSTANTS
  Profiles,        \* names of profiles; every settings value has them all
  Rests,           \* everything else in the settings, in canonical form
  OddRest,         \* a rest of the file that normalize has to repair
  DefaultProfile,
  DefaultRest,
  Consumers,       \* subscribers of the reload signal
  None,            \* no settings
  Missing,         \* the file does not exist
  Broken           \* the file is there and does not parse

Settings == [profile : Profiles, rest : Rests]
File == [profile : Profiles, rest : Rests \cup {OddRest}]

ASSUME ConfigAssumption ==
  /\ DefaultProfile \in Profiles
  /\ DefaultRest \in Rests
  /\ OddRest \notin Rests
  /\ None \notin Settings
  /\ Missing \notin File
  /\ Broken \notin File
  /\ Missing # Broken

VARIABLES
  disk,      \* the settings file
  current,   \* Store.current
  op,        \* the operation that holds Store.lock, "none" when it is free
  step,      \* what that operation does next
  want,      \* the settings it writes
  watcher,   \* the watcher goroutine
  event,     \* fsnotify has an event of the file that was not received yet
  armed,     \* the debounce timer runs
  signal,    \* the one-place channel of each consumer holds a signal
  woken,     \* the consumer took a signal and has yet to read the snapshot
  seen,      \* the snapshot each consumer acts on
  missed,    \* history: the file changed, or a reload failed to read it, with
             \* no event left to tell
  promise    \* history: what the program has written to the file, until
             \* somebody else writes it or the save that wrote it fails

lockVars == <<op, step, want>>
watchVars == <<watcher, event, armed>>
consumerVars == <<signal, woken, seen>>
historyVars == <<missed, promise>>
vars == <<disk, current, lockVars, watchVars, consumerVars, historyVars>>

ConfigTypeOK ==
  /\ disk \in File \cup {Missing, Broken}
  /\ current \in Settings \cup {None}
  /\ op \in {"none", "load", "save", "switch", "reload"}
  /\ step \in {"idle", "temp", "rename", "stat", "read", "notify"}
  /\ want \in Settings \cup {None}
  /\ watcher \in {"off", "select", "locking", "reloading", "notifying", "stopped"}
  /\ event \in BOOLEAN
  /\ armed \in BOOLEAN
  /\ signal \in [Consumers -> BOOLEAN]
  /\ woken \in [Consumers -> BOOLEAN]
  /\ seen \in [Consumers -> Settings \cup {None}]
  /\ missed \in BOOLEAN
  /\ promise \in Settings \cup {None}

Watching == watcher \notin {"off", "stopped"}

\* The settings a readable file stands for.
Normal(f) == [f EXCEPT !.rest = IF @ = OddRest THEN DefaultRest ELSE @]

DefaultSettings == [profile |-> DefaultProfile, rest |-> DefaultRest]

Init ==
  /\ disk \in File \cup {Missing, Broken}
  /\ current = None
  /\ op = "none" /\ step = "idle" /\ want = None
  /\ watcher = "off" /\ event = FALSE /\ armed = FALSE
  /\ signal = [c \in Consumers |-> FALSE]
  /\ woken = [c \in Consumers |-> FALSE]
  /\ seen = [c \in Consumers |-> None]
  /\ missed = FALSE /\ promise = None

-----------------------------------------------------------------------------
(* Taking and leaving the lock.                                             *)

Acquire(operation, first, settings) ==
  /\ op = "none"
  /\ op' = operation
  /\ step' = first
  /\ want' = settings

Release == op' = "none" /\ step' = "idle" /\ want' = None

\* The operation fails and returns its error.  The first load's error ends the
\* start of the program; a reload's is logged and the watcher goes on.
GiveUp ==
  /\ Release
  /\ watcher' = IF op = "reload" THEN "select" ELSE watcher

-----------------------------------------------------------------------------
(* The operations.  The first load runs before anything else exists; the    *)
(* others run while the program is up, in any order.                        *)

Load ==
  /\ current = None
  /\ Acquire("load", "stat", None)
  /\ UNCHANGED <<disk, current, watchVars, consumerVars, historyVars>>

\* The settings are valid and canonical here: others are rejected before the
\* lock is taken.
SaveUserSettings(settings) ==
  /\ current # None
  /\ Acquire("save", "temp", settings)
  /\ UNCHANGED <<disk, current, watchVars, consumerVars, historyVars>>

\* Nothing happens when the profile is the active one already.
SetActiveProfile(name) ==
  /\ current # None
  /\ current.profile # name
  /\ Acquire("switch", "temp", [current EXCEPT !.profile = name])
  /\ UNCHANGED <<disk, current, watchVars, consumerVars, historyVars>>

\* Slip: the settings file itself is opened and truncated.
WriteTempSlip ==
  /\ step = "temp" /\ step' = "rename"
  /\ disk' = Broken
  /\ UNCHANGED <<current, op, want, watchVars, consumerVars, historyVars>>

\* atomicfile.Write: a temporary file is written first ...
WriteTemp ==
  /\ step = "temp"
  /\ step' = "rename"
  /\ UNCHANGED <<disk, current, op, want, watchVars, consumerVars, historyVars>>

\* ... or cannot be, or cannot be renamed, and is removed ...
WriteFails ==
  /\ step \in {"temp", "rename"}
  /\ GiveUp
  /\ UNCHANGED <<disk, current, event, armed, consumerVars, historyVars>>

\* ... and then replaces the settings file in one step.  A first load goes on
\* to read the file, a save starts to load it.
Rename ==
  /\ step = "rename"
  /\ disk' = want
  /\ step' = IF op = "load" THEN "read" ELSE "stat"
  /\ event' = Watching
  /\ missed' = (missed \/ ~Watching)
  /\ promise' = want
  /\ UNCHANGED <<current, op, want, watcher, armed, consumerVars>>

StatFinds ==
  /\ step = "stat"
  /\ disk # Missing
  /\ step' = "read"
  /\ UNCHANGED <<disk, current, op, want, watchVars, consumerVars, historyVars>>

\* Slip: a missing file is always replaced by a default one.
StatMissesSlip ==
  /\ step = "stat" /\ disk = Missing
  /\ want' = DefaultSettings /\ step' = "temp" /\ UNCHANGED <<op, watcher>>
  /\ UNCHANGED <<disk, current, event, armed, consumerVars, historyVars>>

\* A missing file is created with the defaults when there are no settings yet,
\* and is an error otherwise.
StatMisses ==
  /\ step = "stat"
  /\ disk = Missing
  /\ \/ current = None /\ want' = DefaultSettings /\ step' = "temp" /\ UNCHANGED <<op, watcher>>
     \/ current # None /\ GiveUp
  /\ UNCHANGED <<disk, current, event, armed, consumerVars, historyVars>>

\* The file is gone again, does not parse, or cannot be read just now.
ReadFails ==
  /\ step = "read"
  /\ GiveUp
  /\ missed' = (missed \/ (op = "reload" /\ disk \in File))
  /\ promise' = IF op \in {"save", "switch"} THEN None ELSE promise
  /\ UNCHANGED <<disk, current, event, armed, consumerVars>>

\* The snapshot is replaced.  A save goes on to notify under the lock; a
\* reload releases the lock, and notifies only if the settings changed.
\* A first load is followed by the construction of the consumers.
ReadSucceeds ==
  /\ step = "read"
  /\ disk \in File
  /\ current' = Normal(disk)
  /\ missed' = FALSE
  /\ \/ /\ op \in {"save", "switch"}
        /\ step' = "notify"
        /\ UNCHANGED <<op, want, watcher, seen>>
     \/ /\ op = "reload"
        /\ Release
        /\ watcher' = IF current' = current THEN "select" ELSE "notifying"
        /\ UNCHANGED seen
     \/ /\ op = "load"
        /\ Release
        /\ seen' = [c \in Consumers |-> current']
        /\ UNCHANGED watcher
  /\ UNCHANGED <<disk, event, armed, signal, woken, promise>>

\* onConfigReloaded: one non-blocking send to every consumer.
SignalAll == signal' = [c \in Consumers |-> TRUE]

\* Slip: the reload that the file event sets off is to tell the consumers.
SaveNotifiesSlip ==
  /\ step = "notify"
  /\ Release
  /\ UNCHANGED <<disk, current, watchVars, consumerVars, historyVars>>

\* The save has succeeded.
SaveNotifies ==
  /\ step = "notify"
  /\ SignalAll
  /\ Release
  /\ UNCHANGED <<disk, current, watchVars, woken, seen, historyVars>>

-----------------------------------------------------------------------------
(* The watcher goroutine.                                                   *)

WatchConfigFileChanges ==
  /\ current # None
  /\ watcher = "off"
  /\ watcher' = "select"
  /\ UNCHANGED <<disk, current, lockVars, event, armed, consumerVars, historyVars>>

ReceiveEvent ==
  /\ watcher = "select"
  /\ event
  /\ event' = FALSE
  /\ armed' = TRUE
  /\ UNCHANGED <<disk, current, lockVars, watcher, consumerVars, historyVars>>

DebounceElapses ==
  /\ watcher = "select"
  /\ armed
  /\ armed' = FALSE
  /\ watcher' = "locking"
  /\ UNCHANGED <<disk, current, lockVars, event, consumerVars, historyVars>>

\* Slip: the reload is given up while a save holds the lock.
BeginReloadSlip ==
  /\ watcher = "locking"
  /\ IF op = "none" THEN Acquire("reload", "stat", None) /\ watcher' = "reloading"
                    ELSE watcher' = "select" /\ UNCHANGED lockVars
  /\ UNCHANGED <<disk, current, event, armed, consumerVars, historyVars>>

BeginReload ==
  /\ watcher = "locking"
  /\ Acquire("reload", "stat", None)
  /\ watcher' = "reloading"
  /\ UNCHANGED <<disk, current, event, armed, consumerVars, historyVars>>

\* A reload that changed the settings notifies after the unlock.
ReloadNotifies ==
  /\ watcher = "notifying"
  /\ SignalAll
  /\ watcher' = "select"
  /\ UNCHANGED <<disk, current, lockVars, event, armed, woken, seen, historyVars>>

\* The stop channel was closed and the select took that case.
StopWatchingConfigFile ==
  /\ watcher = "select"
  /\ watcher' = "stopped"
  /\ event' = FALSE
  /\ armed' = FALSE
  /\ missed' = (missed \/ event \/ armed)
  /\ UNCHANGED <<disk, current, lockVars, consumerVars, promise>>

-----------------------------------------------------------------------------
(* The consumers: wait for a signal, then read Values.                      *)

ConsumerWakes(c) ==
  /\ signal[c]
  /\ ~woken[c]
  /\ signal' = [signal EXCEPT ![c] = FALSE]
  /\ woken' = [woken EXCEPT ![c] = TRUE]
  /\ UNCHANGED <<disk, current, lockVars, watchVars, seen, historyVars>>

ConsumerReads(c) ==
  /\ woken[c]
  /\ woken' = [woken EXCEPT ![c] = FALSE]
  /\ seen' = [seen EXCEPT ![c] = current]
  /\ UNCHANGED <<disk, current, lockVars, watchVars, signal, historyVars>>

-----------------------------------------------------------------------------
(* The outside world.                                                       *)

\* An editor writes the file, or replaces it by renaming another over it.
EditorWrites(f) ==
  /\ disk' = f
  /\ event' = Watching
  /\ missed' = (missed \/ ~Watching)
  /\ promise' = None
  /\ UNCHANGED <<current, lockVars, watcher, armed, consumerVars>>

\* Removing the file is no event for the watcher, renaming it away is one.
EditorRemoves(renames) ==
  /\ disk # Missing
  /\ disk' = Missing
  /\ event' = (event \/ (renames /\ Watching))
  /\ promise' = None
  /\ UNCHANGED <<current, lockVars, watcher, armed, consumerVars, missed>>

\* The program ends, by itself or by a crash, in the middle of anything.  Only
\* the file is left, and a temporary file that nobody reads.
Exit ==
  /\ current # None \/ op # "none"
  /\ current' = None
  /\ Release
  /\ watcher' = "off" /\ event' = FALSE /\ armed' = FALSE
  /\ signal' = [c \in Consumers |-> FALSE]
  /\ woken' = [c \in Consumers |-> FALSE]
  /\ seen' = [c \in Consumers |-> None]
  /\ missed' = FALSE
  /\ UNCHANGED <<disk, promise>>

LockHolder ==
  \/ WriteTemp \/ WriteFails \/ Rename
  \/ StatFinds \/ StatMisses \/ ReadFails \/ ReadSucceeds \/ SaveNotifies

Watcher == ReceiveEvent \/ DebounceElapses \/ BeginReload \/ ReloadNotifies

Next ==
  \/ Load
  \/ \E settings \in Settings : SaveUserSettings(settings)
  \/ \E name \in Profiles : SetActiveProfile(name)
  \/ LockHolder
  \/ WatchConfigFileChanges \/ Watcher \/ StopWatchingConfigFile
  \/ \E c \in Consumers : ConsumerWakes(c) \/ ConsumerReads(c)
  \/ \E f \in File \cup {Broken} : EditorWrites(f)
  \/ \E renames \in BOOLEAN : EditorRemoves(renames)
  \/ Exit

Spec == Init /\ [][Next]_vars

\* Every goroutine that can go on does so.  Go's mutex hands itself over to a
\* waiter that starves, and a select takes a case that is ready again and
\* again.  Nothing is assumed of the editor, of saves or of the end of the
\* program.
Fairness ==
  /\ WF_vars(LockHolder)
  /\ SF_vars(BeginReload)
  /\ SF_vars(DebounceElapses)
  /\ WF_vars(Watcher)
  /\ \A c \in Consumers : WF_vars(ConsumerWakes(c)) /\ WF_vars(ConsumerReads(c))

FairSpec == Spec /\ Fairness

-----------------------------------------------------------------------------
\* The contract of the coalescing signals: a consumer that acts on a snapshot
\* that is not in force has a signal waiting, or has yet to read, or is about
\* to be notified, however saves, reloads and reads overlap.
ConsumersCatchUp ==
  \A c \in Consumers :
    seen[c] # current =>
      signal[c] \/ woken[c] \/ step = "notify" \/ watcher = "notifying"

\* While the watcher runs, a readable file that is not the one in force has an
\* event, a running timer or a reload that has yet to read it.  Only a reload
\* that could not open the file gives up for good.
FileIsLoaded ==
  Watching /\ disk \in File /\ Normal(disk) # current /\ ~missed =>
    \/ event \/ armed \/ watcher = "locking"
    \/ op = "reload" /\ step \in {"stat", "read"}

\* What a save or a profile switch wrote stays in the file, whole, and is in
\* force when the call returns and again after any crash and restart, until
\* somebody else writes the file ("persists the choice, so it survives a
\* restart").
SavedSurvives ==
  promise # None =>
    /\ disk = promise
    /\ current # None /\ op \notin {"save", "switch"} => current = promise

ConfigInv == ConfigTypeOK /\ SavedSurvives

\* "never reset a running configuration when an editor temporarily removes its
\* file": a running program puts a file in the place of a missing one for a
\* save or a switch only, never because a reload came in between.
RunningConfigIsKept ==
  [][LockHolder /\ disk = Missing /\ current # None /\ disk' # Missing =>
       op \in {"save", "switch"}]_vars

\* A hand edit takes effect: unless it is overtaken by another write, missed,
\* or the program stops watching.
HandEditTakesEffect ==
  \A f \in File :
    disk = f /\ Watching ~>
      current = Normal(f) \/ disk # f \/ missed \/ ~Watching

\* Every consumer comes to act on the settings in force.
ConsumersConverge ==
  \A c \in Consumers : \A s \in Settings :
    current = s ~> current # s \/ seen[c] = s

\* A change of the file reaches the settings in force, and these every
\* consumer.
ChangesArrive == HandEditTakesEffect /\ ConsumersConverge

\* What the settings window's service says of a profile switch: "a targeted
\* write, so a switch can't clobber a hand edit".  A switch that replaces a
\* readable file changes the profile in it and nothing else.
SwitchKeepsHandEdits ==
  [][op = "switch" /\ Rename /\ disk \in File =>
       disk' = [Normal(disk) EXCEPT !.profile = want.profile]]_vars

=============================================================================
