----------------------------- MODULE WindowsFinder -----------------------------
(***************************************************************************)
(* The Windows session finder of internal/audio.  One worker owns all COM  *)
(* objects; the callbacks of the audio system run on threads of the        *)
(* system's and only queue jobs for it, on a channel that drops what does  *)
(* not fit.  An audio session is known by an id made of its device, its    *)
(* name and its process; several sessions may share one.                   *)
(***************************************************************************)
EXTENDS Naturals, Sequences, FiniteSets, SequencesExt

CONSTANTS
  Devices, Flows,
  Removable,  \* bound: the devices that come and go
  FlowOf,     \* render or capture, for each device
  Output,     \* the flow whose devices have sessions
  Natives,    \* audio sessions of the system, each used once
  DeviceOf, ProcessOf,
  NoDevice, Nothing,
  MaxWork,    \* deviceWorkChanSize
  Apart,      \* bound: sessions and defaults change in different behaviours
  Once        \* bound: one call fails

ASSUME WindowsAssumption ==
  /\ Devices \cap Flows = {} /\ Natives \cap (Devices \cup Flows) = {}
  /\ FlowOf \in [Devices -> Flows] /\ Output \in Flows
  /\ DeviceOf \in [Natives -> {d \in Devices : FlowOf[d] = Output}]
  /\ Removable \subseteq Devices /\ NoDevice \notin Devices /\ Nothing \notin Natives
  /\ MaxWork \in Nat \ {0} /\ {Apart, Once} \subseteq BOOLEAN

VARIABLES
  active,     \* the devices in use
  native,     \* each session of the system
  default,    \* the default device of each flow
  window,     \* flows whose debounce time runs
  workChan,
  pc,         \* where the worker is
  cancelled,  \* Release was called
  ready,      \* the first enumeration of devices is over
  devices,    \* devices the worker has yet to create managers for
  device,     \* the device it creates a manager for
  controls,   \* session controls in its hands
  adding,     \* the session it is about to track
  managers, listening, registered,
  tracked,    \* trackedSessions
  refs,       \* references taken and not given back
  master,     \* the device of each default master session
  known,      \* what the handler was given and not told to forget
  missed,     \* history: a job was dropped
  failed,     \* history: a call failed, other than the activation of a device not
              \* in use or a question to a session that has ended
  swallowed,  \* history: flows whose last change was debounced
  shadowed,   \* history: sessions whose id was taken
  silent,     \* history: sessions that ended before they were listened to
  mistaken    \* history: a removal met another session of the same id

systemVars == <<active, native, default>>
workerVars == <<ready, devices, device, controls, adding>>
mapVars == <<managers, listening, registered, tracked, master, known>>
historyVars == <<shadowed, silent, mistaken>>
vars == <<systemVars, window, workChan, pc, cancelled, workerVars, mapVars, refs, missed,
          failed, swallowed, historyVars>>

Id(s) == <<DeviceOf[s], ProcessOf[s]>>
Job(op, what) == [op |-> op, what |-> what]
Jobs == [op : {"appeared", "gone"}, what : Devices] \cup [op : {"add", "remove"}, what : Natives]
          \cup [op : {"default"}, what : Flows]

WinTypeOK ==
  /\ active \subseteq Devices
  /\ native \in [Natives -> {"absent", "live", "disconnected", "expired"}]
  /\ default \in [Flows -> Devices \cup {NoDevice}] /\ master \in [Flows -> Devices \cup {NoDevice}]
  /\ window \subseteq Flows /\ swallowed \subseteq Flows
  /\ workChan \in Seq(Jobs) /\ Len(workChan) <= MaxWork
  /\ pc \in {"new", "devices", "listen", "snapshot", "sessions", "insert", "masters", "idle",
             "ended"}
  /\ {cancelled, ready, missed, failed, mistaken} \subseteq BOOLEAN
  /\ devices \subseteq Devices /\ device \in Devices \cup {NoDevice}
  /\ controls \subseteq Natives /\ adding \in Natives \cup {Nothing}
  /\ managers \subseteq Devices /\ listening \subseteq Devices
  /\ registered \subseteq tracked /\ tracked \subseteq Natives
  /\ refs \in [Natives -> Nat]
  /\ known \subseteq Natives \cup Devices \cup Flows
  /\ shadowed \cup silent \subseteq Natives

Init ==
  /\ active \in {Devices, Devices \ Removable}
  /\ native = [s \in Natives |-> "absent"]
  /\ default = [f \in Flows |-> NoDevice]
  /\ window = {} /\ workChan = <<>>
  /\ pc = "new" /\ cancelled = FALSE /\ ready = FALSE
  /\ devices = {} /\ device = NoDevice /\ controls = {} /\ adding = Nothing
  /\ managers = {} /\ listening = {} /\ registered = {} /\ tracked = {}
  /\ refs = [s \in Natives |-> 0]
  /\ master = [f \in Flows |-> NoDevice] /\ known = {}
  /\ missed = FALSE /\ failed = FALSE /\ mistaken = FALSE
  /\ swallowed = {} /\ shadowed = {} /\ silent = {}

-----------------------------------------------------------------------------
(* Callbacks.                                                               *)

\* A job that does not fit is dropped.
DispatchWork(job) ==
  IF Len(workChan) < MaxWork
  THEN workChan' = Append(workChan, job) /\ UNCHANGED missed
  ELSE missed' = TRUE /\ UNCHANGED workChan

\* Endpoint notifications are registered from the first step of the worker
\* to its last.
Hearing == pc \notin {"new", "ended"}

Heard(job) == IF Hearing THEN DispatchWork(job) ELSE UNCHANGED <<workChan, missed>>

CallbackFrame == UNCHANGED <<pc, cancelled, workerVars, mapVars, failed, shadowed, mistaken>>

\* Bound: the system is of interest until the worker ends.
DeviceAppears(d) ==
  /\ pc # "ended" /\ d \notin active
  /\ active' = active \cup {d}
  /\ Heard(Job("appeared", d))
  /\ UNCHANGED <<native, default, window, refs, swallowed, silent>>
  /\ CallbackFrame

\* Its sessions are disconnected, without a notice of their own until they
\* expire; the device is no default any more.
DeviceGoes(d) ==
  /\ pc # "ended" /\ d \in active
  /\ \A f \in Flows : default[f] # d
  /\ active' = active \ {d}
  /\ native' = [s \in Natives |-> IF DeviceOf[s] = d /\ native[s] = "live"
                                  THEN "disconnected" ELSE native[s]]
  /\ Heard(Job("gone", d))
  /\ UNCHANGED <<default, window, refs, swallowed, silent>>
  /\ CallbackFrame

\* onSessionCreated takes a reference for the job.
SessionStarts(s) ==
  /\ pc # "ended"
  /\ Apart => default = [f \in Flows |-> NoDevice] /\ window = {} /\ swallowed = {}
  /\ native[s] = "absent" /\ DeviceOf[s] \in active
  /\ native' = [native EXCEPT ![s] = "live"]
  /\ IF DeviceOf[s] \in listening
     THEN DispatchWork(Job("add", s)) /\ refs' = [refs EXCEPT ![s] = @ + 1]
     ELSE UNCHANGED <<workChan, missed, refs>>
  /\ UNCHANGED <<active, default, window, swallowed, silent>>
  /\ CallbackFrame

\* OnSessionDisconnected, then OnStateChanged(expired): either may be all.
Removal(s) ==
  IF s \in registered THEN DispatchWork(Job("remove", s)) ELSE UNCHANGED <<workChan, missed>>

SessionDisconnects(s) ==
  /\ pc # "ended" /\ native[s] = "live"
  /\ native' = [native EXCEPT ![s] = "disconnected"]
  /\ silent' = IF s \in registered THEN silent ELSE silent \cup {s}
  /\ Removal(s)
  /\ UNCHANGED <<active, default, window, refs, swallowed>>
  /\ CallbackFrame

SessionExpires(s) ==
  /\ pc # "ended" /\ native[s] \in {"live", "disconnected"}
  /\ native' = [native EXCEPT ![s] = "expired"]
  /\ silent' = IF s \in registered \/ native[s] # "live" THEN silent ELSE silent \cup {s}
  /\ Removal(s)
  /\ UNCHANGED <<active, default, window, refs, swallowed>>
  /\ CallbackFrame

\* Slip: one time for both flows.
DebouncedSlip(f) == window # {}

Debounced(f) == f \in window

\* The callback comes for a change, and again for each role of the device.
\* Apart: the queue is all that sessions and defaults have in common, and
\* devices come and go with both.
DefaultDeviceChanged(f, d) ==
  /\ pc # "ended"
  /\ Apart => \A s \in Natives : native[s] = "absent"
  /\ d \in {e \in active : FlowOf[e] = f} \cup {NoDevice}
  /\ default' = [default EXCEPT ![f] = d]
  /\ IF Hearing /\ ~Debounced(f)
     THEN window' = window \cup {f} /\ DispatchWork(Job("default", f))
     ELSE UNCHANGED <<window, workChan, missed>>
  /\ swallowed' = IF Hearing /\ f \in window /\ d # default[f]
                  THEN swallowed \cup {f} ELSE swallowed
  /\ UNCHANGED <<active, native, refs, silent>>
  /\ CallbackFrame

WindowElapses(f) ==
  /\ pc # "ended" /\ f \in window
  /\ window' = window \ {f}
  /\ UNCHANGED <<systemVars, workChan, missed, refs, swallowed, silent>>
  /\ CallbackFrame

-----------------------------------------------------------------------------
(* The worker.                                                              *)

SystemFrame == UNCHANGED <<systemVars, window, cancelled, missed, swallowed, silent>>

WorkerFrame == SystemFrame /\ UNCHANGED failed

\* A call that fails is logged, and not made again.
Outcome(success) ==
  IF success THEN UNCHANGED failed ELSE failed' = TRUE /\ (Once => ~failed)

Release ==
  /\ ~cancelled
  /\ cancelled' = TRUE
  /\ UNCHANGED <<systemVars, window, workChan, pc, workerVars, mapVars, refs, missed, failed,
                 swallowed, historyVars>>

\* COM is initialised, endpoint notifications are registered, the devices
\* are counted: or the worker gives up.
WorkerBegins ==
  /\ pc = "new"
  /\ \/ pc' = "devices" /\ devices' = active
     \/ pc' = "ended" /\ UNCHANGED devices
  /\ UNCHANGED <<workChan, ready, device, controls, adding, mapVars, refs, shadowed, mistaken>>
  /\ WorkerFrame

\* Slip: the sessions are counted before the notification is registered.
CreationStepsSlip == <<"snapshot", "listen", "sessions">>

\* The notification is registered first, then the sessions are counted.
CreationSteps == <<"listen", "snapshot", "sessions">>

After(step) == CreationSteps[1 + CHOOSE i \in 1..2 : CreationSteps[i] = step]

\* createDeviceManager, as far as the device's own master session.  A device
\* that is not active cannot be activated; one that has a manager keeps it.
\* The activation may fail, or the master session alone: neither is tried
\* again.
NoDeviceManager ==
  /\ pc' = IF ready THEN "idle" ELSE "devices"
  /\ UNCHANGED <<device, known, managers>>

CreateDeviceManager(d) ==
  IF d \in managers \/ d \notin active
  THEN NoDeviceManager /\ UNCHANGED failed
  ELSE \/ NoDeviceManager /\ Outcome(FALSE)
       \/ /\ known' \in {known, known \cup {d}} /\ Outcome(known' # known)
          /\ IF FlowOf[d] = Output
             THEN pc' = CreationSteps[1] /\ device' = d /\ UNCHANGED managers
             ELSE /\ pc' = IF ready THEN "idle" ELSE "devices"
                  /\ managers' = managers \cup {d}
                  /\ UNCHANGED device

InitializeDevice(d) ==
  /\ pc = "devices" /\ d \in devices
  /\ devices' = devices \ {d}
  /\ CreateDeviceManager(d)
  /\ UNCHANGED <<workChan, ready, controls, adding, listening, registered, tracked, master, refs,
                 shadowed, mistaken>>
  /\ SystemFrame

DevicesInitialized ==
  /\ pc = "devices" /\ devices = {}
  /\ pc' = "masters" /\ ready' = TRUE
  /\ UNCHANGED <<workChan, devices, device, controls, adding, mapVars, refs, shadowed, mistaken>>
  /\ WorkerFrame

Listen ==
  /\ pc = "listen"
  /\ listening' \in {listening, listening \cup {device}} /\ Outcome(listening' # listening)
  /\ pc' = After("listen")
  /\ UNCHANGED <<workChan, workerVars, managers, registered, tracked, master, known, refs,
                 shadowed, mistaken>>
  /\ SystemFrame

LiveOn(d) == {s \in Natives : DeviceOf[s] = d /\ native[s] = "live"}

\* GetSession gives a reference to each, if it does not fail.
EnumerateDeviceSessions ==
  /\ pc = "snapshot"
  /\ controls' \in SUBSET LiveOn(device) /\ Outcome(controls' = LiveOn(device))
  /\ refs' = [s \in Natives |-> IF s \in controls' THEN refs[s] + 1 ELSE refs[s]]
  /\ pc' = After("snapshot")
  /\ UNCHANGED <<workChan, ready, devices, device, adding, mapVars, shadowed, mistaken>>
  /\ SystemFrame

ManagerCreated ==
  /\ pc = "sessions" /\ controls = {} /\ device # NoDevice
  /\ managers' = managers \cup {device}
  /\ device' = NoDevice
  /\ pc' = IF ready THEN "idle" ELSE "devices"
  /\ UNCHANGED <<workChan, ready, devices, controls, adding, listening, registered, tracked,
                 master, known, refs, shadowed, mistaken>>
  /\ WorkerFrame

Done == IF device = NoDevice /\ controls' = {} THEN "idle" ELSE "sessions"

Drop(s) ==
  /\ controls' = controls \ {s}
  /\ refs' = [refs EXCEPT ![s] = @ - 1]
  /\ pc' = Done
  /\ UNCHANGED adding

\* Slip: a session that is known already keeps the reference.
DropDuplicateSlip(s) ==
  /\ controls' = controls \ {s}
  /\ pc' = Done
  /\ UNCHANGED <<adding, refs>>

\* addSessionFromControl gives its reference back on every way out.
DropDuplicate(s) == Drop(s)

\* A session that has ended, or whose process has, cannot be asked for its
\* process, and any other may fail to answer; the system makes the order of
\* the sessions.
AddSessionFails(s) ==
  /\ pc = "sessions" /\ s \in controls
  /\ Outcome(native[s] # "live")
  /\ Drop(s)
  /\ UNCHANGED <<workChan, ready, devices, device, mapVars, shadowed, mistaken>>
  /\ SystemFrame

AddSessionQueries(s) ==
  /\ pc = "sessions" /\ s \in controls
  /\ native[s] = "live"
  /\ IF \E t \in tracked : Id(t) = Id(s)
     THEN /\ DropDuplicate(s)
          /\ shadowed' = IF s \in tracked THEN shadowed ELSE shadowed \cup {s}
     ELSE /\ adding' = s /\ controls' = controls \ {s} /\ pc' = "insert"
          /\ UNCHANGED <<refs, shadowed>>
  /\ UNCHANGED <<workChan, ready, devices, device, mapVars, mistaken>>
  /\ WorkerFrame

\* Its events are registered, it is tracked and reported, the last two also
\* if the first fails.
AddSessionTracks ==
  /\ pc = "insert"
  /\ registered' \in {registered, registered \cup {adding}} /\ Outcome(registered' # registered)
  /\ tracked' = tracked \cup {adding}
  /\ known' = known \cup {adding}
  /\ adding' = Nothing
  /\ pc' = IF device = NoDevice /\ controls = {} THEN "idle" ELSE "sessions"
  /\ UNCHANGED <<workChan, ready, devices, device, controls, managers, listening, master, refs,
                 shadowed, mistaken>>
  /\ SystemFrame

\* One step, as callbacks only queue jobs: unregistered (which is assumed to
\* succeed), the reference to the control given back, reported as removed, the
\* session's own interfaces released.
RemoveSessions(S) ==
  /\ tracked' = tracked \ S
  /\ registered' = registered \ S
  /\ refs' = [s \in Natives |-> IF s \in S THEN refs[s] - 1 ELSE refs[s]]

\* The tracked sessions whose id begins with the device.
SessionsOf(d) == {s \in tracked : DeviceOf[s] = d}

RemoveDeviceManager(d) ==
  IF d \in managers
  THEN /\ managers' = managers \ {d}
       /\ listening' = listening \ {d}
       /\ RemoveSessions(SessionsOf(d))
       /\ known' = known \ (SessionsOf(d) \cup {d})
  ELSE UNCHANGED <<managers, listening, tracked, registered, refs, known>>

\* The old master goes, then the default device of the moment gets one, if
\* that does not fail.
RefreshMaster(f) ==
  /\ \E d \in {default[f], NoDevice} : master' = [master EXCEPT ![f] = d]
  /\ Outcome(master'[f] = default[f])
  /\ known' = IF master'[f] = NoDevice THEN known \ {f} ELSE known \cup {f}

InitializeMasterSessions ==
  /\ pc = "masters"
  /\ \E F \in SUBSET Flows : master' = [f \in Flows |-> IF f \in F THEN default[f] ELSE NoDevice]
  /\ Outcome(master' = default)
  /\ known' = known \cup {f \in Flows : master'[f] # NoDevice}
  /\ pc' = "idle"
  /\ UNCHANGED <<workChan, workerVars, managers, listening, registered, tracked, refs,
                 shadowed, mistaken>>
  /\ SystemFrame

Take(op) ==
  /\ pc = "idle" /\ workChan # <<>> /\ Head(workChan).op = op
  /\ workChan' = Tail(workChan)
  /\ SystemFrame

HandleDeviceAdded ==
  /\ Take("appeared")
  /\ CreateDeviceManager(Head(workChan).what)
  /\ UNCHANGED <<ready, devices, controls, adding, listening, registered, tracked, master, refs,
                 shadowed, mistaken>>

HandleDeviceRemoved ==
  /\ Take("gone")
  /\ RemoveDeviceManager(Head(workChan).what)
  /\ UNCHANGED <<pc, workerVars, master, failed, shadowed, mistaken>>

HandleSessionCreated ==
  /\ Take("add")
  /\ controls' = {Head(workChan).what}
  /\ pc' = "sessions"
  /\ UNCHANGED <<ready, devices, device, adding, mapVars, refs, failed, shadowed, mistaken>>

\* The id decides which session goes.
HandleSessionEnded ==
  /\ Take("remove")
  /\ LET s == Head(workChan).what
         gone == {t \in tracked : Id(t) = Id(s)}
     IN  /\ RemoveSessions(gone)
         /\ known' = known \ gone
         /\ mistaken' = (mistaken \/ gone \cap {t \in Natives : t # s} # {})
  /\ UNCHANGED <<pc, workerVars, managers, listening, master, failed, shadowed>>

HandleDefaultChanged ==
  /\ Take("default")
  /\ RefreshMaster(Head(workChan).what)
  /\ UNCHANGED <<pc, workerVars, managers, listening, registered, tracked, refs, shadowed, mistaken>>

\* Slip: the default master sessions are left.
CleanupSlip ==
  LET gone == UNION {SessionsOf(d) : d \in managers}
  IN  /\ RemoveSessions(gone)
      /\ known' = known \ (gone \cup managers)
      /\ managers' = {} /\ listening' = {}
      /\ UNCHANGED master

\* All managers with their sessions, then the default master sessions.
Cleanup ==
  LET gone == UNION {SessionsOf(d) : d \in managers}
  IN  /\ RemoveSessions(gone)
      /\ known' = known \ (gone \cup managers \cup Flows)
      /\ managers' = {} /\ listening' = {}
      /\ master' = [f \in Flows |-> NoDevice]

WorkerStops ==
  /\ pc = "idle" /\ cancelled
  /\ Cleanup
  /\ pc' = "ended"
  /\ UNCHANGED <<workChan, workerVars, shadowed, mistaken>>
  /\ WorkerFrame

-----------------------------------------------------------------------------
Callbacks ==
  \/ \E d \in Removable : DeviceAppears(d) \/ DeviceGoes(d)
  \/ \E s \in Natives : SessionStarts(s) \/ SessionDisconnects(s) \/ SessionExpires(s)
  \/ \E f \in Flows : \/ WindowElapses(f)
                       \/ \E d \in Devices \cup {NoDevice} : DefaultDeviceChanged(f, d)

Worker ==
  \/ WorkerBegins \/ DevicesInitialized \/ Listen \/ EnumerateDeviceSessions \/ ManagerCreated
  \/ \E d \in Devices : InitializeDevice(d)
  \/ \E s \in Natives : AddSessionFails(s) \/ AddSessionQueries(s)
  \/ AddSessionTracks \/ InitializeMasterSessions
  \/ HandleDeviceAdded \/ HandleDeviceRemoved \/ HandleSessionCreated \/ HandleSessionEnded
  \/ HandleDefaultChanged \/ WorkerStops

Next == Callbacks \/ Worker \/ Release

Spec == Init /\ [][Next]_vars

-----------------------------------------------------------------------------
(* What the finder owes the handler and the system.                         *)

Queued(s) == Cardinality({i \in DOMAIN workChan : workChan[i] = Job("add", s)})
InHand(s) == Cardinality({x \in {1} : s \in controls}) + Cardinality({x \in {1} : s = adding})
Kept(s) == Cardinality({x \in {1} : s \in tracked})

\* Every reference to a session's control that was taken is with a queued
\* job, in the worker's hands or with the tracked session, and no more of
\* them were given back; with a dropped job, some never are.
RefsAccounted ==
  \A s \in Natives : /\ refs[s] >= Queued(s) + InHand(s) + Kept(s)
                     /\ ~missed => refs[s] = Queued(s) + InHand(s) + Kept(s)

\* The sessions the handler was given and not told to forget are those that are
\* tracked, and their controls are alive, whatever call failed or job was
\* dropped.  Of the order within a removal it says nothing.
KnownIsAlive == known \cap Natives = tracked /\ \A s \in tracked : refs[s] > 0

WindowsInv == WinTypeOK /\ RefsAccounted /\ KnownIsAlive

Quiet == pc = "idle" /\ workChan = <<>> /\ ~cancelled

\* When all jobs are done, every device in use has a manager, what is
\* tracked is what plays, and the handler knows just that: unless a job was
\* dropped, a call failed, or a removal took another session of the same id.
FollowsSystem ==
  Quiet /\ ~missed /\ ~failed /\ ~mistaken =>
    /\ managers = active
    /\ \A s \in tracked : native[s] = "live" \/ s \in silent
    /\ \A s \in Natives : native[s] = "live" => s \in tracked \cup shadowed
    /\ known = tracked \cup managers \cup {f \in Flows : master[f] # NoDevice}

\* The debounce of one flow never costs another its default device, unless a
\* job was dropped or a call failed.
MasterFollowsDefault ==
  Quiet /\ ~missed /\ ~failed => \A f \in Flows \ swallowed : master[f] = default[f]

\* When the worker has ended nothing is tracked, listened to or known,
\* whatever jobs it left: unless one was dropped or a call failed, after which
\* a session may be tracked whose device has no manager.
CleanupLeavesNothing ==
  pc = "ended" /\ ~missed /\ ~failed =>
    /\ tracked = {} /\ registered = {} /\ known = {}
    /\ managers = {} /\ listening = {}
=============================================================================
