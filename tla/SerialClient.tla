------------------------------ MODULE SerialClient ------------------------------
(***************************************************************************)
(* The serial client of internal/serial: a Reconnector whose connection    *)
(* carries the COM settings it was dialed with, a settings worker that     *)
(* compares them after each reload signal and asks for a reconnect, and    *)
(* the connected / disconnected events its consumers receive.  The         *)
(* settings store is modelled from this side only: it replaces its         *)
(* snapshot, then sends the reload signal, which coalesces.                *)
(***************************************************************************)
EXTENDS Reconnector

CONSTANTS
  Params,        \* COM settings: port, baud rate, VID and PID
  NoParams,      \* settings nobody has read yet
  Worker,        \* the settings worker, the only outside caller of Reconnect
  MaxNotifiers   \* bound: reloads whose signal is still to be sent

ASSUME SerialAssumption ==
  /\ NoParams \notin Params
  /\ Callers = {Worker}
  /\ MaxNotifiers \in Nat \ {0}

VARIABLES
  params,      \* COM of the store's current snapshot
  notifiers,   \* reloads that have stored a snapshot and not signalled yet
  reload,      \* the one-place channel of reload signals holds one
  client,      \* "new", "started", "stopping" (waits for the worker),
               \* "closing" (waits for the reconnector), "stopped"
  worker,      \* where the settings worker is
  seenParams,  \* the settings the worker has read
  connInfo,    \* the settings snapshot embedded in each connection
  adopted,     \* the connections announced to the consumers
  shown        \* the last event the consumers received

settingsVars == <<params, notifiers, reload>>
workerVars == <<worker, seenParams>>
eventVars == <<adopted, shown>>
serialVars == <<settingsVars, client, workerVars, connInfo, eventVars>>
allVars == <<vars, serialVars>>

SerialTypeOK ==
  /\ TypeOK
  /\ params \in Params
  /\ notifiers \in 0..MaxNotifiers
  /\ reload \in BOOLEAN
  /\ client \in {"new", "started", "stopping", "closing", "stopped"}
  /\ worker \in {"idle", "values", "current", "reconnect", "sending", "done"}
  /\ seenParams \in Params \cup {NoParams}
  /\ connInfo \in [Conns -> Params \cup {NoParams}]
  /\ adopted \in SUBSET Conns
  /\ shown \in {"connected", "disconnected", "repeated"}

\* New subscribes and starts the worker.  Options.Enabled is nil: always on.
SerialInit ==
  /\ Init
  /\ enabled
  /\ params \in Params
  /\ notifiers = 0
  /\ reload = FALSE
  /\ client = "new"
  /\ worker = "idle"
  /\ seenParams = NoParams
  /\ connInfo = [c \in Conns |-> NoParams]
  /\ adopted = {}
  /\ shown = "disconnected"

-----------------------------------------------------------------------------
(* The settings store, seen from the client.                                *)

\* A load or a save replaces the snapshot ...
ChangeParams(p) ==
  /\ p # params
  /\ notifiers < MaxNotifiers
  /\ params' = p
  /\ notifiers' = notifiers + 1
  /\ UNCHANGED <<vars, reload, client, workerVars, connInfo, eventVars>>

\* ... and then sends to each subscriber without blocking.
Notify ==
  /\ notifiers > 0
  /\ notifiers' = notifiers - 1
  /\ reload' = TRUE
  /\ UNCHANGED <<vars, params, client, workerVars, connInfo, eventVars>>

-----------------------------------------------------------------------------
(* The settings worker.                                                     *)

WorkerFrame == UNCHANGED <<params, notifiers, client, connInfo, eventVars>>

WorkerWakes ==
  /\ worker = "idle"
  /\ reload
  /\ reload' = FALSE
  /\ worker' = "values"
  /\ UNCHANGED <<vars, seenParams>>
  /\ WorkerFrame

WorkerReadsValues ==
  /\ worker = "values"
  /\ seenParams' = params
  /\ worker' = "current"
  /\ UNCHANGED <<vars, reload>>
  /\ WorkerFrame

\* No connection: every dial reads the settings of its time anyway.
WorkerCompares ==
  /\ worker = "current"
  /\ worker' = IF current # NoConn /\ connInfo[current] # seenParams
               THEN "reconnect" ELSE "idle"
  /\ seenParams' = NoParams
  /\ UNCHANGED <<vars, reload>>
  /\ WorkerFrame

WorkerReconnects ==
  /\ worker = "reconnect"
  /\ \/ ReconnectRead(Worker) /\ worker' = "sending"
     \/ errChannel = NoConn /\ worker' = "idle" /\ UNCHANGED vars
  /\ UNCHANGED <<reload, seenParams>>
  /\ WorkerFrame

WorkerSends ==
  /\ worker = "sending"
  /\ ReconnectSend(Worker)
  /\ worker' = "idle"
  /\ UNCHANGED <<reload, seenParams>>
  /\ WorkerFrame

\* configDone is closed; a signal that is ready as well may be taken first.
WorkerQuits ==
  /\ worker = "idle"
  /\ client = "stopping"
  /\ worker' = "done"
  /\ UNCHANGED <<vars, reload, seenParams>>
  /\ WorkerFrame

WorkerStep ==
  \/ WorkerWakes \/ WorkerReadsValues \/ WorkerCompares
  \/ WorkerReconnects \/ WorkerSends \/ WorkerQuits

-----------------------------------------------------------------------------
(* Start and Stop of the client, which hold its lifecycle mutex.  A stopped *)
(* client is not started again.                                             *)

ClientFrame == UNCHANGED <<settingsVars, workerVars, connInfo, eventVars>>

ClientStart ==
  /\ client = "new"
  /\ Start
  /\ client' = "started"
  /\ ClientFrame

ClientStop ==
  /\ client \in {"new", "started"}
  /\ client' = "stopping"
  /\ UNCHANGED vars
  /\ ClientFrame

\* configWG.Wait returns, then the reconnector is stopped, if it was started.
ClientStopsReconnector ==
  /\ client = "stopping"
  /\ worker = "done"
  /\ \/ StopBegin /\ client' = "closing"
     \/ stopChannel = "nil" /\ client' = "stopped" /\ UNCHANGED vars
  /\ ClientFrame

ClientStopped ==
  /\ client = "closing"
  /\ StopReturn
  /\ client' = "stopped"
  /\ ClientFrame

-----------------------------------------------------------------------------
(* The callbacks the reconnector runs.                                      *)

\* An event goes to the consumers over an unbuffered channel.
Deliver(event) == shown' = IF shown = event THEN "repeated" ELSE event

\* Slip: the connection is announced whatever settings it was dialed with.
SerialOnUpSlip ==
  /\ OnUp(FALSE)
  /\ adopted' = adopted \cup {gen}
  /\ Deliver("connected")
  /\ UNCHANGED <<settingsVars, client, workerVars, connInfo>>

\* Slip: onUp returns without announcing the connection and without asking
\* for a new one.
SerialOnUpUnaskedSlip ==
  /\ OnUp(FALSE)
  /\ \/ connInfo[gen] # params /\ UNCHANGED eventVars
     \/ /\ connInfo[gen] = params
        /\ adopted' = adopted \cup {gen}
        /\ Deliver("connected")
  /\ UNCHANGED <<settingsVars, client, workerVars, connInfo>>

\* onUp looks at the settings again now that the connection is published: a
\* connection dialed with others is renewed without having been announced.
SerialOnUp ==
  /\ mgr = "onUp"
  /\ \/ /\ connInfo[gen] # params
        /\ OnUp(TRUE)
        /\ UNCHANGED eventVars
     \/ /\ connInfo[gen] = params
        /\ OnUp(FALSE)
        /\ adopted' = adopted \cup {gen}
        /\ Deliver("connected")
  /\ UNCHANGED <<settingsVars, client, workerVars, connInfo>>

\* Slip: every closed connection is reported.
ReportCloseSlip(c) ==
  /\ adopted' = adopted \ {c}
  /\ Deliver("disconnected")

\* The part of close after the port is closed: only a connection that was
\* announced is reported gone.
ReportClose(c) ==
  IF c \in adopted
  THEN adopted' = adopted \ {c} /\ Deliver("disconnected")
  ELSE UNCHANGED eventVars

SerialCloseDropped ==
  /\ CloseDropped
  /\ ReportClose(gen)
  /\ connInfo' = [connInfo EXCEPT ![gen] = NoParams]
  /\ UNCHANGED <<settingsVars, client, workerVars>>

SerialCloseLate(c) ==
  /\ CloseLate(c)
  /\ IF conn[c] = "failed" THEN UNCHANGED eventVars ELSE ReportClose(c)
  /\ connInfo' = [connInfo EXCEPT ![c] = NoParams]
  /\ UNCHANGED <<settingsVars, client, workerVars>>

\* The dial goroutine reads the settings, and later opens the port.
DialReads(c) ==
  /\ conn[c] = "dialing"
  /\ connInfo[c] = NoParams
  /\ connInfo' = [connInfo EXCEPT ![c] = params]
  /\ UNCHANGED <<vars, settingsVars, client, workerVars, eventVars>>

SerialDialed(c, result) ==
  /\ connInfo[c] # NoParams
  /\ Dialed(c, result)
  /\ UNCHANGED serialVars

SerialDialFailed ==
  /\ DialFailed
  /\ connInfo' = [connInfo EXCEPT ![gen] = NoParams]
  /\ UNCHANGED <<settingsVars, client, workerVars, eventVars>>

\* The manager steps that run none of the client's callbacks, and OnDown,
\* which only notifies the user.
PlainManager ==
  /\ \/ WaitElapsed \/ WaitStopped
     \/ \E c \in Conns : BeginDial(c)
     \/ DialStopped \/ DialSucceeded \/ StillEnabled \/ Publish
     \/ SelectStop \/ SelectError \/ OnDown \/ Drop
  /\ UNCHANGED serialVars

ManagerStops == (WaitStopped \/ DialStopped \/ SelectStop) /\ UNCHANGED serialVars

SerialManager ==
  \/ PlainManager
  \/ SerialDialFailed
  \/ SerialOnUp
  \/ SerialCloseDropped

SerialWatch(c) ==
  /\ WatchFails(c) \/ WatchReports(c) \/ WatchReturns(c)
  /\ UNCHANGED serialVars

SerialBreaks(c) == TransportBreaks(c) /\ UNCHANGED serialVars

SerialNext ==
  \/ \E p \in Params : ChangeParams(p)
  \/ Notify
  \/ WorkerStep
  \/ ClientStart \/ ClientStop \/ ClientStopsReconnector \/ ClientStopped
  \/ SerialManager
  \/ \E c \in Conns :
       \/ DialReads(c)
       \/ \E result \in {"open", "failed"} : SerialDialed(c, result)
       \/ SerialCloseLate(c) \/ SerialBreaks(c) \/ SerialWatch(c)

SerialSpec == SerialInit /\ [][SerialNext]_allVars

\* The goroutines go on, as in Reconnector; the worker's select takes the done
\* case if that is ready again and again.  Nothing is assumed of a dial.
SerialFairSpec ==
  /\ SerialSpec
  /\ WF_allVars(Notify)
  /\ WF_allVars(WorkerStep) /\ SF_allVars(WorkerQuits)
  /\ WF_allVars(ClientStopsReconnector) /\ WF_allVars(ClientStopped)
  /\ WF_allVars(SerialManager)
  /\ SF_allVars(ManagerStops)
  /\ \A c \in Conns : WF_allVars(SerialWatch(c)) /\ WF_allVars(SerialCloseLate(c))

-----------------------------------------------------------------------------
\* The published connection was dialed with settings that are not in force.
Stale == current # NoConn /\ connInfo[current] # params

\* Nothing a reload changes is ever forgotten: while the client runs with a
\* stale connection, a signal is on its way, or the worker or onUp has yet to
\* compare, or the teardown of this very connection is under way.  This is why
\* dial embeds its snapshot and onUp checks it after the publication.
StaleIsNoticed ==
  Stale /\ client = "started" =>
    \/ notifiers > 0 \/ reload
    \/ worker \in {"values", "reconnect"}
    \/ worker = "current" /\ seenParams = params
    \/ worker = "sending" /\ snap[Worker] = current
    \/ mgr \in {"onUp", "onDown", "drop"}
    \/ buf[current] # "empty"

SerialInv == SerialTypeOK /\ StaleIsNoticed

\* Consumers never receive the same state twice: the tray and the settings
\* window toggle on these events.
EventsAlternate == shown # "repeated"

\* What the consumers were told is so: a connection that serves without having
\* been announced is already asked to go, and the last event is "connected"
\* only while the announced connection has not finished closing.
EventsAreTrue ==
  /\ mgr = "select" /\ shown = "disconnected" => buf[current] # "empty" \/ stopChannel = "closed"
  /\ shown = "connected" => adopted = {gen} /\ mgr \in {"select", "onDown", "drop", "close", "dropStop", "closeStop"}

\* The events a consumer hears alternate, and are true.
EventsInv == EventsAlternate /\ EventsAreTrue

\* Once Stop has returned the consumers may be gone: the last event was
\* "disconnected", and no dial that ends late emits another.
QuietAfterStop ==
  [][client = "stopped" => shown = "disconnected" /\ shown' = shown]_allVars

\* The settings take effect: a stale connection does not serve for ever.
StaleIsRenewed ==
  \A c \in Conns :
    current = c /\ connInfo[c] # params ~>
      current # c \/ connInfo[c] = params \/ client # "started"

\* Stop returns, with a dial in flight, a signal pending or a reload arriving.
ClientStops == client = "stopping" ~> client = "stopped"

\* The client neither serves for ever with settings that are not in force nor
\* hangs when it is told to stop.
Progress == StaleIsRenewed /\ ClientStops

=============================================================================
