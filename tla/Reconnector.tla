------------------------------ MODULE Reconnector ------------------------------
(***************************************************************************)
(* The generic connection manager of internal/reconnect, which the serial, *)
(* OBS, Discord and PulseAudio clients share.  One manager goroutine dials *)
(* in a goroutine of its own, publishes the connection, watches it in      *)
(* another goroutine, and redials when the connection's error channel      *)
(* receives.  Any goroutine may call Reconnect; Start and Stop may follow  *)
(* each other any number of times, and a dial that Stop did not wait for   *)
(* outlives the run that began it.                                         *)
(*                                                                         *)
(* A member of Conns stands for a dial, for the connection the dial        *)
(* produced and for that connection's generation, the error channel        *)
(* included.  It is taken again only when nothing refers to it any more,   *)
(* so that the model needs no bound on the number of dials.                *)
(***************************************************************************)
EXTENDS Naturals, FiniteSets

CONSTANTS
  Conns,       \* connection generations
  Callers,     \* goroutines that may call Reconnect
  NoConn,      \* no connection, and a nil error channel
  MaxOrphans,  \* bound: Start is not called with this many dials outstanding
  MaxAttempt   \* bound: the failure counter is not counted beyond this value

ASSUME ReconnectorAssumption ==
  /\ NoConn \notin Conns
  /\ MaxOrphans \in Nat
  /\ MaxAttempt \in Nat

VARIABLES
  lifecycle,    \* the lifecycle mutex is held by a Stop that waits
  stopChannel,  \* "nil", "open", or "closed"
  enabled,      \* what Options.Enabled returns now
  mgr,          \* where the manager goroutine is, "none" when there is none
  gen,          \* the manager's dial or connection, NoConn when it has none
  attempt,      \* the manager's consecutive failures
  current,      \* Reconnector.current; NoConn when hasConn is false
  errChannel,   \* Reconnector.errChannel, named by its generation
  buf,          \* what each generation's error channel holds
  conn,         \* each dial, then the connection it produced
  orphans,      \* dials abandoned by a stop, left to a closing goroutine
  watch,        \* each generation's Watch goroutine
  snap          \* the error channel a caller of Reconnect has read

lifecycleVars == <<lifecycle, stopChannel>>
published == <<current, errChannel>>
vars == <<lifecycle, stopChannel, enabled, mgr, gen, attempt, current,
          errChannel, buf, conn, orphans, watch, snap>>

ManagerStates ==
  {"none", "gate", "gateWait", "dial", "dialWait", "check", "publish", "onUp",
   "select", "onDown", "drop", "close", "downWait", "dropStop", "closeStop"}

ConnStates ==
  {"none", "dialing", "failed", "open", "broken", "closed", "closedTwice"}

TypeOK ==
  /\ lifecycle \in BOOLEAN
  /\ stopChannel \in {"nil", "open", "closed"}
  /\ enabled \in BOOLEAN
  /\ mgr \in ManagerStates
  /\ gen \in Conns \cup {NoConn}
  /\ attempt \in 0..MaxAttempt
  /\ current \in Conns \cup {NoConn}
  /\ errChannel \in Conns \cup {NoConn}
  /\ buf \in [Conns -> {"empty", "failed", "asked"}]
  /\ conn \in [Conns -> ConnStates]
  /\ orphans \in SUBSET Conns
  /\ watch \in [Conns -> {"none", "running", "failing"}]
  /\ snap \in [Callers -> Conns \cup {NoConn}]

Init ==
  /\ lifecycle = FALSE
  /\ stopChannel = "nil"
  /\ enabled \in BOOLEAN
  /\ mgr = "none"
  /\ gen = NoConn
  /\ attempt = 0
  /\ current = NoConn
  /\ errChannel = NoConn
  /\ buf = [c \in Conns |-> "empty"]
  /\ conn = [c \in Conns |-> "none"]
  /\ orphans = {}
  /\ watch = [c \in Conns |-> "none"]
  /\ snap = [k \in Callers |-> NoConn]

-----------------------------------------------------------------------------
\* A connection the dial produced and nothing has closed yet.
Live(c) == conn[c] \in {"open", "broken"}

\* Nothing refers to c: not a dial or a connection, not a Watch that has yet
\* to return, not a caller that still holds its error channel.
Unused(c) ==
  /\ conn[c] \in {"none", "closed"}
  /\ watch[c] = "none"
  /\ \A k \in Callers : snap[k] # c

\* The error channel of a closed generation has no receiver any more: what it
\* holds, and what is still sent to it, is not kept.
Garbage(c) == conn[c] = "closed"

\* Options.Close.  "closedTwice" records that it was called again.
Closed(c) ==
  [conn EXCEPT ![c] = IF Live(c) THEN "closed" ELSE "closedTwice"]

-----------------------------------------------------------------------------
(* Start and Stop.  Both hold the lifecycle mutex from beginning to end, so *)
(* neither runs while a Stop waits; Start when started and Stop when        *)
(* stopped return without effect.                                           *)

Start ==
  /\ ~lifecycle
  /\ stopChannel = "nil"
  /\ Cardinality(orphans) < MaxOrphans
  /\ stopChannel' = "open"
  /\ mgr' = "gate"
  /\ attempt' = 0
  /\ UNCHANGED <<lifecycle, enabled, gen, published, buf, conn, orphans, watch,
                 snap>>

StopBegin ==
  /\ ~lifecycle
  /\ stopChannel = "open"
  /\ lifecycle' = TRUE
  /\ stopChannel' = "closed"
  /\ UNCHANGED <<enabled, mgr, gen, attempt, published, buf, conn, orphans,
                 watch, snap>>

\* Slip: Stop waits for the manager only.
StopReturnSlip ==
  /\ lifecycle /\ mgr = "none"
  /\ lifecycle' = FALSE /\ stopChannel' = "nil"
  /\ UNCHANGED <<enabled, mgr, gen, attempt, published, buf, conn, orphans,
                 watch, snap>>

\* wg.Wait returns: the manager and every Watch have returned.
StopReturn ==
  /\ lifecycle
  /\ mgr = "none"
  /\ \A c \in Conns : watch[c] = "none"
  /\ lifecycle' = FALSE
  /\ stopChannel' = "nil"
  /\ UNCHANGED <<enabled, mgr, gen, attempt, published, buf, conn, orphans,
                 watch, snap>>

-----------------------------------------------------------------------------
(* Reconnect reads the error channel under the lock and sends to it after   *)
(* the unlock, without blocking.                                            *)

ReconnectRead(k) ==
  /\ snap[k] = NoConn
  /\ errChannel # NoConn
  /\ snap' = [snap EXCEPT ![k] = errChannel]
  /\ UNCHANGED <<lifecycleVars, enabled, mgr, gen, attempt, published, buf,
                 conn, orphans, watch>>

\* Slip: an unbuffered channel loses what is sent before the manager selects.
ReconnectSendSlip(k) ==
  /\ snap[k] # NoConn
  /\ buf' = [buf EXCEPT ![snap[k]] = IF @ = "empty" /\ mgr = "select" THEN "asked" ELSE @]
  /\ snap' = [snap EXCEPT ![k] = NoConn]
  /\ UNCHANGED <<lifecycleVars, enabled, mgr, gen, attempt, published, conn,
                 orphans, watch>>

ReconnectSend(k) ==
  /\ snap[k] # NoConn
  /\ buf' = [buf EXCEPT ![snap[k]] =
                              IF @ = "empty" /\ ~Garbage(snap[k]) THEN "asked" ELSE @]
  /\ snap' = [snap EXCEPT ![k] = NoConn]
  /\ UNCHANGED <<lifecycleVars, enabled, mgr, gen, attempt, published, conn,
                 orphans, watch>>

-----------------------------------------------------------------------------
(* The manager goroutine.                                                   *)

ManagerFrame == UNCHANGED <<lifecycleVars, enabled, snap>>

\* Slip: the failure counter runs past its bound.
WaitElapsedUncappedSlip ==
  /\ mgr \in {"gateWait", "dialWait", "downWait"}
  /\ mgr' = "gate"
  /\ attempt' = IF mgr = "gateWait" THEN attempt ELSE attempt + 1
  /\ UNCHANGED <<gen, published, buf, conn, orphans, watch>>
  /\ ManagerFrame

\* waitOrStop returns true: the delay elapsed.  After a failed dial and after
\* a lost connection the failure counter goes up.
WaitElapsed ==
  /\ mgr \in {"gateWait", "dialWait", "downWait"}
  /\ mgr' = "gate"
  /\ attempt' = IF mgr = "gateWait" \/ attempt = MaxAttempt
                THEN attempt ELSE attempt + 1
  /\ UNCHANGED <<gen, published, buf, conn, orphans, watch>>
  /\ ManagerFrame

\* waitOrStop returns false: the manager returns.
WaitStopped ==
  /\ mgr \in {"gateWait", "dialWait", "downWait"}
  /\ stopChannel = "closed"
  /\ mgr' = "none"
  /\ UNCHANGED <<gen, attempt, published, buf, conn, orphans, watch>>
  /\ ManagerFrame

GateClosed ==
  /\ mgr = "gate"
  /\ ~enabled
  /\ mgr' = "gateWait"
  /\ UNCHANGED <<gen, attempt, published, buf, conn, orphans, watch>>
  /\ ManagerFrame

BeginDial(c) ==
  /\ mgr = "gate"
  /\ enabled
  /\ Unused(c)
  /\ conn' = [conn EXCEPT ![c] = "dialing"]
  /\ gen' = c
  /\ mgr' = "dial"
  /\ UNCHANGED <<attempt, published, buf, orphans, watch>>
  /\ ManagerFrame

\* Slip: nobody is left to close an abandoned connection.
DialStoppedSlip ==
  /\ mgr = "dial" /\ stopChannel = "closed" /\ mgr' = "none"
  /\ gen' = NoConn
  /\ UNCHANGED <<attempt, published, buf, conn, orphans, watch>>
  /\ ManagerFrame

\* Slip: the stop signal is looked at after the dial only.
DialStoppedLateSlip ==
  /\ mgr = "dial" /\ stopChannel = "closed" /\ conn[gen] # "dialing"
  /\ orphans' = orphans \cup {gen} /\ mgr' = "none"
  /\ gen' = NoConn
  /\ UNCHANGED <<attempt, published, buf, conn, watch>>
  /\ ManagerFrame

\* The stop signal during a dial: the dial is left to resolve in the
\* background, with a goroutine that closes its connection.
DialStopped ==
  /\ mgr = "dial"
  /\ stopChannel = "closed"
  /\ orphans' = orphans \cup {gen}
  /\ mgr' = "none"
  /\ gen' = NoConn
  /\ UNCHANGED <<attempt, published, buf, conn, watch>>
  /\ ManagerFrame

DialFailed ==
  /\ mgr = "dial"
  /\ conn[gen] = "failed"
  /\ conn' = [conn EXCEPT ![gen] = "none"]
  /\ mgr' = "dialWait"
  /\ gen' = NoConn
  /\ UNCHANGED <<attempt, published, buf, orphans, watch>>
  /\ ManagerFrame

DialSucceeded ==
  /\ mgr = "dial"
  /\ Live(gen)
  /\ mgr' = "check"
  /\ UNCHANGED <<gen, attempt, published, buf, conn, orphans, watch>>
  /\ ManagerFrame

\* Slip: the loop starts over without closing.
DisabledLeakSlip ==
  /\ mgr = "check" /\ ~enabled /\ mgr' = "gate"
  /\ gen' = NoConn
  /\ UNCHANGED <<attempt, published, buf, conn, orphans, watch>>
  /\ ManagerFrame

\* Slip: the connection is closed and then adopted all the same.
DisabledAdoptedSlip ==
  /\ mgr = "check" /\ ~enabled
  /\ conn' = Closed(gen) /\ mgr' = "publish"
  /\ UNCHANGED <<gen, attempt, published, buf, orphans, watch>>
  /\ ManagerFrame

\* The second look at Enabled.  Turned off meanwhile: close and start over.
DisabledWhileDialing ==
  /\ mgr = "check"
  /\ ~enabled
  /\ conn' = Closed(gen)
  /\ mgr' = "gate"
  /\ gen' = NoConn
  /\ UNCHANGED <<attempt, published, buf, orphans, watch>>
  /\ ManagerFrame

StillEnabled ==
  /\ mgr = "check"
  /\ enabled
  /\ mgr' = "publish"
  /\ UNCHANGED <<gen, attempt, published, buf, conn, orphans, watch>>
  /\ ManagerFrame

\* Slip: the failure counter is not reset.
PublishSlip ==
  /\ mgr = "publish"
  /\ current' = gen /\ errChannel' = gen
  /\ buf' = [buf EXCEPT ![gen] = "empty"]
  /\ mgr' = "onUp"
  /\ UNCHANGED <<gen, attempt, conn, orphans, watch>>
  /\ ManagerFrame

\* The connection is published together with a fresh error channel.
Publish ==
  /\ mgr = "publish"
  /\ current' = gen
  /\ errChannel' = gen
  /\ buf' = [buf EXCEPT ![gen] = "empty"]
  /\ attempt' = 0
  /\ mgr' = "onUp"
  /\ UNCHANGED <<gen, conn, orphans, watch>>
  /\ ManagerFrame

\* OnUp, then the Watch goroutine is started.  OnUp may itself call Reconnect,
\* as the serial client does when the settings moved on during the dial.
OnUp(asks) ==
  /\ mgr = "onUp"
  /\ buf' = [buf EXCEPT ![gen] = IF asks /\ @ = "empty" THEN "asked" ELSE @]
  /\ watch' = [watch EXCEPT ![gen] = "running"]
  /\ mgr' = "select"
  /\ UNCHANGED <<gen, attempt, published, conn, orphans>>
  /\ ManagerFrame

SelectStop ==
  /\ mgr = "select"
  /\ stopChannel = "closed"
  /\ mgr' = "dropStop"
  /\ UNCHANGED <<gen, attempt, published, buf, conn, orphans, watch>>
  /\ ManagerFrame

SelectError ==
  /\ mgr = "select"
  /\ buf[gen] # "empty"
  /\ buf' = [buf EXCEPT ![gen] = "empty"]
  /\ mgr' = "onDown"
  /\ UNCHANGED <<gen, attempt, published, conn, orphans, watch>>
  /\ ManagerFrame

OnDown ==
  /\ mgr = "onDown"
  /\ mgr' = "drop"
  /\ UNCHANGED <<gen, attempt, published, buf, conn, orphans, watch>>
  /\ ManagerFrame

\* Slip: the error channel outlives its generation.
DropSlip ==
  /\ mgr \in {"drop", "dropStop"}
  /\ current' = NoConn
  /\ mgr' = IF mgr = "drop" THEN "close" ELSE "closeStop"
  /\ UNCHANGED <<gen, attempt, errChannel, buf, conn, orphans, watch>>
  /\ ManagerFrame

\* drop clears the generation under the lock ...
Drop ==
  /\ mgr \in {"drop", "dropStop"}
  /\ current' = NoConn
  /\ errChannel' = NoConn
  /\ mgr' = IF mgr = "drop" THEN "close" ELSE "closeStop"
  /\ UNCHANGED <<gen, attempt, buf, conn, orphans, watch>>
  /\ ManagerFrame

\* ... and closes its connection after the unlock.
CloseDropped ==
  /\ mgr \in {"close", "closeStop"}
  /\ conn' = Closed(gen)
  /\ mgr' = IF mgr = "close" THEN "downWait" ELSE "none"
  /\ gen' = NoConn
  /\ buf' = [buf EXCEPT ![gen] = "empty"]
  /\ UNCHANGED <<attempt, published, orphans, watch>>
  /\ ManagerFrame

Manager ==
  \/ WaitElapsed \/ WaitStopped \/ GateClosed
  \/ \E c \in Conns : BeginDial(c)
  \/ DialStopped \/ DialFailed \/ DialSucceeded
  \/ DisabledWhileDialing \/ StillEnabled \/ Publish
  \/ \E asks \in BOOLEAN : OnUp(asks)
  \/ SelectStop \/ SelectError \/ OnDown \/ Drop \/ CloseDropped

-----------------------------------------------------------------------------
(* The goroutines the manager starts, and the outside world.                *)

ConnFrame == UNCHANGED <<lifecycleVars, enabled, mgr, gen, attempt, published, snap>>

\* The dial goroutine delivers its result to the one-place dialDone channel.
Dialed(c, result) ==
  /\ conn[c] = "dialing"
  /\ result \in {"open", "failed"}
  /\ conn' = [conn EXCEPT ![c] = result]
  /\ UNCHANGED <<buf, orphans, watch>>
  /\ ConnFrame

\* Slip: the goroutine gives up when Stop has returned.
CloseLateSlip(c) ==
  /\ c \in orphans /\ conn[c] # "dialing" /\ lifecycle
  /\ conn' = IF conn[c] = "failed" THEN [conn EXCEPT ![c] = "none"] ELSE Closed(c)
  /\ orphans' = orphans \ {c}
  /\ UNCHANGED <<buf, watch>>
  /\ ConnFrame

\* The goroutine left with an abandoned dial receives its result.
CloseLate(c) ==
  /\ c \in orphans
  /\ conn[c] # "dialing"
  /\ conn' = IF conn[c] = "failed" THEN [conn EXCEPT ![c] = "none"] ELSE Closed(c)
  /\ orphans' = orphans \ {c}
  /\ UNCHANGED <<buf, watch>>
  /\ ConnFrame

\* The far end of a connection goes away.
TransportBreaks(c) ==
  /\ conn[c] = "open"
  /\ conn' = [conn EXCEPT ![c] = "broken"]
  /\ UNCHANGED <<buf, orphans, watch>>
  /\ ConnFrame

\* Watch sees the connection end and is about to report it.
WatchFails(c) ==
  /\ watch[c] = "running"
  /\ conn[c] # "open"
  /\ watch' = [watch EXCEPT ![c] = "failing"]
  /\ UNCHANGED <<buf, conn, orphans>>
  /\ ConnFrame

\* Slip: the failure goes to the error channel of the moment.
WatchReportsSlip(c) ==
  /\ watch[c] = "failing"
  /\ buf' = [d \in Conns |->
               IF d = errChannel /\ buf[d] = "empty" THEN "failed" ELSE buf[d]]
  /\ watch' = [watch EXCEPT ![c] = "none"]
  /\ UNCHANGED <<conn, orphans>>
  /\ ConnFrame

\* The one non-blocking send to the channel of Watch's own generation.
WatchReports(c) ==
  /\ watch[c] = "failing"
  /\ buf' = [buf EXCEPT ![c] = IF @ = "empty" /\ ~Garbage(c) THEN "failed" ELSE @]
  /\ watch' = [watch EXCEPT ![c] = "none"]
  /\ UNCHANGED <<conn, orphans>>
  /\ ConnFrame

\* Close unblocked Watch: it returns and reports nothing.
WatchReturns(c) ==
  /\ watch[c] = "running"
  /\ conn[c] = "closed"
  /\ watch' = [watch EXCEPT ![c] = "none"]
  /\ UNCHANGED <<buf, conn, orphans>>
  /\ ConnFrame

\* The answer of Options.Enabled changes (settings, or a stored token).
SetEnabled(b) ==
  /\ enabled # b
  /\ enabled' = b
  /\ UNCHANGED <<lifecycleVars, mgr, gen, attempt, published, buf, conn,
                 orphans, watch, snap>>

Next ==
  \/ Start \/ StopBegin \/ StopReturn
  \/ \E k \in Callers : ReconnectRead(k) \/ ReconnectSend(k)
  \/ Manager
  \/ \E c \in Conns : \E result \in {"open", "failed"} : Dialed(c, result)
  \/ \E c \in Conns : CloseLate(c) \/ TransportBreaks(c)
  \/ \E c \in Conns : WatchFails(c) \/ WatchReports(c) \/ WatchReturns(c)
  \/ \E b \in BOOLEAN : SetEnabled(b)

Spec == Init /\ [][Next]_vars

-----------------------------------------------------------------------------
(* Fairness.  Every goroutine that can go on does so; a select whose stop   *)
(* case is ready again and again takes it eventually, because Go picks      *)
(* uniformly among the ready cases.  Nothing is assumed of a dial, which    *)
(* may block for ever, of callers, or of Start and Stop being called.       *)
Fairness ==
  /\ WF_vars(Manager)
  /\ SF_vars(WaitStopped) /\ SF_vars(DialStopped) /\ SF_vars(SelectStop)
  /\ WF_vars(StopReturn)
  /\ \A c \in Conns :
       /\ WF_vars(WatchFails(c) \/ WatchReports(c) \/ WatchReturns(c))
       /\ WF_vars(CloseLate(c))
  /\ \A k \in Callers : WF_vars(ReconnectSend(k))

FairSpec == Spec /\ Fairness

-----------------------------------------------------------------------------
(* What a reconnector promises (the package comment and the comments of     *)
(* Options and Reconnector).                                                *)

\* "Reconnector maintains at most one live connection": of the connections
\* that no closing goroutine owns, at most one is not closed, through every
\* redial, Reconnect, disable and restart.
OneLiveConnection ==
  \A c, d \in Conns :
    Live(c) /\ Live(d) /\ c \notin orphans /\ d \notin orphans => c = d

\* "Close ... is called at most once per connection", whichever of the four
\* paths that close one it takes.
ClosedOnce == \A c \in Conns : conn[c] # "closedTwice"

\* current, hasConn and errChannel are replaced together, and what Current
\* returns has not been closed: the request paths of the clients use it.
PublishedIsLive ==
  /\ errChannel = current
  /\ current # NoConn => Live(current) /\ current \notin orphans

\* Once Stop has returned nothing of the run is left: no manager, no Watch, no
\* published connection, and no open connection except of abandoned dials.
StopLeavesNothing ==
  stopChannel = "nil" =>
    /\ mgr = "none"
    /\ current = NoConn
    /\ \A c \in Conns : watch[c] = "none" /\ (Live(c) => c \in orphans)

\* "A slow Watch can never tear down a newer connection": the error channel of
\* the published generation holds a Watch failure only if the connection of
\* this generation did fail.
OnlyOwnFailure ==
  current # NoConn /\ buf[current] = "failed" => conn[current] # "open"

\* Options.Backoff gets 0 for the first retry after an adopted connection,
\* however many dials failed before it.
BackoffStartsOver == mgr = "downWait" => attempt = 0

\* Stop returns, whatever the dial in flight does.
StopReturns == lifecycle ~> ~lifecycle

\* A connection that fails, and one that a Reconnect call found published, is
\* torn down.
LostConnectionIsDropped ==
  \A c \in Conns :
    current = c /\ (conn[c] = "broken" \/ \E k \in Callers : snap[k] = c)
      ~> current # c

\* An abandoned dial that succeeds late has its connection closed.
AbandonedDialIsClosed ==
  \A c \in Conns : c \in orphans /\ conn[c] # "dialing" ~> c \notin orphans

\* While it is started and enabled, a reconnector never settles for being
\* down: again and again it is connected or has a dial in flight.
KeepsDialing ==
  []<>(stopChannel # "open" \/ ~enabled \/ current # NoConn \/ mgr = "dial")

\* The connection comes back: what is lost, or asked to go, is torn down, and
\* the manager dials again as often as it takes.
Recovers == LostConnectionIsDropped /\ KeepsDialing

-----------------------------------------------------------------------------
(* The manager, its goroutines and channels implement ConnectionLifecycle.  *)

\* The life of a connection as the code around the reconnector knows it.
Status(c) ==
  CASE ~Live(c) -> "absent"
    [] Live(c) /\ c = current -> "up"
    [] Live(c) /\ c # current /\ (c \in orphans \/ mgr \in {"close", "closeStop"}) -> "retired"
    [] OTHER -> "established"

Lifecycle == INSTANCE ConnectionLifecycle
  WITH running <- stopChannel # "nil", status <- [c \in Conns |-> Status(c)]

\* Every step of the reconnector is a step of ConnectionLifecycle or changes
\* nothing there.
ImplementsLifecycle == Lifecycle!Spec

=============================================================================
