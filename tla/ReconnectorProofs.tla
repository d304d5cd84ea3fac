--------------------------- MODULE ReconnectorProofs ---------------------------
(***************************************************************************)
(* Theorems about Reconnector, for every set of generations and callers    *)
(* and every value of the bounds.                                          *)
(***************************************************************************)
EXTENDS Reconnector, TLAPS

-----------------------------------------------------------------------------
(* The inductive invariant.  The safety properties are not inductive: that  *)
(* one connection is live at a time holds because every dial belongs to the *)
(* manager or to a closing goroutine, and what the manager holds is fixed   *)
(* by its program counter.                                                  *)

\* Where the manager holds a dial or a connection.
HoldsConn == {"dial", "check", "publish", "onUp", "select", "onDown", "drop",
              "close", "dropStop", "closeStop"}

\* Where that connection is published.
Publishes == {"onUp", "select", "onDown", "drop", "dropStop"}

\* The dial of c has not been received, or its connection not closed.
Unsettled(c) == conn[c] \in {"dialing", "failed", "open", "broken"}

LifecycleInv ==
  /\ lifecycle <=> stopChannel = "closed"
  /\ mgr # "none" => stopChannel # "nil"
  /\ mgr \in {"dropStop", "closeStop"} => stopChannel = "closed"

ManagerInv ==
  /\ gen \in Conns <=> mgr \in HoldsConn
  /\ gen \notin orphans
  /\ mgr = "dial" => Unsettled(gen)
  /\ mgr \in HoldsConn \ {"dial"} => Live(gen)
  /\ current = IF mgr \in Publishes THEN gen ELSE NoConn
  /\ errChannel = current
  /\ mgr \in Publishes \cup {"close", "downWait"} => attempt = 0

ConnInv ==
  \A c \in Conns :
    /\ conn[c] # "closedTwice"
    /\ Unsettled(c) <=> c = gen \/ c \in orphans

WatchInv ==
  \A c \in Conns :
    /\ watch[c] # "none" =>
         /\ stopChannel # "nil"
         /\ \/ conn[c] = "closed"
            \/ c = gen /\ mgr \in {"select", "onDown", "drop", "close", "dropStop", "closeStop"}
    /\ watch[c] = "failing" => conn[c] # "open"
    /\ c = current /\ buf[c] = "failed" => conn[c] # "open"

IInv == TypeOK /\ LifecycleInv /\ ManagerInv /\ ConnInv /\ WatchInv

-----------------------------------------------------------------------------
(* Type correctness.                                                        *)

LEMMA TypeInvariance ==
  /\ Init => TypeOK
  /\ TypeOK /\ ManagerInv /\ [Next]_vars => TypeOK'
<1> USE ReconnectorAssumption DEF TypeOK, ManagerStates, ConnStates
<1>1. Init => TypeOK
  <2> SUFFICES ASSUME Init PROVE TypeOK
    OBVIOUS
  <2>1. lifecycle \in BOOLEAN /\ enabled \in BOOLEAN
    BY DEF Init
  <2>2. attempt \in 0..MaxAttempt
    BY DEF Init
  <2> QED
    BY <2>1, <2>2 DEF Init
<1>2. TypeOK /\ ManagerInv /\ [Next]_vars => TypeOK'
  <2> SUFFICES ASSUME TypeOK, ManagerInv, [Next]_vars
               PROVE  TypeOK'
    OBVIOUS
  <2> USE DEF lifecycleVars, published
  <2>1. CASE Start \/ StopBegin \/ StopReturn
    <3>1. CASE Start
      BY <3>1 DEF Start
    <3>2. CASE StopBegin
      BY <3>2 DEF StopBegin
    <3>3. CASE StopReturn
      BY <3>3 DEF StopReturn
    <3> QED
      BY <2>1, <3>1, <3>2, <3>3
  <2>2. ASSUME NEW k \in Callers, ReconnectRead(k) \/ ReconnectSend(k)
        PROVE  TypeOK'
    BY <2>2 DEF ReconnectRead, ReconnectSend
  <2>3. CASE Manager
    <3> USE DEF ManagerFrame, Closed
    <3>1. CASE WaitElapsed \/ WaitStopped \/ GateClosed
      BY <3>1 DEF WaitElapsed, WaitStopped, GateClosed
    <3>2. ASSUME NEW c \in Conns, BeginDial(c)
          PROVE  TypeOK'
      BY <3>2 DEF BeginDial
    <3>3. CASE DialStopped \/ DialFailed \/ DialSucceeded
      BY <3>3 DEF DialStopped, DialFailed, DialSucceeded, ManagerInv, HoldsConn
    <3>4. CASE DisabledWhileDialing \/ StillEnabled \/ Publish
      BY <3>4 DEF DisabledWhileDialing, StillEnabled, Publish
    <3>5. ASSUME NEW asks \in BOOLEAN, OnUp(asks)
          PROVE  TypeOK'
      BY <3>5 DEF OnUp
    <3>6. CASE SelectStop \/ SelectError \/ OnDown
      BY <3>6 DEF SelectStop, SelectError, OnDown
    <3>7. CASE Drop \/ CloseDropped
      BY <3>7 DEF Drop, CloseDropped
    <3> QED
      BY <2>3, <3>1, <3>2, <3>3, <3>4, <3>5, <3>6, <3>7 DEF Manager
  <2>4. ASSUME NEW c \in Conns, NEW result \in {"open", "failed"}, Dialed(c, result)
        PROVE  TypeOK'
    BY <2>4 DEF Dialed, ConnFrame
  <2>5. ASSUME NEW c \in Conns, CloseLate(c) \/ TransportBreaks(c)
        PROVE  TypeOK'
    BY <2>5 DEF CloseLate, TransportBreaks, ConnFrame, Closed
  <2>6. ASSUME NEW c \in Conns, WatchFails(c) \/ WatchReports(c) \/ WatchReturns(c)
        PROVE  TypeOK'
    BY <2>6 DEF WatchFails, WatchReports, WatchReturns, ConnFrame
  <2>7. ASSUME NEW b \in BOOLEAN, SetEnabled(b)
        PROVE  TypeOK'
    BY <2>7 DEF SetEnabled
  <2>8. CASE UNCHANGED vars
    BY <2>8 DEF vars
  <2> QED
    BY <2>1, <2>2, <2>3, <2>4, <2>5, <2>6, <2>7, <2>8 DEF Next
<1> QED
  BY <1>1, <1>2

-----------------------------------------------------------------------------
(* The other parts of the invariant, one lemma for each group of actions.   *)

LEMMA StartKeeps ==
  ASSUME IInv, Start
  PROVE  LifecycleInv' /\ ManagerInv' /\ ConnInv' /\ WatchInv'
<1> USE ReconnectorAssumption DEF IInv, TypeOK, Unsettled, Live, lifecycleVars, published
<1> USE DEF Start
<1>1. LifecycleInv'
  BY DEF LifecycleInv
<1>2. ManagerInv'
  BY DEF LifecycleInv, ManagerInv, ConnInv, HoldsConn, Publishes
<1>3. ConnInv'
  BY DEF LifecycleInv, ManagerInv, ConnInv, HoldsConn, Publishes
<1>4. WatchInv'
  BY DEF LifecycleInv, ManagerInv, ConnInv, WatchInv, HoldsConn, Publishes
<1> QED
  BY <1>1, <1>2, <1>3, <1>4

LEMMA StopBeginKeeps ==
  ASSUME IInv, StopBegin
  PROVE  LifecycleInv' /\ ManagerInv' /\ ConnInv' /\ WatchInv'
<1> USE ReconnectorAssumption DEF IInv, TypeOK, Unsettled, Live, lifecycleVars, published
<1> USE DEF StopBegin
<1>1. LifecycleInv'
  BY DEF LifecycleInv
<1>2. ManagerInv'
  BY DEF LifecycleInv, ManagerInv, ConnInv, HoldsConn, Publishes
<1>3. ConnInv'
  BY DEF LifecycleInv, ManagerInv, ConnInv, HoldsConn, Publishes
<1>4. WatchInv'
  BY DEF LifecycleInv, ManagerInv, ConnInv, WatchInv, HoldsConn, Publishes
<1> QED
  BY <1>1, <1>2, <1>3, <1>4

LEMMA StopReturnKeeps ==
  ASSUME IInv, StopReturn
  PROVE  LifecycleInv' /\ ManagerInv' /\ ConnInv' /\ WatchInv'
<1> USE ReconnectorAssumption DEF IInv, TypeOK, Unsettled, Live, lifecycleVars, published
<1> USE DEF StopReturn
<1>1. LifecycleInv'
  BY DEF LifecycleInv
<1>2. ManagerInv'
  BY DEF LifecycleInv, ManagerInv, ConnInv, HoldsConn, Publishes
<1>3. ConnInv'
  BY DEF LifecycleInv, ManagerInv, ConnInv, HoldsConn, Publishes
<1>4. WatchInv'
  BY DEF LifecycleInv, ManagerInv, ConnInv, WatchInv, HoldsConn, Publishes
<1> QED
  BY <1>1, <1>2, <1>3, <1>4

LEMMA ReconnectKeeps ==
  ASSUME IInv, NEW k \in Callers, ReconnectRead(k) \/ ReconnectSend(k)
  PROVE  LifecycleInv' /\ ManagerInv' /\ ConnInv' /\ WatchInv'
<1> USE ReconnectorAssumption DEF IInv, TypeOK, Unsettled, Live, lifecycleVars, published
<1> USE DEF ReconnectRead, ReconnectSend, Garbage
<1>1. LifecycleInv'
  BY DEF LifecycleInv
<1>2. ManagerInv'
  BY DEF LifecycleInv, ManagerInv, ConnInv, HoldsConn, Publishes
<1>3. ConnInv'
  BY DEF LifecycleInv, ManagerInv, ConnInv, HoldsConn, Publishes
<1>4. WatchInv'
  BY DEF LifecycleInv, ManagerInv, ConnInv, WatchInv, HoldsConn, Publishes
<1> QED
  BY <1>1, <1>2, <1>3, <1>4

LEMMA WaitKeeps ==
  ASSUME IInv, WaitElapsed \/ WaitStopped \/ GateClosed
  PROVE  LifecycleInv' /\ ManagerInv' /\ ConnInv' /\ WatchInv'
<1> USE ReconnectorAssumption DEF IInv, TypeOK, Unsettled, Live, lifecycleVars, published
<1> USE DEF WaitElapsed, WaitStopped, GateClosed, ManagerFrame
<1>1. LifecycleInv'
  BY DEF LifecycleInv
<1>2. ManagerInv'
  BY DEF LifecycleInv, ManagerInv, ConnInv, HoldsConn, Publishes
<1>3. ConnInv'
  BY DEF LifecycleInv, ManagerInv, ConnInv, HoldsConn, Publishes
<1>4. WatchInv'
  BY DEF LifecycleInv, ManagerInv, ConnInv, WatchInv, HoldsConn, Publishes
<1> QED
  BY <1>1, <1>2, <1>3, <1>4

LEMMA BeginDialKeeps ==
  ASSUME IInv, NEW c \in Conns, BeginDial(c)
  PROVE  LifecycleInv' /\ ManagerInv' /\ ConnInv' /\ WatchInv'
<1> USE ReconnectorAssumption DEF IInv, TypeOK, Unsettled, Live, lifecycleVars, published
<1> USE DEF BeginDial, Unused, ManagerFrame
<1>1. LifecycleInv'
  BY DEF LifecycleInv
<1>2. ManagerInv'
  BY DEF LifecycleInv, ManagerInv, ConnInv, HoldsConn, Publishes
<1>3. ConnInv'
  BY DEF LifecycleInv, ManagerInv, ConnInv, HoldsConn, Publishes
<1>4. WatchInv'
  BY DEF LifecycleInv, ManagerInv, ConnInv, WatchInv, HoldsConn, Publishes
<1> QED
  BY <1>1, <1>2, <1>3, <1>4

LEMMA DialStoppedKeeps ==
  ASSUME IInv, DialStopped
  PROVE  LifecycleInv' /\ ManagerInv' /\ ConnInv' /\ WatchInv'
<1> USE ReconnectorAssumption DEF IInv, TypeOK, Unsettled, Live, lifecycleVars, published
<1> USE DEF DialStopped, ManagerFrame
<1>1. LifecycleInv'
  BY DEF LifecycleInv
<1>2. ManagerInv'
  BY DEF LifecycleInv, ManagerInv, ConnInv, HoldsConn, Publishes
<1>3. ConnInv'
  BY DEF LifecycleInv, ManagerInv, ConnInv, HoldsConn, Publishes
<1>4. WatchInv'
  BY DEF LifecycleInv, ManagerInv, ConnInv, WatchInv, HoldsConn, Publishes
<1> QED
  BY <1>1, <1>2, <1>3, <1>4

LEMMA DialFailedKeeps ==
  ASSUME IInv, DialFailed
  PROVE  LifecycleInv' /\ ManagerInv' /\ ConnInv' /\ WatchInv'
<1> USE ReconnectorAssumption DEF IInv, TypeOK, Unsettled, Live, lifecycleVars, published
<1> USE DEF DialFailed, ManagerFrame
<1>1. LifecycleInv'
  BY DEF LifecycleInv
<1>2. ManagerInv'
  BY DEF LifecycleInv, ManagerInv, ConnInv, HoldsConn, Publishes
<1>3. ConnInv'
  BY DEF LifecycleInv, ManagerInv, ConnInv, HoldsConn, Publishes
<1>4. WatchInv'
  BY DEF LifecycleInv, ManagerInv, ConnInv, WatchInv, HoldsConn, Publishes
<1> QED
  BY <1>1, <1>2, <1>3, <1>4

LEMMA DialSucceededKeeps ==
  ASSUME IInv, DialSucceeded
  PROVE  LifecycleInv' /\ ManagerInv' /\ ConnInv' /\ WatchInv'
<1> USE ReconnectorAssumption DEF IInv, TypeOK, Unsettled, Live, lifecycleVars, published
<1> USE DEF DialSucceeded, ManagerFrame
<1>1. LifecycleInv'
  BY DEF LifecycleInv
<1>2. ManagerInv'
  BY DEF LifecycleInv, ManagerInv, ConnInv, HoldsConn, Publishes
<1>3. ConnInv'
  BY DEF LifecycleInv, ManagerInv, ConnInv, HoldsConn, Publishes
<1>4. WatchInv'
  BY DEF LifecycleInv, ManagerInv, ConnInv, WatchInv, HoldsConn, Publishes
<1> QED
  BY <1>1, <1>2, <1>3, <1>4

LEMMA DisabledKeeps ==
  ASSUME IInv, DisabledWhileDialing
  PROVE  LifecycleInv' /\ ManagerInv' /\ ConnInv' /\ WatchInv'
<1> USE ReconnectorAssumption DEF IInv, TypeOK, Unsettled, Live, lifecycleVars, published
<1> USE DEF DisabledWhileDialing, Closed, ManagerFrame
<1>1. LifecycleInv'
  BY DEF LifecycleInv
<1>2. ManagerInv'
  BY DEF LifecycleInv, ManagerInv, ConnInv, HoldsConn, Publishes
<1>3. ConnInv'
  BY DEF LifecycleInv, ManagerInv, ConnInv, HoldsConn, Publishes
<1>4. WatchInv'
  BY DEF LifecycleInv, ManagerInv, ConnInv, WatchInv, HoldsConn, Publishes
<1> QED
  BY <1>1, <1>2, <1>3, <1>4

LEMMA AdoptKeeps ==
  ASSUME IInv, StillEnabled \/ Publish
  PROVE  LifecycleInv' /\ ManagerInv' /\ ConnInv' /\ WatchInv'
<1> USE ReconnectorAssumption DEF IInv, TypeOK, Unsettled, Live, lifecycleVars, published
<1> USE DEF StillEnabled, Publish, ManagerFrame
<1>1. LifecycleInv'
  BY DEF LifecycleInv
<1>2. ManagerInv'
  BY DEF LifecycleInv, ManagerInv, ConnInv, HoldsConn, Publishes
<1>3. ConnInv'
  BY DEF LifecycleInv, ManagerInv, ConnInv, HoldsConn, Publishes
<1>4. WatchInv'
  BY DEF LifecycleInv, ManagerInv, ConnInv, WatchInv, HoldsConn, Publishes
<1> QED
  BY <1>1, <1>2, <1>3, <1>4

LEMMA OnUpKeeps ==
  ASSUME IInv, NEW asks \in BOOLEAN, OnUp(asks)
  PROVE  LifecycleInv' /\ ManagerInv' /\ ConnInv' /\ WatchInv'
<1> USE ReconnectorAssumption DEF IInv, TypeOK, Unsettled, Live, lifecycleVars, published
<1> USE DEF OnUp, ManagerFrame
<1>1. LifecycleInv'
  BY DEF LifecycleInv
<1>2. ManagerInv'
  BY DEF LifecycleInv, ManagerInv, ConnInv, HoldsConn, Publishes
<1>3. ConnInv'
  BY DEF LifecycleInv, ManagerInv, ConnInv, HoldsConn, Publishes
<1>4. WatchInv'
  BY DEF LifecycleInv, ManagerInv, ConnInv, WatchInv, HoldsConn, Publishes
<1> QED
  BY <1>1, <1>2, <1>3, <1>4

LEMMA SelectKeeps ==
  ASSUME IInv, SelectStop \/ SelectError \/ OnDown
  PROVE  LifecycleInv' /\ ManagerInv' /\ ConnInv' /\ WatchInv'
<1> USE ReconnectorAssumption DEF IInv, TypeOK, Unsettled, Live, lifecycleVars, published
<1> USE DEF SelectStop, SelectError, OnDown, ManagerFrame
<1>1. LifecycleInv'
  BY DEF LifecycleInv
<1>2. ManagerInv'
  BY DEF LifecycleInv, ManagerInv, ConnInv, HoldsConn, Publishes
<1>3. ConnInv'
  BY DEF LifecycleInv, ManagerInv, ConnInv, HoldsConn, Publishes
<1>4. WatchInv'
  BY DEF LifecycleInv, ManagerInv, ConnInv, WatchInv, HoldsConn, Publishes
<1> QED
  BY <1>1, <1>2, <1>3, <1>4

LEMMA DropKeeps ==
  ASSUME IInv, Drop
  PROVE  LifecycleInv' /\ ManagerInv' /\ ConnInv' /\ WatchInv'
<1> USE ReconnectorAssumption DEF IInv, TypeOK, Unsettled, Live, lifecycleVars, published
<1> USE DEF Drop, ManagerFrame
<1>1. LifecycleInv'
  BY DEF LifecycleInv
<1>2. ManagerInv'
  BY DEF LifecycleInv, ManagerInv, ConnInv, HoldsConn, Publishes
<1>3. ConnInv'
  BY DEF LifecycleInv, ManagerInv, ConnInv, HoldsConn, Publishes
<1>4. WatchInv'
  BY DEF LifecycleInv, ManagerInv, ConnInv, WatchInv, HoldsConn, Publishes
<1> QED
  BY <1>1, <1>2, <1>3, <1>4

LEMMA CloseDroppedKeeps ==
  ASSUME IInv, CloseDropped
  PROVE  LifecycleInv' /\ ManagerInv' /\ ConnInv' /\ WatchInv'
<1> USE ReconnectorAssumption DEF IInv, TypeOK, Unsettled, Live, lifecycleVars, published
<1> USE DEF CloseDropped, Closed, ManagerFrame
<1>1. LifecycleInv'
  BY DEF LifecycleInv
<1>2. ManagerInv'
  BY DEF LifecycleInv, ManagerInv, ConnInv, HoldsConn, Publishes
<1>3. ConnInv'
  BY DEF LifecycleInv, ManagerInv, ConnInv, HoldsConn, Publishes
<1>4. WatchInv'
  BY DEF LifecycleInv, ManagerInv, ConnInv, WatchInv, HoldsConn, Publishes
<1> QED
  BY <1>1, <1>2, <1>3, <1>4

LEMMA DialedKeeps ==
  ASSUME IInv, NEW c \in Conns, NEW result \in {"open", "failed"}, Dialed(c, result)
  PROVE  LifecycleInv' /\ ManagerInv' /\ ConnInv' /\ WatchInv'
<1> USE ReconnectorAssumption DEF IInv, TypeOK, Unsettled, Live, lifecycleVars, published
<1> USE DEF Dialed, ConnFrame
<1>1. LifecycleInv'
  BY DEF LifecycleInv
<1>2. ManagerInv'
  BY DEF LifecycleInv, ManagerInv, ConnInv, HoldsConn, Publishes
<1>3. ConnInv'
  BY DEF LifecycleInv, ManagerInv, ConnInv, HoldsConn, Publishes
<1>4. WatchInv'
  BY DEF LifecycleInv, ManagerInv, ConnInv, WatchInv, HoldsConn, Publishes
<1> QED
  BY <1>1, <1>2, <1>3, <1>4

LEMMA CloseLateKeeps ==
  ASSUME IInv, NEW c \in Conns, CloseLate(c)
  PROVE  LifecycleInv' /\ ManagerInv' /\ ConnInv' /\ WatchInv'
<1> USE ReconnectorAssumption DEF IInv, TypeOK, Unsettled, Live, lifecycleVars, published
<1> USE DEF CloseLate, Closed, ConnFrame
<1>1. LifecycleInv'
  BY DEF LifecycleInv
<1>2. ManagerInv'
  BY DEF LifecycleInv, ManagerInv, ConnInv, HoldsConn, Publishes
<1>3. ConnInv'
  BY DEF LifecycleInv, ManagerInv, ConnInv, HoldsConn, Publishes
<1>4. WatchInv'
  BY DEF LifecycleInv, ManagerInv, ConnInv, WatchInv, HoldsConn, Publishes
<1> QED
  BY <1>1, <1>2, <1>3, <1>4

LEMMA TransportBreaksKeeps ==
  ASSUME IInv, NEW c \in Conns, TransportBreaks(c)
  PROVE  LifecycleInv' /\ ManagerInv' /\ ConnInv' /\ WatchInv'
<1> USE ReconnectorAssumption DEF IInv, TypeOK, Unsettled, Live, lifecycleVars, published
<1> USE DEF TransportBreaks, ConnFrame
<1>1. LifecycleInv'
  BY DEF LifecycleInv
<1>2. ManagerInv'
  BY DEF LifecycleInv, ManagerInv, ConnInv, HoldsConn, Publishes
<1>3. ConnInv'
  BY DEF LifecycleInv, ManagerInv, ConnInv, HoldsConn, Publishes
<1>4. WatchInv'
  BY DEF LifecycleInv, ManagerInv, ConnInv, WatchInv, HoldsConn, Publishes
<1> QED
  BY <1>1, <1>2, <1>3, <1>4

LEMMA WatchKeeps ==
  ASSUME IInv, NEW c \in Conns,
         WatchFails(c) \/ WatchReports(c) \/ WatchReturns(c)
  PROVE  LifecycleInv' /\ ManagerInv' /\ ConnInv' /\ WatchInv'
<1> USE ReconnectorAssumption DEF IInv, TypeOK, Unsettled, Live, lifecycleVars, published
<1> USE DEF WatchFails, WatchReports, WatchReturns, Garbage, ConnFrame
<1>1. LifecycleInv'
  BY DEF LifecycleInv
<1>2. ManagerInv'
  BY DEF LifecycleInv, ManagerInv, ConnInv, HoldsConn, Publishes
<1>3. ConnInv'
  BY DEF LifecycleInv, ManagerInv, ConnInv, HoldsConn, Publishes
<1>4. WatchInv'
  BY DEF LifecycleInv, ManagerInv, ConnInv, WatchInv, HoldsConn, Publishes
<1> QED
  BY <1>1, <1>2, <1>3, <1>4

LEMMA SetEnabledKeeps ==
  ASSUME IInv, NEW b \in BOOLEAN, SetEnabled(b)
  PROVE  LifecycleInv' /\ ManagerInv' /\ ConnInv' /\ WatchInv'
<1> USE ReconnectorAssumption DEF IInv, TypeOK, Unsettled, Live, lifecycleVars, published
<1> USE DEF SetEnabled
<1>1. LifecycleInv'
  BY DEF LifecycleInv
<1>2. ManagerInv'
  BY DEF LifecycleInv, ManagerInv, ConnInv, HoldsConn, Publishes
<1>3. ConnInv'
  BY DEF LifecycleInv, ManagerInv, ConnInv, HoldsConn, Publishes
<1>4. WatchInv'
  BY DEF LifecycleInv, ManagerInv, ConnInv, WatchInv, HoldsConn, Publishes
<1> QED
  BY <1>1, <1>2, <1>3, <1>4

-----------------------------------------------------------------------------
(* The invariant, and what follows from it.                                 *)

LEMMA InitEstablishes == Init => IInv
<1> SUFFICES ASSUME Init PROVE IInv
  OBVIOUS
<1>1. TypeOK
  BY TypeInvariance
<1>2. LifecycleInv /\ ManagerInv
  BY ReconnectorAssumption DEF Init, LifecycleInv, ManagerInv, HoldsConn, Publishes
<1>3. ConnInv /\ WatchInv
  BY ReconnectorAssumption DEF Init, ConnInv, WatchInv, Unsettled
<1> QED
  BY <1>1, <1>2, <1>3 DEF IInv

LEMMA ManagerKeeps ==
  ASSUME IInv, Manager
  PROVE  LifecycleInv' /\ ManagerInv' /\ ConnInv' /\ WatchInv'
BY WaitKeeps, BeginDialKeeps, DialStoppedKeeps, DialFailedKeeps, DialSucceededKeeps,
   DisabledKeeps, AdoptKeeps, OnUpKeeps, SelectKeeps, DropKeeps, CloseDroppedKeeps
DEF Manager

LEMMA NextKeeps == IInv /\ [Next]_vars => IInv'
<1> SUFFICES ASSUME IInv, [Next]_vars PROVE IInv'
  OBVIOUS
<1>1. TypeOK'
  BY TypeInvariance DEF IInv
<1>2. LifecycleInv' /\ ManagerInv' /\ ConnInv' /\ WatchInv'
  <2>1. CASE Next
    BY <2>1, StartKeeps, StopBeginKeeps, StopReturnKeeps, ReconnectKeeps, ManagerKeeps,
       DialedKeeps, CloseLateKeeps, TransportBreaksKeeps, WatchKeeps, SetEnabledKeeps
    DEF Next
  <2>2. CASE UNCHANGED vars
    BY <2>2 DEF vars, IInv, LifecycleInv, ManagerInv, ConnInv, WatchInv, Unsettled, Live
  <2> QED
    BY <2>1, <2>2
<1> QED
  BY <1>1, <1>2 DEF IInv

\* The inductive invariant holds in every reachable state.
THEOREM Invariance == Spec => []IInv
BY InitEstablishes, NextKeeps, PTL DEF Spec

\* Every variable keeps its type, through every step of every goroutine.
THEOREM TypeCorrect == Spec => []TypeOK
<1>1. IInv => TypeOK
  BY DEF IInv
<1> QED
  BY <1>1, Invariance, PTL

\* However many runs, dials and calls of Reconnect there are, of the
\* connections that no closing goroutine owns at most one is live.
THEOREM AtMostOneLive == Spec => []OneLiveConnection
<1>1. IInv => OneLiveConnection
  BY DEF IInv, ConnInv, OneLiveConnection, Unsettled, Live
<1> QED
  BY <1>1, Invariance, PTL

\* No path closes a connection that was closed before.
THEOREM CloseAtMostOnce == Spec => []ClosedOnce
<1>1. IInv => ClosedOnce
  BY DEF IInv, ConnInv, ClosedOnce
<1> QED
  BY <1>1, Invariance, PTL

\* What Current returns was not closed, and its error channel is the published one.
THEOREM CurrentIsLive == Spec => []PublishedIsLive
<1>1. IInv => PublishedIsLive
  BY ReconnectorAssumption
  DEF IInv, ManagerInv, HoldsConn, Publishes, PublishedIsLive
<1> QED
  BY <1>1, Invariance, PTL

\* Stop has waited for everything the run started but the abandoned dials.
THEOREM StopIsComplete == Spec => []StopLeavesNothing
<1>1. IInv => StopLeavesNothing
  BY ReconnectorAssumption
  DEF IInv, LifecycleInv, ManagerInv, ConnInv, WatchInv, HoldsConn, Publishes,
      Unsettled, Live, StopLeavesNothing
<1> QED
  BY <1>1, Invariance, PTL

\* A Watch failure found in the channel of the published generation is its own.
THEOREM FailuresAreOwn == Spec => []OnlyOwnFailure
<1>1. IInv => OnlyOwnFailure
  BY DEF IInv, TypeOK, WatchInv, OnlyOwnFailure
<1> QED
  BY <1>1, Invariance, PTL

\* The first retry after an adopted connection waits the delay of attempt 0.
THEOREM BackoffRestarts == Spec => []BackoffStartsOver
<1>1. IInv => BackoffStartsOver
  BY DEF IInv, ManagerInv, BackoffStartsOver
<1> QED
  BY <1>1, Invariance, PTL

-----------------------------------------------------------------------------
(* The reconnector implements ConnectionLifecycle.                          *)

\* A step after which one connection has another status.
LEMMA OneStatusChanges ==
  ASSUME NEW c \in Conns, NEW v, Status(c)' = v,
         \A d \in Conns \ {c} : Status(d)' = Status(d)
  PROVE  [d \in Conns |-> Status(d)]' = [[d \in Conns |-> Status(d)] EXCEPT ![c] = v]
OBVIOUS

\* A step that leaves alone what Status and running are computed from.
LEMMA Stutters ==
  ASSUME conn' = conn, current' = current, orphans' = orphans,
         mgr' \in {"close", "closeStop"} <=> mgr \in {"close", "closeStop"},
         (stopChannel' = "nil") <=> (stopChannel = "nil")
  PROVE  UNCHANGED Lifecycle!vars
<1>1. \A c \in Conns : Status(c)' = Status(c)
  BY DEF Status, Live
<1> QED
  BY <1>1 DEF Lifecycle!vars

LEMMA LifecycleSteps ==
  ASSUME IInv, Start \/ StopBegin \/ StopReturn
  PROVE  [Lifecycle!Next]_(Lifecycle!vars)
<1> USE DEF IInv, LifecycleInv
<1>1. CASE Start
  <2>1. \A c \in Conns : Status(c)' = Status(c)
    BY <1>1 DEF Start, Status, Live, published
  <2>2. Lifecycle!Begin
    BY <1>1, <2>1 DEF Start, Lifecycle!Begin
  <2> QED
    BY <2>2 DEF Lifecycle!Next
<1>2. CASE StopBegin
  BY <1>2, Stutters DEF StopBegin, published
<1>3. CASE StopReturn
  <2>1. \A c \in Conns : Status(c)' = Status(c)
    BY <1>3 DEF StopReturn, Status, Live, published
  <2>2. \A c \in Conns : Status(c) \in {"absent", "retired"}
    <3>1. current \notin Conns /\ \A c \in Conns : Live(c) => c \in orphans
      BY <1>3, ReconnectorAssumption
      DEF StopReturn, Live, ManagerInv, ConnInv, HoldsConn, Publishes, Unsettled
    <3> QED
      BY <3>1 DEF Status
  <2>3. Lifecycle!End
    BY <1>3, <2>1, <2>2 DEF StopReturn, Lifecycle!End
  <2> QED
    BY <2>3 DEF Lifecycle!Next
<1> QED
  BY <1>1, <1>2, <1>3

\* The manager's steps that change no status.
LEMMA SilentManagerSteps ==
  ASSUME IInv,
         \/ WaitElapsed \/ WaitStopped \/ GateClosed
         \/ DialSucceeded \/ StillEnabled \/ \E asks \in BOOLEAN : OnUp(asks)
         \/ SelectStop \/ SelectError \/ OnDown
  PROVE  UNCHANGED Lifecycle!vars
<1> USE DEF ManagerFrame, lifecycleVars, published
<1>1. conn' = conn /\ current' = current /\ orphans' = orphans /\ stopChannel' = stopChannel
  BY DEF WaitElapsed, WaitStopped, GateClosed, DialSucceeded, StillEnabled, OnUp,
         SelectStop, SelectError, OnDown
<1>2. mgr' \notin {"close", "closeStop"} /\ mgr \notin {"close", "closeStop"}
  BY DEF WaitElapsed, WaitStopped, GateClosed, DialSucceeded, StillEnabled, OnUp,
         SelectStop, SelectError, OnDown
<1> QED
  BY <1>1, <1>2, Stutters

LEMMA BeginDialSilent ==
  ASSUME IInv, NEW c \in Conns, BeginDial(c)
  PROVE  UNCHANGED Lifecycle!vars
<1> USE DEF ManagerFrame, lifecycleVars, published
<1>1. \A d \in Conns : Status(d)' = Status(d)
  BY DEF BeginDial, Unused, Status, Live, IInv, TypeOK
<1> QED
  BY <1>1 DEF BeginDial, Lifecycle!vars

LEMMA DialOutcomeSteps ==
  ASSUME IInv, DialStopped \/ DialFailed \/ DisabledWhileDialing
  PROVE  [Lifecycle!Next]_(Lifecycle!vars)
<1> USE ReconnectorAssumption
    DEF ManagerFrame, lifecycleVars, published, IInv, TypeOK, ManagerInv, HoldsConn, Publishes
<1>1. gen \in Conns /\ gen \notin orphans /\ current = NoConn
      /\ mgr \notin {"close", "closeStop"}
  BY DEF DialStopped, DialFailed, DisabledWhileDialing
<1>c. PICK c \in Conns : c = gen
  BY <1>1
<1>2. CASE DialStopped
  <2>1. \A d \in Conns \ {c} : Status(d)' = Status(d)
    BY <1>1, <1>c, <1>2 DEF DialStopped, Status, Live
  <2>2. CASE Live(c)
    <3>1. Status(c) = "established" /\ Status(c)' = "retired"
      BY <1>1, <1>c, <1>2, <2>2 DEF DialStopped, Status, Live
    <3>2. Lifecycle!Retire(c)
      BY <1>1, <1>c, <1>2, <2>1, <3>1, OneStatusChanges DEF DialStopped, Lifecycle!Retire
    <3> QED
      BY <1>1, <1>c, <3>2 DEF Lifecycle!Next
  <2>3. CASE ~Live(c)
    <3>1. Status(c)' = Status(c)
      BY <1>1, <1>c, <1>2, <2>3 DEF DialStopped, Status, Live
    <3> QED
      BY <1>2, <2>1, <3>1 DEF DialStopped, Lifecycle!vars
  <2> QED
    BY <2>2, <2>3
<1>3. CASE DialFailed
  <2>1. \A d \in Conns : Status(d)' = Status(d)
    BY <1>1, <1>c, <1>3 DEF DialFailed, Status, Live
  <2> QED
    BY <1>3, <2>1 DEF DialFailed, Lifecycle!vars
<1>4. CASE DisabledWhileDialing
  <2>1. \A d \in Conns \ {c} : Status(d)' = Status(d)
    BY <1>1, <1>c, <1>4 DEF DisabledWhileDialing, Closed, Status, Live
  <2>2. Status(c) = "established" /\ Status(c)' = "absent"
    BY <1>1, <1>c, <1>4 DEF DisabledWhileDialing, Closed, Status, Live
  <2>3. Lifecycle!Release(c)
    BY <1>1, <1>c, <1>4, <2>1, <2>2, OneStatusChanges DEF DisabledWhileDialing, Lifecycle!Release
  <2> QED
    BY <1>1, <1>c, <2>3 DEF Lifecycle!Next
<1> QED
  BY <1>2, <1>3, <1>4

LEMMA PublishAdopts ==
  ASSUME IInv, Publish
  PROVE  [Lifecycle!Next]_(Lifecycle!vars)
<1> USE ReconnectorAssumption
    DEF ManagerFrame, lifecycleVars, published, IInv, TypeOK, LifecycleInv, ManagerInv,
        HoldsConn, Publishes, Publish
<1>1. gen \in Conns /\ gen \notin orphans /\ Live(gen) /\ current = NoConn
      /\ stopChannel # "nil"
  OBVIOUS
<1>2. \A d \in Conns \ {gen} : Status(d)' = Status(d)
  BY <1>1 DEF Status, Live
<1>3. Status(gen) = "established" /\ Status(gen)' = "up"
  BY <1>1 DEF Status, Live
<1>4. \A d \in Conns : Status(d) # "up"
  BY <1>1 DEF Status
<1>5. Lifecycle!Adopt(gen)
  BY <1>1, <1>2, <1>3, <1>4, OneStatusChanges DEF Lifecycle!Adopt
<1> QED
  BY <1>1, <1>5 DEF Lifecycle!Next

LEMMA DropRetires ==
  ASSUME IInv, Drop
  PROVE  [Lifecycle!Next]_(Lifecycle!vars)
<1> USE ReconnectorAssumption
    DEF ManagerFrame, lifecycleVars, published, IInv, TypeOK, ManagerInv, HoldsConn,
        Publishes, Drop
<1>1. gen \in Conns /\ current = gen /\ Live(gen) /\ mgr' \in {"close", "closeStop"}
  OBVIOUS
<1>2. \A d \in Conns \ {gen} : Live(d) => d \in orphans
  BY <1>1 DEF ConnInv, Unsettled, Live
<1>3. \A d \in Conns \ {gen} : Status(d)' = Status(d)
  BY <1>1, <1>2 DEF Status, Live
<1>4. Status(gen) = "up" /\ Status(gen)' = "retired"
  BY <1>1 DEF Status, Live
<1>5. Lifecycle!Retire(gen)
  BY <1>1, <1>3, <1>4, OneStatusChanges DEF Lifecycle!Retire
<1> QED
  BY <1>1, <1>5 DEF Lifecycle!Next

LEMMA CloseReleases ==
  ASSUME IInv, CloseDropped
  PROVE  [Lifecycle!Next]_(Lifecycle!vars)
<1> USE ReconnectorAssumption
    DEF ManagerFrame, lifecycleVars, published, IInv, TypeOK, ManagerInv, HoldsConn,
        Publishes, CloseDropped, Closed
<1>1. gen \in Conns /\ current = NoConn /\ Live(gen) /\ mgr \in {"close", "closeStop"}
  OBVIOUS
<1>c. PICK c \in Conns : c = gen
  BY <1>1
<1>2. \A d \in Conns \ {c} : Live(d) => d \in orphans
  BY <1>1, <1>c DEF ConnInv, Unsettled, Live
<1>3. \A d \in Conns \ {c} : Status(d)' = Status(d)
  BY <1>1, <1>c, <1>2 DEF Status, Live
<1>4. Status(c) = "retired" /\ Status(c)' = "absent"
  BY <1>1, <1>c DEF Status, Live
<1>5. Lifecycle!Release(c)
  BY <1>1, <1>c, <1>3, <1>4, OneStatusChanges DEF Lifecycle!Release
<1> QED
  BY <1>1, <1>c, <1>5 DEF Lifecycle!Next

LEMMA DialedEstablishes ==
  ASSUME IInv, NEW c \in Conns, NEW result \in {"open", "failed"}, Dialed(c, result)
  PROVE  [Lifecycle!Next]_(Lifecycle!vars)
<1> USE ReconnectorAssumption
    DEF ConnFrame, lifecycleVars, published, IInv, TypeOK, LifecycleInv, ManagerInv, HoldsConn,
        Publishes, Dialed
<1>1. ~Live(c) /\ (c = gen \/ c \in orphans) /\ c # current
  BY DEF ConnInv, Unsettled, Live
<1>2. \A d \in Conns \ {c} : Status(d)' = Status(d)
  BY DEF Status, Live
<1>3. Status(c) = "absent"
  BY <1>1 DEF Status
<1>4. CASE result = "failed"
  BY <1>1, <1>2, <1>4 DEF Status, Live, Lifecycle!vars
<1>5. CASE result = "open" /\ c \in orphans
  <2>1. Status(c)' = "retired"
    BY <1>1, <1>5 DEF Status, Live
  <2>2. Lifecycle!Establish(c)
    BY <1>2, <1>3, <2>1, OneStatusChanges DEF Lifecycle!Establish
  <2> QED
    BY <2>2 DEF Lifecycle!Next
<1>6. CASE result = "open" /\ c \notin orphans
  <2>1. c = gen /\ mgr = "dial" /\ stopChannel # "nil"
    BY <1>1, <1>6 DEF Live
  <2>2. Status(c)' = "established"
    BY <1>1, <1>6, <2>1 DEF Status, Live
  <2>3. Lifecycle!Establish(c)
    BY <1>2, <1>3, <2>1, <2>2, OneStatusChanges DEF Lifecycle!Establish
  <2> QED
    BY <2>3 DEF Lifecycle!Next
<1> QED
  BY <1>4, <1>5, <1>6

LEMMA CloseLateReleases ==
  ASSUME IInv, NEW c \in Conns, CloseLate(c)
  PROVE  [Lifecycle!Next]_(Lifecycle!vars)
<1> USE ReconnectorAssumption
    DEF ConnFrame, lifecycleVars, published, IInv, TypeOK, ManagerInv, HoldsConn,
        Publishes, CloseLate, Closed
<1>1. c \in orphans /\ c # current
  OBVIOUS
<1>2. \A d \in Conns \ {c} : Status(d)' = Status(d)
  BY DEF Status, Live
<1>3. CASE conn[c] = "failed"
  BY <1>2, <1>3 DEF Status, Live, Lifecycle!vars
<1>4. CASE conn[c] # "failed"
  <2>1. Live(c)
    BY <1>1, <1>4 DEF ConnInv, Unsettled, Live
  <2>2. Status(c) = "retired" /\ Status(c)' = "absent"
    BY <1>1, <1>4, <2>1 DEF Status, Live
  <2>3. Lifecycle!Release(c)
    BY <1>2, <2>2, OneStatusChanges DEF Lifecycle!Release
  <2> QED
    BY <2>3 DEF Lifecycle!Next
<1> QED
  BY <1>3, <1>4

\* The callers, the transport, the Watch goroutines and the Enabled switch.
LEMMA EnvironmentSilent ==
  ASSUME IInv,
         \/ \E k \in Callers : ReconnectRead(k) \/ ReconnectSend(k)
         \/ \E c \in Conns : TransportBreaks(c)
         \/ \E c \in Conns : WatchFails(c) \/ WatchReports(c) \/ WatchReturns(c)
         \/ \E b \in BOOLEAN : SetEnabled(b)
  PROVE  UNCHANGED Lifecycle!vars
<1> USE DEF ConnFrame, lifecycleVars, published
<1>1. CASE \E c \in Conns : TransportBreaks(c)
  <2>1. \A d \in Conns : Status(d)' = Status(d)
    BY <1>1 DEF TransportBreaks, Status, Live, IInv, TypeOK
  <2> QED
    BY <1>1, <2>1 DEF TransportBreaks, Lifecycle!vars
<1>2. CASE ~ \E c \in Conns : TransportBreaks(c)
  <2>1. /\ conn' = conn /\ current' = current /\ orphans' = orphans
        /\ mgr' = mgr /\ stopChannel' = stopChannel
    BY <1>2 DEF ReconnectRead, ReconnectSend, WatchFails, WatchReports, WatchReturns, SetEnabled
  <2> QED
    BY <2>1, Stutters
<1> QED
  BY <1>1, <1>2

\* Every step of the manager, its goroutines, its callers and its connections
\* is a step of the lifecycle the package promises, or no step of it at all.
THEOREM Refinement == Spec => ImplementsLifecycle
<1>1. Init => Lifecycle!Init
  BY DEF Init, Lifecycle!Init, Status, Live
<1>2. IInv /\ [Next]_vars => [Lifecycle!Next]_(Lifecycle!vars)
  <2> SUFFICES ASSUME IInv, [Next]_vars
               PROVE  [Lifecycle!Next]_(Lifecycle!vars)
    OBVIOUS
  <2>1. CASE Manager
    BY <2>1, SilentManagerSteps, BeginDialSilent, DialOutcomeSteps, PublishAdopts,
       DropRetires, CloseReleases
    DEF Manager
  <2>2. CASE UNCHANGED vars
    BY <2>2, Stutters DEF vars
  <2> QED
    BY <2>1, <2>2, LifecycleSteps, DialedEstablishes, CloseLateReleases, EnvironmentSilent
    DEF Next
<1> QED
  BY <1>1, <1>2, Invariance, PTL DEF Spec, ImplementsLifecycle, Lifecycle!Spec

=============================================================================
