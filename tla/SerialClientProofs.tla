--------------------------- MODULE SerialClientProofs ---------------------------
(***************************************************************************)
(* Theorems about the serial package, in two parts that share nothing but  *)
(* the package.  SerialClient, its connection: for every set of            *)
(* generations and of COM settings and every value of the bounds.          *)
(* SliderEvents, the way of a reading through it: for every number of      *)
(* sliders, every set of readings and of settings.                         *)
(***************************************************************************)
EXTENDS SerialClient, SliderEvents, ReconnectorProofs, SequenceTheorems

-----------------------------------------------------------------------------
(* The client is a reconnector: whatever is proved of Spec holds of it.     *)

\* What the client does is a step of its reconnector, or none of it.
LEMMA StepsOfReconnector == [SerialNext]_allVars => [Next]_vars
<1> SUFFICES ASSUME [SerialNext]_allVars PROVE [Next]_vars
  OBVIOUS
<1>1. CASE \/ \E p \in Params : ChangeParams(p)
           \/ Notify \/ ClientStop \/ \E c \in Conns : DialReads(c)
  BY <1>1 DEF ChangeParams, Notify, ClientStop, DialReads
<1>2. CASE WorkerStep
  <2>1. Worker \in Callers
    BY SerialAssumption
  <2> QED
    BY <1>2, <2>1
    DEF WorkerStep, WorkerWakes, WorkerReadsValues, WorkerCompares, WorkerReconnects,
        WorkerSends, WorkerQuits, Next
<1>3. CASE ClientStart \/ ClientStopsReconnector \/ ClientStopped
  BY <1>3 DEF ClientStart, ClientStopsReconnector, ClientStopped, Next
<1>4. CASE SerialManager
  BY <1>4
  DEF SerialManager, PlainManager, SerialDialFailed, SerialOnUp, SerialCloseDropped,
      Manager, Next
<1>5. CASE \E c \in Conns :
             \/ \E result \in {"open", "failed"} : SerialDialed(c, result)
             \/ SerialCloseLate(c) \/ SerialBreaks(c) \/ SerialWatch(c)
  BY <1>5 DEF SerialDialed, SerialCloseLate, SerialBreaks, SerialWatch, Next
<1>6. CASE UNCHANGED allVars
  BY <1>6 DEF allVars
<1> QED
  BY <1>1, <1>2, <1>3, <1>4, <1>5, <1>6 DEF SerialNext

\* A serial client behaves as a Reconnector: one live connection, each closed
\* once, and everything else the package promises.
THEOREM ClientIsAReconnector == SerialSpec => Spec
<1>1. SerialInit => Init
  BY DEF SerialInit
<1> QED
  BY <1>1, StepsOfReconnector, PTL DEF SerialSpec, Spec

\* With its settings worker, its events and its own Start and Stop, the client
\* still goes through the lifecycle the reconnect package promises.
THEOREM ClientImplementsLifecycle == SerialSpec => ImplementsLifecycle
BY ClientIsAReconnector, Refinement

-----------------------------------------------------------------------------
(* The inductive invariant of the client.                                   *)

\* The client and its reconnector are started and stopped together, and the
\* worker outlives no Stop.
ClientInv ==
  /\ client = "new" => stopChannel = "nil"
  /\ client = "started" => stopChannel = "open"
  /\ client = "stopping" => stopChannel # "closed"
  /\ client = "closing" => stopChannel = "closed"
  /\ client = "stopped" => stopChannel = "nil"
  /\ client \in {"new", "started"} => worker # "done"

\* Only a worker about to send holds an error channel.
SenderInv == worker = "sending" <=> snap[Worker] # NoConn

\* The consumers know of the manager's connection or of none.
AnnouncedInv ==
  \/ /\ shown = "disconnected"
     /\ adopted = {}
     /\ mgr = "select" => buf[current] # "empty" \/ stopChannel = "closed"
  \/ /\ shown = "connected"
     /\ adopted = {gen}
     /\ mgr \in {"select", "onDown", "drop", "close", "dropStop", "closeStop"}

ClientIInv ==
  /\ IInv
  /\ SerialTypeOK
  /\ ClientInv
  /\ SenderInv
  /\ StaleIsNoticed
  /\ AnnouncedInv

\* Every operation leaves each variable in its type.
LEMMA SerialTypeKept ==
  ASSUME ClientIInv, TypeOK', [SerialNext]_allVars
  PROVE  SerialTypeOK'
<1> USE ReconnectorAssumption, SerialAssumption
    DEF ClientIInv, SerialTypeOK, IInv, ManagerInv, HoldsConn,
           allVars, vars, serialVars, settingsVars, workerVars, eventVars,
           lifecycleVars, published
<1>1. ASSUME NEW p \in Params, ChangeParams(p)
      PROVE  SerialTypeOK'
  BY <1>1 DEF ChangeParams
<1>2. CASE Notify
  BY <1>2 DEF Notify
<1>3. CASE WorkerWakes
  BY <1>3 DEF WorkerWakes, WorkerFrame
<1>4. CASE WorkerReadsValues
  BY <1>4 DEF WorkerReadsValues, WorkerFrame
<1>5. CASE WorkerCompares
  BY <1>5 DEF WorkerCompares, WorkerFrame
<1>6. CASE WorkerReconnects
  BY <1>6 DEF WorkerReconnects, ReconnectRead, WorkerFrame
<1>7. CASE WorkerSends
  BY <1>7 DEF WorkerSends, ReconnectSend, WorkerFrame
<1>8. CASE WorkerQuits
  BY <1>8 DEF WorkerQuits, WorkerFrame
<1>9. CASE ClientStart
  BY <1>9 DEF ClientStart, Start, ClientFrame
<1>10. CASE ClientStop
  BY <1>10 DEF ClientStop, ClientFrame
<1>11. CASE ClientStopsReconnector
  BY <1>11 DEF ClientStopsReconnector, StopBegin, ClientFrame
<1>12. CASE ClientStopped
  BY <1>12 DEF ClientStopped, StopReturn, ClientFrame
<1>13. CASE PlainManager
  BY <1>13 DEF PlainManager, WaitElapsed, WaitStopped, BeginDial, DialStopped,
     DialSucceeded, StillEnabled, Publish, SelectStop, SelectError, OnDown, Drop, ManagerFrame
<1>14. CASE SerialDialFailed
  BY <1>14 DEF SerialDialFailed, DialFailed, ManagerFrame
<1>15. CASE SerialOnUp
  BY <1>15 DEF SerialOnUp, OnUp, Deliver, ManagerFrame
<1>16. CASE SerialCloseDropped
  BY <1>16 DEF SerialCloseDropped, CloseDropped, Closed, ReportClose, Deliver, ManagerFrame
<1>17. ASSUME NEW c \in Conns, DialReads(c)
      PROVE  SerialTypeOK'
  BY <1>17 DEF DialReads
<1>18. ASSUME NEW c \in Conns, NEW result \in {"open", "failed"}, SerialDialed(c, result)
      PROVE  SerialTypeOK'
  BY <1>18 DEF SerialDialed, Dialed, ConnFrame
<1>19. ASSUME NEW c \in Conns, SerialCloseLate(c)
      PROVE  SerialTypeOK'
  BY <1>19 DEF SerialCloseLate, CloseLate, Closed, ReportClose, Deliver, ConnFrame
<1>20. ASSUME NEW c \in Conns, SerialBreaks(c)
      PROVE  SerialTypeOK'
  BY <1>20 DEF SerialBreaks, TransportBreaks, ConnFrame
<1>21. ASSUME NEW c \in Conns, SerialWatch(c)
      PROVE  SerialTypeOK'
  BY <1>21 DEF SerialWatch, WatchFails, WatchReports, WatchReturns, ConnFrame
<1>22. CASE UNCHANGED allVars
  BY <1>22
<1> QED
  BY <1>1, <1>2, <1>3, <1>4, <1>5, <1>6, <1>7, <1>8, <1>9, <1>10, <1>11,
     <1>12, <1>13, <1>14, <1>15, <1>16, <1>17, <1>18, <1>19, <1>20, <1>21, <1>22
  DEF SerialNext, WorkerStep, SerialManager

\* Start, Stop and the worker's end happen in this order.
LEMMA ClientKept ==
  ASSUME ClientIInv, [SerialNext]_allVars
  PROVE  ClientInv'
<1> USE ReconnectorAssumption, SerialAssumption
    DEF ClientIInv, ClientInv, SerialTypeOK, TypeOK, IInv, LifecycleInv,
           allVars, vars, serialVars, settingsVars, workerVars, eventVars,
           lifecycleVars, published
<1>1. ASSUME NEW p \in Params, ChangeParams(p)
      PROVE  ClientInv'
  BY <1>1 DEF ChangeParams
<1>2. CASE Notify
  BY <1>2 DEF Notify
<1>3. CASE WorkerWakes
  BY <1>3 DEF WorkerWakes, WorkerFrame
<1>4. CASE WorkerReadsValues
  BY <1>4 DEF WorkerReadsValues, WorkerFrame
<1>5. CASE WorkerCompares
  BY <1>5 DEF WorkerCompares, WorkerFrame
<1>6. CASE WorkerReconnects
  BY <1>6 DEF WorkerReconnects, ReconnectRead, WorkerFrame
<1>7. CASE WorkerSends
  BY <1>7 DEF WorkerSends, ReconnectSend, WorkerFrame
<1>8. CASE WorkerQuits
  BY <1>8 DEF WorkerQuits, WorkerFrame
<1>9. CASE ClientStart
  BY <1>9 DEF ClientStart, Start, ClientFrame
<1>10. CASE ClientStop
  BY <1>10 DEF ClientStop, ClientFrame
<1>11. CASE ClientStopsReconnector
  BY <1>11 DEF ClientStopsReconnector, StopBegin, ClientFrame
<1>12. CASE ClientStopped
  BY <1>12 DEF ClientStopped, StopReturn, ClientFrame
<1>13. CASE PlainManager
  BY <1>13 DEF PlainManager, WaitElapsed, WaitStopped, BeginDial, DialStopped,
     DialSucceeded, StillEnabled, Publish, SelectStop, SelectError, OnDown, Drop, ManagerFrame
<1>14. CASE SerialDialFailed
  BY <1>14 DEF SerialDialFailed, DialFailed, ManagerFrame
<1>15. CASE SerialOnUp
  BY <1>15 DEF SerialOnUp, OnUp, Deliver, ManagerFrame
<1>16. CASE SerialCloseDropped
  BY <1>16 DEF SerialCloseDropped, CloseDropped, Closed, ReportClose, Deliver, ManagerFrame
<1>17. ASSUME NEW c \in Conns, DialReads(c)
      PROVE  ClientInv'
  BY <1>17 DEF DialReads
<1>18. ASSUME NEW c \in Conns, NEW result \in {"open", "failed"}, SerialDialed(c, result)
      PROVE  ClientInv'
  BY <1>18 DEF SerialDialed, Dialed, ConnFrame
<1>19. ASSUME NEW c \in Conns, SerialCloseLate(c)
      PROVE  ClientInv'
  BY <1>19 DEF SerialCloseLate, CloseLate, Closed, ReportClose, Deliver, ConnFrame
<1>20. ASSUME NEW c \in Conns, SerialBreaks(c)
      PROVE  ClientInv'
  BY <1>20 DEF SerialBreaks, TransportBreaks, ConnFrame
<1>21. ASSUME NEW c \in Conns, SerialWatch(c)
      PROVE  ClientInv'
  BY <1>21 DEF SerialWatch, WatchFails, WatchReports, WatchReturns, ConnFrame
<1>22. CASE UNCHANGED allVars
  BY <1>22
<1> QED
  BY <1>1, <1>2, <1>3, <1>4, <1>5, <1>6, <1>7, <1>8, <1>9, <1>10, <1>11,
     <1>12, <1>13, <1>14, <1>15, <1>16, <1>17, <1>18, <1>19, <1>20, <1>21, <1>22
  DEF SerialNext, WorkerStep, SerialManager

\* The worker reads the error channel and sends to it in turn.
LEMMA SenderKept ==
  ASSUME ClientIInv, [SerialNext]_allVars
  PROVE  SenderInv'
<1> USE ReconnectorAssumption, SerialAssumption
    DEF ClientIInv, SenderInv, SerialTypeOK, TypeOK,
           allVars, vars, serialVars, settingsVars, workerVars, eventVars,
           lifecycleVars, published
<1>1. ASSUME NEW p \in Params, ChangeParams(p)
      PROVE  SenderInv'
  BY <1>1 DEF ChangeParams
<1>2. CASE Notify
  BY <1>2 DEF Notify
<1>3. CASE WorkerWakes
  BY <1>3 DEF WorkerWakes, WorkerFrame
<1>4. CASE WorkerReadsValues
  BY <1>4 DEF WorkerReadsValues, WorkerFrame
<1>5. CASE WorkerCompares
  BY <1>5 DEF WorkerCompares, WorkerFrame
<1>6. CASE WorkerReconnects
  BY <1>6 DEF WorkerReconnects, ReconnectRead, WorkerFrame
<1>7. CASE WorkerSends
  BY <1>7 DEF WorkerSends, ReconnectSend, WorkerFrame
<1>8. CASE WorkerQuits
  BY <1>8 DEF WorkerQuits, WorkerFrame
<1>9. CASE ClientStart
  BY <1>9 DEF ClientStart, Start, ClientFrame
<1>10. CASE ClientStop
  BY <1>10 DEF ClientStop, ClientFrame
<1>11. CASE ClientStopsReconnector
  BY <1>11 DEF ClientStopsReconnector, StopBegin, ClientFrame
<1>12. CASE ClientStopped
  BY <1>12 DEF ClientStopped, StopReturn, ClientFrame
<1>13. CASE PlainManager
  BY <1>13 DEF PlainManager, WaitElapsed, WaitStopped, BeginDial, DialStopped,
     DialSucceeded, StillEnabled, Publish, SelectStop, SelectError, OnDown, Drop, ManagerFrame
<1>14. CASE SerialDialFailed
  BY <1>14 DEF SerialDialFailed, DialFailed, ManagerFrame
<1>15. CASE SerialOnUp
  BY <1>15 DEF SerialOnUp, OnUp, Deliver, ManagerFrame
<1>16. CASE SerialCloseDropped
  BY <1>16 DEF SerialCloseDropped, CloseDropped, Closed, ReportClose, Deliver, ManagerFrame
<1>17. ASSUME NEW c \in Conns, DialReads(c)
      PROVE  SenderInv'
  BY <1>17 DEF DialReads
<1>18. ASSUME NEW c \in Conns, NEW result \in {"open", "failed"}, SerialDialed(c, result)
      PROVE  SenderInv'
  BY <1>18 DEF SerialDialed, Dialed, ConnFrame
<1>19. ASSUME NEW c \in Conns, SerialCloseLate(c)
      PROVE  SenderInv'
  BY <1>19 DEF SerialCloseLate, CloseLate, Closed, ReportClose, Deliver, ConnFrame
<1>20. ASSUME NEW c \in Conns, SerialBreaks(c)
      PROVE  SenderInv'
  BY <1>20 DEF SerialBreaks, TransportBreaks, ConnFrame
<1>21. ASSUME NEW c \in Conns, SerialWatch(c)
      PROVE  SenderInv'
  BY <1>21 DEF SerialWatch, WatchFails, WatchReports, WatchReturns, ConnFrame
<1>22. CASE UNCHANGED allVars
  BY <1>22
<1> QED
  BY <1>1, <1>2, <1>3, <1>4, <1>5, <1>6, <1>7, <1>8, <1>9, <1>10, <1>11,
     <1>12, <1>13, <1>14, <1>15, <1>16, <1>17, <1>18, <1>19, <1>20, <1>21, <1>22
  DEF SerialNext, WorkerStep, SerialManager

\* The obligation to renew a stale connection is handed on.
LEMMA StaleKept ==
  ASSUME ClientIInv, [SerialNext]_allVars
  PROVE  StaleIsNoticed'
<1> USE ReconnectorAssumption, SerialAssumption
    DEF ClientIInv, SenderInv, ClientInv, StaleIsNoticed, Stale, SerialTypeOK, TypeOK, IInv,
           LifecycleInv, ManagerInv, HoldsConn, Publishes, Live, Garbage,
           allVars, vars, serialVars, settingsVars, workerVars, eventVars,
           lifecycleVars, published
<1>1. ASSUME NEW p \in Params, ChangeParams(p)
      PROVE  StaleIsNoticed'
  BY <1>1 DEF ChangeParams
<1>2. CASE Notify
  BY <1>2 DEF Notify
<1>3. CASE WorkerWakes
  BY <1>3 DEF WorkerWakes, WorkerFrame
<1>4. CASE WorkerReadsValues
  BY <1>4 DEF WorkerReadsValues, WorkerFrame
<1>5. CASE WorkerCompares
  BY <1>5 DEF WorkerCompares, WorkerFrame
<1>6. CASE WorkerReconnects
  BY <1>6 DEF WorkerReconnects, ReconnectRead, WorkerFrame
<1>7. CASE WorkerSends
  BY <1>7 DEF WorkerSends, ReconnectSend, WorkerFrame
<1>8. CASE WorkerQuits
  BY <1>8 DEF WorkerQuits, WorkerFrame
<1>9. CASE ClientStart
  BY <1>9 DEF ClientStart, Start, ClientFrame
<1>10. CASE ClientStop
  BY <1>10 DEF ClientStop, ClientFrame
<1>11. CASE ClientStopsReconnector
  BY <1>11 DEF ClientStopsReconnector, StopBegin, ClientFrame
<1>12. CASE ClientStopped
  BY <1>12 DEF ClientStopped, StopReturn, ClientFrame
<1>13. CASE PlainManager
  BY <1>13 DEF PlainManager, WaitElapsed, WaitStopped, BeginDial, DialStopped,
     DialSucceeded, StillEnabled, Publish, SelectStop, SelectError, OnDown, Drop, ManagerFrame
<1>14. CASE SerialDialFailed
  BY <1>14 DEF SerialDialFailed, DialFailed, ManagerFrame
<1>15. CASE SerialOnUp
  BY <1>15 DEF SerialOnUp, OnUp, Deliver, ManagerFrame
<1>16. CASE SerialCloseDropped
  BY <1>16 DEF SerialCloseDropped, CloseDropped, Closed, ReportClose, Deliver, ManagerFrame
<1>17. ASSUME NEW c \in Conns, DialReads(c)
      PROVE  StaleIsNoticed'
  BY <1>17 DEF DialReads
<1>18. ASSUME NEW c \in Conns, NEW result \in {"open", "failed"}, SerialDialed(c, result)
      PROVE  StaleIsNoticed'
  BY <1>18 DEF SerialDialed, Dialed, ConnFrame
<1>19. ASSUME NEW c \in Conns, SerialCloseLate(c)
      PROVE  StaleIsNoticed'
  BY <1>19 DEF SerialCloseLate, CloseLate, Closed, ReportClose, Deliver, ConnFrame
<1>20. ASSUME NEW c \in Conns, SerialBreaks(c)
      PROVE  StaleIsNoticed'
  BY <1>20 DEF SerialBreaks, TransportBreaks, ConnFrame
<1>21. ASSUME NEW c \in Conns, SerialWatch(c)
      PROVE  StaleIsNoticed'
  BY <1>21 DEF SerialWatch, WatchFails, WatchReports, WatchReturns, ConnFrame
<1>22. CASE UNCHANGED allVars
  BY <1>22
<1> QED
  BY <1>1, <1>2, <1>3, <1>4, <1>5, <1>6, <1>7, <1>8, <1>9, <1>10, <1>11,
     <1>12, <1>13, <1>14, <1>15, <1>16, <1>17, <1>18, <1>19, <1>20, <1>21, <1>22
  DEF SerialNext, WorkerStep, SerialManager

\* A connection is announced and reported gone once.
LEMMA AnnouncedKept ==
  ASSUME ClientIInv, [SerialNext]_allVars
  PROVE  AnnouncedInv'
<1> USE ReconnectorAssumption, SerialAssumption
    DEF ClientIInv, AnnouncedInv, SerialTypeOK, TypeOK, IInv, LifecycleInv, ManagerInv,
           HoldsConn, Publishes, Live, Garbage,
           allVars, vars, serialVars, settingsVars, workerVars, eventVars,
           lifecycleVars, published
<1>1. ASSUME NEW p \in Params, ChangeParams(p)
      PROVE  AnnouncedInv'
  BY <1>1 DEF ChangeParams
<1>2. CASE Notify
  BY <1>2 DEF Notify
<1>3. CASE WorkerWakes
  BY <1>3 DEF WorkerWakes, WorkerFrame
<1>4. CASE WorkerReadsValues
  BY <1>4 DEF WorkerReadsValues, WorkerFrame
<1>5. CASE WorkerCompares
  BY <1>5 DEF WorkerCompares, WorkerFrame
<1>6. CASE WorkerReconnects
  BY <1>6 DEF WorkerReconnects, ReconnectRead, WorkerFrame
<1>7. CASE WorkerSends
  BY <1>7 DEF WorkerSends, ReconnectSend, WorkerFrame
<1>8. CASE WorkerQuits
  BY <1>8 DEF WorkerQuits, WorkerFrame
<1>9. CASE ClientStart
  BY <1>9 DEF ClientStart, Start, ClientFrame
<1>10. CASE ClientStop
  BY <1>10 DEF ClientStop, ClientFrame
<1>11. CASE ClientStopsReconnector
  BY <1>11 DEF ClientStopsReconnector, StopBegin, ClientFrame
<1>12. CASE ClientStopped
  BY <1>12 DEF ClientStopped, StopReturn, ClientFrame
<1>13. CASE PlainManager
  BY <1>13 DEF PlainManager, WaitElapsed, WaitStopped, BeginDial, DialStopped,
     DialSucceeded, StillEnabled, Publish, SelectStop, SelectError, OnDown, Drop, ManagerFrame
<1>14. CASE SerialDialFailed
  BY <1>14 DEF SerialDialFailed, DialFailed, ManagerFrame
<1>15. CASE SerialOnUp
  BY <1>15 DEF SerialOnUp, OnUp, Deliver, ManagerFrame
<1>16. CASE SerialCloseDropped
  BY <1>16 DEF SerialCloseDropped, CloseDropped, Closed, ReportClose, Deliver, ManagerFrame
<1>17. ASSUME NEW c \in Conns, DialReads(c)
      PROVE  AnnouncedInv'
  BY <1>17 DEF DialReads
<1>18. ASSUME NEW c \in Conns, NEW result \in {"open", "failed"}, SerialDialed(c, result)
      PROVE  AnnouncedInv'
  BY <1>18 DEF SerialDialed, Dialed, ConnFrame
<1>19. ASSUME NEW c \in Conns, SerialCloseLate(c)
      PROVE  AnnouncedInv'
  BY <1>19 DEF SerialCloseLate, CloseLate, Closed, ReportClose, Deliver, ConnFrame
<1>20. ASSUME NEW c \in Conns, SerialBreaks(c)
      PROVE  AnnouncedInv'
  BY <1>20 DEF SerialBreaks, TransportBreaks, ConnFrame
<1>21. ASSUME NEW c \in Conns, SerialWatch(c)
      PROVE  AnnouncedInv'
  BY <1>21 DEF SerialWatch, WatchFails, WatchReports, WatchReturns, ConnFrame
<1>22. CASE UNCHANGED allVars
  BY <1>22
<1> QED
  BY <1>1, <1>2, <1>3, <1>4, <1>5, <1>6, <1>7, <1>8, <1>9, <1>10, <1>11,
     <1>12, <1>13, <1>14, <1>15, <1>16, <1>17, <1>18, <1>19, <1>20, <1>21, <1>22
  DEF SerialNext, WorkerStep, SerialManager

\* The invariant holds before the client is started.
LEMMA ClientInitEstablishes == SerialInit => ClientIInv
<1> SUFFICES ASSUME SerialInit PROVE ClientIInv
  OBVIOUS
<1>1. IInv
  BY InitEstablishes DEF SerialInit
<1>2. SerialTypeOK
  <2>1. connInfo \in [Conns -> Params \cup {NoParams}] /\ notifiers \in 0..MaxNotifiers
    BY SerialAssumption DEF SerialInit
  <2> QED
    BY <1>1, <2>1 DEF IInv, SerialInit, SerialTypeOK
<1>3. ClientInv /\ SenderInv /\ StaleIsNoticed /\ AnnouncedInv
  BY ReconnectorAssumption, SerialAssumption
  DEF SerialInit, Init, ClientInv, SenderInv, StaleIsNoticed, Stale, AnnouncedInv
<1> QED
  BY <1>1, <1>2, <1>3 DEF ClientIInv

\* Every step of the manager, of the reader and of the settings worker keeps
\* it.
LEMMA ClientNextKeeps == ClientIInv /\ [SerialNext]_allVars => ClientIInv'
<1> SUFFICES ASSUME ClientIInv, [SerialNext]_allVars PROVE ClientIInv'
  OBVIOUS
<1>1. IInv'
  BY StepsOfReconnector, NextKeeps DEF ClientIInv
<1>2. SerialTypeOK'
  BY <1>1, SerialTypeKept DEF IInv
<1> QED
  BY <1>1, <1>2, ClientKept, SenderKept, StaleKept, AnnouncedKept DEF ClientIInv

\* The inductive invariant of the client holds in every reachable state.
THEOREM ClientInvariance == SerialSpec => []ClientIInv
BY ClientInitEstablishes, ClientNextKeeps, PTL DEF SerialSpec

\* While the client runs with a connection dialed with other settings than
\* those in force, a signal, the worker, onUp or the teardown has it in hand.
THEOREM NoStaleConnectionIsMissed == SerialSpec => []SerialInv
<1>1. ClientIInv => SerialInv
  BY DEF ClientIInv, SerialInv
<1> QED
  BY <1>1, ClientInvariance, PTL

\* What the consumers hear alternates between connected and disconnected and
\* is what the manager's connection is doing.
THEOREM ConsumersHearTheTruth == SerialSpec => []EventsInv
<1>1. ClientIInv => EventsInv
  BY DEF ClientIInv, AnnouncedInv, EventsInv, EventsAlternate, EventsAreTrue
<1> QED
  BY <1>1, ClientInvariance, PTL

\* The callbacks that speak to the consumers run before Stop returns.
LEMMA QuietStep ==
  ASSUME ClientIInv, [SerialNext]_allVars
  PROVE  client = "stopped" => shown = "disconnected" /\ shown' = shown
<1> USE ReconnectorAssumption, SerialAssumption
    DEF ClientIInv, ClientInv, AnnouncedInv, SerialTypeOK, IInv, LifecycleInv,
           allVars, vars, serialVars, settingsVars, workerVars, eventVars,
           lifecycleVars, published
<1>1. ASSUME NEW p \in Params, ChangeParams(p)
      PROVE  client = "stopped" => shown = "disconnected" /\ shown' = shown
  BY <1>1 DEF ChangeParams
<1>2. CASE Notify
  BY <1>2 DEF Notify
<1>3. CASE WorkerWakes
  BY <1>3 DEF WorkerWakes, WorkerFrame
<1>4. CASE WorkerReadsValues
  BY <1>4 DEF WorkerReadsValues, WorkerFrame
<1>5. CASE WorkerCompares
  BY <1>5 DEF WorkerCompares, WorkerFrame
<1>6. CASE WorkerReconnects
  BY <1>6 DEF WorkerReconnects, ReconnectRead, WorkerFrame
<1>7. CASE WorkerSends
  BY <1>7 DEF WorkerSends, ReconnectSend, WorkerFrame
<1>8. CASE WorkerQuits
  BY <1>8 DEF WorkerQuits, WorkerFrame
<1>9. CASE ClientStart
  BY <1>9 DEF ClientStart, Start, ClientFrame
<1>10. CASE ClientStop
  BY <1>10 DEF ClientStop, ClientFrame
<1>11. CASE ClientStopsReconnector
  BY <1>11 DEF ClientStopsReconnector, StopBegin, ClientFrame
<1>12. CASE ClientStopped
  BY <1>12 DEF ClientStopped, StopReturn, ClientFrame
<1>13. CASE PlainManager
  BY <1>13 DEF PlainManager, WaitElapsed, WaitStopped, BeginDial, DialStopped,
     DialSucceeded, StillEnabled, Publish, SelectStop, SelectError, OnDown, Drop, ManagerFrame
<1>14. CASE SerialDialFailed
  BY <1>14 DEF SerialDialFailed, DialFailed, ManagerFrame
<1>15. CASE SerialOnUp
  BY <1>15 DEF SerialOnUp, OnUp, Deliver, ManagerFrame
<1>16. CASE SerialCloseDropped
  BY <1>16 DEF SerialCloseDropped, CloseDropped, Closed, ReportClose, Deliver, ManagerFrame
<1>17. ASSUME NEW c \in Conns, DialReads(c)
      PROVE  client = "stopped" => shown = "disconnected" /\ shown' = shown
  BY <1>17 DEF DialReads
<1>18. ASSUME NEW c \in Conns, NEW result \in {"open", "failed"}, SerialDialed(c, result)
      PROVE  client = "stopped" => shown = "disconnected" /\ shown' = shown
  BY <1>18 DEF SerialDialed, Dialed, ConnFrame
<1>19. ASSUME NEW c \in Conns, SerialCloseLate(c)
      PROVE  client = "stopped" => shown = "disconnected" /\ shown' = shown
  BY <1>19 DEF SerialCloseLate, CloseLate, Closed, ReportClose, Deliver, ConnFrame
<1>20. ASSUME NEW c \in Conns, SerialBreaks(c)
      PROVE  client = "stopped" => shown = "disconnected" /\ shown' = shown
  BY <1>20 DEF SerialBreaks, TransportBreaks, ConnFrame
<1>21. ASSUME NEW c \in Conns, SerialWatch(c)
      PROVE  client = "stopped" => shown = "disconnected" /\ shown' = shown
  BY <1>21 DEF SerialWatch, WatchFails, WatchReports, WatchReturns, ConnFrame
<1>22. CASE UNCHANGED allVars
  BY <1>22
<1> QED
  BY <1>1, <1>2, <1>3, <1>4, <1>5, <1>6, <1>7, <1>8, <1>9, <1>10, <1>11,
     <1>12, <1>13, <1>14, <1>15, <1>16, <1>17, <1>18, <1>19, <1>20, <1>21, <1>22
  DEF SerialNext, WorkerStep, SerialManager

\* Once Stop has returned the consumers have heard "disconnected" last and hear
\* nothing more, whatever a dial that Stop did not wait for does.
THEOREM StoppedClientIsQuiet == SerialSpec => QuietAfterStop
<1>1. ClientIInv /\ [SerialNext]_allVars
        => [client = "stopped" => shown = "disconnected" /\ shown' = shown]_allVars
  BY QuietStep
<1> QED
  BY <1>1, ClientInvariance, PTL DEF SerialSpec, QuietAfterStop

-----------------------------------------------------------------------------
(* SliderEvents: the noise filter.                                          *)

\* What the firmware may read of a slider.
Readings == 0..1023

\* The readings of the board are within the range of the converter.
LEMMA RawsAreReadings == Raws \subseteq Readings
BY SliderAssumption DEF Readings

\* A threshold is between 1 and 20, and at most 5 at the ends of the travel.
LEMMA ThresholdBounds ==
  ASSUME NEW raw \in Readings, NEW level
  PROVE  /\ Threshold(raw, level) \in 1..20
         /\ raw \in {0, 1023} => Threshold(raw, level) <= 5
BY DEF Threshold, BaseThreshold, Readings

\* Impossible values are as far from every reading as any threshold.
LEMMA UnsetIsFar ==
  ASSUME NEW raw \in Readings, NEW level
  PROVE  SignificantlyDifferent(Unset, raw, level)
<1>1. Distance(Unset, raw) >= 1023
  BY DEF Distance, Unset, Readings
<1>2. Threshold(raw, level) \in 1..20
  BY ThresholdBounds
<1> QED
  BY <1>1, <1>2 DEF SignificantlyDifferent, Distance, Unset, Readings

\* What the filter lets pass unnoticed is near, and nearer at the ends.
LEMMA UnmovedIsNear ==
  ASSUME NEW old \in Readings, NEW raw \in Readings, NEW level,
         ~SignificantlyDifferent(old, raw, level)
  PROVE  /\ Distance(old, raw) < 20
         /\ raw \in {0, 1023} => Distance(old, raw) < 5
<1>1. Threshold(raw, level) \in 1..20 /\ (raw \in {0, 1023} => Threshold(raw, level) <= 5)
  BY ThresholdBounds
<1>2. Distance(old, raw) < Threshold(raw, level)
  BY <1>1 DEF SignificantlyDifferent, Distance, Readings
<1> QED
  BY <1>1, <1>2 DEF Distance, Readings

\* Fewer than five steps from an end, a reading is rounded to that end.
LEMMA NearAnEndIsTheEnd ==
  ASSUME NEW old \in Readings, NEW raw \in {0, 1023}, Distance(old, raw) < 5
  PROVE  Normalize(old) = Normalize(raw)
<1>1. CASE raw = 0
  <2>1. old \in {0, 1, 2, 3, 4}
    BY <1>1 DEF Distance, Readings
  <2> QED
    BY <1>1, <2>1 DEF Normalize
<1>2. CASE raw = 1023
  <2>1. old \in {1019, 1020, 1021, 1022, 1023}
    BY <1>2 DEF Distance, Readings
  <2> QED
    BY <1>2, <2>1 DEF Normalize
<1> QED
  BY <1>1, <1>2

\* A line is a sequence of its own length.
LEMMA LineLength ==
  ASSUME NEW l \in Lines
  PROVE  /\ Len(l) \in Sliders
         /\ DOMAIN l = 1..Len(l)
         /\ l \in [1..Len(l) -> Raws]
<1>1. PICK n \in Sliders : l \in [1..n -> Raws]
  BY DEF Lines
<1>2. n \in Nat /\ l \in Seq(Raws)
  BY <1>1, SeqDef, SliderAssumption DEF Sliders
<1>3. Len(l) = n
  BY <1>1, <1>2, LenProperties
<1> QED
  BY <1>1, <1>3

-----------------------------------------------------------------------------
(* SliderEvents: the inductive invariant.                                   *)

\* The event of slider i that the reader has yet to deliver, if there is one.
Pending(i) == {e \in queue : e.slider = i}

\* The reader has a line when it waits for the lock and events when it sends.
ReaderInv ==
  /\ reader = "lock" => taken \in [line : Lines, config : Settings]
  /\ reader = "send" <=> queue # {}
  /\ \A e, f \in queue : e.slider = f.slider => e = f

\* The saved values are those of the last line, within the noise.
ValuesInv ==
  /\ DOMAIN values = DOMAIN handled
  /\ DOMAIN values \subseteq Sliders
  /\ \A i \in DOMAIN values : values[i] \in Raws
  /\ count # 0 => DOMAIN values = 1..count
  /\ \A i \in DOMAIN handled :
       /\ handled[i] \in Raws
       /\ Distance(values[i], handled[i]) < 20
       /\ handled[i] \in {0, 1023} => Distance(values[i], handled[i]) < 5

\* The mixer has received each saved value, or its event is still to come.
HeardInv ==
  \A i \in DOMAIN values :
    \/ \E e \in Pending(i) : e.raw = values[i]
    \/ Pending(i) = {} /\ heard[i] \in Events /\ heard[i].raw = values[i]

\* What a reset owes is on its way once the next line was handled.
OwedInv == count # 0 => \A i \in owed \cap (1..count) : Pending(i) # {}

SliderIInv ==
  /\ SliderTypeOK
  /\ ReaderInv
  /\ ValuesInv
  /\ HeardInv
  /\ OwedInv

-----------------------------------------------------------------------------
(* SliderEvents: the steps that change it.                                  *)

\* Of a line with as many sliders as before, the sliders that did not move
\* are near the saved values; of another line, or the first after a reset,
\* every slider has moved.
LEMMA UnmovedAreSaved ==
  ASSUME SliderIInv, NEW l \in Lines, NEW c \in Settings, NEW i \in DOMAIN l, i \notin Moved(l, c)
  PROVE  /\ count = Len(l)
         /\ i \in DOMAIN values
         /\ Saved(l) = values
         /\ Distance(values[i], l[i]) < 20
         /\ l[i] \in {0, 1023} => Distance(values[i], l[i]) < 5
<1>1. Len(l) \in Sliders /\ DOMAIN l = 1..Len(l) /\ l[i] \in Raws
  BY LineLength
<1>2. l[i] \in Readings
  BY <1>1, RawsAreReadings
<1>3. ~SignificantlyDifferent(Saved(l)[i], l[i], c.level)
  BY DEF Moved
<1>4. count = Len(l)
  BY <1>2, <1>3, UnsetIsFar DEF Saved
<1>5. Saved(l) = values /\ i \in DOMAIN values
  BY <1>1, <1>4, SliderAssumption DEF Saved, SliderIInv, ValuesInv, Sliders
<1>6. values[i] \in Readings
  BY <1>5, RawsAreReadings DEF SliderIInv, ValuesInv
<1>7. ~SignificantlyDifferent(values[i], l[i], c.level)
  BY <1>3, <1>5
<1>8. /\ Distance(values[i], l[i]) < 20
      /\ l[i] \in {0, 1023} => Distance(values[i], l[i]) < 5
  BY <1>2, <1>6, <1>7, UnmovedIsNear
<1> QED
  BY <1>4, <1>5, <1>8

\* A line of the board keeps the invariant, whatever its readings.
LEMMA HandleLineKeeps ==
  ASSUME SliderIInv, HandleLine
  PROVE  SliderIInv'
<1> DEFINE l == taken.line
           c == taken.config
<1>1. l \in Lines /\ c \in Settings /\ queue = {}
  BY DEF HandleLine, SliderIInv, ReaderInv
<1>2. /\ Len(l) \in Sliders /\ DOMAIN l = 1..Len(l) /\ l \in [1..Len(l) -> Raws]
      /\ Len(l) \in 1..MaxSliders /\ 1..Len(l) \subseteq Sliders
  BY <1>1, LineLength, SliderAssumption DEF Sliders
<1>3. /\ count' = Len(l) /\ handled' = l
      /\ values' = NewValues(l, c) /\ queue' = MoveEvents(l, c)
      /\ heard' = heard /\ owed' = owed
      /\ taken' = Nothing
      /\ reader' = IF queue' = {} THEN "read" ELSE "send"
      /\ UNCHANGED <<storeVars, settingsWorker>>
  BY DEF HandleLine
<1>4. Moved(l, c) \subseteq DOMAIN l
  BY DEF Moved
<1>5. \A i \in Moved(l, c) : MoveEvent(i, l, c) \in Events
  BY <1>1, <1>2, <1>4 DEF MoveEvent, Events, Settings
<1>6. queue' \subseteq Events
  BY <1>3, <1>5 DEF MoveEvents
<1>7. /\ \A i \in Moved(l, c) : Pending(i)' = {MoveEvent(i, l, c)}
      /\ \A i \in Sliders \ Moved(l, c) : Pending(i)' = {}
  BY <1>3 DEF Pending, MoveEvents, MoveEvent
<1>8. /\ DOMAIN values' = DOMAIN l
      /\ \A i \in DOMAIN l : values'[i] = IF i \in Moved(l, c) THEN l[i] ELSE values[i]
  BY <1>1, <1>3, UnmovedAreSaved DEF NewValues
<1>9. \A i \in DOMAIN l \ Moved(l, c) : i \in DOMAIN values /\ values[i] \in Raws
  BY <1>1, UnmovedAreSaved DEF SliderIInv, ValuesInv
<1>10. SliderTypeOK'
  <2>1. values' \in [1..Len(l) -> Raws \cup {Unset}]
    <3>1. \A i \in DOMAIN l : values'[i] \in Raws
      BY <1>2, <1>8, <1>9
    <3>2. values' = [i \in 1..Len(l) |-> values'[i]]
      BY <1>2, <1>3 DEF NewValues
    <3> QED
      BY <1>2, <3>1, <3>2
  <2>2. values' \in UNION {[1..n -> Raws \cup {Unset}] : n \in 0..MaxSliders}
    <3>1. Len(l) \in 0..MaxSliders
      BY <1>2, SliderAssumption
    <3> QED
      BY <2>1, <3>1
  <2>3. reader' \in {"read", "send"} /\ count' \in 0..MaxSliders
    BY <1>2, <1>3, SliderAssumption
  <2> QED
    BY <1>1, <1>3, <1>6, <2>2, <2>3 DEF SliderIInv, SliderTypeOK, storeVars
<1>11. ReaderInv'
  BY <1>3 DEF ReaderInv, MoveEvents, MoveEvent
<1>12. ValuesInv'
  <2>1. \A i \in DOMAIN l : l[i] \in Readings /\ Distance(l[i], l[i]) = 0
    <3>1. \A raw \in Readings : Distance(raw, raw) = 0
      BY DEF Distance, Readings
    <3>2. \A i \in DOMAIN l : l[i] \in Raws
      BY <1>2
    <3> QED
      BY <3>1, <3>2, RawsAreReadings
  <2>2. \A i \in DOMAIN l :
          /\ Distance(values'[i], l[i]) < 20
          /\ l[i] \in {0, 1023} => Distance(values'[i], l[i]) < 5
    BY <1>1, <1>8, <2>1, UnmovedAreSaved
  <2> QED
    BY <1>2, <1>3, <1>8, <1>9, <2>2 DEF ValuesInv, Distance
<1>13. HeardInv'
  <2> SUFFICES ASSUME NEW i \in DOMAIN values'
               PROVE  \/ \E e \in Pending(i)' : e.raw = values'[i]
                      \/ Pending(i)' = {} /\ heard'[i] \in Events /\ heard'[i].raw = values'[i]
    BY DEF HeardInv
  <2>1. CASE i \in Moved(l, c)
    <3>1. MoveEvent(i, l, c).raw = l[i]
      BY DEF MoveEvent
    <3>2. values'[i] = l[i]
      BY <1>4, <1>8, <2>1
    <3>3. MoveEvent(i, l, c) \in Pending(i)'
      BY <1>7, <2>1
    <3> QED
      BY <3>1, <3>2, <3>3
  <2>2. CASE i \notin Moved(l, c)
    <3>1. Pending(i) = {}
      BY <1>1 DEF Pending
    <3>2. i \in DOMAIN l /\ i \in DOMAIN values /\ i \in Sliders
      BY <1>2, <1>8, <1>9, <2>2
    <3>3. heard[i] \in Events /\ heard[i].raw = values[i]
      BY <3>1, <3>2 DEF SliderIInv, HeardInv
    <3> QED
      BY <1>3, <1>7, <1>8, <2>2, <3>2, <3>3
  <2> QED
    BY <2>1, <2>2
<1>14. OwedInv'
  <2> SUFFICES ASSUME NEW i \in owed \cap (1..Len(l)) PROVE Pending(i)' # {}
    BY <1>3 DEF OwedInv
  <2>1. CASE i \in Moved(l, c)
    BY <1>7, <2>1
  <2>2. CASE i \notin Moved(l, c)
    <3>1. count = Len(l)
      BY <1>1, <1>2, <2>2, UnmovedAreSaved
    <3>2. Pending(i) # {} /\ Pending(i) = {}
      BY <1>1, <1>2, <3>1, SliderAssumption DEF SliderIInv, OwedInv, Pending, Sliders
    <3> QED
      BY <3>2
  <2> QED
    BY <2>1, <2>2
<1> QED
  BY <1>10, <1>11, <1>12, <1>13, <1>14 DEF SliderIInv

\* The delivery of one event keeps it.
LEMMA DeliverMoveKeeps ==
  ASSUME SliderIInv, DeliverMove
  PROVE  SliderIInv'
<1>1. PICK e \in queue :
        /\ heard' = [heard EXCEPT ![e.slider] = e]
        /\ owed' = owed \ {e.slider}
        /\ queue' = queue \ {e}
  BY DEF DeliverMove
<1>2. /\ reader = "send"
      /\ reader' = IF queue' = {} THEN "read" ELSE "send"
      /\ UNCHANGED <<storeVars, settingsWorker, stateVars, taken, handled>>
  BY DEF DeliverMove
<1>3. e \in Events /\ e.slider \in Sliders
  BY <1>1 DEF SliderIInv, SliderTypeOK, Events
<1>4. /\ heard'[e.slider] = e
      /\ \A i \in Sliders \ {e.slider} : heard'[i] = heard[i]
  BY <1>1, <1>3 DEF SliderIInv, SliderTypeOK
<1>5. /\ Pending(e.slider) = {e} /\ Pending(e.slider)' = {}
      /\ \A i \in Sliders \ {e.slider} : Pending(i)' = Pending(i)
  BY <1>1 DEF Pending, SliderIInv, ReaderInv
<1>6. SliderTypeOK'
  <2>1. heard' \in [Sliders -> Events \cup {Nothing}]
    BY <1>1, <1>3 DEF SliderIInv, SliderTypeOK
  <2>2. queue' \in SUBSET Events /\ owed' \in SUBSET Sliders /\ reader' \in {"read", "send"}
    BY <1>1, <1>2 DEF SliderIInv, SliderTypeOK
  <2> QED
    BY <1>2, <2>1, <2>2 DEF SliderIInv, SliderTypeOK, storeVars, stateVars
<1>7. ReaderInv'
  BY <1>1, <1>2 DEF SliderIInv, ReaderInv
<1>8. ValuesInv'
  BY <1>2 DEF SliderIInv, ValuesInv, stateVars
<1>9. HeardInv'
  BY <1>2, <1>3, <1>4, <1>5 DEF SliderIInv, ValuesInv, HeardInv, stateVars
<1>10. OwedInv'
  BY <1>1, <1>2, <1>5 DEF SliderIInv, SliderTypeOK, OwedInv, stateVars
<1> QED
  BY <1>6, <1>7, <1>8, <1>9, <1>10 DEF SliderIInv

\* The reset after new settings keeps it.
LEMMA SettingsWorkerResetsKeeps ==
  ASSUME SliderIInv, SettingsWorkerResets
  PROVE  SliderIInv'
<1> USE SliderAssumption DEF SettingsWorkerResets, SliderIInv, ValuesInv, storeVars, readerVars
<1>1. SliderTypeOK'
  BY DEF SliderTypeOK
<1>2. ReaderInv' /\ ValuesInv' /\ HeardInv' /\ OwedInv'
  BY DEF ReaderInv, HeardInv, OwedInv, Pending
<1> QED
  BY <1>1, <1>2

\* The store, the signals, the connection and the reading of a line.
LEMMA OthersKeep ==
  ASSUME SliderIInv,
         \/ \E s \in Settings : ChangeSettings(s)
         \/ NotifyReload \/ SettingsWorkerWakes \/ Open \/ Close
         \/ \E l \in Lines : ReadLine(l)
         \/ UNCHANGED sliderVars
  PROVE  SliderIInv'
<1> USE DEF SliderIInv, sliderVars, storeVars, stateVars, readerVars, historyVars, ChangeSettings,
            NotifyReload, SettingsWorkerWakes, Open, Close, ReadLine
<1>1. UNCHANGED <<stateVars, queue, heard, historyVars>>
  OBVIOUS
<1>2. SliderTypeOK'
  <2>1. /\ settings' \in Settings
        /\ notifying' \in BOOLEAN /\ reloadSignal' \in BOOLEAN
        /\ settingsWorker' \in {"idle", "reset"}
    BY DEF SliderTypeOK
  <2>2. /\ reader' \in {"off", "read", "lock", "send"}
        /\ taken' \in [line : Lines, config : Settings] \cup {Nothing}
    BY DEF SliderTypeOK
  <2> QED
    BY <1>1, <2>1, <2>2 DEF SliderTypeOK
<1>3. ReaderInv'
  BY DEF ReaderInv, SliderTypeOK
<1>4. ValuesInv' /\ HeardInv' /\ OwedInv'
  BY <1>1 DEF ValuesInv, HeardInv, OwedInv, Pending
<1> QED
  BY <1>2, <1>3, <1>4

\* No slider has been read at first.
LEMMA SliderInitEstablishes == SliderInit => SliderIInv
<1> SUFFICES ASSUME SliderInit PROVE SliderIInv
  OBVIOUS
<1> USE SliderAssumption DEF SliderInit
<1>1. SliderTypeOK
  <2>1. values \in [1..0 -> Raws \cup {Unset}]
    OBVIOUS
  <2> HIDE DEF SliderInit
  <2>2. values \in UNION {[1..n -> Raws \cup {Unset}] : n \in 0..MaxSliders}
    <3>1. 0 \in 0..MaxSliders
      OBVIOUS
    <3> QED
      BY <2>1, <3>1
  <2> USE DEF SliderInit
  <2>3. heard \in [Sliders -> Events \cup {Nothing}] /\ count \in 0..MaxSliders
    OBVIOUS
  <2> QED
    BY ZenonT(40), <2>2, <2>3 DEF SliderTypeOK
<1>2. ReaderInv /\ ValuesInv /\ HeardInv /\ OwedInv
  BY DEF ReaderInv, ValuesInv, HeardInv, OwedInv
<1> QED
  BY <1>1, <1>2 DEF SliderIInv

\* The inductive invariant holds in every reachable state.
THEOREM SliderInvariance == SliderSpec => []SliderIInv
<1>1. SliderIInv /\ [SliderNext]_sliderVars => SliderIInv'
  BY HandleLineKeeps, DeliverMoveKeeps, SettingsWorkerResetsKeeps, OthersKeep DEF SliderNext
<1> QED
  BY <1>1, SliderInitEstablishes, PTL DEF SliderSpec

-----------------------------------------------------------------------------
(* SliderEvents: what follows from it.                                      *)

\* When the reader has delivered its events the mixer has the saved values.
LEMMA DeliveredIsHeard ==
  ASSUME SliderIInv, Delivered
  PROVE  /\ DOMAIN values = DOMAIN handled
         /\ \A i \in DOMAIN values :
              heard[i] \in Events /\ values[i] \in Readings /\ heard[i].raw = values[i]
<1>1. queue = {}
  BY DEF SliderIInv, SliderTypeOK, ReaderInv, Delivered
<1>2. \A i \in DOMAIN values : Pending(i) = {}
  BY <1>1 DEF Pending
<1> QED
  BY <1>2, RawsAreReadings DEF SliderIInv, ValuesInv, HeardInv

\* The filter compares each reading with the volume the mixer has.
THEOREM FilterComparesWithMixer == SliderSpec => []SliderInv
<1>1. SliderIInv => SliderInv
  BY DeliveredIsHeard, SliderAssumption DEF SliderIInv, SliderInv, StoredIsHeard
<1> QED
  BY <1>1, SliderInvariance, PTL

\* An event with another reading is the same otherwise.
LEMMA RawReplaced ==
  ASSUME NEW e \in Events, NEW r
  PROVE  [e EXCEPT !.raw = r].raw = r /\ [e EXCEPT !.raw = r].invert = e.invert
BY DEF Events

\* The ends of the travel set exactly 0% and 100%.
THEOREM EndsReached == SliderSpec => []EndsAreReached
<1>1. SliderIInv => EndsAreReached
  <2> SUFFICES ASSUME SliderIInv, Delivered,
                      NEW i \in DOMAIN handled, handled[i] \in {0, 1023}
               PROVE  PercentValue(heard[i])
                        = PercentValue([heard[i] EXCEPT !.raw = handled[i]])
    BY DEF EndsAreReached
  <2>1. /\ i \in DOMAIN values /\ heard[i] \in Events
        /\ values[i] \in Readings /\ heard[i].raw = values[i]
    BY DeliveredIsHeard
  <2>2. Distance(values[i], handled[i]) < 5
    BY DEF SliderIInv, ValuesInv
  <2>3. Normalize(heard[i].raw) = Normalize(handled[i])
    BY <2>1, <2>2, NearAnEndIsTheEnd
  <2> QED
    BY <2>1, <2>3, RawReplaced DEF PercentValue
<1> QED
  BY <1>1, SliderInvariance, PTL

\* The volume in force is within the noise of the slider.
THEOREM VolumeIsClose == SliderSpec => []HeardIsClose
<1>1. SliderIInv => HeardIsClose
  BY DeliveredIsHeard DEF SliderIInv, ValuesInv, HeardIsClose
<1> QED
  BY <1>1, SliderInvariance, PTL

\* After a reload the next line makes every slider heard again.
THEOREM ReloadIsHeard == SliderSpec => []ReloadReemits
<1>1. SliderIInv => ReloadReemits
  <2> SUFFICES ASSUME SliderIInv, Delivered, count # 0, NEW i \in owed \cap (1..count)
               PROVE  FALSE
    BY DEF ReloadReemits
  <2>1. Pending(i) # {} /\ queue = {}
    BY DEF SliderIInv, OwedInv, ReaderInv, Delivered
  <2> QED
    BY <2>1 DEF Pending
<1> QED
  BY <1>1, SliderInvariance, PTL

=============================================================================
