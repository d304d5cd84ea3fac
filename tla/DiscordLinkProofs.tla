--------------------------- MODULE DiscordLinkProofs ---------------------------
(***************************************************************************)
(* Theorems about DiscordLink, for every set of users, accounts, settings  *)
(* and generations and every value of the bounds.                          *)
(***************************************************************************)
EXTENDS DiscordLink, ReconnectorProofs

-----------------------------------------------------------------------------
(* The inductive invariant.                                                 *)

UserPlaces == {"idle", "asking", "clearing", "reconnect", "sending", "storing"}
DialPlaces == {"values", "token", "fresh", "exchange", "storing", "open"}

\* Nothing of the client runs before Start, and nothing survives the end of
\* the program.
ProcessInv ==
  /\ client # "running" =>
       /\ stopChannel = "nil"
       /\ worker = "none"
       /\ authLock = None
       /\ \A r \in Users \cup Conns : request[r] = "idle"
  /\ orphans = {}

\* A dial runs while its connection is being dialed; what it and a Link have
\* read is there when they store their answer.
PlacesInv ==
  /\ \A u \in Users :
       /\ request[u] \in UserPlaces
       /\ request[u] = "asking" => connCfg[u] \in Settings
  /\ \A c \in Conns :
       /\ request[c] \in DialPlaces \cup {"idle"}
       /\ request[c] # "idle" <=> conn[c] = "dialing"
       /\ request[c] \in {"token", "fresh", "exchange", "storing", "open"} =>
            connCfg[c] \in Settings
       /\ request[c] \in {"fresh", "exchange", "storing", "open"} =>
            dialAccount \in Accounts

\* authLock is held by whoever is between the two halves of a change.
HolderInv ==
  /\ authLock = Worker <=> worker = "clearing"
  /\ \A u \in Users : authLock = u <=> request[u] \in {"clearing", "storing"}
  /\ \A c \in Conns : authLock = c <=> request[c] = "storing"

Clearing == worker = "clearing" \/ \E u \in Users : request[u] = "clearing"

\* A request that may still store is of the account that is wanted: a Link
\* that was overtaken is out of date, and a dial that is not has the account
\* linked last.  While a token is discarded nothing is up to date.
GenerationInv ==
  /\ Clearing => token = None /\ upToDate = {}
  /\ authLock = None =>
       /\ \A u \in upToDate \cap Users : request[u] = "asking" => u \notin overtaken
       /\ \A c \in upToDate \cap Conns : dialAccount = wanted
  /\ \A c \in upToDate \cap Conns : request[c] # "idle"

LinkIInv ==
  /\ IInv
  /\ LinkTypeOK
  /\ ProcessInv
  /\ PlacesInv
  /\ HolderInv
  /\ GenerationInv
  /\ LinkedAccountIsWanted
  /\ SettingsAreNoticed

-----------------------------------------------------------------------------
(* The reconnector's part.                                                  *)

\* The end of the program leaves the reconnector as it began.
LEMMA RestartEstablishes == Init' => IInv'
BY InitEstablishes, PTL

\* The worker switches the manager on or off, never to anything else.
LEMMA EnableTyped ==
  ASSUME NEW settings, NEW stored, Enable(settings, stored)
  PROVE  enabled' \in BOOLEAN
<1>1. (settings.on /\ stored # None) \in BOOLEAN
  BY Zenon
<1> QED
  BY <1>1, Zenon DEF Enable

\* Switching the manager is a step of the connection manager or changes
\* nothing of it.
LEMMA EnableIsAStep ==
  ASSUME enabled \in BOOLEAN, enabled' \in BOOLEAN, UNCHANGED restOfReconnector
  PROVE  [Next]_vars
<1>1. CASE enabled' = enabled
  BY <1>1 DEF restOfReconnector, vars, lifecycleVars, published
<1>2. CASE enabled' # enabled
  BY <1>2 DEF restOfReconnector, SetEnabled, Next, lifecycleVars, published
<1> QED
  BY <1>1, <1>2

\* What the client does is a step of its reconnector, none of it, or the end of
\* the program.
LEMMA StepsOfReconnector ==
  ASSUME enabled \in BOOLEAN, [LinkNext]_allVars
  PROVE  [Next]_vars \/ Exit
<1>1. CASE \/ \E s \in Settings : ChangeSettings(s)
           \/ LoadToken \/ WorkerClears
           \/ \E u \in Users : LinkStored(u) \/ UnlinkClears(u)
           \/ \E c \in Conns : RefreshStored(c)
  <2>1. \/ UNCHANGED vars
        \/ /\ UNCHANGED restOfReconnector
           /\ \E settings, stored : Enable(settings, stored)
    BY <1>1, Zenon
    DEF ChangeSettings, LoadToken, WorkerClears, LinkStored, UnlinkClears, RefreshStored,
        BeginClear, EndClear, EndStore
  <2> QED
    BY <2>1, EnableTyped, EnableIsAStep
<1>2. CASE \/ Notify \/ WorkerWakes \/ WorkerReadsValues \/ WorkerCompares
           \/ \E u \in Users : LinkBegins(u) \/ LinkFails(u) \/ LinkStores(u)
           \/ \E c \in Conns : \/ DialReads(c) \/ DialLoadsToken(c) \/ DialChecksToken(c)
                               \/ RefreshStores(c)
  BY <1>2
  DEF Notify, WorkerWakes, WorkerReadsValues, WorkerCompares, LinkBegins, LinkFails,
      LinkStores, BeginStore, DialReads, DialLoadsToken, DialChecksToken, RefreshStores
<1>3. CASE WorkerReconnects \/ \E u \in Users : UserReconnects(u)
  <2>1. Worker \in Callers /\ Users \subseteq Callers
    BY DiscordLinkAssumption
  <2> QED
    BY <1>3, <2>1 DEF WorkerReconnects, UserReconnects, Next
<1>4. CASE ClientStart \/ LinkManager
  BY <1>4
  DEF ClientStart, LinkManager, PlainManager, LinkOnUp, LinkCloses, LinkBeginDial, OnUp,
      Manager, Next
<1>5. CASE \E c \in Conns : \/ \E result \in {"open", "failed"} : DialEnds(c, result)
                            \/ LinkBreaks(c) \/ LinkWatch(c)
  BY <1>5 DEF DialEnds, LinkBreaks, LinkWatch, Next
<1>6. CASE UNCHANGED allVars
  BY <1>6 DEF allVars
<1> QED
  BY <1>1, <1>2, <1>3, <1>4, <1>5, <1>6 DEF LinkNext, WorkerStep, User, Dial

\* Every operation leaves each variable in its type.
LEMMA LinkTypeKept ==
  ASSUME LinkIInv, TypeOK', [LinkNext]_allVars
  PROVE  LinkTypeOK'
<1> USE ReconnectorAssumption, DiscordLinkAssumption
    DEF LinkIInv, LinkTypeOK, PlacesInv, Tokens, Token, Users, IInv, ManagerInv, HoldsConn,
        allVars, vars, linkVars, authVars, historyVars, settingsVars, workerVars,
        requestVars, restOfReconnector, lifecycleVars, published
<1>1. ASSUME NEW s \in Settings, ChangeSettings(s)
      PROVE  LinkTypeOK'
  BY <1>1 DEF ChangeSettings
<1>2. CASE Notify
  <2>1. (reload \/ client = "running") \in BOOLEAN
    BY Zenon
  <2>2. reload' \in BOOLEAN
    BY <1>2, <2>1, Zenon DEF Notify
  <2>3. unsignalled' \in BOOLEAN
    BY <1>2 DEF Notify
  <2>4. UNCHANGED <<vars, authVars, cfg, client, workerVars, requestVars>>
    BY <1>2 DEF Notify
  <2> QED
    BY <2>2, <2>3, <2>4
<1>3. CASE LoadToken
  BY <1>3 DEF LoadToken
<1>4. CASE ClientStart
  BY <1>4 DEF ClientStart, Start
<1>5. CASE Exit
  BY <1>5 DEF Exit
<1>6. CASE WorkerWakes
  BY ZenonT(40), <1>6 DEF WorkerWakes, WorkerFrame
<1>7. CASE WorkerReadsValues
  BY <1>7 DEF WorkerReadsValues, WorkerFrame
<1>8. CASE WorkerClears
  BY <1>8 DEF WorkerClears, BeginClear, EndClear, Lock, Unlock, Wants, At, WorkerFrame
<1>9. CASE WorkerCompares
  BY <1>9 DEF WorkerCompares, WorkerFrame
<1>10. CASE WorkerReconnects
  BY <1>10 DEF WorkerReconnects, ReconnectRead, ReconnectSend, Garbage, WorkerFrame
<1>11. CASE PlainManager
  BY <1>11
  DEF PlainManager, WaitElapsed, GateClosed, DialSucceeded, StillEnabled, Publish,
      SelectError, OnDown, Drop, ManagerFrame
<1>12. CASE LinkOnUp
  BY <1>12 DEF LinkOnUp, OnUp, CallbackFrame, ManagerFrame
<1>13. CASE LinkCloses
  BY <1>13
  DEF LinkCloses, DialFailed, DisabledWhileDialing, CloseDropped, Closed, Forget,
      CallbackFrame, ManagerFrame
<1>14. ASSUME NEW c \in Conns, LinkBeginDial(c)
      PROVE  LinkTypeOK'
  BY <1>14 DEF LinkBeginDial, BeginDial, Unused, Go, CallbackFrame, ManagerFrame
<1>15. ASSUME NEW u \in Users, LinkBegins(u)
      PROVE  LinkTypeOK'
  BY <1>15 DEF LinkBegins, At, Go, UserFrame
<1>16. ASSUME NEW u \in Users, LinkFails(u)
      PROVE  LinkTypeOK'
  BY <1>16 DEF LinkFails, At, Go, Forget, UserFrame
<1>17. ASSUME NEW u \in Users, LinkStores(u)
      PROVE  LinkTypeOK'
  BY <1>17 DEF LinkStores, BeginStore, MayStore, Lock, Wants, At, Go, UserFrame
<1>18. ASSUME NEW u \in Users, LinkStored(u)
      PROVE  LinkTypeOK'
  BY <1>18 DEF LinkStored, EndStore, Unlock, At, Go, Forget, UserFrame
<1>19. ASSUME NEW u \in Users, UnlinkClears(u)
      PROVE  LinkTypeOK'
  BY <1>19 DEF UnlinkClears, BeginClear, EndClear, Lock, Unlock, Wants, At, Go, UserFrame
<1>20. ASSUME NEW u \in Users, UserReconnects(u)
      PROVE  LinkTypeOK'
  BY <1>20 DEF UserReconnects, ReconnectRead, ReconnectSend, Garbage, At, Go, UserFrame
<1>21. ASSUME NEW c \in Conns, DialReads(c)
      PROVE  LinkTypeOK'
  BY <1>21 DEF DialReads, At, Go, DialFrame
<1>22. ASSUME NEW c \in Conns, DialLoadsToken(c)
      PROVE  LinkTypeOK'
  BY <1>22 DEF DialLoadsToken, At, Go, DialFrame
<1>23. ASSUME NEW c \in Conns, DialChecksToken(c)
      PROVE  LinkTypeOK'
  BY <1>23 DEF DialChecksToken, At, Go, MayStore, DialFrame
<1>24. ASSUME NEW c \in Conns, RefreshStores(c)
      PROVE  LinkTypeOK'
  BY <1>24 DEF RefreshStores, BeginStore, MayStore, Lock, At, Go, DialFrame
<1>25. ASSUME NEW c \in Conns, RefreshStored(c)
      PROVE  LinkTypeOK'
  BY <1>25 DEF RefreshStored, EndStore, Unlock, At, Go, DialFrame
<1>26. ASSUME NEW c \in Conns, NEW result \in {"open", "failed"}, DialEnds(c, result)
      PROVE  LinkTypeOK'
  BY <1>26 DEF DialEnds, Dialed, ConnFrame, At, Go, DialFrame
<1>27. ASSUME NEW c \in Conns, LinkBreaks(c)
      PROVE  LinkTypeOK'
  BY <1>27 DEF LinkBreaks, TransportBreaks, ConnFrame
<1>28. ASSUME NEW c \in Conns, LinkWatch(c)
      PROVE  LinkTypeOK'
  BY <1>28 DEF LinkWatch, WatchFails, WatchReports, WatchReturns, ConnFrame
<1>29. CASE UNCHANGED allVars
  BY <1>29
<1> QED
  BY <1>1, <1>2, <1>3, <1>4, <1>5, <1>6, <1>7, <1>8, <1>9, <1>10, <1>11, <1>12, <1>13,
     <1>14, <1>15, <1>16, <1>17, <1>18, <1>19, <1>20, <1>21, <1>22, <1>23, <1>24, <1>25,
     <1>26, <1>27, <1>28, <1>29
  DEF LinkNext, WorkerStep, LinkManager, User, Dial

\* Nothing of the client runs unless the client does.
LEMMA ProcessKept ==
  ASSUME LinkIInv, [LinkNext]_allVars
  PROVE  ProcessInv'
<1> USE ReconnectorAssumption, DiscordLinkAssumption
    DEF LinkIInv, LinkTypeOK, ProcessInv, IInv, TypeOK, LifecycleInv, allVars, vars,
        linkVars, authVars, historyVars, settingsVars, workerVars, requestVars,
        restOfReconnector, lifecycleVars, published
<1>1. ASSUME NEW s \in Settings, ChangeSettings(s)
      PROVE  ProcessInv'
  BY <1>1 DEF ChangeSettings
<1>2. CASE Notify
  BY <1>2 DEF Notify
<1>3. CASE LoadToken
  BY <1>3 DEF LoadToken
<1>4. CASE ClientStart
  BY <1>4 DEF ClientStart, Start
<1>5. CASE Exit
  BY <1>5 DEF Exit
<1>6. CASE WorkerWakes
  BY <1>6 DEF WorkerWakes, WorkerFrame
<1>7. CASE WorkerReadsValues
  BY <1>7 DEF WorkerReadsValues, WorkerFrame
<1>8. CASE WorkerClears
  BY <1>8 DEF WorkerClears, BeginClear, EndClear, Lock, Unlock, Wants, At, WorkerFrame
<1>9. CASE WorkerCompares
  BY <1>9 DEF WorkerCompares, WorkerFrame
<1>10. CASE WorkerReconnects
  BY <1>10 DEF WorkerReconnects, ReconnectRead, ReconnectSend, Garbage, WorkerFrame
<1>11. CASE PlainManager
  BY <1>11
  DEF PlainManager, WaitElapsed, GateClosed, DialSucceeded, StillEnabled, Publish,
      SelectError, OnDown, Drop, ManagerFrame
<1>12. CASE LinkOnUp
  BY <1>12 DEF LinkOnUp, OnUp, CallbackFrame, ManagerFrame
<1>13. CASE LinkCloses
  BY <1>13
  DEF LinkCloses, DialFailed, DisabledWhileDialing, CloseDropped, Closed, Forget,
      CallbackFrame, ManagerFrame
<1>14. ASSUME NEW c \in Conns, LinkBeginDial(c)
      PROVE  ProcessInv'
  BY <1>14 DEF LinkBeginDial, BeginDial, Unused, Go, CallbackFrame, ManagerFrame
<1>15. ASSUME NEW u \in Users, LinkBegins(u)
      PROVE  ProcessInv'
  BY <1>15 DEF LinkBegins, At, Go, UserFrame
<1>16. ASSUME NEW u \in Users, LinkFails(u)
      PROVE  ProcessInv'
  BY <1>16 DEF LinkFails, At, Go, Forget, UserFrame
<1>17. ASSUME NEW u \in Users, LinkStores(u)
      PROVE  ProcessInv'
  BY <1>17 DEF LinkStores, BeginStore, MayStore, Lock, Wants, At, Go, UserFrame
<1>18. ASSUME NEW u \in Users, LinkStored(u)
      PROVE  ProcessInv'
  BY <1>18 DEF LinkStored, EndStore, Unlock, At, Go, Forget, UserFrame
<1>19. ASSUME NEW u \in Users, UnlinkClears(u)
      PROVE  ProcessInv'
  BY <1>19 DEF UnlinkClears, BeginClear, EndClear, Lock, Unlock, Wants, At, Go, UserFrame
<1>20. ASSUME NEW u \in Users, UserReconnects(u)
      PROVE  ProcessInv'
  BY <1>20 DEF UserReconnects, ReconnectRead, ReconnectSend, Garbage, At, Go, UserFrame
<1>21. ASSUME NEW c \in Conns, DialReads(c)
      PROVE  ProcessInv'
  BY <1>21 DEF DialReads, At, Go, DialFrame
<1>22. ASSUME NEW c \in Conns, DialLoadsToken(c)
      PROVE  ProcessInv'
  BY <1>22 DEF DialLoadsToken, At, Go, DialFrame
<1>23. ASSUME NEW c \in Conns, DialChecksToken(c)
      PROVE  ProcessInv'
  BY <1>23 DEF DialChecksToken, At, Go, MayStore, DialFrame
<1>24. ASSUME NEW c \in Conns, RefreshStores(c)
      PROVE  ProcessInv'
  BY <1>24 DEF RefreshStores, BeginStore, MayStore, Lock, At, Go, DialFrame
<1>25. ASSUME NEW c \in Conns, RefreshStored(c)
      PROVE  ProcessInv'
  BY <1>25 DEF RefreshStored, EndStore, Unlock, At, Go, DialFrame
<1>26. ASSUME NEW c \in Conns, NEW result \in {"open", "failed"}, DialEnds(c, result)
      PROVE  ProcessInv'
  BY <1>26 DEF DialEnds, Dialed, ConnFrame, At, Go, DialFrame
<1>27. ASSUME NEW c \in Conns, LinkBreaks(c)
      PROVE  ProcessInv'
  BY <1>27 DEF LinkBreaks, TransportBreaks, ConnFrame
<1>28. ASSUME NEW c \in Conns, LinkWatch(c)
      PROVE  ProcessInv'
  BY <1>28 DEF LinkWatch, WatchFails, WatchReports, WatchReturns, ConnFrame
<1>29. CASE UNCHANGED allVars
  BY <1>29
<1> QED
  BY <1>1, <1>2, <1>3, <1>4, <1>5, <1>6, <1>7, <1>8, <1>9, <1>10, <1>11, <1>12, <1>13,
     <1>14, <1>15, <1>16, <1>17, <1>18, <1>19, <1>20, <1>21, <1>22, <1>23, <1>24, <1>25,
     <1>26, <1>27, <1>28, <1>29
  DEF LinkNext, WorkerStep, LinkManager, User, Dial

\* Each request goes through its steps in turn.
LEMMA PlacesKept ==
  ASSUME LinkIInv, [LinkNext]_allVars
  PROVE  PlacesInv'
<1> USE ReconnectorAssumption, DiscordLinkAssumption
    DEF LinkIInv, LinkTypeOK, ProcessInv, PlacesInv, UserPlaces, DialPlaces, IInv, TypeOK,
        ManagerInv, ConnInv, Unsettled, HoldsConn, Live, Tokens, Users, allVars, vars,
        linkVars, authVars, historyVars, settingsVars, workerVars, requestVars,
        restOfReconnector, lifecycleVars, published
<1>1. ASSUME NEW s \in Settings, ChangeSettings(s)
      PROVE  PlacesInv'
  BY <1>1 DEF ChangeSettings
<1>2. CASE Notify
  BY <1>2 DEF Notify
<1>3. CASE LoadToken
  BY <1>3 DEF LoadToken
<1>4. CASE ClientStart
  BY <1>4 DEF ClientStart, Start
<1>5. CASE Exit
  BY <1>5 DEF Exit
<1>6. CASE WorkerWakes
  BY <1>6 DEF WorkerWakes, WorkerFrame
<1>7. CASE WorkerReadsValues
  BY <1>7 DEF WorkerReadsValues, WorkerFrame
<1>8. CASE WorkerClears
  BY <1>8 DEF WorkerClears, BeginClear, EndClear, Lock, Unlock, Wants, At, WorkerFrame
<1>9. CASE WorkerCompares
  BY <1>9 DEF WorkerCompares, WorkerFrame
<1>10. CASE WorkerReconnects
  BY <1>10 DEF WorkerReconnects, ReconnectRead, ReconnectSend, Garbage, WorkerFrame
<1>11. CASE PlainManager
  BY <1>11
  DEF PlainManager, WaitElapsed, GateClosed, DialSucceeded, StillEnabled, Publish,
      SelectError, OnDown, Drop, ManagerFrame
<1>12. CASE LinkOnUp
  BY <1>12 DEF LinkOnUp, OnUp, CallbackFrame, ManagerFrame
<1>13. CASE LinkCloses
  BY <1>13
  DEF LinkCloses, DialFailed, DisabledWhileDialing, CloseDropped, Closed, Forget,
      CallbackFrame, ManagerFrame
<1>14. ASSUME NEW c \in Conns, LinkBeginDial(c)
      PROVE  PlacesInv'
  BY <1>14 DEF LinkBeginDial, BeginDial, Unused, Go, CallbackFrame, ManagerFrame
<1>15. ASSUME NEW u \in Users, LinkBegins(u)
      PROVE  PlacesInv'
  BY <1>15 DEF LinkBegins, At, Go, UserFrame
<1>16. ASSUME NEW u \in Users, LinkFails(u)
      PROVE  PlacesInv'
  BY <1>16 DEF LinkFails, At, Go, Forget, UserFrame
<1>17. ASSUME NEW u \in Users, LinkStores(u)
      PROVE  PlacesInv'
  BY <1>17 DEF LinkStores, BeginStore, MayStore, Lock, Wants, At, Go, UserFrame
<1>18. ASSUME NEW u \in Users, LinkStored(u)
      PROVE  PlacesInv'
  BY <1>18 DEF LinkStored, EndStore, Unlock, At, Go, Forget, UserFrame
<1>19. ASSUME NEW u \in Users, UnlinkClears(u)
      PROVE  PlacesInv'
  BY <1>19 DEF UnlinkClears, BeginClear, EndClear, Lock, Unlock, Wants, At, Go, UserFrame
<1>20. ASSUME NEW u \in Users, UserReconnects(u)
      PROVE  PlacesInv'
  BY <1>20 DEF UserReconnects, ReconnectRead, ReconnectSend, Garbage, At, Go, UserFrame
<1>21. ASSUME NEW c \in Conns, DialReads(c)
      PROVE  PlacesInv'
  BY <1>21 DEF DialReads, At, Go, DialFrame
<1>22. ASSUME NEW c \in Conns, DialLoadsToken(c)
      PROVE  PlacesInv'
  BY <1>22 DEF DialLoadsToken, At, Go, DialFrame
<1>23. ASSUME NEW c \in Conns, DialChecksToken(c)
      PROVE  PlacesInv'
  BY <1>23 DEF DialChecksToken, At, Go, MayStore, DialFrame
<1>24. ASSUME NEW c \in Conns, RefreshStores(c)
      PROVE  PlacesInv'
  BY <1>24 DEF RefreshStores, BeginStore, MayStore, Lock, At, Go, DialFrame
<1>25. ASSUME NEW c \in Conns, RefreshStored(c)
      PROVE  PlacesInv'
  BY <1>25 DEF RefreshStored, EndStore, Unlock, At, Go, DialFrame
<1>26. ASSUME NEW c \in Conns, NEW result \in {"open", "failed"}, DialEnds(c, result)
      PROVE  PlacesInv'
  BY <1>26 DEF DialEnds, Dialed, ConnFrame, At, Go, DialFrame
<1>27. ASSUME NEW c \in Conns, LinkBreaks(c)
      PROVE  PlacesInv'
  BY <1>27 DEF LinkBreaks, TransportBreaks, ConnFrame
<1>28. ASSUME NEW c \in Conns, LinkWatch(c)
      PROVE  PlacesInv'
  BY <1>28 DEF LinkWatch, WatchFails, WatchReports, WatchReturns, ConnFrame
<1>29. CASE UNCHANGED allVars
  BY <1>29
<1> QED
  BY <1>1, <1>2, <1>3, <1>4, <1>5, <1>6, <1>7, <1>8, <1>9, <1>10, <1>11, <1>12, <1>13,
     <1>14, <1>15, <1>16, <1>17, <1>18, <1>19, <1>20, <1>21, <1>22, <1>23, <1>24, <1>25,
     <1>26, <1>27, <1>28, <1>29
  DEF LinkNext, WorkerStep, LinkManager, User, Dial

\* authLock is taken and released around each change of the token.
LEMMA HolderKept ==
  ASSUME LinkIInv, [LinkNext]_allVars
  PROVE  HolderInv'
<1> USE ReconnectorAssumption, DiscordLinkAssumption
    DEF LinkIInv, ProcessInv, LinkTypeOK, HolderInv, PlacesInv, UserPlaces, DialPlaces,
        Users, allVars, vars, linkVars, authVars, historyVars, settingsVars, workerVars,
        requestVars, restOfReconnector, lifecycleVars, published
<1>1. ASSUME NEW s \in Settings, ChangeSettings(s)
      PROVE  HolderInv'
  BY <1>1 DEF ChangeSettings
<1>2. CASE Notify
  BY <1>2 DEF Notify
<1>3. CASE LoadToken
  BY <1>3 DEF LoadToken
<1>4. CASE ClientStart
  BY <1>4 DEF ClientStart, Start
<1>5. CASE Exit
  BY <1>5 DEF Exit
<1>6. CASE WorkerWakes
  BY <1>6 DEF WorkerWakes, WorkerFrame
<1>7. CASE WorkerReadsValues
  BY <1>7 DEF WorkerReadsValues, WorkerFrame
<1>8. CASE WorkerClears
  BY <1>8 DEF WorkerClears, BeginClear, EndClear, Lock, Unlock, Wants, At, WorkerFrame
<1>9. CASE WorkerCompares
  BY <1>9 DEF WorkerCompares, WorkerFrame
<1>10. CASE WorkerReconnects
  BY <1>10 DEF WorkerReconnects, ReconnectRead, ReconnectSend, Garbage, WorkerFrame
<1>11. CASE PlainManager
  BY <1>11
  DEF PlainManager, WaitElapsed, GateClosed, DialSucceeded, StillEnabled, Publish,
      SelectError, OnDown, Drop, ManagerFrame
<1>12. CASE LinkOnUp
  BY <1>12 DEF LinkOnUp, OnUp, CallbackFrame, ManagerFrame
<1>13. CASE LinkCloses
  BY <1>13
  DEF LinkCloses, DialFailed, DisabledWhileDialing, CloseDropped, Closed, Forget,
      CallbackFrame, ManagerFrame
<1>14. ASSUME NEW c \in Conns, LinkBeginDial(c)
      PROVE  HolderInv'
  BY <1>14 DEF LinkBeginDial, BeginDial, Unused, Go, CallbackFrame, ManagerFrame
<1>15. ASSUME NEW u \in Users, LinkBegins(u)
      PROVE  HolderInv'
  BY <1>15 DEF LinkBegins, At, Go, UserFrame
<1>16. ASSUME NEW u \in Users, LinkFails(u)
      PROVE  HolderInv'
  BY <1>16 DEF LinkFails, At, Go, Forget, UserFrame
<1>17. ASSUME NEW u \in Users, LinkStores(u)
      PROVE  HolderInv'
  BY <1>17 DEF LinkStores, BeginStore, MayStore, Lock, Wants, At, Go, UserFrame
<1>18. ASSUME NEW u \in Users, LinkStored(u)
      PROVE  HolderInv'
  BY <1>18 DEF LinkStored, EndStore, Unlock, At, Go, Forget, UserFrame
<1>19. ASSUME NEW u \in Users, UnlinkClears(u)
      PROVE  HolderInv'
  BY <1>19 DEF UnlinkClears, BeginClear, EndClear, Lock, Unlock, Wants, At, Go, UserFrame
<1>20. ASSUME NEW u \in Users, UserReconnects(u)
      PROVE  HolderInv'
  BY <1>20 DEF UserReconnects, ReconnectRead, ReconnectSend, Garbage, At, Go, UserFrame
<1>21. ASSUME NEW c \in Conns, DialReads(c)
      PROVE  HolderInv'
  BY <1>21 DEF DialReads, At, Go, DialFrame
<1>22. ASSUME NEW c \in Conns, DialLoadsToken(c)
      PROVE  HolderInv'
  BY <1>22 DEF DialLoadsToken, At, Go, DialFrame
<1>23. ASSUME NEW c \in Conns, DialChecksToken(c)
      PROVE  HolderInv'
  BY <1>23 DEF DialChecksToken, At, Go, MayStore, DialFrame
<1>24. ASSUME NEW c \in Conns, RefreshStores(c)
      PROVE  HolderInv'
  BY <1>24 DEF RefreshStores, BeginStore, MayStore, Lock, At, Go, DialFrame
<1>25. ASSUME NEW c \in Conns, RefreshStored(c)
      PROVE  HolderInv'
  BY <1>25 DEF RefreshStored, EndStore, Unlock, At, Go, DialFrame
<1>26. ASSUME NEW c \in Conns, NEW result \in {"open", "failed"}, DialEnds(c, result)
      PROVE  HolderInv'
  BY <1>26 DEF DialEnds, Dialed, ConnFrame, At, Go, DialFrame
<1>27. ASSUME NEW c \in Conns, LinkBreaks(c)
      PROVE  HolderInv'
  BY <1>27 DEF LinkBreaks, TransportBreaks, ConnFrame
<1>28. ASSUME NEW c \in Conns, LinkWatch(c)
      PROVE  HolderInv'
  BY <1>28 DEF LinkWatch, WatchFails, WatchReports, WatchReturns, ConnFrame
<1>29. CASE UNCHANGED allVars
  BY <1>29
<1> QED
  BY <1>1, <1>2, <1>3, <1>4, <1>5, <1>6, <1>7, <1>8, <1>9, <1>10, <1>11, <1>12, <1>13,
     <1>14, <1>15, <1>16, <1>17, <1>18, <1>19, <1>20, <1>21, <1>22, <1>23, <1>24, <1>25,
     <1>26, <1>27, <1>28, <1>29
  DEF LinkNext, WorkerStep, LinkManager, User, Dial

\* Whatever changes what is wanted makes the other requests out of date.
LEMMA GenerationKept ==
  ASSUME LinkIInv, [LinkNext]_allVars
  PROVE  GenerationInv'
<1> USE ReconnectorAssumption, DiscordLinkAssumption
    DEF LinkIInv, LinkTypeOK, TypeOK, ProcessInv, HolderInv, PlacesInv, UserPlaces,
        DialPlaces, GenerationInv, LinkedAccountIsWanted, Clearing, IInv, ConnInv,
        Unsettled, Users, allVars, vars, linkVars, authVars, historyVars, settingsVars,
        workerVars, requestVars, restOfReconnector, lifecycleVars, published
<1>1. ASSUME NEW s \in Settings, ChangeSettings(s)
      PROVE  GenerationInv'
  BY <1>1 DEF ChangeSettings
<1>2. CASE Notify
  BY <1>2 DEF Notify
<1>3. CASE LoadToken
  BY <1>3 DEF LoadToken
<1>4. CASE ClientStart
  BY <1>4 DEF ClientStart, Start
<1>5. CASE Exit
  BY <1>5 DEF Exit
<1>6. CASE WorkerWakes
  BY <1>6 DEF WorkerWakes, WorkerFrame
<1>7. CASE WorkerReadsValues
  BY <1>7 DEF WorkerReadsValues, WorkerFrame
<1>8. CASE WorkerClears
  BY <1>8 DEF WorkerClears, BeginClear, EndClear, Lock, Unlock, Wants, At, WorkerFrame
<1>9. CASE WorkerCompares
  BY <1>9 DEF WorkerCompares, WorkerFrame
<1>10. CASE WorkerReconnects
  BY <1>10 DEF WorkerReconnects, ReconnectRead, ReconnectSend, Garbage, WorkerFrame
<1>11. CASE PlainManager
  BY <1>11
  DEF PlainManager, WaitElapsed, GateClosed, DialSucceeded, StillEnabled, Publish,
      SelectError, OnDown, Drop, ManagerFrame
<1>12. CASE LinkOnUp
  BY <1>12 DEF LinkOnUp, OnUp, CallbackFrame, ManagerFrame
<1>13. CASE LinkCloses
  BY <1>13
  DEF LinkCloses, DialFailed, DisabledWhileDialing, CloseDropped, Closed, Forget,
      CallbackFrame, ManagerFrame
<1>14. ASSUME NEW c \in Conns, LinkBeginDial(c)
      PROVE  GenerationInv'
  BY <1>14 DEF LinkBeginDial, BeginDial, Unused, Go, CallbackFrame, ManagerFrame
<1>15. ASSUME NEW u \in Users, LinkBegins(u)
      PROVE  GenerationInv'
  BY <1>15 DEF LinkBegins, At, Go, UserFrame
<1>16. ASSUME NEW u \in Users, LinkFails(u)
      PROVE  GenerationInv'
  BY <1>16 DEF LinkFails, At, Go, Forget, UserFrame
<1>17. ASSUME NEW u \in Users, LinkStores(u)
      PROVE  GenerationInv'
  BY <1>17 DEF LinkStores, BeginStore, MayStore, Lock, Wants, At, Go, UserFrame
<1>18. ASSUME NEW u \in Users, LinkStored(u)
      PROVE  GenerationInv'
  BY <1>18 DEF LinkStored, EndStore, Unlock, At, Go, Forget, UserFrame
<1>19. ASSUME NEW u \in Users, UnlinkClears(u)
      PROVE  GenerationInv'
  BY <1>19 DEF UnlinkClears, BeginClear, EndClear, Lock, Unlock, Wants, At, Go, UserFrame
<1>20. ASSUME NEW u \in Users, UserReconnects(u)
      PROVE  GenerationInv'
  BY <1>20 DEF UserReconnects, ReconnectRead, ReconnectSend, Garbage, At, Go, UserFrame
<1>21. ASSUME NEW c \in Conns, DialReads(c)
      PROVE  GenerationInv'
  BY <1>21 DEF DialReads, At, Go, DialFrame
<1>22. ASSUME NEW c \in Conns, DialLoadsToken(c)
      PROVE  GenerationInv'
  BY <1>22 DEF DialLoadsToken, At, Go, DialFrame
<1>23. ASSUME NEW c \in Conns, DialChecksToken(c)
      PROVE  GenerationInv'
  BY <1>23 DEF DialChecksToken, At, Go, MayStore, DialFrame
<1>24. ASSUME NEW c \in Conns, RefreshStores(c)
      PROVE  GenerationInv'
  BY <1>24 DEF RefreshStores, BeginStore, MayStore, Lock, At, Go, DialFrame
<1>25. ASSUME NEW c \in Conns, RefreshStored(c)
      PROVE  GenerationInv'
  BY <1>25 DEF RefreshStored, EndStore, Unlock, At, Go, DialFrame
<1>26. ASSUME NEW c \in Conns, NEW result \in {"open", "failed"}, DialEnds(c, result)
      PROVE  GenerationInv'
  BY <1>26 DEF DialEnds, Dialed, ConnFrame, At, Go, DialFrame
<1>27. ASSUME NEW c \in Conns, LinkBreaks(c)
      PROVE  GenerationInv'
  BY <1>27 DEF LinkBreaks, TransportBreaks, ConnFrame
<1>28. ASSUME NEW c \in Conns, LinkWatch(c)
      PROVE  GenerationInv'
  BY <1>28 DEF LinkWatch, WatchFails, WatchReports, WatchReturns, ConnFrame
<1>29. CASE UNCHANGED allVars
  BY <1>29
<1> QED
  BY <1>1, <1>2, <1>3, <1>4, <1>5, <1>6, <1>7, <1>8, <1>9, <1>10, <1>11, <1>12, <1>13,
     <1>14, <1>15, <1>16, <1>17, <1>18, <1>19, <1>20, <1>21, <1>22, <1>23, <1>24, <1>25,
     <1>26, <1>27, <1>28, <1>29
  DEF LinkNext, WorkerStep, LinkManager, User, Dial

\* The token and the file follow the wanted account.
LEMMA WantedKept ==
  ASSUME LinkIInv, [LinkNext]_allVars
  PROVE  LinkedAccountIsWanted'
<1> USE ReconnectorAssumption, DiscordLinkAssumption
    DEF LinkIInv, LinkTypeOK, HolderInv, PlacesInv, GenerationInv, LinkedAccountIsWanted,
        Clearing, Token, Users, ProcessInv, allVars, vars, linkVars, authVars, historyVars,
        settingsVars, workerVars, requestVars, restOfReconnector, lifecycleVars, published
<1>1. ASSUME NEW s \in Settings, ChangeSettings(s)
      PROVE  LinkedAccountIsWanted'
  BY <1>1 DEF ChangeSettings
<1>2. CASE Notify
  BY <1>2 DEF Notify
<1>3. CASE LoadToken
  BY <1>3 DEF LoadToken
<1>4. CASE ClientStart
  BY <1>4 DEF ClientStart, Start
<1>5. CASE Exit
  BY <1>5 DEF Exit
<1>6. CASE WorkerWakes
  BY <1>6 DEF WorkerWakes, WorkerFrame
<1>7. CASE WorkerReadsValues
  BY <1>7 DEF WorkerReadsValues, WorkerFrame
<1>8. CASE WorkerClears
  BY <1>8 DEF WorkerClears, BeginClear, EndClear, Lock, Unlock, Wants, At, WorkerFrame
<1>9. CASE WorkerCompares
  BY <1>9 DEF WorkerCompares, WorkerFrame
<1>10. CASE WorkerReconnects
  BY <1>10 DEF WorkerReconnects, ReconnectRead, ReconnectSend, Garbage, WorkerFrame
<1>11. CASE PlainManager
  BY <1>11
  DEF PlainManager, WaitElapsed, GateClosed, DialSucceeded, StillEnabled, Publish,
      SelectError, OnDown, Drop, ManagerFrame
<1>12. CASE LinkOnUp
  BY <1>12 DEF LinkOnUp, OnUp, CallbackFrame, ManagerFrame
<1>13. CASE LinkCloses
  BY <1>13
  DEF LinkCloses, DialFailed, DisabledWhileDialing, CloseDropped, Closed, Forget,
      CallbackFrame, ManagerFrame
<1>14. ASSUME NEW c \in Conns, LinkBeginDial(c)
      PROVE  LinkedAccountIsWanted'
  BY <1>14 DEF LinkBeginDial, BeginDial, Unused, Go, CallbackFrame, ManagerFrame
<1>15. ASSUME NEW u \in Users, LinkBegins(u)
      PROVE  LinkedAccountIsWanted'
  BY <1>15 DEF LinkBegins, At, Go, UserFrame
<1>16. ASSUME NEW u \in Users, LinkFails(u)
      PROVE  LinkedAccountIsWanted'
  BY <1>16 DEF LinkFails, At, Go, Forget, UserFrame
<1>17. ASSUME NEW u \in Users, LinkStores(u)
      PROVE  LinkedAccountIsWanted'
  BY <1>17 DEF LinkStores, BeginStore, MayStore, Lock, Wants, At, Go, UserFrame
<1>18. ASSUME NEW u \in Users, LinkStored(u)
      PROVE  LinkedAccountIsWanted'
  BY <1>18 DEF LinkStored, EndStore, Unlock, At, Go, Forget, UserFrame
<1>19. ASSUME NEW u \in Users, UnlinkClears(u)
      PROVE  LinkedAccountIsWanted'
  BY <1>19 DEF UnlinkClears, BeginClear, EndClear, Lock, Unlock, Wants, At, Go, UserFrame
<1>20. ASSUME NEW u \in Users, UserReconnects(u)
      PROVE  LinkedAccountIsWanted'
  BY <1>20 DEF UserReconnects, ReconnectRead, ReconnectSend, Garbage, At, Go, UserFrame
<1>21. ASSUME NEW c \in Conns, DialReads(c)
      PROVE  LinkedAccountIsWanted'
  BY <1>21 DEF DialReads, At, Go, DialFrame
<1>22. ASSUME NEW c \in Conns, DialLoadsToken(c)
      PROVE  LinkedAccountIsWanted'
  BY <1>22 DEF DialLoadsToken, At, Go, DialFrame
<1>23. ASSUME NEW c \in Conns, DialChecksToken(c)
      PROVE  LinkedAccountIsWanted'
  BY <1>23 DEF DialChecksToken, At, Go, MayStore, DialFrame
<1>24. ASSUME NEW c \in Conns, RefreshStores(c)
      PROVE  LinkedAccountIsWanted'
  BY <1>24 DEF RefreshStores, BeginStore, MayStore, Lock, At, Go, DialFrame
<1>25. ASSUME NEW c \in Conns, RefreshStored(c)
      PROVE  LinkedAccountIsWanted'
  BY <1>25 DEF RefreshStored, EndStore, Unlock, At, Go, DialFrame
<1>26. ASSUME NEW c \in Conns, NEW result \in {"open", "failed"}, DialEnds(c, result)
      PROVE  LinkedAccountIsWanted'
  BY <1>26 DEF DialEnds, Dialed, ConnFrame, At, Go, DialFrame
<1>27. ASSUME NEW c \in Conns, LinkBreaks(c)
      PROVE  LinkedAccountIsWanted'
  BY <1>27 DEF LinkBreaks, TransportBreaks, ConnFrame
<1>28. ASSUME NEW c \in Conns, LinkWatch(c)
      PROVE  LinkedAccountIsWanted'
  BY <1>28 DEF LinkWatch, WatchFails, WatchReports, WatchReturns, ConnFrame
<1>29. CASE UNCHANGED allVars
  BY <1>29
<1> QED
  BY <1>1, <1>2, <1>3, <1>4, <1>5, <1>6, <1>7, <1>8, <1>9, <1>10, <1>11, <1>12, <1>13,
     <1>14, <1>15, <1>16, <1>17, <1>18, <1>19, <1>20, <1>21, <1>22, <1>23, <1>24, <1>25,
     <1>26, <1>27, <1>28, <1>29
  DEF LinkNext, WorkerStep, LinkManager, User, Dial

\* The obligation to renew a connection with other settings is handed on.
LEMMA NoticedKept ==
  ASSUME LinkIInv, [LinkNext]_allVars
  PROVE  SettingsAreNoticed'
<1> USE ReconnectorAssumption, DiscordLinkAssumption
    DEF LinkIInv, LinkTypeOK, TypeOK, ProcessInv, PlacesInv, SettingsAreNoticed, IInv,
        LifecycleInv, ManagerInv, HoldsConn, Publishes, Live, Users, allVars, vars,
        linkVars, authVars, historyVars, settingsVars, workerVars, requestVars,
        restOfReconnector, lifecycleVars, published
<1>1. ASSUME NEW s \in Settings, ChangeSettings(s)
      PROVE  SettingsAreNoticed'
  BY <1>1 DEF ChangeSettings
<1>2. CASE Notify
  BY <1>2 DEF Notify
<1>3. CASE LoadToken
  BY <1>3 DEF LoadToken
<1>4. CASE ClientStart
  BY <1>4 DEF ClientStart, Start
<1>5. CASE Exit
  BY <1>5 DEF Exit
<1>6. CASE WorkerWakes
  BY <1>6 DEF WorkerWakes, WorkerFrame
<1>7. CASE WorkerReadsValues
  BY <1>7 DEF WorkerReadsValues, WorkerFrame
<1>8. CASE WorkerClears
  BY <1>8 DEF WorkerClears, BeginClear, EndClear, Lock, Unlock, Wants, At, WorkerFrame
<1>9. CASE WorkerCompares
  BY <1>9 DEF WorkerCompares, WorkerFrame
<1>10. CASE WorkerReconnects
  BY <1>10 DEF WorkerReconnects, ReconnectRead, ReconnectSend, Garbage, WorkerFrame
<1>11. CASE PlainManager
  BY <1>11
  DEF PlainManager, WaitElapsed, GateClosed, DialSucceeded, StillEnabled, Publish,
      SelectError, OnDown, Drop, ManagerFrame
<1>12. CASE LinkOnUp
  BY <1>12 DEF LinkOnUp, OnUp, CallbackFrame, ManagerFrame
<1>13. CASE LinkCloses
  BY <1>13
  DEF LinkCloses, DialFailed, DisabledWhileDialing, CloseDropped, Closed, Forget,
      CallbackFrame, ManagerFrame
<1>14. ASSUME NEW c \in Conns, LinkBeginDial(c)
      PROVE  SettingsAreNoticed'
  BY <1>14 DEF LinkBeginDial, BeginDial, Unused, Go, CallbackFrame, ManagerFrame
<1>15. ASSUME NEW u \in Users, LinkBegins(u)
      PROVE  SettingsAreNoticed'
  BY <1>15 DEF LinkBegins, At, Go, UserFrame
<1>16. ASSUME NEW u \in Users, LinkFails(u)
      PROVE  SettingsAreNoticed'
  BY <1>16 DEF LinkFails, At, Go, Forget, UserFrame
<1>17. ASSUME NEW u \in Users, LinkStores(u)
      PROVE  SettingsAreNoticed'
  BY <1>17 DEF LinkStores, BeginStore, MayStore, Lock, Wants, At, Go, UserFrame
<1>18. ASSUME NEW u \in Users, LinkStored(u)
      PROVE  SettingsAreNoticed'
  BY <1>18 DEF LinkStored, EndStore, Unlock, At, Go, Forget, UserFrame
<1>19. ASSUME NEW u \in Users, UnlinkClears(u)
      PROVE  SettingsAreNoticed'
  BY <1>19 DEF UnlinkClears, BeginClear, EndClear, Lock, Unlock, Wants, At, Go, UserFrame
<1>20. ASSUME NEW u \in Users, UserReconnects(u)
      PROVE  SettingsAreNoticed'
  BY <1>20 DEF UserReconnects, ReconnectRead, ReconnectSend, Garbage, At, Go, UserFrame
<1>21. ASSUME NEW c \in Conns, DialReads(c)
      PROVE  SettingsAreNoticed'
  BY <1>21 DEF DialReads, At, Go, DialFrame
<1>22. ASSUME NEW c \in Conns, DialLoadsToken(c)
      PROVE  SettingsAreNoticed'
  BY <1>22 DEF DialLoadsToken, At, Go, DialFrame
<1>23. ASSUME NEW c \in Conns, DialChecksToken(c)
      PROVE  SettingsAreNoticed'
  BY <1>23 DEF DialChecksToken, At, Go, MayStore, DialFrame
<1>24. ASSUME NEW c \in Conns, RefreshStores(c)
      PROVE  SettingsAreNoticed'
  BY <1>24 DEF RefreshStores, BeginStore, MayStore, Lock, At, Go, DialFrame
<1>25. ASSUME NEW c \in Conns, RefreshStored(c)
      PROVE  SettingsAreNoticed'
  BY <1>25 DEF RefreshStored, EndStore, Unlock, At, Go, DialFrame
<1>26. ASSUME NEW c \in Conns, NEW result \in {"open", "failed"}, DialEnds(c, result)
      PROVE  SettingsAreNoticed'
  BY <1>26 DEF DialEnds, Dialed, ConnFrame, At, Go, DialFrame
<1>27. ASSUME NEW c \in Conns, LinkBreaks(c)
      PROVE  SettingsAreNoticed'
  BY <1>27 DEF LinkBreaks, TransportBreaks, ConnFrame
<1>28. ASSUME NEW c \in Conns, LinkWatch(c)
      PROVE  SettingsAreNoticed'
  BY <1>28 DEF LinkWatch, WatchFails, WatchReports, WatchReturns, ConnFrame
<1>29. CASE UNCHANGED allVars
  BY <1>29
<1> QED
  BY <1>1, <1>2, <1>3, <1>4, <1>5, <1>6, <1>7, <1>8, <1>9, <1>10, <1>11, <1>12, <1>13,
     <1>14, <1>15, <1>16, <1>17, <1>18, <1>19, <1>20, <1>21, <1>22, <1>23, <1>24, <1>25,
     <1>26, <1>27, <1>28, <1>29
  DEF LinkNext, WorkerStep, LinkManager, User, Dial

\* The invariant holds before the manager is started.
LEMMA LinkInitEstablishes == LinkInit => LinkIInv
<1> SUFFICES ASSUME LinkInit PROVE LinkIInv
  OBVIOUS
<1> USE ReconnectorAssumption, DiscordLinkAssumption DEF LinkInit
<1>1. IInv
  BY InitEstablishes
<1>2. LinkTypeOK
  <2>1. /\ request \in [Users \cup Conns -> {"idle"}]
        /\ connCfg \in [Users \cup Conns -> Settings \cup {None}]
    OBVIOUS
  <2> QED
    BY <1>1, <2>1 DEF IInv, LinkTypeOK
<1>3. ProcessInv /\ PlacesInv /\ HolderInv
  BY DEF Init, ProcessInv, PlacesInv, HolderInv, UserPlaces, Users
<1>4. GenerationInv /\ LinkedAccountIsWanted /\ SettingsAreNoticed
  BY DEF Init, GenerationInv, Clearing, LinkedAccountIsWanted, SettingsAreNoticed
<1> QED
  BY <1>1, <1>2, <1>3, <1>4 DEF LinkIInv

\* Every step of the manager, of the worker and of the authorisation keeps
\* it.
LEMMA LinkNextKeeps == LinkIInv /\ [LinkNext]_allVars => LinkIInv'
<1> SUFFICES ASSUME LinkIInv, [LinkNext]_allVars PROVE LinkIInv'
  OBVIOUS
<1>1. IInv'
  <2>1. enabled \in BOOLEAN
    BY DEF LinkIInv, IInv, TypeOK
  <2>2. Exit => Init'
    BY DEF Exit, Init
  <2> QED
    BY <2>1, <2>2, StepsOfReconnector, NextKeeps, RestartEstablishes DEF LinkIInv
<1>2. LinkTypeOK'
  BY <1>1, LinkTypeKept DEF IInv
<1> QED
  BY <1>1, <1>2, ProcessKept, PlacesKept, HolderKept, GenerationKept, WantedKept,
     NoticedKept
  DEF LinkIInv

\* The inductive invariant of the client holds in every reachable state.
THEOREM LinkInvariance == LinkSpec => []LinkIInv
BY LinkInitEstablishes, LinkNextKeeps, PTL DEF LinkSpec

\* No answer on its way undoes a newer Link, or an Unlink that has removed the
\* file: memory and disk hold the account the user linked last, through every
\* refresh and every restart.  An Unlink that was cut short before it removed
\* the file does not count.
THEOREM OldRequestsUndoNothing == LinkSpec => []LinkInv
<1>1. LinkIInv => LinkInv
  BY DEF LinkIInv, LinkInv
<1> QED
  BY <1>1, LinkInvariance, PTL

\* Settings that change at any point of a dial are noticed.
THEOREM NoSettingIsMissed == LinkSpec => []SettingsAreNoticed
<1>1. LinkIInv => SettingsAreNoticed
  BY DEF LinkIInv
<1> QED
  BY <1>1, LinkInvariance, PTL

\* Tokens that gate the dials, calls of Reconnect from the user and the worker,
\* and ends of the program at any point leave what the reconnect package
\* promises as it is.
THEOREM PromisesSurviveTokens ==
  LinkSpec => [](/\ OneLiveConnection /\ ClosedOnce /\ PublishedIsLive
                 /\ StopLeavesNothing /\ OnlyOwnFailure /\ BackoffStartsOver)
<1>1. IInv => OneLiveConnection /\ ClosedOnce /\ PublishedIsLive
  <2>1. IInv => OneLiveConnection /\ ClosedOnce
    BY DEF IInv, ConnInv, OneLiveConnection, ClosedOnce, Unsettled, Live
  <2>2. IInv => PublishedIsLive
    BY ReconnectorAssumption DEF IInv, ManagerInv, HoldsConn, Publishes, PublishedIsLive
  <2> QED
    BY <2>1, <2>2
<1>2. IInv => StopLeavesNothing
  BY ReconnectorAssumption
  DEF IInv, LifecycleInv, ManagerInv, ConnInv, WatchInv, HoldsConn, Publishes,
      Unsettled, Live, StopLeavesNothing
<1>3. IInv => OnlyOwnFailure /\ BackoffStartsOver
  BY DEF IInv, TypeOK, WatchInv, ManagerInv, OnlyOwnFailure, BackoffStartsOver
<1>4. LinkIInv => IInv
  BY DEF LinkIInv
<1> QED
  BY <1>1, <1>2, <1>3, <1>4, LinkInvariance, PTL

=============================================================================
